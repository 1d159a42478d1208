------------------------------- MODULE MCTimer -------------------------------
(* Model-checking instances of Timer. *)
EXTENDS Timer, TLC

==============================================================================
