----------------------------- MODULE MCWorkqueue -----------------------------
(* Model-checking instances of Workqueue. *)
EXTENDS Workqueue

OneCPU == {0}
TwoCPUs == {0, 1}
==============================================================================
