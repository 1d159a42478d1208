-------------------------------- MODULE MCRcu --------------------------------
(* Model-checking instances of Rcu. *)
EXTENDS Rcu, TLC

Symmetry == Permutations(CPU) \cup Permutations(Cb)
==============================================================================
