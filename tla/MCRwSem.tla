------------------------------- MODULE MCRwSem -------------------------------
(* Model-checking instances of RwSem. *)
EXTENDS RwSem

Symmetry == Permutations(Task)
==============================================================================
