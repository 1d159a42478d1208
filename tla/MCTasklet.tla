------------------------------ MODULE MCTasklet ------------------------------
(* Model-checking instances of Tasklet: all tasklets on TASKLET_SOFTIRQ. *)
EXTENDS Tasklet

OneVec == {5}
AllLow == [t \in Tasklet |-> 5]

\* AllLow makes no difference between tasklets.
Symmetry == Permutations(CPU) \cup Permutations(Tasklet)
==============================================================================
