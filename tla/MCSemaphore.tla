----------------------------- MODULE MCSemaphore -----------------------------
(* Model-checking instance of Semaphore.  Its run checks liveness, so no      *)
(* symmetry set is declared.                                                  *)
EXTENDS Semaphore
==============================================================================
