------------------------------- MODULE RwLock -------------------------------
(***************************************************************************)
(* What a read/write semaphore promises its callers: any number of readers *)
(* or one writer, and a writer may turn into a reader without letting      *)
(* another writer in between.                                              *)
(***************************************************************************)
CONSTANT Task

VARIABLES readers,   \* the tasks that own a read lock
          writers    \* the tasks that own the write lock

lvars == <<readers, writers>>

LInit == readers = {} /\ writers = {}

AcquireRead(t) ==
    /\ t \notin readers /\ writers = {}
    /\ readers' = readers \cup {t}
    /\ UNCHANGED writers

AcquireWrite(t) ==
    /\ readers = {} /\ writers = {}
    /\ writers' = {t}
    /\ UNCHANGED readers

Release(t) ==
    /\ t \in readers \cup writers
    /\ readers' = readers \ {t}
    /\ writers' = writers \ {t}

Downgrade(t) ==
    /\ t \in writers
    /\ readers' = readers \cup {t}
    /\ writers' = writers \ {t}

LNext == \E t \in Task :
            AcquireRead(t) \/ AcquireWrite(t) \/ Release(t) \/ Downgrade(t)

LSpec == LInit /\ [][LNext]_lvars
==============================================================================
