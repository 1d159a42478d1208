-------------------------------- MODULE RwSem --------------------------------
(***************************************************************************)
(* The i386 read/write semaphore: the inline operations of                 *)
(* include/asm-i386/rwsem.h and the contended paths of lib/rwsem.c.        *)
(*                                                                         *)
(* Every access to sem->count is one locked instruction and one step here. *)
(* sem->wait_lock is held from the step that takes it to the step that     *)
(* leaves __rwsem_do_wake, so fast paths of other tasks interleave with    *)
(* every access to count inside the locked section.                        *)
(***************************************************************************)
EXTENDS Integers, Sequences, FiniteSets, SequencesExt

CONSTANT Task

\* The two halves of count have room for fewer than 2^15 tasks.
ASSUME TaskAssumption == IsFiniteSet(Task) /\ Cardinality(Task) < 32768

VARIABLES count,      \* sem->count
          wait_list,  \* the queued waiters, front first
          granted,    \* the waiters whose ->task was set to NULL
          loop,       \* readers __rwsem_do_wake has still to wake
          kind,       \* "r" or "w": waiter->flags, or the lock asked for
          ret,        \* where a task goes when it leaves __rwsem_do_wake
          pc

vars == <<count, wait_list, granted, loop, kind, ret, pc>>

RWSEM_ACTIVE_BIAS == 1
RWSEM_WAITING_BIAS == -65536
RWSEM_ACTIVE_WRITE_BIAS == RWSEM_WAITING_BIAS + RWSEM_ACTIVE_BIAS

\* count & RWSEM_ACTIVE_MASK
Active(c) == c % 65536

\* "idle"; "read", "write": the task owns the lock; "fail": the fast path did
\* not get the lock and calls rwsem_down_*_failed; "wait": queued, or granted
\* and not yet aware of it; "wake", "dwake": about to take wait_lock in
\* rwsem_wake, rwsem_downgrade_wake; the others are inside __rwsem_do_wake,
\* with wait_lock held: "try" before the 0 -> 1 attempt, "undo" after a failed
\* one, "scan" before and "grant" during the wakeup of readers.
InDoWake == {"try", "undo", "scan", "grant"}
PC == {"idle", "read", "write", "fail", "wait", "wake", "dwake"} \cup InDoWake

LockFree == \A t \in Task : pc[t] \notin InDoWake

Queued == Range(wait_list)

Init ==
    /\ count = 0
    /\ wait_list = <<>>
    /\ granted = {}
    /\ loop = 0
    /\ kind = [t \in Task |-> "r"]
    /\ ret = [t \in Task |-> "idle"]
    /\ pc = [t \in Task |-> "idle"]

Goto(t, p) == pc' = [pc EXCEPT ![t] = p]

-----------------------------------------------------------------------------
(* Fast paths *)

\* __down_read: "incl; js".
DownRead(t) ==
    /\ pc[t] = "idle"
    /\ count' = count + RWSEM_ACTIVE_BIAS
    /\ kind' = [kind EXCEPT ![t] = "r"]
    /\ Goto(t, IF count' < 0 THEN "fail" ELSE "read")
    /\ UNCHANGED <<wait_list, granted, loop, ret>>

\* __down_read_trylock when it succeeds; a failure changes nothing.
DownReadTrylock(t) ==
    /\ pc[t] = "idle" /\ count >= 0
    /\ count' = count + RWSEM_ACTIVE_BIAS
    /\ kind' = [kind EXCEPT ![t] = "r"]
    /\ Goto(t, "read")
    /\ UNCHANGED <<wait_list, granted, loop, ret>>

\* __down_write: "xadd; testl; jnz" on the old value.
DownWrite(t) ==
    /\ pc[t] = "idle"
    /\ count' = count + RWSEM_ACTIVE_WRITE_BIAS
    /\ kind' = [kind EXCEPT ![t] = "w"]
    /\ Goto(t, IF count # 0 THEN "fail" ELSE "write")
    /\ UNCHANGED <<wait_list, granted, loop, ret>>

\* __down_write_trylock when it succeeds: the cmpxchg found 0.
DownWriteTrylock(t) ==
    /\ pc[t] = "idle" /\ count = 0
    /\ count' = RWSEM_ACTIVE_WRITE_BIAS
    /\ kind' = [kind EXCEPT ![t] = "w"]
    /\ Goto(t, "write")
    /\ UNCHANGED <<wait_list, granted, loop, ret>>

\* __up_read: "xadd; js", then "decw; jnz" on the low half of the old value.
UpRead(t) ==
    /\ pc[t] = "read"
    /\ count' = count - RWSEM_ACTIVE_BIAS
    /\ Goto(t, IF count' < 0 /\ Active(count) = 1 THEN "wake" ELSE "idle")
    /\ UNCHANGED <<wait_list, granted, loop, kind, ret>>

\* __up_write: "xaddl; jnz", then "decw; jnz" on the low half of the old value.
UpWrite(t) ==
    /\ pc[t] = "write"
    /\ count' = count - RWSEM_ACTIVE_WRITE_BIAS
    /\ Goto(t, IF count' # 0 /\ Active(count) = 1 THEN "wake" ELSE "idle")
    /\ UNCHANGED <<wait_list, granted, loop, kind, ret>>

\* __downgrade_write: "addl; js".
DowngradeWrite(t) ==
    /\ pc[t] = "write"
    /\ count' = count - RWSEM_WAITING_BIAS
    /\ kind' = [kind EXCEPT ![t] = "r"]
    /\ Goto(t, IF count' < 0 THEN "dwake" ELSE "read")
    /\ UNCHANGED <<wait_list, granted, loop, ret>>

-----------------------------------------------------------------------------
(* Contended paths *)

\* rwsem_down_read_failed, rwsem_down_write_failed: the correction of the fast
\* path's change, so that a queued task counts as RWSEM_WAITING_BIAS.
Adjustment(t) == IF kind[t] = "r" THEN RWSEM_WAITING_BIAS - RWSEM_ACTIVE_BIAS
                                  ELSE -RWSEM_ACTIVE_BIAS

\* Fault variant: the front is woken only if the task is alone in the queue.
DownFailed_WakesSelf(t) ==
    /\ pc[t] = "fail" /\ LockFree
    /\ wait_list' = Append(wait_list, t)
    /\ count' = count + Adjustment(t)
    /\ Goto(t, IF Active(count') = 0 /\ wait_list = <<>> THEN "try" ELSE "wait")
    /\ ret' = [ret EXCEPT ![t] = "wait"]
    /\ UNCHANGED <<granted, loop, kind>>

\* Fault variant: the waiter is added at the front of the list.
DownFailed_AtFront(t) ==
    /\ pc[t] = "fail" /\ LockFree
    /\ wait_list' = <<t>> \o wait_list
    /\ count' = count + Adjustment(t)
    /\ Goto(t, IF Active(count') = 0 THEN "try" ELSE "wait")
    /\ ret' = [ret EXCEPT ![t] = "wait"]
    /\ UNCHANGED <<granted, loop, kind>>

\* rwsem_down_failed_common up to the wait loop: the task queues itself and
\* wakes the front of the queue when nobody is active.
DownFailed(t) ==
    /\ pc[t] = "fail" /\ LockFree
    /\ wait_list' = Append(wait_list, t)
    /\ count' = count + Adjustment(t)
    /\ Goto(t, IF Active(count') = 0 THEN "try" ELSE "wait")
    /\ ret' = [ret EXCEPT ![t] = "wait"]
    /\ UNCHANGED <<granted, loop, kind>>

\* The wait loop: the task finds its ->task cleared and owns the lock.
Granted(t) ==
    /\ pc[t] = "wait" /\ t \in granted
    /\ granted' = granted \ {t}
    /\ Goto(t, IF kind[t] = "r" THEN "read" ELSE "write")
    /\ UNCHANGED <<count, wait_list, loop, kind, ret>>

\* rwsem_wake
RwsemWake(t) ==
    /\ pc[t] = "wake" /\ LockFree
    /\ Goto(t, IF wait_list = <<>> THEN "idle" ELSE "try")
    /\ ret' = [ret EXCEPT ![t] = "idle"]
    /\ UNCHANGED <<count, wait_list, granted, loop, kind>>

\* Fault variant: the writer at the front is granted the lock without looking
\* at the active part of count.
TryWake_AnyActive(t) ==
    /\ pc[t] = "try"
    /\ count' = count + RWSEM_ACTIVE_BIAS
    /\ UNCHANGED <<loop, kind, ret>>
    /\ \/ /\ kind[Head(wait_list)] = "w"
          /\ granted' = granted \cup {Head(wait_list)}
          /\ wait_list' = Tail(wait_list)
          /\ Goto(t, ret[t])
       \/ /\ kind[Head(wait_list)] = "r"
          /\ Goto(t, "scan")
          /\ UNCHANGED <<wait_list, granted>>

\* try_again: the attempt to move the active part from 0 to 1; a writer at the
\* front is dequeued and owns the lock, which keeps that increment.
TryWake(t) ==
    /\ pc[t] = "try"
    /\ count' = count + RWSEM_ACTIVE_BIAS
    /\ UNCHANGED <<loop, kind, ret>>
    /\ \/ /\ Active(count) # 0
          /\ Goto(t, "undo")
          /\ UNCHANGED <<wait_list, granted>>
       \/ /\ Active(count) = 0 /\ kind[Head(wait_list)] = "w"
          /\ granted' = granted \cup {Head(wait_list)}
          /\ wait_list' = Tail(wait_list)
          /\ Goto(t, ret[t])
       \/ /\ Active(count) = 0 /\ kind[Head(wait_list)] = "r"
          /\ Goto(t, "scan")
          /\ UNCHANGED <<wait_list, granted>>

\* undo: the test is on the whole of count, not on its active part.
UndoWake(t) ==
    /\ pc[t] = "undo"
    /\ count' = count - RWSEM_ACTIVE_BIAS
    /\ Goto(t, IF count' # 0 THEN ret[t] ELSE "try")
    /\ UNCHANGED <<wait_list, granted, loop, kind, ret>>

\* Fault variant: one waiter too many is counted as a reader.
FrontReaders_OneMore(q) ==
    Cardinality({i \in DOMAIN q : \A j \in 1..i : kind[q[j]] = "r"}) + 1

\* Fault variant: the scan does not stop at the first writer.
FrontReaders_All(q) == Len(q)

\* The readers at the front of the queue.
FrontReaders(q) ==
    Cardinality({i \in DOMAIN q : \A j \in 1..i : kind[q[j]] = "r"})

\* Fault variant: the increment made by try_again is counted twice.
ReadersOnly_Twice(t, done) ==
    LET n == FrontReaders(wait_list)
    IN  /\ count' = count + n * (RWSEM_ACTIVE_BIAS - RWSEM_WAITING_BIAS)
        /\ loop' = n
        /\ Goto(t, "grant")

\* readers_only: all of the front readers are made active in one addition,
\* before the first of them is woken.
ReadersOnly(t, done) ==
    LET n == FrontReaders(wait_list)
    IN  /\ count' = count + n * (RWSEM_ACTIVE_BIAS - RWSEM_WAITING_BIAS) - done
        /\ loop' = n
        /\ Goto(t, "grant")

ScanReaders(t) ==
    /\ pc[t] = "scan"
    /\ ReadersOnly(t, RWSEM_ACTIVE_BIAS)
    /\ UNCHANGED <<wait_list, granted, kind, ret>>

\* Fault variant: the list is not moved past the last woken reader.
GrantReader_StaysLinked(t) ==
    /\ pc[t] = "grant"
    /\ granted' = granted \cup {Head(wait_list)}
    /\ wait_list' = IF loop = 1 THEN wait_list ELSE Tail(wait_list)
    /\ loop' = loop - 1
    /\ Goto(t, IF loop = 1 THEN ret[t] ELSE "grant")
    /\ UNCHANGED <<count, kind, ret>>

\* One turn of the wakeup loop; the list head moves past the woken reader.
GrantReader(t) ==
    /\ pc[t] = "grant"
    /\ granted' = granted \cup {Head(wait_list)}
    /\ wait_list' = Tail(wait_list)
    /\ loop' = loop - 1
    /\ Goto(t, IF loop = 1 THEN ret[t] ELSE "grant")
    /\ UNCHANGED <<count, kind, ret>>

\* rwsem_downgrade_wake: only readers at the front are woken, and no increment
\* was made for them.
DowngradeWake(t) ==
    /\ pc[t] = "dwake" /\ LockFree
    /\ ret' = [ret EXCEPT ![t] = "read"]
    /\ UNCHANGED <<wait_list, granted, kind>>
    /\ \/ /\ FrontReaders(wait_list) = 0
          /\ Goto(t, "read")
          /\ UNCHANGED <<count, loop>>
       \/ /\ FrontReaders(wait_list) > 0
          /\ ReadersOnly(t, 0)

-----------------------------------------------------------------------------

Request(t) == DownRead(t) \/ DownReadTrylock(t) \/ DownWrite(t) \/ DownWriteTrylock(t)

\* Steps that take wait_lock.
Locking(t) == DownFailed(t) \/ RwsemWake(t) \/ DowngradeWake(t)

\* Steps a task takes by itself, sooner or later, once it uses the semaphore.
Running(t) ==
    \/ UpRead(t) \/ UpWrite(t) \/ Granted(t)
    \/ TryWake(t) \/ UndoWake(t) \/ ScanReaders(t) \/ GrantReader(t)

Next == \E t \in Task : Request(t) \/ DowngradeWrite(t) \/ Locking(t) \/ Running(t)

Spec == Init /\ [][Next]_vars

\* A task does not stop inside the semaphore's code, releases what it owns, and
\* a task that spins on wait_lock gets it sooner or later.
FairSpec ==
    /\ Spec
    /\ \A t \in Task : WF_vars(Running(t)) /\ SF_vars(Locking(t))

-----------------------------------------------------------------------------
(* Properties *)

TypeOK ==
    /\ count \in Int
    /\ wait_list \in Seq(Task)
    /\ granted \subseteq Task
    /\ loop \in 0..Len(wait_list)
    /\ kind \in [Task -> {"r", "w"}]
    /\ ret \in [Task -> {"idle", "wait", "read"}]
    /\ pc \in [Task -> PC]

Granting == {t \in Task : pc[t] = "grant"}

\* Owners, from the moment the lock is theirs, aware of it or not.
Readers == {t \in Task :
              \/ pc[t] \in {"read", "dwake"}
              \/ pc[t] \in InDoWake /\ ret[t] = "read"
              \/ t \in granted /\ kind[t] = "r"}
Writers == {t \in Task : pc[t] = "write" \/ (t \in granted /\ kind[t] = "w")}

\* Tasks whose fast path changed count and that have not corrected it.
Failing(k) == {t \in Task : pc[t] = "fail" /\ kind[t] = k}

\* Tasks whose attempt at 0 -> 1 has still to be undone or used.
Trying == {t \in Task : pc[t] \in {"undo", "scan"}}

\* The meaning of count: an active task counts 1, a task that wants or owns the
\* write lock and every queued task count RWSEM_WAITING_BIAS, and the readers
\* the waking task has still to wake are active already.
Accounting ==
    count = Cardinality(Readers) + Cardinality(Failing("r")) + Cardinality(Trying)
            + loop
            + RWSEM_ACTIVE_WRITE_BIAS * (Cardinality(Writers) + Cardinality(Failing("w")))
            + RWSEM_WAITING_BIAS * (Len(wait_list) - loop)

\* A writer owns the lock alone, across fast paths, grants and downgrades.
Exclusion ==
    Writers # {} => Readers = {} /\ Cardinality(Writers) = 1 /\ loop = 0

\* A waiter's list entry lives in its stack frame: a task is in the list at most
\* once, and only while it is blocked in rwsem_down_failed_common (or wakes
\* others from there) and its ->task is not yet cleared; the readers about to
\* be woken are at the front.
QueueAlive ==
    /\ Cardinality(Queued) = Len(wait_list)
    /\ Queued \cap granted = {}
    /\ \A t \in Queued \cup granted :
          pc[t] = "wait" \/ (pc[t] \in InDoWake /\ ret[t] = "wait")
    /\ \A i \in 1..loop : kind[wait_list[i]] = "r"

\* The semaphore behaves as the abstract read/write lock.
Abstract == INSTANCE RwLock WITH readers <- Readers, writers <- Writers
ImplementsRwLock == Abstract!LSpec

\* A non-empty queue with nobody active has somebody on the way to wake its
\* front: "if there are no active locks, wake the front queued process(es) up",
\* "undo the change to count, but check for a transition 1->0".
Attended ==
    wait_list # <<>> =>
        \/ Readers \cup Writers # {}
        \/ \E t \in Task : pc[t] \in {"fail", "wake"} \cup InDoWake

\* Only the undo of __rwsem_do_wake can leave a queue unattended, when the last
\* active task has gone since the attempt at 0 -> 1: it looks for a count of zero,
\* which with waiters queued is never seen.  No release, grant, downgrade or
\* arrival does, whatever it overlaps.
OnlyUndoStrands ==
    [][Attended /\ ~Attended' => \E t \in Task : UndoWake(t)]_vars

\* Neither readers nor writers starve: where no queue is left unattended, every
\* waiter gets the lock, since arrivals queue behind it and every release that
\* leaves nobody active wakes the front.
ServedUnlessStranded ==
    []Attended => \A t \in Task : (pc[t] = "wait") ~> (pc[t] \in {"read", "write"})
==============================================================================
