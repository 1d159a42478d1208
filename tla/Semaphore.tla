------------------------------ MODULE Semaphore ------------------------------
(***************************************************************************)
(* The i386 counting semaphore: the inline fast paths of                   *)
(* include/asm-i386/semaphore.h and the contended paths of                 *)
(* arch/i386/kernel/semaphore.c.                                           *)
(*                                                                         *)
(* "count" is changed without any lock by the fast paths (one locked       *)
(* instruction each: decl, incl) and by the contended paths.  "sleepers",  *)
(* the wait queue and the decision to sleep are protected by the spinlock  *)
(* of the wait queue.  A section under that spinlock makes exactly one     *)
(* access to "count", so it is one step here, placed at that access; the   *)
(* steps of two tasks otherwise interleave freely.                         *)
(***************************************************************************)
EXTENDS Integers, Sequences, FiniteSets, SequencesExt

CONSTANTS Task,      \* the tasks that use the semaphore
          N          \* the value given to sema_init

ASSUME TaskAssumption == IsFiniteSet(Task)
ASSUME NAssumption == N \in Nat

VARIABLES count,     \* sem->count
          sleepers,  \* sem->sleepers
          wait,      \* the exclusive waiters queued on sem->wait, in order
          tstate,    \* the scheduler state of each task
          sig,       \* signal_pending of each task
          mode,      \* which down the task called: "down", "int" or "try"
          pc         \* where the task is

vars == <<count, sleepers, wait, tstate, sig, mode, pc>>

\* "idle": outside; "slow": the decl left count negative, the contended path
\* is about to take the spinlock; "sleep": queued, in schedule(); "hold": the
\* down succeeded; "wake": up() found count <= 0 and is about to call __up().
PC == {"idle", "slow", "sleep", "hold", "wake"}

Modes == {"down", "int", "try"}

Holders == {t \in Task : pc[t] = "hold"}

\* Tasks whose decrement of count is not yet balanced by a contended section.
Entering == {t \in Task : pc[t] = "slow"}

TypeOK ==
    /\ count \in Int
    /\ sleepers \in {0, 1}
    /\ wait \in Seq(Task)
    /\ tstate \in [Task -> {"RUNNING", "INTERRUPTIBLE", "UNINTERRUPTIBLE"}]
    /\ sig \in [Task -> BOOLEAN]
    /\ mode \in [Task -> Modes]
    /\ pc \in [Task -> PC]

\* sema_init(sem, N), after which the tasks of some set have already taken the
\* semaphore: init_MUTEX_LOCKED is N = 1 with one such task.
Init ==
    \E H \in SUBSET Task :
        /\ Cardinality(H) <= N
        /\ count = N - Cardinality(H)
        /\ pc = [t \in Task |-> IF t \in H THEN "hold" ELSE "idle"]
        /\ sleepers = 0
        /\ wait = <<>>
        /\ tstate = [t \in Task |-> "RUNNING"]
        /\ sig = [t \in Task |-> FALSE]
        /\ mode = [t \in Task |-> "down"]

-----------------------------------------------------------------------------
(* The wait queue *)

\* __wake_up_common with nr_exclusive = 1: the first exclusive waiter that
\* try_to_wake_up finds not running is made runnable; running ones are skipped.
WakeUp(q, st) ==
    LET asleep == {i \in DOMAIN q : st[q[i]] # "RUNNING"}
    IN  IF asleep = {}
        THEN st
        ELSE [st EXCEPT ![q[CHOOSE i \in asleep : \A j \in asleep : i <= j]]
                            = "RUNNING"]

-----------------------------------------------------------------------------
(* Fast paths *)

\* down, down_interruptible, down_trylock: "decl; js".
Down(t, m) ==
    /\ pc[t] = "idle"
    /\ count' = count - 1
    /\ pc' = [pc EXCEPT ![t] = IF count - 1 < 0 THEN "slow" ELSE "hold"]
    /\ mode' = [mode EXCEPT ![t] = m]
    /\ UNCHANGED <<sleepers, wait, tstate, sig>>

\* Fault variant: up() calls __up only when count became positive.
UpNeedsWake_Positive(c) == c > 0

\* The condition "jle" of up() after the increment.
UpNeedsWake(c) == c <= 0

\* up: "incl; jle".
Up(t) ==
    /\ pc[t] = "hold"
    /\ count' = count + 1
    /\ pc' = [pc EXCEPT ![t] = IF UpNeedsWake(count + 1) THEN "wake" ELSE "idle"]
    /\ UNCHANGED <<sleepers, wait, tstate, sig, mode>>

\* __up: wake_up(&sem->wait) under the spinlock.
UpWake(t) ==
    /\ pc[t] = "wake"
    /\ tstate' = WakeUp(wait, tstate)
    /\ pc' = [pc EXCEPT ![t] = "idle"]
    /\ UNCHANGED <<count, sleepers, wait, sig, mode>>

-----------------------------------------------------------------------------
(* Contended paths *)

SleepState(t) == IF mode[t] = "int" THEN "INTERRUPTIBLE" ELSE "UNINTERRUPTIBLE"

\* Fault variant: the acquirer does not wake the next waiter.
LeaveQueue_NoWake(t, q, p) ==
    /\ sleepers' = 0
    /\ wait' = RemoveFirst(q, t)
    /\ tstate' = [tstate EXCEPT ![t] = "RUNNING"]
    /\ pc' = [pc EXCEPT ![t] = p]
    /\ sig' = [sig EXCEPT ![t] = FALSE]
    /\ UNCHANGED mode

\* The loop body is left: the task is dequeued, the next waiter is woken and
\* the spinlock is released; the task runs on with program counter p.
LeaveQueue(t, q, p) ==
    LET rest == RemoveFirst(q, t)
    IN  /\ sleepers' = 0
        /\ wait' = rest
        /\ tstate' = WakeUp(rest, [tstate EXCEPT ![t] = "RUNNING"])
        /\ pc' = [pc EXCEPT ![t] = p]
        /\ sig' = [sig EXCEPT ![t] = FALSE]
        /\ UNCHANGED mode

\* One turn of the loop of __down / __down_interruptible, with s the value of
\* sem->sleepers that was read and q the queue that already holds t.
\* (a) a pending signal: -EINTR, everybody's decrements are given back;
Interrupted(t, s, q) ==
    /\ mode[t] = "int" /\ sig[t]
    /\ count' = count + s
    /\ LeaveQueue(t, q, "idle")

\* Fault variant: the decrements of the other sleepers are not added back.
Acquired_OwnOnly(t, s, q) ==
    /\ ~(mode[t] = "int" /\ sig[t])
    /\ count + s >= 0
    /\ count' = count + (s - 1)
    /\ LeaveQueue(t, q, "hold")

\* (b) atomic_add_negative(sleepers - 1) is not negative: acquired;
Acquired(t, s, q) ==
    /\ ~(mode[t] = "int" /\ sig[t])
    /\ count + (s - 1) >= 0
    /\ count' = count + (s - 1)
    /\ LeaveQueue(t, q, "hold")

\* Fault variant: sleepers keeps counting every waiter.
Blocked_KeepsSleepers(t, s, q) ==
    /\ ~(mode[t] = "int" /\ sig[t])
    /\ count + (s - 1) < 0
    /\ count' = count
    /\ sleepers' = s
    /\ wait' = q
    /\ tstate' = [tstate EXCEPT ![t] = SleepState(t)]
    /\ pc' = [pc EXCEPT ![t] = "sleep"]
    /\ UNCHANGED <<sig, mode>>

\* (c) still negative: sleepers = 1 stands for this task alone, and it sleeps.
Blocked(t, s, q) ==
    /\ ~(mode[t] = "int" /\ sig[t])
    /\ count + (s - 1) < 0
    /\ count' = count + (s - 1)
    /\ sleepers' = 1
    /\ wait' = q
    /\ tstate' = [tstate EXCEPT ![t] = SleepState(t)]
    /\ pc' = [pc EXCEPT ![t] = "sleep"]
    /\ UNCHANGED <<sig, mode>>

DownLoop(t, s, q) == Interrupted(t, s, q) \/ Acquired(t, s, q) \/ Blocked(t, s, q)

\* Entry of __down and __down_interruptible: the task queues itself, counts
\* itself as a sleeper and takes the first turn of the loop.
DownEnter(t) ==
    /\ pc[t] = "slow" /\ mode[t] \in {"down", "int"}
    /\ DownLoop(t, sleepers + 1, Append(wait, t))

\* schedule() has returned because the task was woken: the next turn.
DownRetry(t) ==
    /\ pc[t] = "sleep" /\ tstate[t] = "RUNNING"
    /\ DownLoop(t, sleepers, wait)

\* Fault variant: the failed trylock gives back its own decrement only and
\* forgets that it has zeroed sleepers.
TrylockFailed_OwnOnly(t) ==
    /\ pc[t] = "slow" /\ mode[t] = "try"
    /\ count' = count + 1
    /\ sleepers' = 0
    /\ tstate' = IF count + 1 >= 0 THEN WakeUp(wait, tstate) ELSE tstate
    /\ pc' = [pc EXCEPT ![t] = "idle"]
    /\ UNCHANGED <<wait, sig, mode>>

\* __down_trylock: give back the decrements of the task and of the sleepers.
TrylockFailed(t) ==
    /\ pc[t] = "slow" /\ mode[t] = "try"
    /\ count' = count + sleepers + 1
    /\ sleepers' = 0
    /\ tstate' = IF count + sleepers + 1 >= 0 THEN WakeUp(wait, tstate) ELSE tstate
    /\ pc' = [pc EXCEPT ![t] = "idle"]
    /\ UNCHANGED <<wait, sig, mode>>

\* A signal reaches a task inside down_interruptible: it becomes pending and
\* signal_wake_up makes the task runnable if it sleeps interruptibly.
Signal(t) ==
    /\ mode[t] = "int" /\ pc[t] \in {"slow", "sleep"} /\ ~sig[t]
    /\ sig' = [sig EXCEPT ![t] = TRUE]
    /\ tstate' = [tstate EXCEPT ![t] = "RUNNING"]
    /\ UNCHANGED <<count, sleepers, wait, mode, pc>>

-----------------------------------------------------------------------------

\* The steps a task that uses the semaphore takes by itself, sooner or later:
\* it releases what it holds and does not stop inside the semaphore's code.
Step(t) == Up(t) \/ UpWake(t) \/ DownEnter(t) \/ DownRetry(t) \/ TrylockFailed(t)

Next ==
    \E t \in Task :
        \/ \E m \in Modes : Down(t, m)
        \/ Step(t)
        \/ Signal(t)

Spec == Init /\ [][Next]_vars

FairSpec == Spec /\ \A t \in Task : WF_vars(Step(t))

-----------------------------------------------------------------------------
(* Properties *)

\* At most N tasks hold the semaphore, whatever mix of down,
\* down_interruptible, down_trylock, up and signals got them there.
Exclusion == Cardinality(Holders) <= N

\* Every unit of the semaphore is accounted for: the value of count, plus the
\* holders, plus the decrements that a contended path has still to give back,
\* plus the one that "sleepers" stands for, is the initial value.
Accounting ==
    count + Cardinality(Holders) + Cardinality(Entering) + sleepers = N

\* A waiter never sleeps beside a free semaphore with nobody on the way to
\* wake it: some task is about to run a contended section, about to call
\* __up(), or is a waiter that has been made runnable and will retry.
NoLostWakeup ==
    (/\ Cardinality(Holders) < N
     /\ \E t \in Task : pc[t] = "sleep" /\ tstate[t] # "RUNNING")
    => \E t \in Task :
          \/ pc[t] \in {"slow", "wake"}
          \/ pc[t] = "sleep" /\ tstate[t] = "RUNNING"

\* Once tasks stop making new requests, every task inside a down leaves it: it
\* gets the semaphore or is interrupted, and is never left asleep.  (While new
\* requests keep coming a waiter may be overtaken for ever: a woken waiter
\* competes with the fast path, and the semaphore promises no order.)
RequestsCease == <>[][\A t \in Task : pc[t] = "idle" => pc'[t] = "idle"]_vars

WaitersServed ==
    RequestsCease =>
        \A t \in Task : (pc[t] \in {"slow", "sleep"}) ~> (pc[t] \in {"hold", "idle"})
==============================================================================
