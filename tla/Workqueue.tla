------------------------------ MODULE Workqueue ------------------------------
(***************************************************************************)
(* The work queues of kernel/workqueue.c: one multi-threaded workqueue,    *)
(* whose per-CPU queues are served by one worker thread each.              *)
(*                                                                         *)
(* A section under cwq->lock is one step (worker_thread looks at the list  *)
(* without the lock, but a worker that sees a work added by a section that *)
(* has yet to wake it waits for the lock next).  queue_work and the timer  *)
(* function may be called from any context, so their callers have no       *)
(* identity here: a call in progress is a "claim" on the work.  The        *)
(* callers of flush_workqueue are the threads of Flusher and the worker    *)
(* threads themselves, when they run a work of SelfFlush.                  *)
(***************************************************************************)
EXTENDS Integers, Sequences, FiniteSets, SequencesExt, FiniteSetsExt

CONSTANTS CPU,         \* the possible CPUs, as the numbers the kernel gives them
          Work,        \* the work_structs
          SelfFlush,   \* the works whose function calls flush_workqueue
          Flusher,     \* other threads that call flush_workqueue
          Delayed,     \* the works queued with queue_delayed_work
          Hotplugger,  \* the task inside cpu_up or cpu_down
          Nobody,      \* the holder of a free lock
          Hotplug,     \* CONFIG_HOTPLUG_CPU: lock_cpu_hotplug is a semaphore
          SeqRange,    \* 2^w for the w-bit sequence counters
          MaxDepth     \* bound: no new SelfFlush work at this depth of run_workqueue

ASSUME CpuAssumption == CPU \subseteq Nat /\ IsFiniteSet(CPU) /\ CPU # {}
ASSUME WorkAssumption == IsFiniteSet(Work) /\ SelfFlush \subseteq Work /\ Delayed \subseteq Work
ASSUME ThreadAssumption ==
    /\ Hotplugger # Nobody
    /\ Flusher \cap CPU = {} /\ {Hotplugger, Nobody} \cap (Flusher \cup CPU) = {}
ASSUME FlagAssumption == Hotplug \in BOOLEAN
\* Works queued or running on a CPU never span half the range of the counters.
ASSUME SeqAssumption ==
    /\ SeqRange \in Nat /\ MaxDepth \in Nat \ {0}
    /\ Cardinality(Work) + Cardinality(SelfFlush) + MaxDepth < SeqRange \div 2

VARIABLES online,   \* cpu_online_map
          pending,  \* bit 0 of work->pending
          claims,   \* calls in progress and armed timers, see Claim
          list,     \* cwq->worklist of each CPU
          insert,   \* cwq->insert_sequence
          remove,   \* cwq->remove_sequence
          pc,       \* where each worker thread is
          tstate,   \* the scheduler state of each worker in worker_thread
          stop,     \* kthread_stop has been called for the worker
          stack,    \* the works the worker is executing, innermost last
          flush,    \* the flush_workqueue call of each thread of Flusher
          lock,     \* who holds cpucontrol: a Flusher, a CPU's worker, Hotplugger
          hp        \* the CPU hotplug operation in progress

vars == <<online, pending, claims, list, insert, remove, pc, tstate, stop,
          stack, flush, lock, hp>>

\* <<w, "queue", c>>: a queue_work (or the timer function) has set the pending
\* bit of w and will call __queue_work for CPU c; <<w, "timer", c>>: the timer
\* of w is armed on c; <<w, "cancel", c>>: cancel_delayed_work has deleted that
\* timer and will clear the bit.
Claim == Work \X {"queue", "timer", "cancel"} \X CPU

\* A call of flush_workqueue: the CPUs still to be flushed, in the order of
\* for_each_online_cpu, and sequence_needed of the one being waited for.
\* "self": the worker is running its own queue by hand.
FlushStages == {"none", "lock", "loop", "wait", "woken", "self", "done"}
FlushCall == [stage : FlushStages, todo : SUBSET CPU, needed : 0..SeqRange-1]
NoFlush == [stage |-> "none", todo |-> {}, needed |-> 0]

\* A queued work.  "owed" (history) is the set of flushers whose flush found
\* this work queued or running when it started.
Entry == [work : Work, owed : SUBSET Flusher]

\* A work being executed by run_workqueue; "taken" until clear_bit is done.
Frame == [work : Work, owed : SUBSET Flusher, taken : BOOLEAN, fl : FlushCall]

\* worker_thread, in the order of its loop; "none": no thread; "created":
\* kthread_create has returned; "run": inside run_workqueue.
WorkerPC == {"none", "created", "set", "test", "check", "sleep", "resume", "run"}

HpStages == {"idle", "prepared", "online", "cancel", "dead", "stopping", "takeover"}

TypeOK ==
    /\ online \in SUBSET CPU
    /\ pending \in [Work -> BOOLEAN]
    /\ claims \in SUBSET Claim
    /\ list \in [CPU -> Seq(Entry)]
    /\ insert \in [CPU -> 0..SeqRange-1]
    /\ remove \in [CPU -> 0..SeqRange-1]
    /\ pc \in [CPU -> WorkerPC]
    /\ tstate \in [CPU -> {"RUNNING", "INTERRUPTIBLE"}]
    /\ stop \in [CPU -> BOOLEAN]
    /\ stack \in [CPU -> Seq(Frame)]
    /\ flush \in [Flusher -> FlushCall]
    /\ lock \in Flusher \cup CPU \cup {Hotplugger, Nobody}
    /\ hp \in [stage : HpStages, cpu : CPU, on : CPU]

\* create_workqueue has returned: every online CPU has its worker thread.
Init ==
    /\ online = CPU
    /\ pending = [w \in Work |-> FALSE]
    /\ claims = {}
    /\ list = [c \in CPU |-> <<>>]
    /\ insert = [c \in CPU |-> 0]
    /\ remove = [c \in CPU |-> 0]
    /\ pc = [c \in CPU |-> "set"]
    /\ tstate = [c \in CPU |-> "RUNNING"]
    /\ stop = [c \in CPU |-> FALSE]
    /\ stack = [c \in CPU |-> <<>>]
    /\ flush = [f \in Flusher |-> NoFlush]
    /\ lock = Nobody
    /\ hp = [stage |-> "idle", cpu |-> Min(CPU), on |-> Min(CPU)]

-----------------------------------------------------------------------------
(* Helpers *)

\* The work that CPU c's worker is executing, the innermost one if run_workqueue
\* has been entered again.
Running(c) == stack[c] # <<>>
Top(c) == Last(stack[c])

\* The flush_workqueue call of thread t: a Flusher, or CPU t's worker.
FlushOf(t) == IF t \in CPU THEN (IF Running(t) THEN Top(t).fl ELSE NoFlush) ELSE flush[t]

\* Fault variant: the counters are compared as if they never wrapped.
Behind_NoWrap(needed, c) == needed - remove[c] > 0

\* sequence_needed - cwq->remove_sequence > 0, for w-bit signed numbers.
Behind(needed, c) ==
    LET d == (needed - remove[c]) % SeqRange IN d > 0 /\ d < SeqRange \div 2

\* Bound: a flush that has been woken because its sequence is reached gets to
\* look at remove_sequence before half the range of the counters has gone by.
Prompt(c) ==
    \A t \in Flusher \cup CPU :
        FlushOf(t).stage = "woken" /\ Min(FlushOf(t).todo) = c => Behind(FlushOf(t).needed, c)

\* Bound: the nesting of flushes by hand is cut off at MaxDepth.
MayNest(w) == w \in SelfFlush => \A c \in CPU : Len(stack[c]) < MaxDepth

-----------------------------------------------------------------------------
(* Queueing *)

\* Fault variant: the counter is not reduced to its width.
Inc_Wide(n) == n + 1

\* The increment of a w-bit counter.
Inc(n) == (n + 1) % SeqRange

\* queue_work, schedule_work: test_and_set_bit on the CPU of the caller.
QueueWork(w, c) ==
    /\ c \in online /\ ~pending[w] /\ MayNest(w) /\ Prompt(c)
    /\ pending' = [pending EXCEPT ![w] = TRUE]
    /\ claims' = claims \cup {<<w, "queue", c>>}
    /\ UNCHANGED <<online, list, insert, remove, pc, tstate, stop, stack, flush, lock, hp>>

\* queue_delayed_work, schedule_delayed_work(_on): arm the timer instead.
QueueDelayedWork(w, c) ==
    /\ w \in Delayed /\ c \in online /\ ~pending[w] /\ MayNest(w) /\ Prompt(c)
    /\ pending' = [pending EXCEPT ![w] = TRUE]
    /\ claims' = claims \cup {<<w, "timer", c>>}
    /\ UNCHANGED <<online, list, insert, remove, pc, tstate, stop, stack, flush, lock, hp>>

\* delayed_work_timer_fn starts on the CPU of the timer.
DelayedWorkTimer(w, c) ==
    /\ <<w, "timer", c>> \in claims
    /\ claims' = (claims \ {<<w, "timer", c>>}) \cup {<<w, "queue", c>>}
    /\ UNCHANGED <<online, pending, list, insert, remove, pc, tstate, stop, stack, flush, lock, hp>>

\* cancel_delayed_work: del_timer_sync has found the timer armed ...
CancelDelayedWork(w, c) ==
    /\ <<w, "timer", c>> \in claims
    /\ claims' = (claims \ {<<w, "timer", c>>}) \cup {<<w, "cancel", c>>}
    /\ UNCHANGED <<online, pending, list, insert, remove, pc, tstate, stop, stack, flush, lock, hp>>

\* ... then clear_bit.
CancelClear(w, c) ==
    /\ <<w, "cancel", c>> \in claims
    /\ claims' = claims \ {<<w, "cancel", c>>}
    /\ pending' = [pending EXCEPT ![w] = FALSE]
    /\ UNCHANGED <<online, list, insert, remove, pc, tstate, stop, stack, flush, lock, hp>>

\* The worker is linked on cwq->more_work.
OnMoreWork(c) == pc[c] \in {"check", "sleep"}

\* wake_up(&cwq->more_work).
WakeWorker(c) ==
    tstate' = IF OnMoreWork(c) THEN [tstate EXCEPT ![c] = "RUNNING"] ELSE tstate

\* Fault variant: list_add instead of list_add_tail.
AddTail_AtHead(c, e) ==
    /\ list' = [list EXCEPT ![c] = <<e>> \o @]
    /\ insert' = [insert EXCEPT ![c] = Inc(@)]

\* list_add_tail and insert_sequence++.
AddTail(c, e) ==
    /\ list' = [list EXCEPT ![c] = Append(@, e)]
    /\ insert' = [insert EXCEPT ![c] = Inc(@)]

\* __queue_work.
DoQueueWork(w, c) ==
    /\ <<w, "queue", c>> \in claims
    /\ claims' = claims \ {<<w, "queue", c>>}
    /\ AddTail(c, [work |-> w, owed |-> {}])
    /\ WakeWorker(c)
    /\ UNCHANGED <<online, pending, remove, pc, stop, stack, flush, lock, hp>>

-----------------------------------------------------------------------------
(* worker_thread *)

\* set_current_state(TASK_INTERRUPTIBLE).
WorkerSet(c) ==
    /\ pc[c] = "set"
    /\ tstate' = [tstate EXCEPT ![c] = "INTERRUPTIBLE"]
    /\ pc' = [pc EXCEPT ![c] = "test"]
    /\ UNCHANGED <<online, pending, claims, list, insert, remove, stop, stack, flush, lock, hp>>

\* The loop condition: leave (kthread() completes kthread_stop_info.done), or
\* add_wait_queue.
WorkerTest(c) ==
    /\ pc[c] = "test"
    /\ IF stop[c]
       THEN /\ tstate' = [tstate EXCEPT ![c] = "RUNNING"]
            /\ pc' = [pc EXCEPT ![c] = "none"]
       ELSE /\ pc' = [pc EXCEPT ![c] = "check"]
            /\ UNCHANGED tstate
    /\ UNCHANGED <<online, pending, claims, list, insert, remove, stop, stack, flush, lock, hp>>

\* Fault variant: schedule() without looking at the list.
WorkerCheck_NoTest(c) ==
    /\ pc[c] = "check"
    /\ pc' = [pc EXCEPT ![c] = "sleep"]
    /\ UNCHANGED <<online, pending, claims, list, insert, remove, tstate, stop, stack, flush, lock, hp>>

\* list_empty: schedule() or __set_current_state(TASK_RUNNING).
WorkerCheck(c) ==
    /\ pc[c] = "check"
    /\ IF list[c] = <<>>
       THEN /\ pc' = [pc EXCEPT ![c] = "sleep"]
            /\ UNCHANGED tstate
       ELSE /\ pc' = [pc EXCEPT ![c] = "resume"]
            /\ tstate' = [tstate EXCEPT ![c] = "RUNNING"]
    /\ UNCHANGED <<online, pending, claims, list, insert, remove, stop, stack, flush, lock, hp>>

\* schedule() returns once the worker is runnable again.
WorkerWakes(c) ==
    /\ pc[c] = "sleep" /\ tstate[c] = "RUNNING"
    /\ pc' = [pc EXCEPT ![c] = "resume"]
    /\ UNCHANGED <<online, pending, claims, list, insert, remove, tstate, stop, stack, flush, lock, hp>>

\* Take the first entry of the list: the head of the loop of run_workqueue.
Taken(e) == [work |-> e.work, owed |-> e.owed, taken |-> TRUE, fl |-> NoFlush]

\* remove_wait_queue, then run_workqueue if there is work.
WorkerResume(c) ==
    /\ pc[c] = "resume"
    /\ IF list[c] = <<>>
       THEN /\ pc' = [pc EXCEPT ![c] = "set"]
            /\ UNCHANGED <<list, stack>>
       ELSE /\ pc' = [pc EXCEPT ![c] = "run"]
            /\ list' = [list EXCEPT ![c] = Tail(@)]
            /\ stack' = [stack EXCEPT ![c] = <<Taken(Head(list[c]))>>]
    /\ UNCHANGED <<online, pending, claims, insert, remove, tstate, stop, flush, lock, hp>>

-----------------------------------------------------------------------------
(* run_workqueue *)

\* clear_bit(0, &work->pending), outside the lock, before the function runs.
ClearPending(c) ==
    /\ Running(c) /\ Top(c).taken
    /\ pending' = [pending EXCEPT ![Top(c).work] = FALSE]
    /\ stack' = [stack EXCEPT ![c] = Front(@) \o <<[Top(c) EXCEPT !.taken = FALSE]>>]
    /\ UNCHANGED <<online, claims, list, insert, remove, pc, tstate, stop, flush, lock, hp>>

\* The function of a work of SelfFlush calls flush_workqueue, once.
CallFlush(c) ==
    /\ Running(c) /\ ~Top(c).taken
    /\ Top(c).work \in SelfFlush /\ Top(c).fl.stage = "none"
    /\ stack' = [stack EXCEPT ![c] = Front(@) \o <<[Top(c) EXCEPT !.fl.stage = "lock"]>>]
    /\ UNCHANGED <<online, pending, claims, list, insert, remove, pc, tstate, stop, flush, lock, hp>>

\* The function of the innermost work has nothing left to do.
Returned(c) ==
    /\ Running(c) /\ ~Top(c).taken
    /\ Top(c).fl.stage = IF Top(c).work \in SelfFlush THEN "done" ELSE "none"

\* wake_up(&cwq->work_done) of CPU c, for the flush call r.
WakeCall(r, c) ==
    IF r.stage = "wait" /\ Min(r.todo) = c THEN [r EXCEPT !.stage = "woken"] ELSE r

\* ... for every thread waiting on it.
WakeStacks(s, c) ==
    [d \in CPU |-> [i \in DOMAIN s[d] |-> [s[d][i] EXCEPT !.fl = WakeCall(@, c)]]]

WakeFlushers(c) == flush' = [f \in Flusher |-> WakeCall(flush[f], c)]

\* The loop of run_workqueue goes on or ends: s is the stack without the work
\* that has just returned.  At the end the call returns to worker_thread, or to
\* the flush_cpu_workqueue that ran the queue by hand.
NextOrReturn(c, s) ==
    IF list[c] # <<>>
    THEN /\ list' = [list EXCEPT ![c] = Tail(@)]
         /\ stack' = WakeStacks([stack EXCEPT ![c] = Append(s, Taken(Head(list[c])))], c)
         /\ UNCHANGED pc
    ELSE /\ UNCHANGED list
         /\ IF s = <<>>
            THEN /\ stack' = WakeStacks([stack EXCEPT ![c] = <<>>], c)
                 /\ pc' = [pc EXCEPT ![c] = "set"]
            ELSE /\ stack' = WakeStacks([stack EXCEPT ![c] =
                        Front(s) \o <<[Last(s) EXCEPT !.fl.stage = "loop",
                                                      !.fl.todo = @ \ {c}]>>], c)
                 /\ UNCHANGED pc

\* f(data) has returned: remove_sequence++, wake the flushers, take the next.
FinishWork(c) ==
    /\ Returned(c)
    /\ remove' = [remove EXCEPT ![c] = Inc(@)]
    /\ WakeFlushers(c)
    /\ NextOrReturn(c, Front(stack[c]))
    /\ UNCHANGED <<online, pending, claims, insert, tstate, stop, lock, hp>>

-----------------------------------------------------------------------------
(* flush_workqueue *)

SetFlush(t, r) ==
    IF t \in CPU
    THEN /\ stack' = [stack EXCEPT ![t] = Front(@) \o <<[Top(t) EXCEPT !.fl = r]>>]
         /\ UNCHANGED flush
    ELSE /\ flush' = [flush EXCEPT ![t] = r]
         /\ UNCHANGED stack

FlushStart(f) ==
    /\ flush[f].stage = "none"
    /\ flush' = [flush EXCEPT ![f].stage = "lock"]
    /\ UNCHANGED <<online, pending, claims, list, insert, remove, pc, tstate, stop, stack, lock, hp>>

\* History: the flush of f owes its caller the works that are queued or running.
Owe(f, s) == [i \in DOMAIN s |-> [s[i] EXCEPT !.owed = @ \cup {f}]]

OweAll(f) ==
    /\ list' = [c \in CPU |-> Owe(f, list[c])]
    /\ stack' = [c \in CPU |-> Owe(f, stack[c])]

\* Fault variant: the flush does not hold off CPU hotplug.
FlushLock_NoLock(t) ==
    /\ FlushOf(t).stage = "lock"
    /\ lock = Nobody
    /\ LET r == [stage |-> "loop", todo |-> online, needed |-> 0]
       IN  IF t \in Flusher
           THEN flush' = [flush EXCEPT ![t] = r] /\ OweAll(t)
           ELSE SetFlush(t, r) /\ UNCHANGED list
    /\ UNCHANGED <<online, pending, claims, insert, remove, pc, tstate, stop, lock, hp>>

\* lock_cpu_hotplug, and the start of for_each_online_cpu.
FlushLock(t) ==
    /\ FlushOf(t).stage = "lock"
    /\ lock = Nobody
    /\ lock' = IF Hotplug THEN t ELSE lock
    /\ LET r == [stage |-> "loop", todo |-> online, needed |-> 0]
       IN  IF t \in Flusher
           THEN flush' = [flush EXCEPT ![t] = r] /\ OweAll(t)
           ELSE SetFlush(t, r) /\ UNCHANGED list
    /\ UNCHANGED <<online, pending, claims, insert, remove, pc, tstate, stop, hp>>

\* sequence_needed = cwq->insert_sequence.
Sample(c) == insert[c]

\* The loop of flush_cpu_workqueue: sleep on work_done, or go to the next CPU.
FlushWait(t, r) ==
    SetFlush(t, IF Behind(r.needed, Min(r.todo))
                THEN [r EXCEPT !.stage = "wait"]
                ELSE [r EXCEPT !.stage = "loop", !.todo = @ \ {Min(@)}])

\* flush_cpu_workqueue of another thread's queue, up to the first sleep.
FlushCpu(t) ==
    /\ FlushOf(t).stage = "loop" /\ FlushOf(t).todo # {}
    /\ t # Min(FlushOf(t).todo)
    /\ FlushWait(t, [FlushOf(t) EXCEPT !.needed = Sample(Min(FlushOf(t).todo))])
    /\ UNCHANGED <<online, pending, claims, list, insert, remove, pc, tstate, stop, lock, hp>>

\* Fault variant: insert_sequence is sampled again after every sleep.
FlushRetry_Resample(t) ==
    /\ FlushOf(t).stage = "woken"
    /\ FlushWait(t, [FlushOf(t) EXCEPT !.needed = Sample(Min(FlushOf(t).todo))])
    /\ UNCHANGED <<online, pending, claims, list, insert, remove, pc, tstate, stop, lock, hp>>

\* schedule() has returned in flush_cpu_workqueue.
FlushRetry(t) ==
    /\ FlushOf(t).stage = "woken"
    /\ FlushWait(t, FlushOf(t))
    /\ UNCHANGED <<online, pending, claims, list, insert, remove, pc, tstate, stop, lock, hp>>

\* cwq->thread == current: run the queue by hand.
FlushSelf(c) ==
    /\ FlushOf(c).stage = "loop" /\ FlushOf(c).todo # {}
    /\ c = Min(FlushOf(c).todo)
    /\ IF list[c] = <<>>
       THEN SetFlush(c, [FlushOf(c) EXCEPT !.todo = @ \ {c}]) /\ UNCHANGED list
       ELSE /\ list' = [list EXCEPT ![c] = Tail(@)]
            /\ stack' = [stack EXCEPT ![c] =
                   Front(@) \o <<[Top(c) EXCEPT !.fl.stage = "self"], Taken(Head(list[c]))>>]
            /\ UNCHANGED flush
    /\ UNCHANGED <<online, pending, claims, insert, remove, pc, tstate, stop, lock, hp>>

\* unlock_cpu_hotplug and return.
FlushReturn(t) ==
    /\ FlushOf(t).stage = "loop" /\ FlushOf(t).todo = {}
    /\ lock' = Nobody
    /\ SetFlush(t, IF t \in CPU THEN [NoFlush EXCEPT !.stage = "done"] ELSE NoFlush)
    /\ UNCHANGED <<online, pending, claims, list, insert, remove, pc, tstate, stop, hp>>

Flush(t) == FlushLock(t) \/ FlushCpu(t) \/ FlushRetry(t) \/ FlushReturn(t)

-----------------------------------------------------------------------------
(* workqueue_cpu_callback, with the parts of cpu_down and cpu_up around it *)

\* kthread_stop: the flag is set and the thread woken; a thread that has not
\* been started yet leaves kthread() at once.
KthreadStop(c) ==
    /\ stop' = [stop EXCEPT ![c] = TRUE]
    /\ tstate' = [tstate EXCEPT ![c] = "RUNNING"]
    /\ pc' = IF pc[c] = "created" THEN [pc EXCEPT ![c] = "none"] ELSE pc

\* cpu_down takes cpucontrol; stop_machine takes the CPU out of the map at a
\* point where no CPU has preemption disabled.  Timers of the CPU move to d.
CpuDown(c, d) ==
    /\ Hotplug /\ lock = Nobody /\ hp.stage = "idle"
    /\ c \in online /\ d \in online \ {c}
    /\ \A w \in Work : <<w, "queue", c>> \notin claims
    /\ lock' = Hotplugger
    /\ online' = online \ {c}
    /\ claims' = {<<k[1], k[2], IF k[2] = "timer" /\ k[3] = c THEN d ELSE k[3]>> : k \in claims}
    /\ hp' = [stage |-> "dead", cpu |-> c, on |-> d]
    /\ UNCHANGED <<pending, list, insert, remove, pc, tstate, stop, stack, flush>>

\* CPU_DEAD: cleanup_workqueue_thread.
CpuDead ==
    /\ hp.stage = "dead"
    /\ KthreadStop(hp.cpu)
    /\ hp' = [hp EXCEPT !.stage = "stopping"]
    /\ UNCHANGED <<online, pending, claims, list, insert, remove, stack, flush, lock>>

\* Fault variant: the work of the dead CPU is taken before its worker is gone.
WorkerGone_Early(c) == TRUE

\* The completion that kthread_stop waits for.
WorkerGone(c) == pc[c] = "none"

CpuStopped ==
    /\ hp.stage = "stopping" /\ WorkerGone(hp.cpu)
    /\ stop' = [stop EXCEPT ![hp.cpu] = FALSE]
    /\ hp' = [hp EXCEPT !.stage = "takeover"]
    /\ UNCHANGED <<online, pending, claims, list, insert, remove, pc, tstate, stack, flush, lock>>

\* Fault variant: the list of the dead CPU is emptied and forgotten.
TakeOverOne_Drops ==
    /\ hp.stage = "takeover" /\ list[hp.cpu] # <<>>
    /\ list' = [list EXCEPT ![hp.cpu] = Tail(@)]
    /\ UNCHANGED <<online, pending, claims, insert, remove, pc, tstate, stop, stack, flush, lock, hp>>

\* take_over_work: one turn of its loop ...
TakeOverOne ==
    /\ hp.stage = "takeover" /\ list[hp.cpu] # <<>>
    /\ list' = [list EXCEPT ![hp.on] = Append(@, Head(list[hp.cpu])),
                             ![hp.cpu] = Tail(list[hp.cpu])]
    /\ insert' = [insert EXCEPT ![hp.on] = Inc(@)]
    /\ WakeWorker(hp.on)
    /\ UNCHANGED <<online, pending, claims, remove, pc, stop, stack, flush, lock, hp>>

\* ... and its end: cpu_down returns.
TakeOverDone ==
    /\ hp.stage = "takeover" /\ list[hp.cpu] = <<>>
    /\ lock' = Nobody
    /\ hp' = [hp EXCEPT !.stage = "idle"]
    /\ UNCHANGED <<online, pending, claims, list, insert, remove, pc, tstate, stop, stack, flush>>

\* CPU_UP_PREPARE: create_workqueue_thread initialises the queue and creates the
\* thread (which is taken to succeed).
CpuUpPrepare(c) ==
    /\ Hotplug /\ lock = Nobody /\ hp.stage = "idle" /\ c \notin online
    /\ lock' = Hotplugger
    /\ list' = [list EXCEPT ![c] = <<>>]
    /\ insert' = [insert EXCEPT ![c] = 0]
    /\ remove' = [remove EXCEPT ![c] = 0]
    /\ hp' = [hp EXCEPT !.stage = "prepared", !.cpu = c]
    /\ pc' = [pc EXCEPT ![c] = "created"]
    /\ UNCHANGED <<online, pending, claims, tstate, stop, stack, flush>>

\* __cpu_up succeeds or fails.
CpuUp ==
    /\ hp.stage = "prepared"
    /\ \/ online' = online \cup {hp.cpu} /\ hp' = [hp EXCEPT !.stage = "online"]
       \/ hp' = [hp EXCEPT !.stage = "cancel"] /\ UNCHANGED online
    /\ UNCHANGED <<pending, claims, list, insert, remove, pc, tstate, stop, stack, flush, lock>>

\* CPU_ONLINE: kthread_bind and wake_up_process.
CpuOnline ==
    /\ hp.stage = "online" /\ pc[hp.cpu] = "created"
    /\ pc' = [pc EXCEPT ![hp.cpu] = "set"]
    /\ hp' = [hp EXCEPT !.stage = "idle"]
    /\ lock' = Nobody
    /\ UNCHANGED <<online, pending, claims, list, insert, remove, tstate, stop, stack, flush>>

\* CPU_UP_CANCELED: cleanup_workqueue_thread.
CpuUpCanceled ==
    /\ hp.stage = "cancel" /\ pc[hp.cpu] = "created"
    /\ pc' = [pc EXCEPT ![hp.cpu] = "none"]
    /\ hp' = [hp EXCEPT !.stage = "idle"]
    /\ lock' = Nobody
    /\ UNCHANGED <<online, pending, claims, list, insert, remove, tstate, stop, stack, flush>>

-----------------------------------------------------------------------------

Worker(c) ==
    \/ WorkerSet(c) \/ WorkerTest(c) \/ WorkerCheck(c) \/ WorkerWakes(c) \/ WorkerResume(c)
    \/ ClearPending(c) \/ CallFlush(c) \/ FinishWork(c) \/ FlushSelf(c)

HotplugStep ==
    \/ CpuDead \/ CpuStopped \/ TakeOverOne \/ TakeOverDone
    \/ CpuUp \/ CpuOnline \/ CpuUpCanceled

Next ==
    \/ \E w \in Work, c \in CPU :
          \/ QueueWork(w, c) \/ QueueDelayedWork(w, c) \/ DelayedWorkTimer(w, c)
          \/ CancelDelayedWork(w, c) \/ CancelClear(w, c) \/ DoQueueWork(w, c)
    \/ \E c \in CPU : Worker(c)
    \/ \E f \in Flusher : FlushStart(f)
    \/ \E t \in Flusher \cup CPU : Flush(t)
    \/ \E c, d \in CPU : CpuDown(c, d)
    \/ \E c \in CPU : CpuUpPrepare(c)
    \/ HotplugStep

Spec == Init /\ [][Next]_vars

\* Threads are scheduled, work functions return, calls in progress go on and
\* armed timers expire; nobody has to queue, cancel, flush or take CPUs down.
FairSpec ==
    /\ Spec
    /\ \A c \in CPU : WF_vars(Worker(c))
    /\ \A t \in Flusher \cup CPU : WF_vars(Flush(t))
    /\ \A w \in Work, c \in CPU : WF_vars(DoQueueWork(w, c)) /\ WF_vars(DelayedWorkTimer(w, c))

-----------------------------------------------------------------------------
(* Properties *)

\* The places a work with its pending bit set can be: in a call in progress or
\* an armed timer, queued on a CPU, or taken by a worker that will clear the bit.
Owners(w) ==
    {k \in claims : k[1] = w}
    \cup (UNION {{<<"list", c, i>> : i \in {j \in DOMAIN list[c] : list[c][j].work = w}} : c \in CPU})
    \cup (UNION {{<<"taken", c, i>> :
                    i \in {j \in DOMAIN stack[c] : stack[c][j].work = w /\ stack[c][j].taken}} : c \in CPU})

\* The pending bit of a work is set exactly while one party - and only one - is
\* committed to it: the work is never linked on two lists, no armed timer or
\* caller is about to queue it a second time (the two BUG_ONs of
\* queue_delayed_work), and the bit is never left set with nobody to clear it.
PendingOwned == \A w \in Work : Cardinality(Owners(w)) = IF pending[w] THEN 1 ELSE 0

\* flush_workqueue makes sure "that any scheduled work has run to completion":
\* no work that was queued or running when a flush took its lock is still there
\* once the flush has gone past that CPU.  A work that flushes its own queue is
\* the exception: the works it runs by hand advance remove_sequence past it.
FlushWaits ==
    \A c \in CPU, f \in Flusher :
        (\/ \E i \in DOMAIN list[c] : f \in list[c][i].owed
         \/ \E i \in DOMAIN stack[c] :
               f \in stack[c][i].owed /\ stack[c][i].fl.stage = "none")
        => c \in flush[f].todo

\* No wakeup is lost: a worker is not asleep beside a non-empty list or a
\* request to stop, and a flush sleeps only while its sequence is not reached.
NoLostWakeup ==
    /\ \A c \in CPU :
          pc[c] = "sleep" /\ tstate[c] # "RUNNING" => list[c] = <<>> /\ ~stop[c]
    /\ \A t \in Flusher \cup CPU :
          FlushOf(t).stage = "wait" => Behind(FlushOf(t).needed, Min(FlushOf(t).todo))

\* CPU hotplug loses no work: outside a hotplug operation a CPU that is not
\* online has no worker, no queued work, no armed timer and no caller about to
\* queue there, and an online CPU has a worker.
NothingStranded ==
    hp.stage = "idle" =>
        \A c \in CPU :
            IF c \in online
            THEN pc[c] # "none"
            ELSE /\ pc[c] = "none" /\ list[c] = <<>> /\ stack[c] = <<>>
                 /\ \A k \in claims : k[2] # "cancel" => k[3] # c

\* A queued work is executed, whatever else is queued.
Queued(w) == \E c \in CPU : \E i \in DOMAIN list[c] : list[c][i].work = w
Executing(w) == \E c \in CPU : \E i \in DOMAIN stack[c] : stack[c][i].work = w
QueuedRuns == \A w \in Work : Queued(w) ~> Executing(w)

\* A flush ends, although works keep being queued: "we are not livelocked by new
\* incoming ones".
FlushEnds == \A f \in Flusher : flush[f].stage = "lock" ~> flush[f].stage = "none"
==============================================================================
