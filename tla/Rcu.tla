--------------------------------- MODULE Rcu ---------------------------------
(***************************************************************************)
(* Read-copy update: kernel/rcupdate.c and include/linux/rcupdate.h.  The  *)
(* control block, the rcu_state and the per-CPU rcu_data of one flavour    *)
(* (rcu or rcu_bh: the same code runs on both), the tasklet of every CPU,  *)
(* the read-side critical sections and CPU hotplug.                        *)
(*                                                                         *)
(* Fields of the control block are read without the lock, so every such    *)
(* read and every write that such a read can see is a step of its own.     *)
(* Batch numbers are machine integers: they are compared by the sign of    *)
(* their difference modulo BatchMod (2^32 on i386).                        *)
(***************************************************************************)
EXTENDS Integers, FiniteSets, FiniteSetsExt

CONSTANTS CPU,
          Cb,        \* the rcu_head structures; one may be queued again later
          BatchMod,  \* batch numbers wrap at this value
          MaxBatch,  \* maxbatch: callbacks invoked in one run of the tasklet
          Hotplug,   \* what CPUs may do: a subset of {"down", "up"}
          Hp,        \* the thread that runs the hotplug notifier
          None

ASSUME CpuAssumption == IsFiniteSet(CPU) /\ Hp \notin CPU /\ None \notin CPU
ASSUME BatchAssumption == BatchMod \in Nat /\ BatchMod >= 4 /\ BatchMod % 2 = 0
ASSUME MaxBatchAssumption == MaxBatch \in Nat \ {0}

VARIABLES cur, completed, next_pending,            \* rcu_ctrlblk
          cpumask,                                 \* rcu_state
          quiescbatch, passed_quiesc, qs_pending,  \* rcu_data, by CPU
          batch, nxtlist, curlist, donelist,
          online,     \* cpu_online_map
          victim,     \* the CPU the hotplug thread works on
          reading,    \* CPUs inside a read-side critical section
          pre,        \* of each queued callback, the readers older than it
          pc, ret     \* of the tasklet of each CPU and of the hotplug thread

ctrl == <<cur, completed, next_pending, cpumask>>
qs == <<quiescbatch, passed_quiesc, qs_pending>>
lists == <<batch, nxtlist, curlist, donelist>>
env == <<online, victim, reading, pre>>
vars == <<ctrl, qs, lists, env, pc, ret>>

Thread == CPU \cup {Hp}

\* Tasklet: "off"; "run" scheduled; "batch", "pend", "start", "qs", "note",
\* "quiet", "do" places in __rcu_process_callbacks.  Hotplug thread: "dead",
\* "move" in __rcu_offline_cpu, "up" between CPU_UP_PREPARE and the CPU being
\* online.  "test", "bump": inside rcu_start_batch with the lock held.
Locked == {"test", "bump"}
PC == {"off", "run", "batch", "pend", "start", "qs", "note", "quiet", "do",
       "dead", "move", "up"} \cup Locked

LockFree == \A p \in Thread : pc[p] \notin Locked

Inc(b) == (b + 1) % BatchMod

rcu_batch_before(a, b) == (a - b) % BatchMod >= BatchMod \div 2

Queued == UNION {nxtlist[c] \cup curlist[c] \cup donelist[c] : c \in CPU}

\* rcu_init on the CPUs that are up; the others have still to be brought up.
Init ==
    /\ cur = BatchMod - 1 /\ completed = BatchMod - 1
    /\ next_pending = FALSE
    /\ cpumask = {}
    /\ quiescbatch = [c \in CPU |-> completed]
    /\ passed_quiesc = [c \in CPU |-> FALSE]
    /\ qs_pending = [c \in CPU |-> FALSE]
    /\ batch = [c \in CPU |-> 0]
    /\ nxtlist = [c \in CPU |-> {}]
    /\ curlist = [c \in CPU |-> {}]
    /\ donelist = [c \in CPU |-> {}]
    /\ online \in (SUBSET CPU) \ {{}}
    /\ "up" \notin Hotplug => online = CPU
    /\ victim = None
    /\ reading = {}
    /\ pre = [x \in Cb |-> {}]
    /\ pc = [p \in Thread |-> "off"]
    /\ ret = [p \in Thread |-> "off"]

Goto(p, l) == pc' = [pc EXCEPT ![p] = l]

-----------------------------------------------------------------------------
(* What the CPUs do outside the RCU core *)

\* Process or interrupt code runs on c: its tasklet is not in the middle of a
\* run (softirqs are not preempted).
CanRun(c) == c \in online /\ pc[c] \in {"off", "run"}

\* rcu_read_lock, outermost.
ReadLock(c) ==
    /\ CanRun(c) /\ c \notin reading
    /\ reading' = reading \cup {c}
    /\ UNCHANGED <<ctrl, qs, lists, online, victim, pre, pc, ret>>

\* rcu_read_unlock, outermost.
ReadUnlock(c) ==
    /\ CanRun(c) /\ c \in reading
    /\ reading' = reading \ {c}
    /\ pre' = [x \in Cb |-> pre[x] \ {c}]
    /\ UNCHANGED <<ctrl, qs, lists, online, victim, pc, ret>>

\* call_rcu, with interrupts off, also from an interrupt of the tasklet.
CallRcu(c, x) ==
    /\ c \in online /\ x \notin Queued
    /\ nxtlist' = [nxtlist EXCEPT ![c] = @ \cup {x}]
    /\ pre' = [pre EXCEPT ![x] = reading]
    /\ UNCHANGED <<ctrl, qs, batch, curlist, donelist, online, victim, reading, pc, ret>>

\* schedule() on c: rcu_qsctr_inc.
ContextSwitch(c) ==
    /\ CanRun(c) /\ c \notin reading
    /\ passed_quiesc' = [passed_quiesc EXCEPT ![c] = TRUE]
    /\ UNCHANGED <<ctrl, quiescbatch, qs_pending, lists, env, pc, ret>>

\* Fault variant: new callbacks alone do not make a CPU pending.
rcu_pending_NoNew(c) ==
    \/ curlist[c] # {} /\ ~rcu_batch_before(completed, batch[c])
    \/ donelist[c] # {}
    \/ quiescbatch[c] # cur \/ qs_pending[c]

\* __rcu_pending: the tick has something to do for RCU on this CPU.
rcu_pending(c) ==
    \/ curlist[c] # {} /\ ~rcu_batch_before(completed, batch[c])
    \/ curlist[c] = {} /\ nxtlist[c] # {}
    \/ donelist[c] # {}
    \/ quiescbatch[c] # cur \/ qs_pending[c]

\* The timer tick: rcu_check_callbacks when rcu_pending; a tick from user mode
\* or the idle loop is a quiescent state.
Tick(c, user) ==
    /\ CanRun(c) /\ pc[c] = "off" /\ rcu_pending(c)
    /\ user => c \notin reading
    /\ passed_quiesc' = [passed_quiesc EXCEPT ![c] = @ \/ user]
    /\ Goto(c, "run")
    /\ UNCHANGED <<ctrl, quiescbatch, qs_pending, lists, env, ret>>

-----------------------------------------------------------------------------
(* The tasklet: __rcu_process_callbacks *)

\* The lists: a finished current list becomes done, then a new list may become
\* the current one.
ProcessLists(c) ==
    /\ pc[c] = "run" /\ c \in online
    /\ LET finished == ~rcu_batch_before(completed, batch[c])
           left     == IF finished THEN {} ELSE curlist[c]
           advance  == nxtlist[c] # {} /\ left = {}
       IN  /\ donelist' = [donelist EXCEPT ![c] = @ \cup (curlist[c] \ left)]
           /\ curlist' = [curlist EXCEPT ![c] = IF advance THEN nxtlist[c] ELSE left]
           /\ nxtlist' = [nxtlist EXCEPT ![c] = IF advance THEN {} ELSE @]
           /\ Goto(c, IF advance THEN "batch" ELSE "qs")
    /\ UNCHANGED <<ctrl, qs, batch, env, ret>>

\* rdp->batch = rcp->cur + 1
SetBatch(c) ==
    /\ pc[c] = "batch"
    /\ batch' = [batch EXCEPT ![c] = Inc(cur)]
    /\ Goto(c, "pend")
    /\ UNCHANGED <<ctrl, qs, nxtlist, curlist, donelist, env, ret>>

\* if (!rcp->next_pending)
ReadPending(c) ==
    /\ pc[c] = "pend"
    /\ Goto(c, IF next_pending THEN "qs" ELSE "start")
    /\ UNCHANGED <<ctrl, qs, lists, env, ret>>

\* Fault variant: rcu_start_batch(rcp, rsp, 0).
RequestBatch_NotRegistered(c) ==
    /\ pc[c] = "start" /\ LockFree
    /\ Goto(c, "test")
    /\ ret' = [ret EXCEPT ![c] = "qs"]
    /\ UNCHANGED <<ctrl, qs, lists, env>>

\* spin_lock; rcu_start_batch(rcp, rsp, 1) up to next_pending = 1.
RequestBatch(c) ==
    /\ pc[c] = "start" /\ LockFree
    /\ next_pending' = TRUE
    /\ Goto(c, "test")
    /\ ret' = [ret EXCEPT ![c] = "qs"]
    /\ UNCHANGED <<cur, completed, cpumask, qs, lists, env>>

\* Bound: cur does not wrap while a CPU is on its way up, which would take 2^32
\* batches.
Prompt == pc[Hp] = "up" => Inc(Inc(cur)) # quiescbatch[victim]

\* Fault variant: a batch is started while another one is running.
TestBatch_AnyTime(p) ==
    /\ pc[p] = "test"
    /\ IF next_pending
       THEN /\ Prompt
            /\ cpumask' = online
            /\ next_pending' = FALSE
            /\ Goto(p, "bump")
       ELSE /\ Goto(p, ret[p])
            /\ UNCHANGED <<cpumask, next_pending>>
    /\ UNCHANGED <<cur, completed, qs, lists, env, ret>>

\* The condition of rcu_start_batch, the mask and next_pending = 0.
TestBatch(p) ==
    /\ pc[p] = "test"
    /\ IF next_pending /\ completed = cur
       THEN /\ Prompt
            /\ cpumask' = online
            /\ next_pending' = FALSE
            /\ Goto(p, "bump")
       ELSE /\ Goto(p, ret[p])
            /\ UNCHANGED <<cpumask, next_pending>>
    /\ UNCHANGED <<cur, completed, qs, lists, env, ret>>

\* rcp->cur++; spin_unlock.
BumpBatch(p) ==
    /\ pc[p] = "bump"
    /\ cur' = Inc(cur)
    /\ Goto(p, ret[p])
    /\ UNCHANGED <<completed, next_pending, cpumask, qs, lists, env, ret>>

\* rcu_check_quiescent_state up to the lock.
CheckQuiescent(c) ==
    /\ pc[c] = "qs"
    /\ IF quiescbatch[c] # cur
       THEN Goto(c, "note") /\ UNCHANGED qs_pending
       ELSE LET report == qs_pending[c] /\ passed_quiesc[c]
            IN  /\ Goto(c, IF report THEN "quiet" ELSE "do")
                /\ qs_pending' = [qs_pending EXCEPT ![c] = @ /\ ~report]
    /\ UNCHANGED <<ctrl, quiescbatch, passed_quiesc, lists, env, ret>>

\* Fault variant: a quiescent state of an earlier period is kept.
NoteBatch_KeepsFlag(c) ==
    /\ pc[c] = "note"
    /\ qs_pending' = [qs_pending EXCEPT ![c] = TRUE]
    /\ quiescbatch' = [quiescbatch EXCEPT ![c] = cur]
    /\ Goto(c, "do")
    /\ UNCHANGED <<ctrl, passed_quiesc, lists, env, ret>>

\* A new grace period is noticed; rcp->cur is read once more.
NoteBatch(c) ==
    /\ pc[c] = "note"
    /\ qs_pending' = [qs_pending EXCEPT ![c] = TRUE]
    /\ passed_quiesc' = [passed_quiesc EXCEPT ![c] = FALSE]
    /\ quiescbatch' = [quiescbatch EXCEPT ![c] = cur]
    /\ Goto(c, "do")
    /\ UNCHANGED <<ctrl, lists, env, ret>>

\* cpu_quiet of CPU c by thread p, which goes on at l.
cpu_quiet(p, c, l) ==
    /\ cpumask' = cpumask \ {c}
    /\ completed' = IF cpumask' = {} THEN cur ELSE completed
    /\ Goto(p, IF cpumask' = {} THEN "test" ELSE l)
    /\ ret' = [ret EXCEPT ![p] = l]

\* spin_lock; the quiescent state is reported, unless cur has moved on.
ReportQuiescent(c) ==
    /\ pc[c] = "quiet" /\ LockFree
    /\ IF quiescbatch[c] = cur
       THEN cpu_quiet(c, c, "do")
       ELSE Goto(c, "do") /\ UNCHANGED <<cpumask, completed, ret>>
    /\ UNCHANGED <<cur, next_pending, qs, lists, env>>

\* rcu_do_batch: at most maxbatch callbacks are invoked; if some are left the
\* tasklet is scheduled again.
DoBatch(c) ==
    /\ pc[c] = "do"
    /\ \E done \in kSubset(Min({MaxBatch, Cardinality(donelist[c])}), donelist[c]) :
          /\ donelist' = [donelist EXCEPT ![c] = @ \ done]
          /\ pre' = [x \in Cb |-> IF x \in done THEN {} ELSE pre[x]]
          /\ Goto(c, IF done = donelist[c] THEN "off" ELSE "run")
    /\ UNCHANGED <<ctrl, qs, batch, nxtlist, curlist, online, victim, reading, ret>>

-----------------------------------------------------------------------------
(* CPU hotplug *)

\* stop_machine has taken c down: it is out of cpu_online_map, runs nothing.
CpuDown(c) ==
    /\ "down" \in Hotplug /\ pc[Hp] = "off"
    /\ CanRun(c) /\ c \notin reading /\ online # {c}
    /\ online' = online \ {c}
    /\ victim' = c
    /\ Goto(Hp, "dead")
    /\ UNCHANGED <<ctrl, qs, lists, reading, pre, ret>>

\* Fault variant: nobody reports for the dead CPU.
OfflineQuiet_Skips ==
    /\ pc[Hp] = "dead" /\ LockFree
    /\ Goto(Hp, "move")
    /\ UNCHANGED <<ctrl, qs, lists, env, ret>>

\* CPU_DEAD: __rcu_offline_cpu reports the quiescent state of the dead CPU.
OfflineQuiet ==
    /\ pc[Hp] = "dead" /\ LockFree
    /\ IF cur # completed
       THEN cpu_quiet(Hp, victim, "move")
       ELSE Goto(Hp, "move") /\ UNCHANGED <<cpumask, completed, ret>>
    /\ UNCHANGED <<cur, next_pending, qs, lists, env>>

\* Fault variant: only the current list is moved.
OfflineMove_OnlyCur(c) ==
    /\ pc[Hp] = "move" /\ c \in online
    /\ nxtlist' = [nxtlist EXCEPT ![c] = @ \cup curlist[victim]]
    /\ curlist' = [curlist EXCEPT ![victim] = {}]
    /\ pc' = [pc EXCEPT ![Hp] = "off", ![victim] = "off"]
    /\ victim' = None
    /\ UNCHANGED <<ctrl, qs, batch, donelist, online, reading, pre, ret>>

\* rcu_move_batch of curlist and of nxtlist to the CPU the notifier runs on;
\* tasklet_kill_immediate.  donelist stays behind.
OfflineMove(c) ==
    /\ pc[Hp] = "move" /\ c \in online
    /\ nxtlist' = [nxtlist EXCEPT ![c] = @ \cup curlist[victim] \cup nxtlist[victim],
                                  ![victim] = {}]
    /\ curlist' = [curlist EXCEPT ![victim] = {}]
    /\ pc' = [pc EXCEPT ![Hp] = "off", ![victim] = "off"]
    /\ victim' = None
    /\ UNCHANGED <<ctrl, qs, batch, donelist, online, reading, pre, ret>>

\* CPU_UP_PREPARE: rcu_online_cpu clears the rcu_data of c.
CpuUpPrepare(c) ==
    /\ "up" \in Hotplug /\ pc[Hp] = "off" /\ c \notin online
    /\ quiescbatch' = [quiescbatch EXCEPT ![c] = completed]
    /\ passed_quiesc' = [passed_quiesc EXCEPT ![c] = FALSE]
    /\ qs_pending' = [qs_pending EXCEPT ![c] = FALSE]
    /\ batch' = [batch EXCEPT ![c] = 0]
    /\ nxtlist' = [nxtlist EXCEPT ![c] = {}] /\ curlist' = [curlist EXCEPT ![c] = {}]
    /\ donelist' = [donelist EXCEPT ![c] = {}]
    /\ victim' = c
    /\ Goto(Hp, "up")
    /\ UNCHANGED <<ctrl, online, reading, pre, ret>>

CpuUp ==
    /\ pc[Hp] = "up"
    /\ online' = online \cup {victim}
    /\ victim' = None
    /\ Goto(Hp, "off")
    /\ UNCHANGED <<ctrl, qs, lists, reading, pre, ret>>

-----------------------------------------------------------------------------

Tasklet(c) ==
    \/ ProcessLists(c) \/ SetBatch(c) \/ ReadPending(c) \/ RequestBatch(c)
    \/ CheckQuiescent(c) \/ NoteBatch(c) \/ ReportQuiescent(c) \/ DoBatch(c)

StartBatch(p) == TestBatch(p) \/ BumpBatch(p)

HotplugNext ==
    \/ OfflineQuiet \/ CpuUp
    \/ \E c \in CPU : CpuDown(c) \/ OfflineMove(c) \/ CpuUpPrepare(c)

Next ==
    \/ \E c \in CPU :
          \/ ReadLock(c) \/ ReadUnlock(c) \/ ContextSwitch(c) \/ Tasklet(c)
          \/ \E x \in Cb : CallRcu(c, x)
          \/ \E user \in BOOLEAN : Tick(c, user)
    \/ \E p \in Thread : StartBatch(p)
    \/ HotplugNext

Spec == Init /\ [][Next]_vars

\* Ticks keep coming, tasklets run to their end, a CPU that is brought up comes
\* up.  Read-side critical sections are finite and every CPU goes through a
\* context switch, or ticks in user mode, now and then.
FairSpec ==
    /\ Spec
    /\ \A c \in CPU :
          /\ WF_vars(Tick(c, FALSE)) /\ SF_vars(Tasklet(c))
          /\ []<>(c \notin reading) /\ []<>(c \in online => passed_quiesc[c])
    /\ \A p \in Thread : WF_vars(StartBatch(p))
    /\ WF_vars(CpuUp)

-----------------------------------------------------------------------------
(* Properties *)

Batches == 0..BatchMod - 1

\* Batch numbers stay in range; completed is cur or the number before it.
TypeOK ==
    /\ cur \in Batches /\ completed \in Batches
    /\ cur = completed \/ cur = Inc(completed)
    /\ next_pending \in BOOLEAN
    /\ cpumask \subseteq CPU
    /\ quiescbatch \in [CPU -> Batches] /\ batch \in [CPU -> Batches]
    /\ passed_quiesc \in [CPU -> BOOLEAN] /\ qs_pending \in [CPU -> BOOLEAN]
    /\ nxtlist \in [CPU -> SUBSET Cb] /\ curlist \in [CPU -> SUBSET Cb]
    /\ donelist \in [CPU -> SUBSET Cb]
    /\ online \in SUBSET CPU /\ reading \subseteq online
    /\ victim \in CPU \cup {None}
    /\ pre \in [Cb -> SUBSET CPU]
    /\ pc \in [Thread -> PC]

\* The grace period: a callback is put on a done list, from which it is
\* invoked, only when every read-side critical section that was running when
\* call_rcu was called has ended.
GracePeriod == \A c \in CPU : \A x \in donelist[c] : pre[x] = {}

\* A batch that callbacks wait for will run: it is over, or running, or
\* requested (next_pending), or being started, or the CPU is still on its way
\* to request it.  It is what the order of next_pending = 0 and cur++ against
\* the reads of cur and next_pending is for.
BatchRequested ==
    \A c \in online : (curlist[c] # {} /\ pc[c] # "batch") =>
        \/ ~rcu_batch_before(cur, batch[c])
        \/ /\ batch[c] = Inc(cur)
           /\ \/ next_pending
              \/ pc[c] \in {"pend", "start"}
              \/ \E p \in Thread : pc[p] = "bump"

\* The grace period in progress waits for some CPU that is online or whose
\* death is being handled: it can end.
MaskIsAlive ==
    /\ cur # completed => cpumask # {}
    /\ cpumask \subseteq online \cup {victim}

\* Every callback that was queued is invoked.
CallbacksInvoked == \A x \in Cb : (x \in Queued) ~> (x \notin Queued)

\* A callback that still waits for its grace period is never left on a CPU that
\* is gone: the lists of a dead CPU reach one that is online, whatever its
\* tasklet was in the middle of, and a CPU that comes up starts with none.
WaitingNotOrphaned ==
    \A c \in CPU : (nxtlist[c] \cup curlist[c] # {}) => c \in online \cup {victim}
==============================================================================
