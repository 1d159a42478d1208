------------------------------- MODULE Tasklet -------------------------------
(***************************************************************************)
(* Softirqs and tasklets: kernel/softirq.c and include/linux/interrupt.h.  *)
(*                                                                         *)
(* Of the softirqs only those that run tasklets are modelled (HI_SOFTIRQ   *)
(* and TASKLET_SOFTIRQ, whose actions have the same body); a per-CPU list  *)
(* is touched by its own CPU only, with interrupts off, so each such       *)
(* section is one step.  The two bits of t->state and t->count are shared  *)
(* by all CPUs and every access to them is a step of its own.  On one CPU  *)
(* an interrupt handler runs before anything it interrupted, and a softirq *)
(* or a section with bottom halves disabled is not preempted.  CPUs may go *)
(* down, which hands their tasklets over, and come up.                     *)
(***************************************************************************)
EXTENDS Integers, Sequences, FiniteSets, SequencesExt, FiniteSetsExt

CONSTANTS CPU,         \* the CPUs, all online at first
          Tasklet,     \* the tasklet_structs
          Vec,         \* the softirq numbers used, HI_SOFTIRQ the smallest
          VecOf,       \* the softirq of each tasklet (tasklet_schedule or _hi_)
          Ctl,         \* threads that disable, enable and kill tasklets
          MaxRestart,  \* MAX_SOFTIRQ_RESTART
          Hotplug      \* which operations may happen: "down", "up"

ASSUME SetAssumption == IsFiniteSet(CPU) /\ IsFiniteSet(Tasklet) /\ IsFiniteSet(Ctl)
ASSUME VecAssumption == Vec \subseteq Nat /\ Vec # {} /\ VecOf \in [Tasklet -> Vec]
ASSUME RestartAssumption == MaxRestart \in Nat \ {0}
ASSUME HotplugAssumption == Hotplug \subseteq {"down", "up"}

VARIABLES sched,    \* TASKLET_STATE_SCHED
          run,      \* TASKLET_STATE_RUN
          count,    \* t->count
          calls,    \* tasklet_schedule calls between test_and_set_bit and the list
          list,     \* tasklet_vec and tasklet_hi_vec of each CPU
          pend,     \* local_softirq_pending of each CPU
          irq,      \* an interrupt handler is running on the CPU
          bh,       \* a task on the CPU has called local_bh_disable
          soft,     \* the progress of __do_softirq on each CPU
          kpc,      \* where ksoftirqd of each CPU is
          kstate,   \* its scheduler state
          ctl,      \* what each thread of Ctl is doing
          life      \* of each CPU, as far as cpu_down and cpu_up have got

vars == <<sched, run, count, calls, list, pend, irq, bh, soft, kpc, kstate, ctl, life>>

\* Where tasklet_schedule is called from: an interrupt handler, a tasklet
\* function, or a task.
Context == {"irq", "soft", "task"}
Call == Tasklet \X CPU \X Context

\* __do_softirq: "scan": looking for the next bit of the mask; "walk": at the
\* loop test of tasklet_action; "locked": tasklet_trylock has succeeded for the
\* tasklet at hand; "run": in its function; "put": about to put it back.
SoftStages == {"none", "scan", "walk", "locked", "run", "put"}
Soft == [stage : SoftStages, mask : SUBSET Vec, left : 0..MaxRestart,
         vec : Vec, todo : Seq(Tasklet)]
NoSoft == [stage |-> "none", mask |-> {}, left |-> 0, vec |-> Min(Vec), todo |-> <<>>]

\* "wait"/"off": tasklet_disable waits for RUN, has returned; "spin"/"unlock"/
\* "clear": tasklet_kill waits for SCHED, for RUN, is about to clear SCHED.
CtlStages == {"idle", "wait", "off", "spin", "unlock", "clear"}

\* A CPU that has stopped is "dead" until its CPU_DEAD notifiers have run, "off"
\* until CPU_UP_PREPARE, and "prepared" until it starts.
Lives == {"up", "dead", "off", "prepared"}

TypeOK ==
    /\ sched \in [Tasklet -> BOOLEAN]
    /\ run \in [Tasklet -> BOOLEAN]
    /\ count \in [Tasklet -> 0..Cardinality(Ctl)]
    /\ calls \in SUBSET Call
    /\ list \in [CPU -> [Vec -> Seq(Tasklet)]]
    /\ pend \in [CPU -> SUBSET Vec]
    /\ irq \in [CPU -> BOOLEAN]
    /\ bh \in [CPU -> BOOLEAN]
    /\ soft \in [CPU -> Soft]
    /\ kpc \in [CPU -> {"none", "set", "check", "sleep", "loop"}]
    /\ kstate \in [CPU -> {"RUNNING", "INTERRUPTIBLE"}]
    /\ ctl \in [Ctl -> [stage : CtlStages, on : Tasklet]]
    /\ life \in [CPU -> Lives]

\* tasklet_init for every tasklet; ksoftirqd of every CPU has been started.
Init ==
    /\ sched = [t \in Tasklet |-> FALSE]
    /\ run = [t \in Tasklet |-> FALSE]
    /\ count = [t \in Tasklet |-> 0]
    /\ calls = {}
    /\ list = [c \in CPU |-> [v \in Vec |-> <<>>]]
    /\ pend = [c \in CPU |-> {}]
    /\ irq = [c \in CPU |-> FALSE]
    /\ bh = [c \in CPU |-> FALSE]
    /\ soft = [c \in CPU |-> NoSoft]
    /\ kpc = [c \in CPU |-> "set"]
    /\ kstate = [c \in CPU |-> "RUNNING"]
    /\ ctl \in [Ctl -> {[stage |-> "idle", on |-> t] : t \in Tasklet}]
    /\ life = [c \in CPU |-> "up"]

-----------------------------------------------------------------------------
(* Contexts *)

Online(c) == life[c] = "up"

\* The tasks of CPU c run: no interrupt handler, no softirq.
TaskLevel(c) == Online(c) /\ ~irq[c] /\ soft[c].stage = "none"

\* The softirq code of CPU c runs.
SoftLevel(c) == ~irq[c] /\ soft[c].stage # "none"

\* in_interrupt(), seen by a task.
InInterrupt(c) == irq[c] \/ bh[c] \/ soft[c].stage # "none"

\* The tasklet that the softirq of CPU c has in hand.
Current(c) == Head(soft[c].todo)

Executing(t) == {c \in CPU : soft[c].stage = "run" /\ Current(c) = t}

-----------------------------------------------------------------------------
(* Scheduling a tasklet *)

\* tasklet_schedule, tasklet_hi_schedule: test_and_set_bit.  A call by an
\* interrupt handler is also the arrival of the interrupt.
Schedule(t, c, x) ==
    /\ ~sched[t]
    /\ Online(c) /\ ~irq[c]
    /\ x = "soft" => soft[c].stage = "run" /\ \A u \in Tasklet : <<u, c, "soft">> \notin calls
    /\ x = "task" => TaskLevel(c)
    /\ sched' = [sched EXCEPT ![t] = TRUE]
    /\ calls' = calls \cup {<<t, c, x>>}
    /\ irq' = [irq EXCEPT ![c] = (x = "irq")]
    /\ UNCHANGED <<run, count, list, pend, bh, soft, kpc, kstate, ctl, life>>

\* wakeup_softirqd.
WakeupSoftirqd(c) == kstate' = [kstate EXCEPT ![c] = "RUNNING"]

\* raise_softirq_irqoff.
RaiseSoftirq(c, v) ==
    /\ pend' = [pend EXCEPT ![c] = @ \cup {v}]
    /\ IF InInterrupt(c) THEN UNCHANGED kstate ELSE WakeupSoftirqd(c)

\* __tasklet_schedule, __tasklet_hi_schedule, with interrupts off.
DoSchedule(t, c, x) ==
    /\ <<t, c, x>> \in calls
    /\ x # "irq" => ~irq[c]
    /\ x = "task" => TaskLevel(c)
    /\ calls' = calls \ {<<t, c, x>>}
    /\ list' = [list EXCEPT ![c][VecOf[t]] = <<t>> \o @]
    /\ RaiseSoftirq(c, VecOf[t])
    /\ UNCHANGED <<sched, run, count, irq, bh, soft, kpc, ctl, life>>

-----------------------------------------------------------------------------
(* __do_softirq *)

\* do_softirq if there is something to do: the mask is copied and reset.
EnterSoftirq(c) ==
    IF pend[c] = {}
    THEN UNCHANGED <<soft, pend>>
    ELSE /\ soft' = [soft EXCEPT ![c] = [NoSoft EXCEPT !.stage = "scan", !.mask = pend[c],
                                                       !.left = MaxRestart]]
         /\ pend' = [pend EXCEPT ![c] = {}]

\* irq_exit: process softirqs unless the interrupt hit a softirq or a section
\* with bottom halves disabled.
IrqExit(c) ==
    /\ irq[c] /\ \A t \in Tasklet : <<t, c, "irq">> \notin calls
    /\ irq' = [irq EXCEPT ![c] = FALSE]
    /\ IF bh[c] \/ soft[c].stage # "none" THEN UNCHANGED <<soft, pend>> ELSE EnterSoftirq(c)
    /\ UNCHANGED <<sched, run, count, calls, list, bh, kpc, kstate, ctl, life>>

LocalBhDisable(c) ==
    /\ TaskLevel(c) /\ ~bh[c]
    /\ bh' = [bh EXCEPT ![c] = TRUE]
    /\ UNCHANGED <<sched, run, count, calls, list, pend, irq, soft, kpc, kstate, ctl, life>>

LocalBhEnable(c) ==
    /\ TaskLevel(c) /\ bh[c]
    /\ bh' = [bh EXCEPT ![c] = FALSE]
    /\ EnterSoftirq(c)
    /\ UNCHANGED <<sched, run, count, calls, list, irq, kpc, kstate, ctl, life>>

\* The next bit of the mask: tasklet_action or tasklet_hi_action takes the list.
SoftAction(c) ==
    /\ SoftLevel(c) /\ soft[c].stage = "scan" /\ soft[c].mask # {}
    /\ LET v == Min(soft[c].mask)
       IN  /\ soft' = [soft EXCEPT ![c].stage = "walk", ![c].mask = @ \ {v},
                                   ![c].vec = v, ![c].todo = list[c][v]]
           /\ list' = [list EXCEPT ![c][v] = <<>>]
    /\ UNCHANGED <<sched, run, count, calls, pend, irq, bh, kpc, kstate, ctl, life>>

\* Fault variant: after the last restart the rest is left to the next interrupt.
SoftEnd_NoWake(c) ==
    /\ soft' = [soft EXCEPT ![c] = NoSoft]
    /\ UNCHANGED <<pend, kstate>>

\* The restarts are used up, or nothing is pending.
SoftEnd(c) ==
    /\ soft' = [soft EXCEPT ![c] = NoSoft]
    /\ IF pend[c] # {} THEN WakeupSoftirqd(c) ELSE UNCHANGED kstate
    /\ UNCHANGED pend

SoftRestart(c) ==
    /\ soft' = [soft EXCEPT ![c].mask = pend[c], ![c].left = @ - 1]
    /\ pend' = [pend EXCEPT ![c] = {}]
    /\ UNCHANGED kstate

\* The mask is done: "if (pending && --max_restart) goto restart".
SoftNext(c) ==
    /\ SoftLevel(c) /\ soft[c].stage = "scan" /\ soft[c].mask = {}
    /\ IF pend[c] # {} /\ soft[c].left > 1 THEN SoftRestart(c) ELSE SoftEnd(c)
    /\ UNCHANGED <<sched, run, count, calls, list, irq, bh, kpc, ctl, life>>

-----------------------------------------------------------------------------
(* tasklet_action *)

WalkEnd(c) ==
    /\ SoftLevel(c) /\ soft[c].stage = "walk" /\ soft[c].todo = <<>>
    /\ soft' = [soft EXCEPT ![c].stage = "scan"]
    /\ UNCHANGED <<sched, run, count, calls, list, pend, irq, bh, kpc, kstate, ctl, life>>

\* Fault variant: SCHED alone is taken to keep the tasklet from running twice.
Trylock_Always(c) ==
    /\ SoftLevel(c) /\ soft[c].stage = "walk" /\ soft[c].todo # <<>>
    /\ soft' = [soft EXCEPT ![c].stage = "locked"]
    /\ run' = [run EXCEPT ![Current(c)] = TRUE]
    /\ UNCHANGED <<sched, count, calls, list, pend, irq, bh, kpc, kstate, ctl, life>>

\* tasklet_trylock.
Trylock(c) ==
    /\ SoftLevel(c) /\ soft[c].stage = "walk" /\ soft[c].todo # <<>>
    /\ soft' = [soft EXCEPT ![c].stage = IF run[Current(c)] THEN "put" ELSE "locked"]
    /\ run' = [run EXCEPT ![Current(c)] = TRUE]
    /\ UNCHANGED <<sched, count, calls, list, pend, irq, bh, kpc, kstate, ctl, life>>

\* t->count is zero: clear SCHED (or BUG) and call the function; else unlock.
TestCount(c) ==
    /\ SoftLevel(c) /\ soft[c].stage = "locked"
    /\ IF count[Current(c)] = 0
       THEN /\ sched' = [sched EXCEPT ![Current(c)] = FALSE]
            /\ soft' = [soft EXCEPT ![c].stage = "run"]
            /\ UNCHANGED run
       ELSE /\ run' = [run EXCEPT ![Current(c)] = FALSE]
            /\ soft' = [soft EXCEPT ![c].stage = "put"]
            /\ UNCHANGED sched
    /\ UNCHANGED <<count, calls, list, pend, irq, bh, kpc, kstate, ctl, life>>

\* The function returns; tasklet_unlock.
FuncReturn(c) ==
    /\ SoftLevel(c) /\ soft[c].stage = "run"
    /\ \A t \in Tasklet : <<t, c, "soft">> \notin calls
    /\ run' = [run EXCEPT ![Current(c)] = FALSE]
    /\ soft' = [soft EXCEPT ![c].stage = "walk", ![c].todo = Tail(@)]
    /\ UNCHANGED <<sched, count, calls, list, pend, irq, bh, kpc, kstate, ctl, life>>

\* Fault variant: the tasklet is put back but the softirq is not raised again.
PutBack_NoRaise(c) ==
    /\ SoftLevel(c) /\ soft[c].stage = "put"
    /\ list' = [list EXCEPT ![c][soft[c].vec] = <<Current(c)>> \o @]
    /\ soft' = [soft EXCEPT ![c].stage = "walk", ![c].todo = Tail(@)]
    /\ UNCHANGED <<sched, run, count, calls, pend, irq, bh, kpc, kstate, ctl, life>>

\* The tasklet runs elsewhere or is disabled: back on the list, raised again.
PutBack(c) ==
    /\ SoftLevel(c) /\ soft[c].stage = "put"
    /\ list' = [list EXCEPT ![c][soft[c].vec] = <<Current(c)>> \o @]
    /\ pend' = [pend EXCEPT ![c] = @ \cup {soft[c].vec}]
    /\ soft' = [soft EXCEPT ![c].stage = "walk", ![c].todo = Tail(@)]
    /\ UNCHANGED <<sched, run, count, calls, irq, bh, kpc, kstate, ctl, life>>

-----------------------------------------------------------------------------
(* ksoftirqd *)

\* The thread of CPU c can run: it is a task among others.
KRuns(c) == TaskLevel(c) /\ ~bh[c]

\* set_current_state(TASK_INTERRUPTIBLE).
KSet(c) ==
    /\ KRuns(c) /\ kpc[c] = "set"
    /\ kstate' = [kstate EXCEPT ![c] = "INTERRUPTIBLE"]
    /\ kpc' = [kpc EXCEPT ![c] = "check"]
    /\ UNCHANGED <<sched, run, count, calls, list, pend, irq, bh, soft, ctl, life>>

\* "if (!local_softirq_pending()) schedule()".
KCheck(c) ==
    /\ KRuns(c) /\ kpc[c] = "check"
    /\ kpc' = [kpc EXCEPT ![c] = IF pend[c] = {} THEN "sleep" ELSE "loop"]
    /\ kstate' = IF pend[c] = {} THEN kstate ELSE [kstate EXCEPT ![c] = "RUNNING"]
    /\ UNCHANGED <<sched, run, count, calls, list, pend, irq, bh, soft, ctl, life>>

KWakes(c) ==
    /\ KRuns(c) /\ kpc[c] = "sleep" /\ kstate[c] = "RUNNING"
    /\ kpc' = [kpc EXCEPT ![c] = "loop"]
    /\ UNCHANGED <<sched, run, count, calls, list, pend, irq, bh, soft, kstate, ctl, life>>

\* "while (local_softirq_pending()) do_softirq()".
KLoop(c) ==
    /\ KRuns(c) /\ kpc[c] = "loop"
    /\ EnterSoftirq(c)
    /\ kpc' = IF pend[c] = {} THEN [kpc EXCEPT ![c] = "set"] ELSE kpc
    /\ UNCHANGED <<sched, run, count, calls, list, irq, bh, kstate, ctl, life>>

-----------------------------------------------------------------------------
(* Disabling and killing *)

\* tasklet_disable: the increment ...
Disable(a, t) ==
    /\ ctl[a].stage = "idle"
    /\ count' = [count EXCEPT ![t] = @ + 1]
    /\ ctl' = [ctl EXCEPT ![a] = [stage |-> "wait", on |-> t]]
    /\ UNCHANGED <<sched, run, calls, list, pend, irq, bh, soft, kpc, kstate, life>>

\* Fault variant: tasklet_disable_nosync in place of tasklet_disable.
DisableWait_NoWait(a) ==
    /\ ctl[a].stage = "wait"
    /\ ctl' = [ctl EXCEPT ![a].stage = "off"]
    /\ UNCHANGED <<sched, run, count, calls, list, pend, irq, bh, soft, kpc, kstate, life>>

\* ... and tasklet_unlock_wait.
DisableWait(a) ==
    /\ ctl[a].stage = "wait" /\ ~run[ctl[a].on]
    /\ ctl' = [ctl EXCEPT ![a].stage = "off"]
    /\ UNCHANGED <<sched, run, count, calls, list, pend, irq, bh, soft, kpc, kstate, life>>

\* Fault variant: the disabled count is dropped twice.
Enable_Twice(a) ==
    /\ ctl[a].stage = "off"
    /\ count' = [count EXCEPT ![ctl[a].on] = @ - 2]
    /\ ctl' = [ctl EXCEPT ![a].stage = "idle"]
    /\ UNCHANGED <<sched, run, calls, list, pend, irq, bh, soft, kpc, kstate, life>>

\* tasklet_enable, tasklet_hi_enable.
Enable(a) ==
    /\ ctl[a].stage = "off"
    /\ count' = [count EXCEPT ![ctl[a].on] = @ - 1]
    /\ ctl' = [ctl EXCEPT ![a].stage = "idle"]
    /\ UNCHANGED <<sched, run, calls, list, pend, irq, bh, soft, kpc, kstate, life>>

\* tasklet_kill: test_and_set_bit until the bit was clear ...
Kill(a, t) ==
    /\ \/ ctl[a].stage = "idle"
       \/ ctl[a].stage = "spin" /\ ctl[a].on = t /\ ~sched[t]
    /\ sched' = [sched EXCEPT ![t] = TRUE]
    /\ ctl' = [ctl EXCEPT ![a] = [stage |-> IF sched[t] THEN "spin" ELSE "unlock", on |-> t]]
    /\ UNCHANGED <<run, count, calls, list, pend, irq, bh, soft, kpc, kstate, life>>

\* ... tasklet_unlock_wait ...
KillWait(a) ==
    /\ ctl[a].stage = "unlock" /\ ~run[ctl[a].on]
    /\ ctl' = [ctl EXCEPT ![a].stage = "clear"]
    /\ UNCHANGED <<sched, run, count, calls, list, pend, irq, bh, soft, kpc, kstate, life>>

\* ... clear_bit.
KillClear(a) ==
    /\ ctl[a].stage = "clear"
    /\ sched' = [sched EXCEPT ![ctl[a].on] = FALSE]
    /\ ctl' = [ctl EXCEPT ![a].stage = "idle"]
    /\ UNCHANGED <<run, count, calls, list, pend, irq, bh, soft, kpc, kstate, life>>

-----------------------------------------------------------------------------
(* CPU hotplug, one operation at a time (cpucontrol) *)

\* No operation is in progress.
HotplugIdle == \A c \in CPU : life[c] \in {"up", "off"}

SetLife(c, l) == life' = [life EXCEPT ![c] = l]
Rest == UNCHANGED <<sched, run, count, irq, bh, soft, ctl>>

\* stop_machine has got hold of CPU c at task level, outside bottom-half sections,
\* and the CPU dies in its idle task.  Softirqs may be pending on it.
CpuDown(c) ==
    /\ "down" \in Hotplug /\ HotplugIdle
    /\ \E d \in CPU \ {c} : Online(d)
    /\ TaskLevel(c) /\ ~bh[c]
    /\ SetLife(c, "dead")
    /\ UNCHANGED <<calls, list, pend, kpc, kstate>> /\ Rest

\* migrate_live_tasks, the first CPU_DEAD notifier: a task inside tasklet_schedule
\* goes on on CPU n.
MigrateTask(t, c, n) ==
    /\ life[c] = "dead" /\ Online(n) /\ <<t, c, "task">> \in calls
    /\ calls' = (calls \ {<<t, c, "task">>}) \cup {<<t, n, "task">>}
    /\ UNCHANGED <<list, pend, kpc, kstate, life>> /\ Rest

\* Fault variant: the list of the dead CPU is not emptied.
TakeOver_KeepsList(c, n) ==
    /\ life[c] \in {"dead", "prepared"} /\ \A t \in Tasklet : <<t, c, "task">> \notin calls
    /\ n # c /\ TaskLevel(n) /\ ~bh[n]
    /\ list' = [list EXCEPT ![n] = [v \in Vec |-> list[n][v] \o list[c][v]]]
    /\ pend' = [pend EXCEPT ![n] = Vec]
    /\ kpc' = [kpc EXCEPT ![c] = "none"]
    /\ kstate' = [kstate EXCEPT ![n] = "RUNNING"]
    /\ SetLife(c, "off")
    /\ UNCHANGED calls /\ Rest

\* CPU_DEAD or CPU_UP_CANCELED, by a task on CPU n: kthread_stop of ksoftirqd
\* (which off its CPU leaves softirqs alone), then takeover_tasklets.
TakeOver(c, n) ==
    /\ life[c] \in {"dead", "prepared"} /\ \A t \in Tasklet : <<t, c, "task">> \notin calls
    /\ n # c /\ TaskLevel(n) /\ ~bh[n]
    /\ list' = [list EXCEPT ![n] = [v \in Vec |-> list[n][v] \o list[c][v]],
                            ![c] = [v \in Vec |-> <<>>]]
    /\ pend' = [pend EXCEPT ![n] = Vec]
    /\ kpc' = [kpc EXCEPT ![c] = "none"]
    /\ kstate' = [kstate EXCEPT ![n] = "RUNNING"]
    /\ SetLife(c, "off")
    /\ UNCHANGED calls /\ Rest

\* CPU_UP_PREPARE: kthread_create makes a ksoftirqd.  It counts as runnable at
\* once: CPU_ONLINE will wake it, and it runs on this CPU only.
CpuUpPrepare(c) ==
    /\ "up" \in Hotplug /\ HotplugIdle /\ life[c] = "off"
    /\ kpc' = [kpc EXCEPT ![c] = "set"]
    /\ kstate' = [kstate EXCEPT ![c] = "RUNNING"]
    /\ SetLife(c, "prepared")
    /\ UNCHANGED <<calls, list, pend>> /\ Rest

\* __cpu_up.
CpuUp(c) ==
    /\ life[c] = "prepared"
    /\ SetLife(c, "up")
    /\ UNCHANGED <<calls, list, pend, kpc, kstate>> /\ Rest

\* CPU_ONLINE: wake_up_process.  A softirq may have started the thread before, and
\* it may be asleep again; when that is does not matter.
CpuOnline(c) ==
    /\ "up" \in Hotplug /\ Online(c) /\ kstate[c] = "INTERRUPTIBLE"
    /\ WakeupSoftirqd(c)
    /\ UNCHANGED <<calls, list, pend, kpc, life>> /\ Rest

-----------------------------------------------------------------------------

Softirq(c) ==
    \/ SoftAction(c) \/ SoftNext(c) \/ WalkEnd(c) \/ Trylock(c) \/ TestCount(c)
    \/ FuncReturn(c) \/ PutBack(c)

Ksoftirqd(c) == KSet(c) \/ KCheck(c) \/ KWakes(c) \/ KLoop(c)

HotplugStep(c) ==
    \/ CpuDown(c) \/ CpuUpPrepare(c) \/ CpuUp(c) \/ CpuOnline(c)
    \/ \E n \in CPU : TakeOver(c, n) \/ \E t \in Tasklet : MigrateTask(t, c, n)

Control(a) == DisableWait(a) \/ Enable(a) \/ KillWait(a) \/ KillClear(a)

Next ==
    \/ \E t \in Tasklet, c \in CPU, x \in Context : Schedule(t, c, x) \/ DoSchedule(t, c, x)
    \/ \E c \in CPU : \/ IrqExit(c) \/ LocalBhDisable(c) \/ LocalBhEnable(c)
                      \/ Softirq(c) \/ Ksoftirqd(c) \/ HotplugStep(c)
    \/ \E a \in Ctl, t \in Tasklet : Disable(a, t) \/ Kill(a, t)
    \/ \E a \in Ctl : Control(a)

Spec == Init /\ [][Next]_vars

\* The levels of a CPU: an interrupt handler, a softirq, the tasks inside
\* tasklet_schedule, and those that end a bottom-half section or are ksoftirqd.
IrqStep(c) == IrqExit(c) \/ \E t \in Tasklet : DoSchedule(t, c, "irq")
TaskStep(c) == LocalBhEnable(c) \/ Ksoftirqd(c)

\* Handlers, functions and sections end and each call in progress goes on (a
\* tasklet has at most one: SCHED).
\* Interrupts do not take all of a CPU's time from the levels below them, nor
\* other tasks from a task, and a function does not schedule tasklets for ever
\* (strong fairness); nobody has to schedule a tasklet, and no further interrupt
\* has to come.
FairSpec ==
    /\ Spec
    /\ \A c \in CPU : WF_vars(IrqStep(c)) /\ SF_vars(Softirq(c)) /\ SF_vars(TaskStep(c))
    /\ \A t \in Tasklet : SF_vars(\E c \in CPU, x \in {"soft", "task"} : DoSchedule(t, c, x))

-----------------------------------------------------------------------------
(* Properties *)

\* "Tasklet is strictly serialized wrt itself": its function runs on one CPU at
\* most, although SCHED is cleared, and the tasklet may be queued on another
\* CPU, before the function starts.
Serialized == \A t \in Tasklet : \A c, d \in Executing(t) : c = d

\* The places a tasklet with SCHED set can be.
Holders(t) ==
    {k \in calls : k[1] = t}
    \cup (UNION {{<<c, "list", v, i>> : i \in {j \in DOMAIN list[c][v] : list[c][v][j] = t}} :
                   c \in CPU, v \in Vec})
    \cup (UNION {{<<c, "todo", soft[c].vec, i>> : i \in {j \in DOMAIN soft[c].todo :
                      soft[c].todo[j] = t /\ ~(j = 1 /\ soft[c].stage = "run")}} : c \in CPU})
    \cup {<<a, "kill">> : a \in {b \in Ctl : ctl[b].on = t /\ ctl[b].stage \in {"unlock", "clear"}}}

\* SCHED is set exactly while one party holds the tasklet: it is never linked on
\* two lists (t->next exists once), tasklet_action never finds the bit clear
\* (its BUG()), and the bit is never left set for a tasklet that nobody will run,
\* which would make every later tasklet_schedule a no-op.
SchedOwned == \A t \in Tasklet : Cardinality(Holders(t)) = IF sched[t] THEN 1 ELSE 0

\* tasklet_disable and tasklet_kill are synchronous: between the return of
\* tasklet_disable and tasklet_enable, and when tasklet_kill has done its waits,
\* the function does not run, and a killed tasklet is on no list.
Quiesced ==
    \A a \in Ctl :
        /\ ctl[a].stage \in {"off", "clear"} => Executing(ctl[a].on) = {}
        /\ ctl[a].stage = "clear" =>
              \A c \in CPU : \A v \in Vec : ~Contains(list[c][v], ctl[a].on)

\* A tasklet on a list is not forgotten: its softirq is pending or about to be
\* processed, and a pending softirq has a context that will look at it without
\* another interrupt: a handler or softirq to return from, a bottom-half section
\* to leave, or a ksoftirqd that is not asleep.  A CPU whose tasklets were taken
\* over has none (BUG_ON in CPU_UP_PREPARE).
NotForgotten ==
    \A c \in CPU :
        /\ \A v \in Vec : list[c][v] # <<>> =>
              v \in pend[c] \cup soft[c].mask /\ life[c] \notin {"off", "prepared"}
        /\ Online(c) /\ pend[c] # {} =>
              InInterrupt(c) \/ kstate[c] = "RUNNING" \/ kpc[c] \in {"set", "check", "loop"}

\* "If tasklet_schedule() is called, then tasklet is guaranteed to be executed on
\* some cpu at least once after this", with no interrupt needed to get there, and
\* also if its CPU goes down: provided that CPUs do not come and go for ever.  It
\* runs or somebody has disabled it or is killing it.
ScheduledRuns ==
    <>[]HotplugIdle => \A t \in Tasklet :
        sched[t] ~> \/ Executing(t) # {}
                    \/ \E a \in Ctl : ctl[a].on = t /\ ctl[a].stage # "idle"
==============================================================================
