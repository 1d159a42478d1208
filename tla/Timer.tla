-------------------------------- MODULE Timer --------------------------------
(***************************************************************************)
(* Dynamic timers, kernel/timer.c: the timer wheel of each CPU (tvec_base, *)
(* with its vectors tv1, tv2, ... and the cascade between them), the timer *)
(* softirq, mod_timer, add_timer_on, del_timer and del_timer_sync, timers  *)
(* that re-arm themselves, and the migration of the timers of a dead CPU.  *)
(*                                                                         *)
(* A section under a base lock is one step, except the softirq's: it holds *)
(* the lock of its base while it is at "scan" or "take" and lets it go     *)
(* around the timer's function.  jiffies and the wheel are scaled:         *)
(* unsigned long has as many bits as the wheel covers, as on a 32-bit      *)
(* machine.                                                                *)
(***************************************************************************)
EXTENDS Integers, FiniteSetsExt

CONSTANTS
    NCPU,       \* CPUs 0 .. NCPU - 1
    Timers,     \* the timers
    Managed,    \* those that a task arms and deletes and whose function may re-arm
                \* them; the others are armed once
    None,       \* a null pointer
    TVR_BITS, TVN_BITS,
    TVN,        \* number of vectors behind tv1 (4)
    Delays,     \* timeouts, in jiffies
    MaxLag,     \* bound on the jiffies a CPU's softirq is behind
    MaxLate,    \* bound on the jiffies a pending timer is late
    Hotplug     \* the CPUs that may go down and come up

ASSUME TimerConstants ==
    /\ NCPU \in Nat \ {0} /\ TVN \in Nat \ {0} /\ MaxLag \in Nat \ {0} /\ MaxLate \in Nat
    /\ TVR_BITS \in Nat /\ TVN_BITS \in Nat \ {0}
    /\ Managed \subseteq Timers /\ Delays \subseteq Nat /\ Hotplug \subseteq 0..NCPU - 1
    /\ None \notin Timers \cup (0..NCPU - 1)

CPU == 0..NCPU - 1

VARIABLES
    jiffies,
    timer_jiffies,  \* per CPU: the next jiffy whose timers are to be run
    running,        \* per CPU: running_timer
    pc,             \* per CPU: "idle"; "scan", "take" (running_timer is set), both with
                    \* the lock held; "fn" in the timer's function, "ret" there after
                    \* it has re-armed the timer
    base,           \* per timer: the CPU whose base it is on, or None
    expires,        \* per timer; 0 while it is not pending: nobody reads it then
    slot,           \* per timer: vector and index in its base, or the work list
    task,           \* the call the task is in
    online,         \* cpu_online_map
    dead,           \* CPUs that are down and whose timers are to be migrated
    coming          \* CPUs between CPU_UP_PREPARE and the start

wheel == <<base, expires, slot>>
vars == <<jiffies, timer_jiffies, running, pc, wheel, task, online, dead, coming>>

-----------------------------------------------------------------------------
(* The wheel *)

Span(n) == 2 ^ (TVR_BITS + n * TVN_BITS)   \* jiffies that tv1 .. tv(n+1) cover
Wrap == Span(TVN)                          \* unsigned long
Sub(a, b) == (a - b) % Wrap
Negative(d) == d >= Wrap \div 2
time_after_eq(a, b) == ~Negative(Sub(a, b))

\* What the proofs use of powers of two.
ASSUME SpanAssumption ==
    /\ 2 ^ TVN_BITS \in Nat \ {0, 1}
    /\ \A n \in 0..TVN : Span(n) \in Nat \ {0}
    /\ \A n \in 1..TVN : Span(n) = Span(n - 1) * 2 ^ TVN_BITS

\* Half the range of jiffies tells the future from the past: timeouts and delays of
\* the softirq are shorter.
ASSUME RangeAssumption ==
    /\ \A d \in Delays : d + MaxLag <= Wrap \div 2
    /\ MaxLag <= MaxLate /\ MaxLate < Wrap \div 2

\* Fault variant: the index in an outer vector is not masked.
Index_NoMask(e, n) == IF n = 0 THEN e % Span(0) ELSE e \div Span(n - 1)

\* The index of jiffy e in vector n (0 is tv1).
Index(e, n) ==
    IF n = 0 THEN e % Span(0) ELSE (e \div Span(n - 1)) % (2 ^ TVN_BITS)

NoSlot == <<TVN + 2, 0>>
WorkList == <<TVN + 1, 0>>

\* Where a timer that expires at e goes in a base that has reached jiffy j: the
\* first vector that reaches e; a time in the past goes to the next bucket.
internal_add_timer(e, j) ==
    LET idx == Sub(e, j)
        n   == Min({k \in 0..TVN : idx < Span(k)})
    IN  IF n < TVN THEN <<n, Index(e, n)>>
        ELSE IF Negative(idx) THEN <<0, Index(j, 0)>>
        ELSE <<TVN, Index(e, TVN)>>

\* Fault variant: only tv2 is ever emptied into tv1.
Cascaded_OnlyFirst(j) == {<<n, Index(j, n)>> : n \in {k \in {1} : j % Span(0) = 0}}

\* The buckets whose timers cascade when the base gets to jiffy j: one of each
\* vector whose predecessors have all come round to index 0.
Cascaded(j) == {<<n, Index(j, n)>> : n \in {k \in 1..TVN : j % Span(k - 1) = 0}}

\* list_del and timer->base = NULL.
Unlink(t) ==
    /\ base' = [base EXCEPT ![t] = None]
    /\ slot' = [slot EXCEPT ![t] = NoSlot]
    /\ expires' = [expires EXCEPT ![t] = 0]

\* internal_add_timer to the base of CPU c, and timer->base.
Link(t, c, e) ==
    /\ base' = [base EXCEPT ![t] = c]
    /\ slot' = [slot EXCEPT ![t] = internal_add_timer(e, timer_jiffies[c])]
    /\ expires' = [expires EXCEPT ![t] = e]

Work(c) == {t \in Timers : base[t] = c /\ slot[t] = WorkList}

-----------------------------------------------------------------------------

\* A call: the timer, the value of timer->base it has read, the arguments new base
\* and expires of mod_timer, the CPU del_timer_sync has got to, and whether at
\* the call one CPU had the timer (alone) and the handler has not re-armed it
\* since (quiet).
Call(op, t) ==
    [op |-> op, timer |-> t, step |-> "read", base |-> None, new |-> None, expires |-> 0,
     i |-> 0, alone |-> FALSE, quiet |-> FALSE]

IdleTask == Call("idle", None)

Init ==
    /\ jiffies = 0
    /\ timer_jiffies = [c \in CPU |-> 0]
    /\ running = [c \in CPU |-> None] /\ pc = [c \in CPU |-> "idle"]
    /\ \E d \in Delays :
          /\ expires = [t \in Timers |-> IF t \in Managed THEN 0 ELSE d]
          /\ base = [t \in Timers |-> IF t \in Managed THEN None ELSE 0]
          /\ slot = [t \in Timers |-> IF t \in Managed THEN NoSlot ELSE internal_add_timer(d, 0)]
    /\ task = IdleTask
    /\ online = CPU /\ dead = {} /\ coming = {}

-----------------------------------------------------------------------------
(* The timer interrupt and the softirq *)

\* Jiffy e is not over by m jiffies or more when the next one begins.
WithinLag(e, m) == LET late == Sub(jiffies + 1, e) IN Negative(late) \/ late < m

\* do_timer.  The guards are bounds: softirqs, migration and calls of mod_timer
\* are less than MaxLag jiffies behind, and migration from one CPU to the next does
\* not put a timer off for ever.
Tick ==
    /\ \A c \in online \cup dead \cup coming : Sub(jiffies + 1, timer_jiffies[c]) < MaxLag
    /\ task.op = "mod" => WithinLag(task.expires, MaxLag)
    /\ \A t \in Timers : base[t] # None => WithinLag(expires[t], MaxLate)
    /\ jiffies' = (jiffies + 1) % Wrap
    /\ UNCHANGED <<timer_jiffies, running, pc, wheel, task, online, dead, coming>>

Due(c) == time_after_eq(jiffies, timer_jiffies[c])
SetPc(c, v) == pc' = [pc EXCEPT ![c] = v]
RunRest == UNCHANGED <<jiffies, task, online, dead, coming>>

\* run_timer_softirq, and one round of the loop of __run_timers: cascade, then
\* the bucket of this jiffy goes to the work list.
run_timers(c) ==
    LET j     == timer_jiffies[c]
        moved == [t \in Timers |-> IF base[t] = c /\ slot[t] \in Cascaded(j)
                                   THEN internal_add_timer(expires[t], j) ELSE slot[t]]
    IN  /\ c \in online /\ pc[c] \in {"idle", "scan"} /\ Work(c) = {} /\ Due(c)
        /\ timer_jiffies' = [timer_jiffies EXCEPT ![c] = (@ + 1) % Wrap]
        /\ slot' = [t \in Timers |-> IF base[t] = c /\ moved[t] = <<0, Index(j, 0)>>
                                     THEN WorkList ELSE moved[t]]
        /\ SetPc(c, "scan")
        /\ UNCHANGED <<running, base, expires>> /\ RunRest

\* Fault variant: timer->base is cleared before running_timer is set.
RunTimer_BaseFirst(c, t) ==
    /\ \/ /\ pc[c] = "scan" /\ t \in Work(c)
          /\ base' = [base EXCEPT ![t] = None]
          /\ SetPc(c, "take")
          /\ UNCHANGED <<running, slot, expires>>
       \/ /\ pc[c] = "take" /\ slot[t] = WorkList /\ base[t] = None
          /\ Unlink(t)
          /\ running' = [running EXCEPT ![c] = t]
          /\ SetPc(c, "fn")
    /\ UNCHANGED timer_jiffies /\ RunRest

\* A timer of the work list is marked as running; then timer->base is cleared, which
\* others read without the lock, and the function is called without it.
RunTimer(c, t) ==
    /\ \/ /\ pc[c] = "scan" /\ t \in Work(c)
          /\ running' = [running EXCEPT ![c] = t]
          /\ SetPc(c, "take")
          /\ UNCHANGED wheel
       \/ /\ pc[c] = "take" /\ t = running[c]
          /\ Unlink(t)
          /\ SetPc(c, "fn")
          /\ UNCHANGED running
    /\ UNCHANGED timer_jiffies /\ RunRest

\* The function returns; the lock is taken again.
FunctionReturns(c) ==
    /\ pc[c] \in {"fn", "ret"}
    /\ SetPc(c, "scan")
    /\ UNCHANGED <<timer_jiffies, running, wheel>> /\ RunRest

\* The end of __run_timers.
RunDone(c) ==
    /\ pc[c] = "scan" /\ Work(c) = {} /\ ~Due(c)
    /\ running' = [running EXCEPT ![c] = None]
    /\ SetPc(c, "idle")
    /\ UNCHANGED <<timer_jiffies, wheel>> /\ RunRest

-----------------------------------------------------------------------------
(* mod_timer *)

Locked(t) == task.op = "mod" /\ task.timer = t
Free(c) == c # None => pc[c] \notin {"scan", "take"}

\* The timer's function re-arms it.  (Since __mod_timer reads timer->base again
\* under the locks of the bases, a call is one step, but for the time it holds
\* timer->lock: that of the task's calls is modelled.)
Rearm(c, d) ==
    LET t == running[c] IN
    /\ pc[c] = "fn" /\ t \in Managed /\ ~Locked(t) /\ Free(base[t])
    /\ Link(t, c, (jiffies + d) % Wrap)
    /\ SetPc(c, "ret")
    /\ task' = [task EXCEPT !.quiet = @ /\ t # task.timer]
    /\ UNCHANGED <<jiffies, timer_jiffies, running, online, dead, coming>>

\* mod_timer by the task, on CPU c: timer->lock is taken and timer->base read.
\* (A call that finds the timer pending with the same expiry returns at once.)
mod_timer(t, c, d) ==
    LET e == (jiffies + d) % Wrap IN
    /\ task.op = "idle" /\ c \in online /\ t \in Managed
    /\ base[t] # None => expires[t] # e
    /\ task' = [Call("mod", t) EXCEPT !.base = base[t], !.new = c, !.expires = e]
    /\ UNCHANGED <<jiffies, timer_jiffies, running, pc, wheel, online, dead, coming>>

\* The locks of both bases; again if timer->base has changed, else off the old
\* base, if any, and onto the new one.
ModLock ==
    /\ task.op = "mod" /\ Free(task.new) /\ Free(task.base)
    /\ IF base[task.timer] = task.base
       THEN Link(task.timer, task.new, task.expires) /\ task' = IdleTask
       ELSE task' = [task EXCEPT !.base = base[task.timer]] /\ UNCHANGED wheel
    /\ UNCHANGED <<jiffies, timer_jiffies, running, pc, online, dead, coming>>

Runners(t) == {c \in CPU : running[c] = t /\ pc[c] \in {"fn", "ret"}}

\* add_timer_on, for a timer that is neither pending nor in its function.
add_timer_on(t, c, d) ==
    /\ task.op = "idle" /\ t \in Managed /\ c \in online
    /\ base[t] = None /\ Runners(t) = {} /\ Free(c)
    /\ Link(t, c, (jiffies + d) % Wrap)
    /\ UNCHANGED <<jiffies, timer_jiffies, running, pc, task, online, dead, coming>>

-----------------------------------------------------------------------------
(* del_timer and del_timer_sync *)

At(step) == task.op \in {"del", "sync"} /\ task.step = step
DelRest == UNCHANGED <<jiffies, timer_jiffies, running, pc, online, dead, coming>>

\* The CPUs that have the timer: pending, or marked as running there.
Holders(t) == {c \in CPU : base[t] = c \/ running[c] = t}

\* A call of del_timer ("del") or of del_timer_sync ("sync").
del_timer(t, op) ==
    /\ task.op = "idle" /\ t \in Managed
    /\ LET one == op = "sync" /\ Cardinality(Holders(t)) <= 1
       IN  task' = [Call(op, t) EXCEPT !.alone = one, !.quiet = one]
    /\ UNCHANGED wheel /\ DelRest

\* What follows the del_timer of the call.
Deleted == IF task.op = "del" THEN IdleTask ELSE [task EXCEPT !.step = "check", !.base = None]

\* timer->base is read without a lock.
DelRead ==
    /\ At("read")
    /\ task' = IF base[task.timer] = None THEN Deleted
               ELSE [task EXCEPT !.step = "lock", !.base = base[task.timer]]
    /\ UNCHANGED wheel /\ DelRest

\* The lock of that base; again if the timer has left it.
DelLock ==
    /\ At("lock") /\ Free(task.base)
    /\ IF base[task.timer] = task.base
       THEN Unlink(task.timer) /\ task' = Deleted
       ELSE task' = [task EXCEPT !.step = "read", !.base = None] /\ UNCHANGED wheel
    /\ DelRest

\* for_each_online_cpu: is the timer running there?
SyncCheck ==
    LET rest == {c \in online : c >= task.i} IN
    /\ At("check")
    /\ task' = IF rest = {} THEN [task EXCEPT !.step = "pending", !.i = 0]
               ELSE IF running[Min(rest)] = task.timer
                    THEN [task EXCEPT !.step = "spin", !.i = Min(rest)]
               ELSE [task EXCEPT !.i = Min(rest) + 1]
    /\ UNCHANGED wheel /\ DelRest

\* The wait for the first CPU found ends the search.
SyncSpin ==
    /\ At("spin") /\ running[task.i] # task.timer
    /\ task' = [task EXCEPT !.step = "pending", !.i = 0]
    /\ UNCHANGED wheel /\ DelRest

\* timer_pending: the function has re-armed it meanwhile.
SyncPending ==
    /\ At("pending")
    /\ task' = IF base[task.timer] # None THEN [task EXCEPT !.step = "read"]
               ELSE [task EXCEPT !.op = "done"]
    /\ UNCHANGED wheel /\ DelRest

\* The caller of del_timer_sync goes on.
SyncReturned ==
    /\ task.op = "done"
    /\ task' = IdleTask
    /\ UNCHANGED wheel /\ DelRest

-----------------------------------------------------------------------------
(* CPU hotplug, one operation at a time (cpucontrol) *)

HotplugIdle == dead = {} /\ coming = {}
HotplugRest == UNCHANGED <<jiffies, running, pc, task>>

\* A CPU goes down between two softirqs, with its interrupts on; the last one cannot.
CpuDown(c) ==
    /\ c \in Hotplug /\ HotplugIdle /\ c \in online /\ online # {c} /\ pc[c] = "idle"
    /\ task.op = "mod" => task.new # c
    /\ online' = online \ {c} /\ dead' = {c}
    /\ UNCHANGED <<timer_jiffies, wheel, coming>> /\ HotplugRest

\* migrate_timer_list: a timer whose lock is free goes to the base n of the CPU
\* that handles CPU_DEAD; one whose lock is held makes migrate_timers start again.
Migrate(c, t, n) ==
    /\ c \in dead /\ n \in online /\ base[t] = c /\ ~Locked(t) /\ Free(n)
    /\ Link(t, n, expires[t])
    /\ UNCHANGED <<timer_jiffies, online, dead, coming>> /\ HotplugRest

\* Fault variant: a timer whose lock is held is left behind.
MigrateDone_SkipsLocked(c) ==
    /\ c \in dead /\ \A t \in Timers : base[t] = c => Locked(t)
    /\ dead' = {}
    /\ UNCHANGED <<timer_jiffies, wheel, online, coming>> /\ HotplugRest

\* migrate_timers has emptied every vector.
MigrateDone(c) ==
    /\ c \in dead /\ \A t \in Timers : base[t] # c
    /\ dead' = {}
    /\ UNCHANGED <<timer_jiffies, wheel, online, coming>> /\ HotplugRest

\* CPU_UP_PREPARE, init_timers_cpu: the base starts at the present.
CpuUpPrepare(c) ==
    /\ HotplugIdle /\ c \notin online
    /\ timer_jiffies' = [timer_jiffies EXCEPT ![c] = jiffies]
    /\ coming' = {c}
    /\ UNCHANGED <<wheel, online, dead>> /\ HotplugRest

\* __cpu_up: the CPU starts, or does not (CPU_UP_CANCELED).
CpuUp(c) ==
    /\ c \in coming
    /\ coming' = {} /\ online' \in {online, online \cup {c}}
    /\ UNCHANGED <<timer_jiffies, wheel, dead>> /\ HotplugRest

-----------------------------------------------------------------------------

SoftirqNext(c) ==
    \/ run_timers(c) \/ FunctionReturns(c) \/ RunDone(c)
    \/ \E t \in Timers : RunTimer(c, t)
    \/ \E d \in Delays : Rearm(c, d)

TaskNext ==
    \/ ModLock \/ DelRead \/ DelLock \/ SyncCheck \/ SyncSpin \/ SyncPending \/ SyncReturned
    \/ \E t \in Managed :
          \/ \E op \in {"del", "sync"} : del_timer(t, op)
          \/ \E c \in online, d \in Delays : mod_timer(t, c, d) \/ add_timer_on(t, c, d)

HotplugNext ==
    \E c \in CPU : CpuDown(c) \/ MigrateDone(c) \/ CpuUpPrepare(c) \/ CpuUp(c)
                   \/ \E t \in Timers, n \in online : Migrate(c, t, n)

Next ==
    \/ Tick
    \/ \E c \in CPU : SoftirqNext(c)
    \/ TaskNext \/ HotplugNext

Spec == Init /\ [][Next]_vars

-----------------------------------------------------------------------------
(* Properties *)

\* Types; a timer is in a list exactly when it has a base.
TypeOK ==
    /\ jiffies \in 0..Wrap - 1 /\ timer_jiffies \in [CPU -> 0..Wrap - 1]
    /\ running \in [CPU -> Timers \cup {None}]
    /\ pc \in [CPU -> {"idle", "scan", "take", "fn", "ret"}]
    /\ base \in [Timers -> CPU \cup {None}] /\ expires \in [Timers -> 0..Wrap - 1]
    /\ \A t \in Timers :
          slot[t] \in IF base[t] = None THEN {NoSlot}
                     ELSE {WorkList} \cup ({0} \X (0..Span(0) - 1))
                                     \cup ((1..TVN) \X (0..2 ^ TVN_BITS - 1))
    /\ task.op \in {"idle", "mod", "del", "sync", "done"} /\ task.base \in CPU \cup {None}
    /\ online \subseteq CPU /\ dead \cup coming \subseteq CPU \ online

\* "The kernel will do a ->function(->data) callback from the timer interrupt at
\* the ->expired point in the future": a timer gets to the work list only when
\* its jiffy is over, and one whose jiffy is over is there or in the very next
\* bucket, however it came there: added, moved to another CPU, cascaded or
\* migrated, with the counter of jiffies wrapping round.
OnTime ==
    \A t \in Timers : base[t] \in online =>
        LET j    == timer_jiffies[base[t]]
            over == ~time_after_eq(expires[t], j)
        IN  IF slot[t] = WorkList THEN over
            ELSE over => slot[t] = <<0, Index(j, 0)>>

Stopped(t) == base[t] = None /\ Runners(t) = {}

\* "Upon exit the timer is not queued and the handler is not running on any CPU":
\* after del_timer_sync, if at the call the timer was pending or running on one
\* CPU only and its handler has not re-armed it since.
Quiesced == task.op = "done" /\ task.quiet => Stopped(task.timer)

\* "it copes with timer handlers which re-arm the timer (periodic timers)": the
\* same when the handler may re-arm the timer during the call.
PeriodicQuiesced == task.op = "done" /\ task.alone => Stopped(task.timer)

\* A pending timer is on a CPU that will run it, or on one whose timers are
\* being migrated: none is left on a CPU that is down.
NotStranded == \A t \in Timers : base[t] # None => base[t] \in online \cup dead
==============================================================================
