----------------------------- MODULE TimerProofs -----------------------------
(***************************************************************************)
(* Timers, for every number of CPUs and timers and every shape of the      *)
(* wheel: no pending timer is left on a CPU that is down; del_timer_sync   *)
(* has stopped a timer that its handler does not re-arm; a timer is        *)
(* neither run before its jiffy is over nor left in the wheel afterwards.  *)
(***************************************************************************)
EXTENDS Timer, FiniteSetTheorems, WellFoundedInduction, TLAPS

Steps == {"read", "lock", "check", "spin", "pending"}

\* Calls; their fields base and expires, of which the argument needs nothing, are
\* those of k.
Calls(k) ==
    [op : {"idle", "mod", "del", "sync", "done"}, timer : Timers \cup {None}, step : Steps,
     base : {k.base}, new : CPU \cup {None}, expires : {k.expires}, i : Nat,
     alone : BOOLEAN, quiet : BOOLEAN]

\* The part of the type invariant that the argument needs.
CoreType ==
    /\ base \in [Timers -> CPU \cup {None}]
    /\ running \in [CPU -> Timers \cup {None}]
    /\ pc \in [CPU -> {"idle", "scan", "take", "fn", "ret"}]
    /\ online \subseteq CPU /\ dead \subseteq CPU /\ coming \subseteq CPU
    /\ task \in Calls(task)

\* One CPU at a time is being taken down or brought up; a softirq that is not over
\* is on a CPU that is online; and mod_timer keeps its CPU from going down.
OneDead ==
    (\A c, d \in dead : c = d /\ c \notin online) /\ \A c \in coming : c \notin online \cup dead
RunsOnline == \A c \in CPU : pc[c] # "idle" => c \in online
NewOnline == task.op = "mod" => task.new \in online

\* running_timer is cleared before the softirq ends.
IdleClear == \A c \in CPU : pc[c] = "idle" => running[c] = None

Placed == CoreType /\ OneDead /\ RunsOnline /\ NewOnline /\ IdleClear /\ NotStranded

\* CPU c has timer t: pending, or marked as running.
HasIt(c, t) == base[t] = c \/ running[c] = t

\* While the promise of del_timer_sync stands: one CPU has the timer; after
\* del_timer it is not pending; the CPUs passed by the search do not run it,
\* those other than the one waited for do not, and after the wait none does.
SyncInv ==
    task.quiet =>
        /\ task.op \in {"sync", "done"} /\ task.timer \in Timers
        /\ task.op = "done" => task.step = "pending"
        /\ task.step \in {"read", "lock", "pending"} => task.i = 0
        /\ \A c, d \in CPU : HasIt(c, task.timer) /\ HasIt(d, task.timer) => c = d
        /\ task.step \in {"check", "spin", "pending"} => base[task.timer] = None
        /\ task.step = "check" => \A c \in CPU : c < task.i => running[c] # task.timer
        /\ task.step = "spin" => \A c \in CPU : c # task.i => running[c] # task.timer
        /\ task.step = "pending" => \A c \in CPU : running[c] # task.timer

IInv == Placed /\ SyncInv

-----------------------------------------------------------------------------

\* CPUs are numbers, and the null pointer is none of them.
LEMMA CPUFacts == CPU \subseteq Nat /\ IsFiniteSet(CPU) /\ 0 \in CPU /\ None \notin CPU
<1>1. NCPU \in Nat \ {0}
  BY TimerConstants
<1>2. IsFiniteSet(0..NCPU - 1)
  BY <1>1, FS_Interval
<1>3. 0..NCPU - 1 \subseteq Nat /\ 0 \in 0..NCPU - 1
  BY <1>1
<1> QED
  BY <1>2, <1>3, TimerConstants DEF CPU

\* A non-empty set of numbers has a least one, and Min picks it.
LEMMA MinOfNats ==
    ASSUME NEW S \in SUBSET Nat, S # {}
    PROVE  Min(S) \in S /\ \A k \in S : Min(S) <= k
<1> DEFINE Less == OpToRel(<, Nat)
<1>1. Less = {p \in Nat \X Nat : p[1] < p[2]}
  BY Zenon DEF OpToRel
<1>2. PICK m \in S : \A k \in S : ~(<<k, m>> \in Less)
  BY WFMin, NatLessThanWellFounded
<1>3. \A k \in S : <<k, m>> \in Less <=> k < m
  BY <1>1
<1> HIDE DEF Less
<1>4. \A k \in S : m <= k
  <2> SUFFICES ASSUME NEW k \in S PROVE m <= k
    OBVIOUS
  <2>1. ~(k < m) /\ m \in Nat /\ k \in Nat
    BY <1>2, <1>3
  <2> QED
    BY <2>1
<1> QED
  BY <1>4 DEF Min

\* The same for a set of CPUs.
LEMMA MinOfCPUs ==
    ASSUME NEW S \in SUBSET CPU, S # {}
    PROVE  Min(S) \in S /\ \A k \in S : Min(S) <= k
BY CPUFacts, MinOfNats

\* A set of CPUs of cardinality at most one has no two members.
LEMMA AtMostOne ==
    ASSUME NEW S \in SUBSET CPU, Cardinality(S) <= 1, NEW c \in S, NEW d \in S
    PROVE  c = d
<1> SUFFICES ASSUME c # d PROVE FALSE
  OBVIOUS
<1>1. IsFiniteSet(S)
  BY CPUFacts, FS_Subset
<1>2. Cardinality(S) \in Nat
  BY <1>1, FS_CardinalityType
<1>3. IsFiniteSet({c}) /\ Cardinality({c}) = 1
  BY FS_Singleton
<1>4. Cardinality({c} \cup {d}) = 2
  BY <1>3, FS_AddElement
<1>5. Cardinality({c} \cup {d}) <= Cardinality(S)
  BY <1>1, FS_Subset
<1> QED
  BY <1>2, <1>4, <1>5

-----------------------------------------------------------------------------

\* The invariant holds initially.
LEMMA InitInv == Init => IInv
<1> SUFFICES ASSUME Init PROVE IInv
  OBVIOUS
<1> USE CPUFacts, TimerConstants
<1>1. CoreType
  BY DEF Init, CoreType, IdleTask, Call, Calls, Steps
<1>2. OneDead /\ RunsOnline /\ NewOnline /\ IdleClear /\ NotStranded
  BY DEF Init, OneDead, RunsOnline, NewOnline, IdleClear, NotStranded, IdleTask, Call
<1>3. SyncInv
  BY DEF Init, SyncInv, IdleTask, Call
<1> QED
  BY <1>1, <1>2, <1>3 DEF IInv, Placed

-----------------------------------------------------------------------------
(* What the steps do to a timer's base *)

\* Linking a timer puts it, and no other, on CPU c.
LEMMA LinkStep ==
    ASSUME CoreType, NEW t, NEW c \in CPU, NEW e, Link(t, c, e)
    PROVE  /\ base' \in [Timers -> CPU \cup {None}]
           /\ \A u \in Timers : base'[u] = IF u = t THEN c ELSE base[u]
BY DEF CoreType, Link

\* Unlinking a timer takes it, and no other, off its base.
LEMMA UnlinkStep ==
    ASSUME CoreType, NEW t, Unlink(t)
    PROVE  /\ base' \in [Timers -> CPU \cup {None}]
           /\ \A u \in Timers : base'[u] = IF u = t THEN None ELSE base[u]
BY DEF CoreType, Unlink

-----------------------------------------------------------------------------
(* The softirq *)

\* The steps of __run_timers, with the handler that re-arms its timer.
LEMMA SoftirqStep ==
    ASSUME IInv, NEW c \in CPU, SoftirqNext(c)
    PROVE  IInv'
<1> USE CPUFacts DEF IInv, Placed
<1>1. CASE run_timers(c)
  BY <1>1 DEF run_timers, SetPc, RunRest, CoreType, OneDead, RunsOnline, NewOnline, IdleClear,
              NotStranded, SyncInv, HasIt
<1>2. CASE FunctionReturns(c)
  BY <1>2 DEF FunctionReturns, SetPc, RunRest, wheel, CoreType, OneDead, RunsOnline, NewOnline,
              IdleClear, NotStranded, SyncInv, HasIt
<1>3. CASE RunDone(c)
  <2>1. Placed'
    BY <1>3 DEF RunDone, SetPc, RunRest, wheel, CoreType, OneDead, RunsOnline, NewOnline,
                IdleClear, NotStranded
  <2>2. \A d \in CPU : running'[d] = running[d] \/ running'[d] = None
    BY <1>3 DEF RunDone, CoreType
  <2>3. SyncInv'
    BY <1>3, <2>2, TimerConstants DEF RunDone, RunRest, wheel, SyncInv, HasIt
  <2> QED
    BY <2>1, <2>3
<1>4. CASE \E t \in Timers : RunTimer(c, t)
  <2>1. PICK t \in Timers : RunTimer(c, t)
    BY <1>4
  <2>2. CASE pc[c] = "scan"
    <3>1. /\ running' \in [CPU -> Timers \cup {None}]
          /\ \A d \in CPU : running'[d] = IF d = c THEN t ELSE running[d]
          /\ pc' \in [CPU -> {"idle", "scan", "take", "fn", "ret"}]
          /\ \A d \in CPU : pc'[d] = IF d = c THEN "take" ELSE pc[d]
          /\ UNCHANGED <<task, online, dead, coming, base>> /\ base[t] = c
      BY <2>1, <2>2 DEF RunTimer, SetPc, RunRest, Work, wheel, CoreType
    <3>2. Placed'
      BY <2>2, <3>1 DEF CoreType, OneDead, RunsOnline, NewOnline, IdleClear, NotStranded
    <3>3. SyncInv'
      BY <2>2, <3>1 DEF SyncInv, HasIt
    <3> QED
      BY <3>2, <3>3
  <2>3. CASE pc[c] = "take"
    <3>1. /\ base' \in [Timers -> CPU \cup {None}]
          /\ \A u \in Timers : base'[u] = IF u = t THEN None ELSE base[u]
      BY <2>1, <2>3, UnlinkStep DEF RunTimer
    <3>2. /\ pc' \in [CPU -> {"idle", "scan", "take", "fn", "ret"}]
          /\ \A d \in CPU : pc'[d] = IF d = c THEN "fn" ELSE pc[d]
          /\ UNCHANGED <<task, online, dead, coming, running>>
      BY <2>1, <2>3 DEF RunTimer, SetPc, RunRest, CoreType
    <3>3. Placed'
      BY <2>3, <3>1, <3>2 DEF CoreType, OneDead, RunsOnline, NewOnline, IdleClear, NotStranded
    <3>4. SyncInv'
      BY <3>1, <3>2 DEF SyncInv, HasIt
    <3> QED
      BY <3>3, <3>4
  <2> QED
    BY <2>1, <2>2, <2>3 DEF RunTimer
<1>5. CASE \E d \in Delays : Rearm(c, d)
  <2>1. PICK d \in Delays : Rearm(c, d)
    BY <1>5
  <2> DEFINE t == running[c]
  <2>2. /\ base' \in [Timers -> CPU \cup {None}]
        /\ \A u \in Timers : base'[u] = IF u = t THEN c ELSE base[u]
    BY <2>1, LinkStep DEF Rearm
  <2>3. /\ pc' \in [CPU -> {"idle", "scan", "take", "fn", "ret"}]
        /\ \A k \in CPU : pc'[k] = IF k = c THEN "ret" ELSE pc[k]
        /\ running' = running /\ online' = online /\ dead' = dead /\ coming' = coming /\ pc[c] = "fn"
    BY <2>1 DEF Rearm, SetPc, CoreType
  <2> DEFINE q == task.quiet /\ t # task.timer
  <2>4. task' = [task EXCEPT !.quiet = q] /\ q \in BOOLEAN
    BY <2>1 DEF Rearm
  <2>5. q => task.quiet /\ t # task.timer
    OBVIOUS
  <2> HIDE DEF q
  <2>6. /\ task' \in Calls(task')
        /\ task'.op = task.op /\ task'.new = task.new /\ task'.timer = task.timer
        /\ task'.step = task.step /\ task'.i = task.i
        /\ task'.quiet = q
    BY <2>4 DEF CoreType, Calls
  <2>7. Placed'
    BY <2>2, <2>3, <2>6 DEF CoreType, OneDead, RunsOnline, NewOnline, IdleClear, NotStranded
  <2>8. SyncInv'
    <3> SUFFICES ASSUME task'.quiet PROVE SyncInv'
      BY DEF SyncInv
    <3>1. task.quiet /\ t # task.timer
      BY <2>5, <2>6
    <3> QED
      BY <2>2, <2>3, <2>6, <3>1 DEF SyncInv, HasIt
  <2> QED
    BY <2>7, <2>8
<1> QED
  BY <1>1, <1>2, <1>3, <1>4, <1>5 DEF SoftirqNext

-----------------------------------------------------------------------------
(* Calls of the task *)

\* The task between two calls.
LEMMA IdleType ==
    /\ IdleTask \in Calls(IdleTask) /\ IdleTask.op = "idle" /\ IdleTask.quiet = FALSE
BY CPUFacts DEF IdleTask, Call, Calls, Steps

\* A step that leaves the wheel, the softirqs and the CPUs alone disturbs only
\* what is said about the call.
LEMMA TaskOnly ==
    ASSUME IInv, UNCHANGED wheel, DelRest,
           task' \in Calls(task'), task'.op # "mod", SyncInv'
    PROVE  IInv'
BY DEF IInv, Placed, wheel, DelRest, CoreType, OneDead, RunsOnline, NewOnline, IdleClear, NotStranded

\* del_timer and del_timer_sync.
LEMMA DelStep ==
    ASSUME IInv,
           \/ DelRead \/ DelLock \/ SyncCheck \/ SyncSpin \/ SyncPending \/ SyncReturned
           \/ \E t \in Managed, op \in {"del", "sync"} : del_timer(t, op)
    PROVE  IInv'
<1> USE CPUFacts
<1>0. task \in Calls(task) /\ task.i \in Nat /\ task.quiet \in BOOLEAN
  BY DEF IInv, Placed, CoreType, Calls
<1>1. CASE DelRead
  <2>1. CASE base[task.timer] = None /\ task.op = "del"
    BY <1>1, <2>1, IdleType, TaskOnly DEF DelRead, Deleted, SyncInv
  <2>2. CASE base[task.timer] = None /\ task.op # "del"
    <3>1. task' = [task EXCEPT !.step = "check", !.base = None]
      BY <1>1, <2>2 DEF DelRead, Deleted
    <3>2. /\ task' \in Calls(task') /\ task'.op = "sync" /\ task'.timer = task.timer
          /\ task'.step = "check" /\ task'.i = task.i /\ task'.quiet = task.quiet
      BY <1>0, <1>1, <2>2, <3>1 DEF DelRead, At, Calls, Steps
    <3>3. SyncInv'
      BY <1>1, <2>2, <3>2 DEF DelRead, At, DelRest, wheel, SyncInv, HasIt, IInv
    <3> QED
      BY TaskOnly, <1>1, <3>2, <3>3 DEF DelRead
  <2>3. CASE base[task.timer] # None
    <3>1. task' = [task EXCEPT !.step = "lock", !.base = base[task.timer]]
      BY <1>1, <2>3 DEF DelRead
    <3>2. /\ task' \in Calls(task') /\ task'.op = task.op /\ task'.timer = task.timer
          /\ task'.step = "lock" /\ task'.i = task.i /\ task'.quiet = task.quiet
      BY <1>0, <3>1 DEF Calls, Steps
    <3>3. SyncInv'
      BY <1>1, <3>2 DEF DelRead, At, DelRest, wheel, SyncInv, HasIt, IInv
    <3> QED
      BY TaskOnly, <1>1, <3>2, <3>3 DEF DelRead, At
  <2> QED
    BY <2>1, <2>2, <2>3
<1>2. CASE DelLock
  <2>1. CASE base[task.timer] # task.base
    <3>1. task' = [task EXCEPT !.step = "read", !.base = None] /\ UNCHANGED wheel
      BY <1>2, <2>1 DEF DelLock
    <3>2. /\ task' \in Calls(task') /\ task'.op = task.op /\ task'.timer = task.timer
          /\ task'.step = "read" /\ task'.i = task.i /\ task'.quiet = task.quiet
      BY <1>0, <3>1 DEF Calls, Steps
    <3>3. SyncInv'
      BY <1>2, <3>1, <3>2 DEF DelLock, At, DelRest, wheel, SyncInv, HasIt, IInv
    <3> QED
      BY TaskOnly, <1>2, <3>1, <3>2, <3>3 DEF DelLock, At
  <2>2. CASE base[task.timer] = task.base
    <3>1. /\ base' \in [Timers -> CPU \cup {None}]
          /\ \A u \in Timers : base'[u] = IF u = task.timer THEN None ELSE base[u]
      BY <1>2, <2>2, UnlinkStep DEF DelLock, IInv, Placed
    <3>2. UNCHANGED <<running, pc, online, dead, coming>> /\ At("lock")
      BY <1>2 DEF DelLock, DelRest
    <3>3. /\ task' \in Calls(task') /\ task'.op # "mod"
          /\ task'.quiet => /\ task.quiet /\ task'.op = "sync" /\ task'.timer = task.timer
                            /\ task'.step = "check" /\ task'.i = task.i
      <4>1. CASE task.op = "del"
        BY <1>2, <2>2, <4>1, IdleType DEF DelLock, Deleted
      <4>2. CASE task.op # "del"
        <5>1. task' = [task EXCEPT !.step = "check", !.base = None]
          BY <1>2, <2>2, <4>2 DEF DelLock, Deleted
        <5> QED
          BY <1>0, <3>2, <4>2, <5>1 DEF Calls, Steps, At
      <4> QED
        BY <4>1, <4>2
    <3>4. Placed'
      BY <3>1, <3>2, <3>3 DEF IInv, Placed, CoreType, OneDead, RunsOnline, NewOnline, IdleClear,
                              NotStranded
    <3>5. SyncInv'
      BY <3>1, <3>2, <3>3 DEF At, SyncInv, HasIt, IInv
    <3> QED
      BY <3>4, <3>5 DEF IInv
  <2> QED
    BY <2>1, <2>2
<1>3. CASE SyncCheck
  <2> DEFINE rest == {c \in online : c >= task.i}
             m    == Min(rest)
  <2>0. \A c \in CPU \ online : task.quiet => running[c] # task.timer
    BY TimerConstants DEF IInv, Placed, RunsOnline, IdleClear, SyncInv
  <2>1. CASE rest = {}
    <3>1. task' = [task EXCEPT !.step = "pending", !.i = 0]
      BY <1>3, <2>1 DEF SyncCheck
    <3>2. /\ task' \in Calls(task') /\ task'.op = task.op /\ task'.timer = task.timer
          /\ task'.step = "pending" /\ task'.i = 0 /\ task'.quiet = task.quiet
      BY <1>0, <3>1 DEF Calls, Steps
    <3>3. \A c \in CPU : c < task.i \/ c \notin online
      BY <1>0, <2>1
    <3>4. SyncInv'
      BY <1>3, <2>0, <3>2, <3>3 DEF SyncCheck, At, DelRest, wheel, SyncInv, HasIt, IInv
    <3> QED
      BY TaskOnly, <1>3, <3>2, <3>4 DEF SyncCheck, At
  <2>2. CASE rest # {} /\ running[m] = task.timer
    <3>1. task' = [task EXCEPT !.step = "spin", !.i = m]
      BY <1>3, <2>2 DEF SyncCheck
    <3>2. m \in rest /\ m \in CPU /\ m \in Nat
      BY <2>2, MinOfCPUs DEF IInv, Placed, CoreType
    <3> HIDE DEF m
    <3>3. /\ task' \in Calls(task') /\ task'.op = task.op /\ task'.timer = task.timer
          /\ task'.step = "spin" /\ task'.i = m /\ task'.quiet = task.quiet
      BY <1>0, <3>1, <3>2 DEF Calls, Steps
    <3>4. SyncInv'
      BY <1>3, <2>2, <3>2, <3>3 DEF SyncCheck, At, DelRest, wheel, SyncInv, HasIt, IInv
    <3> QED
      BY TaskOnly, <1>3, <3>3, <3>4 DEF SyncCheck, At
  <2>3. CASE rest # {} /\ running[m] # task.timer
    <3>1. task' = [task EXCEPT !.i = m + 1]
      BY <1>3, <2>3 DEF SyncCheck
    <3>2. m \in rest /\ m \in CPU /\ m \in Nat /\ \A k \in rest : m <= k
      BY <2>3, MinOfCPUs DEF IInv, Placed, CoreType
    <3> HIDE DEF m
    <3>3. /\ task' \in Calls(task') /\ task'.op = task.op /\ task'.timer = task.timer
          /\ task'.step = task.step /\ task'.i = m + 1 /\ task'.quiet = task.quiet
      BY <1>0, <3>1, <3>2 DEF Calls, Steps
    <3>4. \A c \in CPU : c < m + 1 => c = m \/ c < task.i \/ c \notin online
      BY <1>0, <3>2
    <3>5. SyncInv'
      BY <1>3, <2>0, <2>3, <3>3, <3>4 DEF SyncCheck, At, DelRest, wheel, SyncInv, HasIt, IInv
    <3> QED
      BY TaskOnly, <1>3, <3>3, <3>5 DEF SyncCheck, At
  <2> QED
    BY <2>1, <2>2, <2>3
<1>4. CASE SyncSpin
  <2>1. task' = [task EXCEPT !.step = "pending", !.i = 0]
    BY <1>4 DEF SyncSpin
  <2>2. /\ task' \in Calls(task') /\ task'.op = task.op /\ task'.timer = task.timer
        /\ task'.step = "pending" /\ task'.i = 0 /\ task'.quiet = task.quiet
    BY <1>0, <2>1 DEF Calls, Steps
  <2>3. SyncInv'
    BY <1>4, <2>2 DEF SyncSpin, At, DelRest, wheel, SyncInv, HasIt, IInv
  <2> QED
    BY TaskOnly, <1>4, <2>2, <2>3 DEF SyncSpin, At
<1>5. CASE SyncPending
  <2>1. CASE base[task.timer] # None
    <3>1. task' = [task EXCEPT !.step = "read"]
      BY <1>5, <2>1 DEF SyncPending
    <3>2. /\ task' \in Calls(task') /\ task'.op = task.op /\ task'.timer = task.timer
          /\ task'.step = "read" /\ task'.i = task.i /\ task'.quiet = task.quiet
      BY <1>0, <3>1 DEF Calls, Steps
    <3>3. SyncInv'
      BY <1>5, <3>2 DEF SyncPending, At, DelRest, wheel, SyncInv, HasIt, IInv
    <3> QED
      BY TaskOnly, <1>5, <3>2, <3>3 DEF SyncPending, At
  <2>2. CASE base[task.timer] = None
    <3>1. task' = [task EXCEPT !.op = "done"]
      BY <1>5, <2>2 DEF SyncPending
    <3>2. /\ task' \in Calls(task') /\ task'.op = "done" /\ task'.timer = task.timer
          /\ task'.step = task.step /\ task'.i = task.i /\ task'.quiet = task.quiet
      BY <1>0, <3>1 DEF Calls, Steps
    <3>3. SyncInv'
      BY <1>5, <3>2 DEF SyncPending, At, DelRest, wheel, SyncInv, HasIt, IInv
    <3> QED
      BY TaskOnly, <1>5, <3>2, <3>3 DEF SyncPending, At
  <2> QED
    BY <2>1, <2>2
<1>6. CASE SyncReturned
  BY <1>6, IdleType, TaskOnly DEF SyncReturned, SyncInv
<1>7. CASE \E t \in Managed, op \in {"del", "sync"} : del_timer(t, op)
  <2>1. PICK t \in Managed, op \in {"del", "sync"} : del_timer(t, op)
    BY <1>7
  <2> DEFINE one == op = "sync" /\ Cardinality(Holders(t)) <= 1
  <2>2. t \in Timers
    BY TimerConstants
  <2>3. task' = [Call(op, t) EXCEPT !.alone = one, !.quiet = one] /\ one \in BOOLEAN
    BY <2>1 DEF del_timer
  <2>4. one => op = "sync" /\ \A c, d \in CPU : HasIt(c, t) /\ HasIt(d, t) => c = d
    <3> SUFFICES ASSUME one, NEW c \in CPU, NEW d \in CPU, HasIt(c, t), HasIt(d, t)
                 PROVE  c = d
      OBVIOUS
    <3>1. Holders(t) \in SUBSET CPU /\ c \in Holders(t) /\ d \in Holders(t)
      BY DEF Holders, HasIt
    <3> QED
      BY <3>1, AtMostOne
  <2> HIDE DEF one
  <2>5. /\ task' \in Calls(task') /\ task'.op = op /\ task'.timer = t
        /\ task'.step = "read" /\ task'.i = 0 /\ task'.quiet = one
    BY <2>2, <2>3 DEF Call, Calls, Steps
  <2>6. UNCHANGED <<base, running>>
    BY <2>1 DEF del_timer, DelRest, wheel
  <2>7. SyncInv'
    <3> SUFFICES ASSUME one PROVE SyncInv'
      BY <2>5 DEF SyncInv
    <3> QED
      BY <2>2, <2>4, <2>5, <2>6 DEF SyncInv, HasIt
  <2> QED
    BY TaskOnly, <2>1, <2>5, <2>7 DEF del_timer
<1> QED
  BY <1>1, <1>2, <1>3, <1>4, <1>5, <1>6, <1>7

\* mod_timer and add_timer_on.
LEMMA ModStep ==
    ASSUME IInv,
           \/ ModLock
           \/ \E t \in Managed, c \in online, d \in Delays : mod_timer(t, c, d) \/ add_timer_on(t, c, d)
    PROVE  IInv'
<1> USE CPUFacts
<1>0. task \in Calls(task) /\ online \subseteq CPU
  BY DEF IInv, Placed, CoreType
<1>1. CASE ModLock
  <2>0. UNCHANGED <<running, pc, online, dead, coming>> /\ task.op = "mod"
    BY <1>1 DEF ModLock
  <2>1. CASE base[task.timer] = task.base
    <3>1. task.new \in online /\ Link(task.timer, task.new, task.expires) /\ task' = IdleTask
      BY <1>1, <2>0, <2>1 DEF ModLock, IInv, Placed, NewOnline
    <3>2. /\ base' \in [Timers -> CPU \cup {None}]
          /\ \A u \in Timers : base'[u] = IF u = task.timer THEN task.new ELSE base[u]
      BY <1>0, <3>1, LinkStep DEF IInv, Placed
    <3>3. Placed'
      BY <2>0, <3>1, <3>2, IdleType DEF IInv, Placed, CoreType, OneDead, RunsOnline, NewOnline,
                                        IdleClear, NotStranded
    <3> QED
      BY <3>1, <3>3, IdleType DEF SyncInv, IInv
  <2>2. CASE base[task.timer] # task.base
    <3>1. task' = [task EXCEPT !.base = base[task.timer]] /\ UNCHANGED wheel
      BY <1>1, <2>2 DEF ModLock
    <3>2. /\ task' \in Calls(task') /\ task'.op = "mod" /\ task'.new = task.new
          /\ task'.quiet = task.quiet
      BY <1>0, <2>0, <3>1 DEF Calls
    <3>3. ~task.quiet
      BY <2>0 DEF IInv, SyncInv
    <3>4. Placed'
      BY <2>0, <3>1, <3>2 DEF IInv, Placed, wheel, CoreType, OneDead, RunsOnline, NewOnline,
                              IdleClear, NotStranded
    <3> QED
      BY <3>2, <3>3, <3>4 DEF SyncInv, IInv
  <2> QED
    BY <2>1, <2>2
<1>2. ASSUME NEW t \in Managed, NEW c \in online, NEW d \in Delays, mod_timer(t, c, d)
      PROVE  IInv'
  <2> DEFINE e == (jiffies + d) % Wrap
  <2>1. /\ task' = [Call("mod", t) EXCEPT !.base = base[t], !.new = c, !.expires = e]
        /\ UNCHANGED <<base, running, pc, online, dead, coming>>
    BY <1>2 DEF mod_timer, wheel
  <2> HIDE DEF e
  <2>2. t \in Timers /\ c \in CPU
    BY <1>0, TimerConstants
  <2>3. task' \in Calls(task') /\ task'.new = c /\ task'.quiet = FALSE
    BY <2>1, <2>2 DEF Call, Calls, Steps
  <2>4. Placed'
    BY <2>1, <2>3 DEF IInv, Placed, CoreType, OneDead, RunsOnline, NewOnline, IdleClear, NotStranded
  <2> QED
    BY <2>3, <2>4 DEF SyncInv, IInv
<1>3. ASSUME NEW t \in Managed, NEW c \in online, NEW d \in Delays, add_timer_on(t, c, d)
      PROVE  IInv'
  <2>1. UNCHANGED <<running, pc, task, online, dead, coming>> /\ task.op = "idle"
    BY <1>3 DEF add_timer_on
  <2>2. /\ base' \in [Timers -> CPU \cup {None}]
        /\ \A u \in Timers : base'[u] = IF u = t THEN c ELSE base[u]
    BY <1>0, <1>3, LinkStep DEF add_timer_on, IInv, Placed
  <2>3. Placed'
    BY <2>1, <2>2 DEF IInv, Placed, CoreType, OneDead, RunsOnline, NewOnline, IdleClear, NotStranded
  <2> QED
    BY <2>1, <2>3 DEF SyncInv, IInv
<1> QED
  BY <1>1, <1>2, <1>3

-----------------------------------------------------------------------------
(* CPU hotplug *)

\* A CPU going down, the migration of its timers, a CPU coming up.
LEMMA HotplugStep ==
    ASSUME IInv, HotplugNext
    PROVE  IInv'
<1> USE CPUFacts DEF IInv, Placed, HotplugRest
<1>1. ASSUME NEW c \in CPU, CpuDown(c)
      PROVE  IInv'
  BY <1>1 DEF CpuDown, HotplugIdle, wheel, CoreType, OneDead, RunsOnline, NewOnline, IdleClear,
              NotStranded, SyncInv, HasIt
<1>2. ASSUME NEW c \in CPU, MigrateDone(c)
      PROVE  IInv'
  <2>1. dead = {c} /\ \A t \in Timers : base[t] # c
    BY <1>2 DEF MigrateDone, OneDead
  <2>2. UNCHANGED <<running, pc, task, base, online, coming>> /\ dead' = {}
    BY <1>2 DEF MigrateDone, wheel
  <2>3. Placed'
    BY <2>1, <2>2 DEF CoreType, OneDead, RunsOnline, NewOnline, IdleClear, NotStranded
  <2> QED
    BY <2>2, <2>3 DEF SyncInv, HasIt
<1>3. ASSUME NEW c \in CPU, CpuUpPrepare(c) \/ CpuUp(c)
      PROVE  IInv'
  <2>1. /\ UNCHANGED <<running, pc, task, base, dead>> /\ coming' \in SUBSET {c}
        /\ online \subseteq online' /\ online' \subseteq CPU
        /\ \A d \in online' : d \notin dead /\ d \notin coming'
        /\ \A d \in coming' : d \notin dead
    BY <1>3 DEF CpuUpPrepare, CpuUp, HotplugIdle, wheel, CoreType, OneDead
  <2>2. Placed'
    BY <2>1 DEF CoreType, OneDead, RunsOnline, NewOnline, IdleClear, NotStranded
  <2> QED
    BY <2>1, <2>2 DEF SyncInv, HasIt
<1>4. ASSUME NEW c \in CPU, NEW t \in Timers, NEW n \in online, Migrate(c, t, n)
      PROVE  IInv'
  <2>1. n \in CPU /\ base[t] = c /\ c \in dead
    BY <1>4 DEF Migrate, CoreType
  <2>2. UNCHANGED <<running, pc, task, online, dead, coming>>
    BY <1>4 DEF Migrate
  <2>3. /\ base' \in [Timers -> CPU \cup {None}]
        /\ \A u \in Timers : base'[u] = IF u = t THEN n ELSE base[u]
    BY <1>4, <2>1, LinkStep DEF Migrate
  <2>4. Placed'
    BY <2>2, <2>3 DEF CoreType, OneDead, RunsOnline, NewOnline, IdleClear, NotStranded
  <2>5. running[c] = None
    BY <2>1 DEF OneDead, RunsOnline, IdleClear, CoreType
  <2>6. task.quiet /\ t = task.timer => \A d \in CPU : running[d] # t
    BY <2>1, <2>5, TimerConstants DEF SyncInv, HasIt
  <2>7. SyncInv'
    BY <2>1, <2>2, <2>3, <2>6 DEF SyncInv, HasIt
  <2> QED
    BY <2>4, <2>7
<1> QED
  BY <1>1, <1>2, <1>3, <1>4 DEF HotplugNext

-----------------------------------------------------------------------------

\* Every step preserves the invariant.
LEMMA NextInv == IInv /\ [Next]_vars => IInv'
<1> SUFFICES ASSUME IInv, [Next]_vars PROVE IInv'
  OBVIOUS
<1>1. CASE Tick \/ UNCHANGED vars
  BY <1>1 DEF Tick, vars, wheel, IInv, Placed, CoreType, OneDead, RunsOnline, NewOnline,
              IdleClear, NotStranded, SyncInv, HasIt
<1>2. CASE \E c \in CPU : SoftirqNext(c)
  BY <1>2, SoftirqStep
<1>3. CASE TaskNext
  <2>1. \/ DelRead \/ DelLock \/ SyncCheck \/ SyncSpin \/ SyncPending \/ SyncReturned
        \/ \E t \in Managed, op \in {"del", "sync"} : del_timer(t, op)
        \/ ModLock
        \/ \E t \in Managed, c \in online, d \in Delays : mod_timer(t, c, d) \/ add_timer_on(t, c, d)
    BY <1>3 DEF TaskNext
  <2> QED
    BY <2>1, DelStep, ModStep
<1>4. CASE HotplugNext
  BY <1>4, HotplugStep
<1> QED
  BY <1>1, <1>2, <1>3, <1>4 DEF Next

\* The invariant holds throughout.
LEMMA Invariance == Spec => []IInv
BY InitInv, NextInv, PTL DEF Spec

\* migrate_timers and the notifiers leave no pending timer on a CPU that is down:
\* calls of mod_timer that span the death of the old CPU, timers that re-arm
\* themselves and the back-off from a locked timer included.
THEOREM NotStrandedHolds == Spec => []NotStranded
<1>1. IInv => NotStranded
  BY DEF IInv, Placed
<1> QED
  BY <1>1, Invariance, PTL

\* When del_timer_sync returns, a timer that one CPU had at the call and whose
\* handler has not re-armed it since is neither pending nor in its handler on
\* any CPU.
THEOREM QuiescedHolds == Spec => []Quiesced
<1>1. IInv => Quiesced
  BY DEF IInv, SyncInv, Quiesced, Stopped, Runners
<1> QED
  BY <1>1, Invariance, PTL

-----------------------------------------------------------------------------
(* The arithmetic of the wheel *)

\* Quotient and remainder.
LEMMA DivMod ==
    ASSUME NEW a \in Int, NEW S \in Nat \ {0}
    PROVE  /\ a \div S \in Int /\ a % S \in 0..S - 1
           /\ a = S * (a \div S) + (a % S)
OBVIOUS

\* A multiple of S between 0 and S - 1 is 0, whatever the sign of the factor.
LEMMA SmallMultiple ==
    ASSUME NEW S \in Nat \ {0}, NEW x \in Int, S * x < S, S * x > -S
    PROVE  x = 0
<1>1. CASE x >= 1
  <2>1. S * x = S + S * (x - 1) /\ x - 1 \in Nat
    BY <1>1
  <2>2. \A a, b \in Nat : a * b \in Nat
    OBVIOUS
  <2>3. S * (x - 1) \in Nat
    BY <2>1, <2>2
  <2> QED
    BY <2>1, <2>3
<1>2. CASE x <= -1
  <2>1. S * x = -S - S * (-1 - x) /\ -1 - x \in Nat
    BY <1>2
  <2>2. \A a, b \in Nat : a * b \in Nat
    OBVIOUS
  <2>3. S * (-1 - x) \in Nat
    BY <2>1, <2>2
  <2> QED
    BY <2>1, <2>3
<1> QED
  BY <1>1, <1>2

\* Quotient and remainder are unique.
LEMMA DivModUnique ==
    ASSUME NEW S \in Nat \ {0}, NEW a \in Int, NEW q \in Int, NEW r \in 0..S - 1, a = S * q + r
    PROVE  a \div S = q /\ a % S = r
<1> PICK p \in Int : p = a \div S
  BY DivMod
<1> PICK m \in 0..S - 1 : m = a % S
  BY DivMod
<1>1. a = S * p + m
  BY DivMod
<1>2. S * (p - q) = S * p - S * q
  OBVIOUS
<1>3. S * p \in Int /\ S * q \in Int
  OBVIOUS
<1>4. S * (p - q) = r - m
  BY <1>1, <1>2, <1>3
<1>5. p - q = 0
  <2> PICK x \in Int : x = p - q
    OBVIOUS
  <2>1. S * x < S /\ S * x > -S
    BY <1>4
  <2> QED
    BY <2>1, SmallMultiple
<1>6. p = q
  BY <1>5
<1>7. m = r
  BY <1>1, <1>3, <1>6
<1> QED
  BY <1>6, <1>7

\* A multiple has no remainder.
LEMMA MultipleParts ==
    ASSUME NEW S \in Nat \ {0}, NEW q \in Int, NEW a, a = S * q
    PROVE  a \div S = q /\ a % S = 0
<1>1. a \in Int /\ 0 \in 0..S - 1 /\ a = S * q + 0
  OBVIOUS
<1> QED
  BY <1>1, DivModUnique

\* Numbers with the same remainder that differ, modulo a multiple of S, by less than S.
LEMMA Congruent ==
    ASSUME NEW S \in Nat \ {0}, NEW q \in Int, NEW e \in Int, NEW j \in Int,
           e % S = j % S, NEW d \in 0..S - 1, d = e - j \/ d = e - j + S * q
    PROVE  d = 0
<1>1. PICK a \in Int : a = e \div S
  BY DivMod, Zenon
<1>2. PICK b \in Int : b = j \div S
  BY DivMod, Zenon
<1>3. PICK r \in Int : r = e % S
  OBVIOUS
<1>4. e = S * a + r /\ j = S * b + r
  BY <1>1, <1>2, <1>3, DivMod
<1>5. S * (a - b) = S * a - S * b /\ S * (a - b + q) = S * a - S * b + S * q
  OBVIOUS
<1>6. S * a \in Int /\ S * b \in Int /\ S * q \in Int
  OBVIOUS
<1>7. d = S * (a - b) \/ d = S * (a - b + q)
  BY <1>4, <1>5, <1>6
<1>8. ASSUME NEW x \in Int, d = S * x PROVE d = 0
  <2>1. x = 0
    BY <1>8, SmallMultiple
  <2> QED
    BY <1>8, <2>1
<1> QED
  BY <1>7, <1>8

\* A product is monotonic.
LEMMA ProductMono ==
    ASSUME NEW a \in Nat, NEW b \in Nat, NEW c \in Nat, c <= b
    PROVE  a * c <= a * b
<1>1. a * b = a * c + a * (b - c) /\ b - c \in Nat
  OBVIOUS
<1>2. \A x, y \in Nat : x * y \in Nat
  OBVIOUS
<1>3. a * (b - c) \in Nat /\ a * c \in Nat
  BY <1>1, <1>2
<1> QED
  BY <1>1, <1>3

\* The range of jiffies is a multiple of what each vector covers.
LEMMA SpanDivides ==
    ASSUME NEW n \in 0..TVN
    PROVE  \E q \in Nat \ {0} : Wrap = Span(n) * q
<1> DEFINE Div(k) == \E q \in Nat \ {0} : Wrap = Span(k) * q
           Bad == {k \in Nat : k <= TVN /\ ~Div(TVN - k)}
<1>0. TVN \in Nat \ {0}
  BY TimerConstants
<1>1. Div(TVN)
  <2>1. Span(TVN) \in Nat
    BY <1>0, SpanAssumption
  <2>2. Wrap = Span(TVN) * 1
    BY <2>1 DEF Wrap
  <2> QED
    BY <2>2
<1>2. Bad = {}
  <2> SUFFICES ASSUME Bad # {} PROVE FALSE
    OBVIOUS
  <2> HIDE DEF Div
  <2>1. PICK m \in Bad : \A k \in Bad : m <= k
    BY MinOfNats
  <2>2. m \in Nat /\ m <= TVN /\ ~Div(TVN - m)
    OBVIOUS
  <2>3. m # 0
    BY <1>0, <1>1, <2>2
  <2>4. m - 1 \in Nat /\ m - 1 <= TVN /\ m - 1 \notin Bad
    BY <1>0, <2>1, <2>2, <2>3
  <2>5. Div(TVN - (m - 1))
    BY <2>4
  <2> PICK k : k = TVN - m
    OBVIOUS
  <2>6. k \in 0..TVN - 1 /\ k + 1 = TVN - (m - 1) /\ k + 1 \in 1..TVN /\ (k + 1) - 1 = k
    BY <1>0, <2>2, <2>3
  <2>7. PICK q \in Nat \ {0} : Wrap = Span(k + 1) * q
    BY <2>5, <2>6 DEF Div
  <2>8. Span(k + 1) = Span(k) * 2 ^ TVN_BITS
    BY <2>6, SpanAssumption
  <2> PICK B : B = 2 ^ TVN_BITS
    OBVIOUS
  <2> PICK s : s = Span(k)
    OBVIOUS
  <2>9. B \in Nat \ {0} /\ s \in Nat \ {0}
    BY <2>6, <1>0, SpanAssumption
  <2>10. Wrap = (s * B) * q
    BY <2>7, <2>8
  <2>11. (s * B) * q = s * (B * q) /\ B * q \in Nat \ {0}
    BY <2>9
  <2>12. Div(k)
    BY <2>10, <2>11 DEF Div
  <2> QED
    BY <2>2, <2>12
<1>3. TVN - n \in Nat /\ TVN - n <= TVN /\ TVN - (TVN - n) = n
  BY <1>0
<1>4. Div(TVN - (TVN - n))
  BY <1>2, <1>3
<1> QED
  BY <1>3, <1>4

\* What the vectors cover, and half the range of jiffies.
LEMMA WrapFacts ==
    /\ Wrap \in Nat /\ Wrap >= 2 /\ Wrap \div 2 \in Nat
    /\ 2 * (Wrap \div 2) <= Wrap /\ Wrap <= 2 * (Wrap \div 2) + 1
    /\ \A n \in 0..TVN - 1 : Span(n) \in Nat \ {0} /\ Span(n) <= Wrap \div 2
<1>0. TVN \in Nat \ {0}
  BY TimerConstants
<1>1. Wrap \in Nat
  BY <1>0, SpanAssumption DEF Wrap
<1>2. ASSUME NEW n \in 0..TVN - 1
      PROVE  Span(n) \in Nat \ {0} /\ 2 * Span(n) <= Wrap
  <2>1. n + 1 \in 1..TVN /\ (n + 1) - 1 = n /\ n \in 0..TVN /\ n + 1 \in 0..TVN
    BY <1>0
  <2> PICK B : B = 2 ^ TVN_BITS
    OBVIOUS
  <2> PICK s : s = Span(n)
    OBVIOUS
  <2>2. B \in Nat /\ B >= 2 /\ s \in Nat \ {0}
    BY <2>1, SpanAssumption
  <2>3. Span(n + 1) = s * B
    BY <2>1, SpanAssumption
  <2>4. PICK q \in Nat \ {0} : Wrap = (s * B) * q
    BY <2>1, <2>3, SpanDivides
  <2>5. s * 2 <= s * B /\ s * B \in Nat
    BY <2>2, ProductMono
  <2>6. (s * B) * 1 <= (s * B) * q
    BY <2>5, ProductMono
  <2> QED
    BY <2>2, <2>4, <2>5, <2>6
<1>3. 0 \in 0..TVN - 1
  BY <1>0
<1>4. Wrap >= 2
  BY <1>1, <1>2, <1>3
<1>5. /\ Wrap \div 2 \in Nat
      /\ 2 * (Wrap \div 2) <= Wrap /\ Wrap <= 2 * (Wrap \div 2) + 1
  BY <1>1
<1> QED
  BY <1>1, <1>2, <1>4, <1>5

\* A remainder by the range of jiffies, of a number less than a range away.
LEMMA ModIs ==
    ASSUME NEW x \in Int, NEW r \in 0..Wrap - 1, x = r \/ x = r + Wrap \/ x = r - Wrap
    PROVE  x % Wrap = r
<1> PICK W : W = Wrap
  OBVIOUS
<1>1. W \in Nat \ {0}
  BY WrapFacts
<1>2. x = W * 0 + r \/ x = W * 1 + r \/ x = W * (-1) + r
  BY <1>1
<1> QED
  BY <1>1, <1>2, DivModUnique

\* The difference of two jiffies.
LEMMA SubIs ==
    ASSUME NEW a \in 0..Wrap - 1, NEW b \in 0..Wrap - 1
    PROVE  /\ Sub(a, b) = IF a >= b THEN a - b ELSE a - b + Wrap
           /\ Sub(a, b) \in 0..Wrap - 1
<1> PICK W : W = Wrap
  OBVIOUS
<1>1. W \in Nat \ {0}
  BY WrapFacts
<1> PICK r : r = IF a >= b THEN a - b ELSE a - b + W
  OBVIOUS
<1>2. r \in 0..W - 1 /\ a - b \in Int /\ (a - b = r \/ a - b = r - W)
  BY <1>1
<1>3. (a - b) % Wrap = r
  BY <1>2, ModIs
<1> QED
  BY <1>2, <1>3 DEF Sub

\* The jiffy that is d jiffies after j.
LEMMA PlusIs ==
    ASSUME NEW j \in 0..Wrap - 1, NEW d \in 0..Wrap - 1
    PROVE  /\ (j + d) % Wrap = IF j + d < Wrap THEN j + d ELSE j + d - Wrap
           /\ (j + d) % Wrap \in 0..Wrap - 1
<1> PICK W : W = Wrap
  OBVIOUS
<1>1. W \in Nat \ {0}
  BY WrapFacts
<1> PICK r : r = IF j + d < W THEN j + d ELSE j + d - W
  OBVIOUS
<1>2. r \in 0..W - 1 /\ j + d \in Int /\ (j + d = r \/ j + d = r + W)
  BY <1>1
<1>3. (j + d) % Wrap = r
  BY <1>2, ModIs
<1> QED
  BY <1>2, <1>3

-----------------------------------------------------------------------------
(* Where a timer is in the wheel *)

\* Jiffy e is over when the base has got to j.
Over(e, j) == ~time_after_eq(e, j)

\* Before the base runs jiffy j, a timer whose jiffy is over is on the work list or in
\* the next bucket; another one is in tv1, less than a round ahead, or in an outer
\* vector, and its bucket is emptied at the jiffy that ends in zeros before e, which is
\* not over either.
Ahead(s, e, j) ==
    \/ s = <<0, Index(e, 0)>> /\ Sub(e, j) < Span(0)
    \/ \E n \in 1..TVN : s = <<n, Index(e, n)>> /\ e % Span(n - 1) <= Sub(e, j)

InWheel(s, e, j) ==
    IF Over(e, j) THEN s = WorkList \/ s = <<0, Index(j, 0)>> ELSE Ahead(s, e, j)

\* The same after internal_add_timer, or once jiffy j has been cascaded: the bucket
\* of an outer vector is emptied later than j.
Settled(s, e, j) ==
    IF Over(e, j) THEN s = <<0, Index(j, 0)>>
    ELSE \/ s = <<0, Index(e, 0)>> /\ Sub(e, j) < Span(0)
         \/ \E n \in 1..TVN : s = <<n, Index(e, n)>> /\ e % Span(n - 1) < Sub(e, j)

\* What is settled is in the wheel.
LEMMA SettledInWheel ==
    ASSUME NEW s, NEW e \in 0..Wrap - 1, NEW j \in 0..Wrap - 1, Settled(s, e, j)
    PROVE  InWheel(s, e, j)
<1>1. ASSUME NEW n \in 1..TVN, e % Span(n - 1) < Sub(e, j)
      PROVE  e % Span(n - 1) <= Sub(e, j)
  <2> PICK S : S = Span(n - 1)
    OBVIOUS
  <2> PICK d \in Nat : d = Sub(e, j)
    BY SubIs
  <2>1. S \in Nat \ {0} /\ e \in Int
    BY TimerConstants, WrapFacts
  <2>2. PICK m \in 0..S - 1 : m = e % S
    BY <2>1, DivMod
  <2> QED
    BY <1>1, <2>2
<1> QED
  BY <1>1 DEF Settled, InWheel, Ahead

\* internal_add_timer settles a timer: the first vector that reaches it has a bucket
\* that is emptied later, and a difference beyond half the range is a time that is over.
LEMMA AddTimer ==
    ASSUME NEW e \in 0..Wrap - 1, NEW j \in 0..Wrap - 1
    PROVE  Settled(internal_add_timer(e, j), e, j)
<1> PICK d \in 0..Wrap - 1 : d = Sub(e, j)
  BY SubIs
<1> DEFINE N == {k \in 0..TVN : d < Span(k)}
<1>0. TVN \in Nat \ {0} /\ Wrap \in Nat /\ Wrap \div 2 \in Nat
  BY TimerConstants, WrapFacts
<1>1. TVN \in N
  BY <1>0 DEF Wrap
<1>2. PICK n : n = Min(N)
  OBVIOUS
<1>3. n \in N /\ \A k \in N : n <= k
  <2>1. N \in SUBSET Nat /\ N # {}
    BY <1>0, <1>1
  <2> QED
    BY <1>2, <2>1, MinOfNats
<1>4. n \in 0..TVN /\ d < Span(n)
  BY <1>3
<1>5. ASSUME n # 0
      PROVE  n \in 1..TVN /\ e % Span(n - 1) < d
  <2>1. n \in 1..TVN /\ n - 1 \in 0..TVN - 1 /\ n - 1 \in 0..TVN /\ ~(n <= n - 1)
    BY <1>0, <1>4, <1>5
  <2> PICK S : S = Span(n - 1)
    OBVIOUS
  <2>2. S \in Nat \ {0} /\ e \in Int
    BY <2>1, WrapFacts
  <2>3. ~(d < S)
    BY <1>3, <2>1
  <2>4. PICK m \in 0..S - 1 : m = e % S
    BY <2>2, DivMod
  <2>5. m < d
    BY <2>2, <2>3, <2>4
  <2> QED
    BY <2>1, <2>4, <2>5
<1> PICK s : s = internal_add_timer(e, j)
  OBVIOUS
<1>6. s = IF n < TVN THEN <<n, Index(e, n)>>
          ELSE IF Negative(d) THEN <<0, Index(j, 0)>>
          ELSE <<TVN, Index(e, TVN)>>
  BY <1>2 DEF internal_add_timer
<1> HIDE DEF N
<1>7. Over(e, j) <=> Negative(d)
  BY DEF Over, time_after_eq
<1>8. n < TVN => ~Negative(d)
  <2> SUFFICES ASSUME n < TVN PROVE ~(d >= Wrap \div 2)
    BY DEF Negative
  <2>1. n \in 0..TVN - 1
    BY <1>0, <1>4
  <2>2. PICK S \in Nat : S = Span(n) /\ S <= Wrap \div 2 /\ d < S
    BY <1>4, <2>1, WrapFacts
  <2> QED
    BY <1>0, <2>2
<1>9. ~(n < TVN) => n = TVN /\ n # 0
  BY <1>0, <1>4
<1> QED
  BY <1>4, <1>5, <1>6, <1>7, <1>8, <1>9 DEF Settled

\* The jiffy at which the bucket of a timer is emptied is the one that cascades it.
LEMMA CascadeDue ==
    ASSUME NEW e \in 0..Wrap - 1, NEW j \in 0..Wrap - 1, NEW n \in 1..TVN,
           e % Span(n - 1) = Sub(e, j)
    PROVE  <<n, Index(e, n)>> \in Cascaded(j)
<1>1. TVN \in Nat \ {0} /\ Wrap \in Nat
  BY TimerConstants, WrapFacts
<1> PICK S : S = Span(n - 1)
  OBVIOUS
<1>2. S \in Nat \ {0} /\ n # 0 /\ e \in Int /\ j \in Int
  BY <1>1, WrapFacts
<1> PICK a \in Int, r \in 0..S - 1 : e \div S = a /\ e % S = r /\ e = S * a + r
  BY <1>2, Zenon, DivMod
<1>3. S * a \in Int
  BY <1>2
<1>4. a >= 0
  <2> SUFFICES ASSUME a <= -1 PROVE FALSE
    OBVIOUS
  <2>1. S * a = -S - S * (-1 - a) /\ -1 - a \in Nat
    BY <1>2
  <2>2. \A x, y \in Nat : x * y \in Nat
    OBVIOUS
  <2>3. S * (-1 - a) \in Nat
    BY <1>2, <2>1, <2>2
  <2>4. S * a <= -S
    BY <1>2, <2>1, <2>3
  <2> QED
    BY <1>2, <1>3, <2>4
<1>5. S * a >= 0
  BY <1>2, <1>4
<1>6. r = IF e >= j THEN e - j ELSE e - j + Wrap
  BY SubIs
<1> PICK p \in Int : p = S * a
  BY <1>3
<1>7. j = p
  BY <1>1, <1>3, <1>5, <1>6
<1>8. j = S * a
  BY <1>7, Zenon
<1>9. j \div S = a /\ j % S = 0
  BY <1>2, <1>8, Zenon, MultipleParts
<1>10. Index(j, n) = Index(e, n)
  BY <1>2, <1>9 DEF Index
<1> QED
  BY <1>9, <1>10 DEF Cascaded

\* After the cascade of jiffy j every timer of the base is settled.
LEMMA CascadeSettles ==
    ASSUME NEW s, NEW e \in 0..Wrap - 1, NEW j \in 0..Wrap - 1,
           InWheel(s, e, j), s # WorkList
    PROVE  Settled(IF s \in Cascaded(j) THEN internal_add_timer(e, j) ELSE s, e, j)
<1>1. CASE s \in Cascaded(j)
  BY <1>1, AddTimer
<1>2. CASE s \notin Cascaded(j)
  <2>1. ASSUME NEW n \in 1..TVN, s = <<n, Index(e, n)>>, e % Span(n - 1) <= Sub(e, j)
        PROVE  e % Span(n - 1) < Sub(e, j)
    <3>1. e % Span(n - 1) # Sub(e, j)
      BY <1>2, <2>1, CascadeDue
    <3> PICK S : S = Span(n - 1)
      OBVIOUS
    <3> PICK d \in Nat : d = Sub(e, j)
      BY SubIs
    <3>2. S \in Nat \ {0} /\ e \in Int
      BY TimerConstants, WrapFacts
    <3>3. PICK m \in 0..S - 1 : m = e % S
      BY <3>2, DivMod
    <3> QED
      BY <2>1, <3>1, <3>3
  <2> QED
    BY <1>2, <2>1 DEF InWheel, Ahead, Settled
<1> QED
  BY <1>1, <1>2

\* A timer of the bucket of jiffy j in tv1, less than a round ahead, expires at j.
LEMMA BucketDue ==
    ASSUME NEW e \in 0..Wrap - 1, NEW j \in 0..Wrap - 1,
           Sub(e, j) < Span(0), Index(e, 0) = Index(j, 0)
    PROVE  e = j
<1>1. TVN \in Nat \ {0} /\ Wrap \in Nat
  BY TimerConstants, WrapFacts
<1> PICK S : S = Span(0)
  OBVIOUS
<1>2. S \in Nat \ {0} /\ e \in Int /\ j \in Int
  BY <1>1, WrapFacts
<1>3. PICK q \in Nat \ {0} : Wrap = S * q
  BY <1>1, SpanDivides
<1> PICK d \in 0..Wrap - 1 : d = Sub(e, j)
  BY SubIs
<1>4. e % S = j % S
  BY DEF Index
<1>5. d = e - j \/ d = e - j + Wrap
  BY SubIs
<1>6. d \in 0..S - 1
  BY <1>1, <1>2
<1>7. d = e - j \/ d = e - j + S * q
  BY <1>3, <1>5, Zenon
<1>8. q \in Int
  OBVIOUS
<1>9. d = 0
  BY <1>2, <1>4, <1>6, <1>7, <1>8, Congruent, Zenon
<1> QED
  BY <1>1, <1>5, <1>9

\* The differences one jiffy later.
LEMMA SubNext ==
    ASSUME NEW e \in 0..Wrap - 1, NEW j \in 0..Wrap - 1, NEW k, k = (j + 1) % Wrap
    PROVE  /\ k \in 0..Wrap - 1
           /\ Sub(e, j) # 0 => Sub(e, k) = Sub(e, j) - 1
           /\ Sub(e, j) = 0 <=> e = j
           /\ e = j => Over(e, k)
<1> PICK W : W = Wrap
  OBVIOUS
<1>1. W \in Nat /\ W >= 2 /\ Wrap \div 2 \in Nat /\ 2 * (Wrap \div 2) <= W /\ 1 \in 0..W - 1
  BY WrapFacts
<1>2. k \in 0..W - 1 /\ k = IF j + 1 < W THEN j + 1 ELSE j + 1 - W
  BY <1>1, PlusIs
<1>3. Sub(e, j) = IF e >= j THEN e - j ELSE e - j + W
  BY SubIs
<1>4. Sub(e, k) = IF e >= k THEN e - k ELSE e - k + W
  BY <1>2, SubIs
<1>5. /\ Sub(e, j) # 0 => Sub(e, k) = Sub(e, j) - 1
      /\ Sub(e, j) = 0 <=> e = j
  BY <1>1, <1>2, <1>3, <1>4
<1>6. ASSUME e = j PROVE Over(e, k)
  <2>1. Sub(e, k) = W - 1
    BY <1>1, <1>2, <1>4, <1>6
  <2>2. W - 1 >= Wrap \div 2
    BY <1>1
  <2> QED
    BY <2>1, <2>2 DEF Over, time_after_eq, Negative
<1> QED
  BY <1>2, <1>5, <1>6

\* The next jiffy is one.
LEMMA NextJiffy ==
    ASSUME NEW j \in 0..Wrap - 1
    PROVE  (j + 1) % Wrap \in 0..Wrap - 1
BY SubNext, Zenon

\* One round of the loop of __run_timers: the bucket of jiffy j goes to the work list,
\* where only timers are whose jiffy is over at the next one, and the others stay.
LEMMA RoundKeeps ==
    ASSUME NEW s, NEW e \in 0..Wrap - 1, NEW j \in 0..Wrap - 1, NEW k, k = (j + 1) % Wrap,
           Settled(s, e, j), Over(e, j) => Over(e, k)
    PROVE  InWheel(IF s = <<0, Index(j, 0)>> THEN WorkList ELSE s, e, k)
<1>1. CASE Over(e, j)
  BY <1>1 DEF Settled, InWheel
<1>2. CASE ~Over(e, j)
  <2> PICK d \in 0..Wrap - 1 : d = Sub(e, j)
    BY SubIs
  <2>0. Wrap \in Nat /\ Wrap \div 2 \in Nat /\ TVN \in Nat \ {0}
    BY WrapFacts, TimerConstants
  <2>1. CASE d = 0
    <3>1. e = j /\ Over(e, k)
      BY <2>1, SubNext
    <3>2. s = <<0, Index(j, 0)>>
      <4>1. ASSUME NEW n \in 1..TVN PROVE ~(e % Span(n - 1) < d)
        <5> PICK S : S = Span(n - 1)
          OBVIOUS
        <5>1. S \in Nat \ {0} /\ e \in Int
          BY <2>0, WrapFacts
        <5>2. PICK m \in 0..S - 1 : m = e % S
          BY <5>1, DivMod
        <5>3. ~(m < d)
          BY <2>1, <5>1
        <5> QED
          BY <5>2, <5>3
      <4> QED
        BY <1>2, <3>1, <4>1 DEF Settled
    <3> QED
      BY <3>1, <3>2 DEF InWheel
  <2>2. CASE d # 0
    <3>1. Sub(e, k) = d - 1 /\ e # j
      BY <2>2, SubNext
    <3>2. ~(d >= Wrap \div 2)
      BY <1>2 DEF Over, time_after_eq, Negative
    <3>3. ~(d - 1 >= Wrap \div 2)
      BY <2>0, <3>2
    <3>4. ~Over(e, k)
      BY <3>1, <3>3 DEF Over, time_after_eq, Negative
    <3>5. CASE s = <<0, Index(e, 0)>> /\ d < Span(0)
      <4>1. Index(e, 0) # Index(j, 0)
        BY <3>1, <3>5, BucketDue
      <4>2. s # <<0, Index(j, 0)>>
        BY <3>5, <4>1
      <4>3. PICK S \in Nat : S = Span(0)
        BY <2>0, WrapFacts
      <4>4. d - 1 < S
        BY <3>5, <4>3
      <4> QED
        BY <3>1, <3>4, <3>5, <4>2, <4>3, <4>4 DEF InWheel, Ahead
    <3>6. ASSUME NEW n \in 1..TVN, s = <<n, Index(e, n)>>, e % Span(n - 1) < d
          PROVE  InWheel(IF s = <<0, Index(j, 0)>> THEN WorkList ELSE s, e, k)
      <4> PICK S : S = Span(n - 1)
        OBVIOUS
      <4>1. S \in Nat \ {0} /\ e \in Int
        BY <2>0, WrapFacts
      <4>2. PICK m \in 0..S - 1 : m = e % S
        BY <4>1, DivMod
      <4>3. m <= d - 1
        BY <3>6, <4>2
      <4>4. s # <<0, Index(j, 0)>>
        BY <3>6
      <4> QED
        BY <3>1, <3>4, <3>6, <4>2, <4>3, <4>4 DEF InWheel, Ahead
    <3> QED
      BY <1>2, <3>5, <3>6 DEF Settled
  <2> QED
    BY <2>1, <2>2
<1> QED
  BY <1>1, <1>2

-----------------------------------------------------------------------------
(* Distances from the present *)

Half == Wrap \div 2

\* Jiffy x is k jiffies after jiffy y, or before it if k is negative.
Off(x, y, k) == x = y + k \/ x = y + k - Wrap \/ x = y + k + Wrap

\* Jiffy x is between low and high jiffies after y.
Near(x, y, low, high) == \E k \in low..high : Off(x, y, k)

\* Half a range, and the bounds.
LEMMA RangeFacts ==
    /\ Wrap \in Nat /\ Wrap >= 2 /\ Half \in Nat /\ 2 * Half <= Wrap /\ Wrap <= 2 * Half + 1
    /\ MaxLag \in Nat /\ MaxLag >= 1 /\ MaxLate \in Nat /\ MaxLag <= MaxLate /\ MaxLate < Half
    /\ \A d \in Delays : d \in Nat /\ d + MaxLag <= Half
BY WrapFacts, TimerConstants, RangeAssumption DEF Half

\* Distances shrink when the present moves on.
LEMMA OffBefore ==
    ASSUME NEW x \in 0..Wrap - 1, NEW y \in 0..Wrap - 1, NEW k \in Int,
           k <= Wrap, k > -Wrap, Off(x, y, k)
    PROVE  Off(x, (y + 1) % Wrap, k - 1)
<1> PICK W : W = Wrap
  OBVIOUS
<1>1. W \in Nat /\ W >= 2 /\ 1 \in 0..W - 1
  BY RangeFacts
<1> PICK z : z = (y + 1) % Wrap
  OBVIOUS
<1>2. z = IF y + 1 < W THEN y + 1 ELSE y + 1 - W
  BY <1>1, PlusIs
<1>3. x = y + k \/ x = y + k - W \/ x = y + k + W
  BY DEF Off
<1>4. x = z + (k - 1) \/ x = z + (k - 1) - W \/ x = z + (k - 1) + W
  BY <1>1, <1>2, <1>3
<1> QED
  BY <1>4 DEF Off

\* Distances grow when the other jiffy moves on.
LEMMA OffAfter ==
    ASSUME NEW x \in 0..Wrap - 1, NEW y \in 0..Wrap - 1, NEW k \in Int,
           k < Wrap, k >= -Wrap, Off(x, y, k)
    PROVE  Off((x + 1) % Wrap, y, k + 1)
<1> PICK W : W = Wrap
  OBVIOUS
<1>1. W \in Nat /\ W >= 2 /\ 1 \in 0..W - 1
  BY RangeFacts
<1> PICK z : z = (x + 1) % Wrap
  OBVIOUS
<1>2. z = IF x + 1 < W THEN x + 1 ELSE x + 1 - W
  BY <1>1, PlusIs
<1>3. x = y + k \/ x = y + k - W \/ x = y + k + W
  BY DEF Off
<1>4. z = y + (k + 1) \/ z = y + (k + 1) - W \/ z = y + (k + 1) + W
  BY <1>1, <1>2, <1>3
<1> QED
  BY <1>4 DEF Off

\* The guards of Tick: what is m jiffies behind at the next jiffy stops the clock.
LEMMA NotBehind ==
    ASSUME NEW x \in 0..Wrap - 1, NEW y \in 0..Wrap - 1, NEW m \in Nat, m < Half,
           Off(x, y, 1 - m), Negative(Sub(y + 1, x)) \/ Sub(y + 1, x) < m
    PROVE  FALSE
<1> PICK W : W = Wrap
  OBVIOUS
<1> PICK h : h = Half
  OBVIOUS
<1>1. W \in Nat /\ W >= 2 /\ h \in Nat /\ 2 * h <= W
  BY RangeFacts
<1>2. x = y + (1 - m) \/ x = y + (1 - m) - W \/ x = y + (1 - m) + W
  BY DEF Off
<1> PICK z : z = (y + 1) - x
  OBVIOUS
<1>3. m \in 0..W - 1 /\ z \in Int /\ (z = m \/ z = m + W \/ z = m - W)
  BY <1>1, <1>2
<1>4. z % Wrap = m
  BY <1>3, ModIs
<1>5. Sub(y + 1, x) = m
  BY <1>4 DEF Sub
<1>6. ~(m >= h) /\ ~(m < m)
  BY <1>1
<1> QED
  BY <1>5, <1>6 DEF Negative, Half

\* One more jiffy leaves what is not late within its bounds.
LEMMA NearTick ==
    ASSUME NEW x \in 0..Wrap - 1, NEW y \in 0..Wrap - 1, NEW m \in Nat, m < Half,
           NEW high \in Int, high <= Half, Near(x, y, 1 - m, high),
           Negative(Sub(y + 1, x)) \/ Sub(y + 1, x) < m
    PROVE  Near(x, (y + 1) % Wrap, 1 - m, high)
<1>1. PICK k \in (1 - m)..high : Off(x, y, k)
  BY DEF Near
<1>2. k # 1 - m
  BY <1>1, NotBehind
<1> PICK h \in Nat : h = Half
  BY RangeFacts
<1>3. k \in Int /\ k <= Wrap /\ k > -Wrap /\ k - 1 \in (1 - m)..high
  BY <1>2, RangeFacts
<1>4. Off(x, (y + 1) % Wrap, k - 1)
  BY <1>1, <1>3, OffBefore
<1> QED
  BY <1>3, <1>4 DEF Near

\* A base that is due is not ahead of the present, and after a round at most one
\* jiffy.
LEMMA NearRound ==
    ASSUME NEW j \in 0..Wrap - 1, NEW y \in 0..Wrap - 1,
           Near(j, y, 1 - MaxLag, 1), time_after_eq(y, j)
    PROVE  Near(j, y, 1 - MaxLag, 0) /\ Near((j + 1) % Wrap, y, 1 - MaxLag, 1)
<1>1. PICK k \in (1 - MaxLag)..1 : Off(j, y, k)
  BY DEF Near
<1> PICK W : W = Wrap
  OBVIOUS
<1> PICK h : h = Half
  OBVIOUS
<1> PICK m : m = MaxLag
  OBVIOUS
<1>2. W \in Nat /\ W >= 2 /\ h \in Nat /\ 2 * h <= W /\ m \in Nat /\ m < h
  BY RangeFacts
<1>3. k # 1
  <2> SUFFICES ASSUME k = 1 PROVE FALSE
    OBVIOUS
  <2>1. j = y + 1 \/ j = y + 1 - W \/ j = y + 1 + W
    BY <1>1 DEF Off
  <2>2. Sub(y, j) = IF y >= j THEN y - j ELSE y - j + W
    BY SubIs
  <2>3. Sub(y, j) = W - 1
    BY <1>2, <2>1, <2>2
  <2>4. W - 1 >= h
    BY <1>2
  <2> QED
    BY <2>3, <2>4 DEF time_after_eq, Negative, Half
<1>4. k \in (1 - m)..0 /\ k + 1 \in (1 - m)..1 /\ k \in Int /\ k < W /\ k >= -W
  BY <1>2, <1>3
<1>5. Off((j + 1) % Wrap, y, k + 1)
  BY <1>1, <1>4, OffAfter
<1> QED
  BY <1>1, <1>4, <1>5 DEF Near

\* A timeout from the present.
LEMMA NearDelay ==
    ASSUME NEW y \in 0..Wrap - 1, NEW d \in Delays
    PROVE  /\ (y + d) % Wrap \in 0..Wrap - 1
           /\ Near((y + d) % Wrap, y, 1 - MaxLag, Half - MaxLag)
<1> PICK W : W = Wrap
  OBVIOUS
<1> PICK h : h = Half
  OBVIOUS
<1> PICK m : m = MaxLag
  OBVIOUS
<1>1. W \in Nat /\ h \in Nat /\ 2 * h <= W /\ m \in Nat /\ m >= 1 /\ d \in Nat /\ d + m <= h
  BY RangeFacts
<1>2. d \in 0..W - 1 /\ d \in (1 - m)..(h - m)
  BY <1>1
<1> PICK x : x = (y + d) % Wrap
  OBVIOUS
<1>3. x \in 0..W - 1 /\ x = IF y + d < W THEN y + d ELSE y + d - W
  BY <1>2, PlusIs
<1>4. Off(x, y, d)
  BY <1>3 DEF Off
<1> QED
  BY <1>2, <1>3, <1>4 DEF Near

\* The present.
LEMMA NearNow ==
    ASSUME NEW y \in 0..Wrap - 1
    PROVE  Near(y, y, 1 - MaxLag, 1)
<1>1. 0 \in (1 - MaxLag)..1 /\ y = y + 0
  BY RangeFacts
<1> QED
  BY <1>1 DEF Near, Off

\* mod_timer may take as long as a softirq, which is less than a timer may be late.
LEMMA NearLate ==
    ASSUME NEW x, NEW y, Near(x, y, 1 - MaxLag, Half - MaxLag)
    PROVE  Near(x, y, 1 - MaxLate, Half - MaxLag)
<1>1. PICK k \in (1 - MaxLag)..(Half - MaxLag) : Off(x, y, k)
  BY DEF Near
<1> PICK h \in Nat : h = Half
  BY RangeFacts
<1>2. k \in (1 - MaxLate)..(h - MaxLag)
  BY RangeFacts
<1> QED
  BY <1>1, <1>2 DEF Near

\* A jiffy that is over stays over after a round of a base that is due.
LEMMA StaysOver ==
    ASSUME NEW e \in 0..Wrap - 1, NEW j \in 0..Wrap - 1, NEW y \in 0..Wrap - 1,
           Near(e, y, 1 - MaxLate, Half - MaxLag), Near(j, y, 1 - MaxLag, 0), Over(e, j)
    PROVE  Over(e, (j + 1) % Wrap)
<1>1. PICK k \in (1 - MaxLate)..(Half - MaxLag) : Off(e, y, k)
  BY DEF Near
<1>2. PICK l \in (1 - MaxLag)..0 : Off(j, y, l)
  BY DEF Near
<1> PICK W : W = Wrap
  OBVIOUS
<1> PICK h : h = Half
  OBVIOUS
<1> PICK m : m = MaxLag
  OBVIOUS
<1> PICK n : n = MaxLate
  OBVIOUS
<1> PICK i : i = (j + 1) % Wrap
  OBVIOUS
<1>3. /\ W \in Nat /\ W >= 2 /\ h \in Nat /\ 2 * h <= W /\ W <= 2 * h + 1
      /\ m \in Nat /\ n \in Nat /\ m >= 1 /\ n < h
  BY RangeFacts
<1>4. k \in (1 - n)..(h - m) /\ l \in (1 - m)..0
  BY <1>1, <1>2
<1>5. e = y + k \/ e = y + k - W \/ e = y + k + W
  BY <1>1 DEF Off
<1>6. j = y + l \/ j = y + l - W \/ j = y + l + W
  BY <1>2 DEF Off
<1> PICK d \in 0..W - 1 : d = Sub(e, j)
  BY SubIs
<1>7. d = IF e >= j THEN e - j ELSE e - j + W
  BY SubIs
<1>8. d >= h
  BY DEF Over, time_after_eq, Negative, Half
<1>9. d = k - l + W /\ k - l < 0
  BY <1>3, <1>4, <1>5, <1>6, <1>7, <1>8
<1>10. d # 0 /\ d - 1 >= h
  BY <1>3, <1>4, <1>9
<1>11. Sub(e, i) = d - 1
  BY <1>10, SubNext
<1> QED
  BY <1>10, <1>11 DEF Over, time_after_eq, Negative, Half

-----------------------------------------------------------------------------
(* The types, and the place of every pending timer *)

\* What a call has read and been given; y is the present.
CallOK(k, y) ==
    /\ k.base \in CPU \cup {None} /\ k.expires \in 0..Wrap - 1
    /\ k.op # "idle" => k.timer \in Timers
    /\ k.op = "mod" => Near(k.expires, y, 1 - MaxLag, Half - MaxLag)

\* The rest of the type invariant.
WheelType ==
    /\ jiffies \in 0..Wrap - 1 /\ timer_jiffies \in [CPU -> 0..Wrap - 1]
    /\ expires \in [Timers -> 0..Wrap - 1] /\ slot = [t \in Timers |-> slot[t]]
    /\ \A t \in Timers : base[t] = None => slot[t] = NoSlot

\* The bases that run or are to be migrated are close to the present, and so is every
\* pending timer; a pending timer is in its place in the wheel of its base.
LagInv ==
    \A c \in online \cup dead \cup coming : Near(timer_jiffies[c], jiffies, 1 - MaxLag, 1)
LateInv ==
    \A t \in Timers : base[t] # None => Near(expires[t], jiffies, 1 - MaxLate, Half - MaxLag)
WheelInv ==
    \A t \in Timers : base[t] # None => InWheel(slot[t], expires[t], timer_jiffies[base[t]])

WInv == WheelType /\ CallOK(task, jiffies) /\ LagInv /\ LateInv /\ WheelInv

\* The place of a timer has the type of one, and says whether its jiffy is over.
LEMMA PlaceType ==
    ASSUME NEW s, NEW e \in 0..Wrap - 1, NEW j \in 0..Wrap - 1, InWheel(s, e, j)
    PROVE  /\ s \in {WorkList} \cup ({0} \X (0..Span(0) - 1))
                               \cup ((1..TVN) \X (0..2 ^ TVN_BITS - 1))
           /\ IF s = WorkList THEN Over(e, j) ELSE Over(e, j) => s = <<0, Index(j, 0)>>
<1>0. TVN \in Nat \ {0} /\ e \in Int /\ j \in Int
  BY TimerConstants, WrapFacts
<1> PICK S : S = Span(0)
  OBVIOUS
<1> PICK B : B = 2 ^ TVN_BITS
  OBVIOUS
<1>1. S \in Nat \ {0} /\ B \in Nat \ {0}
  BY <1>0, WrapFacts, SpanAssumption
<1>2. Index(e, 0) \in 0..S - 1 /\ Index(j, 0) \in 0..S - 1
  BY <1>0, <1>1, DivMod DEF Index
<1>3. ASSUME NEW n \in 1..TVN
      PROVE  Index(e, n) \in 0..B - 1
  <2> PICK R : R = Span(n - 1)
    OBVIOUS
  <2>1. R \in Nat \ {0} /\ n # 0
    BY <1>0, WrapFacts
  <2>2. PICK a \in Int : a = e \div R
    BY <1>0, <2>1, DivMod, Zenon
  <2>3. a % B \in 0..B - 1
    BY <1>1, DivMod, Zenon
  <2>4. Index(e, n) = a % B
    BY <2>1, <2>2 DEF Index
  <2> QED
    BY <2>3, <2>4
<1>4. \A i : WorkList # <<0, i>>
  BY <1>0 DEF WorkList
<1>5. \A n \in 1..TVN : \A i : WorkList # <<n, i>>
  BY <1>0 DEF WorkList
<1>6. CASE Over(e, j)
  BY <1>2, <1>4, <1>6 DEF InWheel
<1>7. CASE ~Over(e, j)
  BY <1>2, <1>3, <1>4, <1>5, <1>7 DEF InWheel, Ahead
<1> QED
  BY <1>6, <1>7

\* A pending timer is in the wheel of a CPU.
LEMMA PendingPlace ==
    ASSUME IInv, WInv, NEW t \in Timers, base[t] # None
    PROVE  /\ base[t] \in CPU /\ base[t] \in online \cup dead
           /\ expires[t] \in 0..Wrap - 1 /\ timer_jiffies[base[t]] \in 0..Wrap - 1
           /\ InWheel(slot[t], expires[t], timer_jiffies[base[t]])
BY DEF IInv, Placed, CoreType, NotStranded, WInv, WheelType, WheelInv

\* The types hold.
LEMMA WheelTypes == IInv /\ WInv => TypeOK
<1> SUFFICES ASSUME IInv, WInv PROVE TypeOK
  OBVIOUS
<1>1. ASSUME NEW t \in Timers
      PROVE  slot[t] \in IF base[t] = None THEN {NoSlot}
                         ELSE {WorkList} \cup ({0} \X (0..Span(0) - 1))
                                         \cup ((1..TVN) \X (0..2 ^ TVN_BITS - 1))
  <2>1. CASE base[t] = None
    BY <2>1 DEF WInv, WheelType
  <2>2. CASE base[t] # None
    BY <2>2, PendingPlace, PlaceType, Zenon
  <2> QED
    BY <2>1, <2>2
<1>2. dead \cup coming \subseteq CPU \ online
  BY DEF IInv, Placed, CoreType, OneDead
<1>3. task.op \in {"idle", "mod", "del", "sync", "done"} /\ task.base \in CPU \cup {None}
  BY DEF IInv, Placed, CoreType, Calls, WInv, CallOK
<1> QED
  BY <1>1, <1>2, <1>3 DEF TypeOK, IInv, Placed, CoreType, WInv, WheelType

\* A timer is neither run before its jiffy is over nor left when it is.
LEMMA WheelOnTime == IInv /\ WInv => OnTime
<1> SUFFICES ASSUME IInv, WInv, NEW t \in Timers, base[t] \in online
             PROVE  LET j    == timer_jiffies[base[t]]
                        over == ~time_after_eq(expires[t], j)
                    IN  IF slot[t] = WorkList THEN over
                        ELSE over => slot[t] = <<0, Index(j, 0)>>
  BY DEF OnTime
<1>1. base[t] # None
  BY CPUFacts DEF IInv, Placed, CoreType
<1> PICK j : j = timer_jiffies[base[t]]
  OBVIOUS
<1>2. IF slot[t] = WorkList THEN Over(expires[t], j)
      ELSE Over(expires[t], j) => slot[t] = <<0, Index(j, 0)>>
  BY <1>1, PendingPlace, PlaceType, Zenon
<1> QED
  BY <1>2 DEF Over

-----------------------------------------------------------------------------
(* What the steps do to the wheel *)

\* Nothing happens to time and the wheel.
LEMMA WheelKept ==
    ASSUME WInv, UNCHANGED <<jiffies, timer_jiffies, wheel>>,
           online' \cup dead' \cup coming' \subseteq online \cup dead \cup coming,
           CallOK(task', jiffies)
    PROVE  WInv'
<1>1. WheelType' /\ LateInv' /\ WheelInv'
  BY DEF WInv, wheel, WheelType, LateInv, WheelInv
<1>2. LagInv'
  BY DEF WInv, LagInv
<1> QED
  BY <1>1, <1>2 DEF WInv

\* A timer is put on a base.
LEMMA WheelLink ==
    ASSUME IInv, WInv, NEW t \in Timers, NEW c \in CPU, NEW e \in 0..Wrap - 1, Link(t, c, e),
           Near(e, jiffies, 1 - MaxLate, Half - MaxLag),
           UNCHANGED <<jiffies, timer_jiffies, online, dead, coming>>, CallOK(task', jiffies)
    PROVE  WInv'
<1>0. /\ base \in [Timers -> CPU \cup {None}] /\ expires \in [Timers -> 0..Wrap - 1]
      /\ slot = [u \in Timers |-> slot[u]] /\ c # None
      /\ timer_jiffies \in [CPU -> 0..Wrap - 1] /\ timer_jiffies[c] \in 0..Wrap - 1
  BY CPUFacts DEF IInv, Placed, CoreType, WInv, WheelType
<1> PICK j \in 0..Wrap - 1 : j = timer_jiffies[c]
  BY <1>0
<1> PICK s : s = internal_add_timer(e, j)
  OBVIOUS
<1>1. InWheel(s, e, j)
  BY AddTimer, SettledInWheel
<1>2. /\ base' = [base EXCEPT ![t] = c] /\ slot' = [slot EXCEPT ![t] = s]
      /\ expires' = [expires EXCEPT ![t] = e]
  BY DEF Link
<1>3. /\ \A u \in Timers : base'[u] = IF u = t THEN c ELSE base[u]
      /\ \A u \in Timers : slot'[u] = IF u = t THEN s ELSE slot[u]
      /\ \A u \in Timers : expires'[u] = IF u = t THEN e ELSE expires[u]
      /\ expires' \in [Timers -> 0..Wrap - 1] /\ slot' = [u \in Timers |-> slot'[u]]
  BY <1>0, <1>2, Zenon
<1>4. WheelType'
  BY <1>0, <1>3 DEF WInv, WheelType
<1>5. LagInv' /\ LateInv'
  BY <1>0, <1>3 DEF WInv, LagInv, LateInv
<1>6. WheelInv'
  BY <1>0, <1>1, <1>3 DEF WInv, WheelInv
<1> QED
  BY <1>4, <1>5, <1>6 DEF WInv

\* A timer is taken off its base.
LEMMA WheelUnlink ==
    ASSUME IInv, WInv, NEW t, Unlink(t),
           UNCHANGED <<jiffies, timer_jiffies, online, dead, coming>>, CallOK(task', jiffies)
    PROVE  WInv'
<1>0. /\ base \in [Timers -> CPU \cup {None}] /\ expires \in [Timers -> 0..Wrap - 1]
      /\ slot = [u \in Timers |-> slot[u]] /\ 0 \in 0..Wrap - 1
  BY RangeFacts DEF IInv, Placed, CoreType, WInv, WheelType
<1>2. /\ base' = [base EXCEPT ![t] = None] /\ slot' = [slot EXCEPT ![t] = NoSlot]
      /\ expires' = [expires EXCEPT ![t] = 0]
  BY DEF Unlink
<1>3. /\ \A u \in Timers : base'[u] = IF u = t THEN None ELSE base[u]
      /\ \A u \in Timers : slot'[u] = IF u = t THEN NoSlot ELSE slot[u]
      /\ \A u \in Timers : expires'[u] = IF u = t THEN 0 ELSE expires[u]
      /\ expires' \in [Timers -> 0..Wrap - 1] /\ slot' = [u \in Timers |-> slot'[u]]
  BY <1>0, <1>2, Zenon
<1>4. WheelType'
  BY <1>0, <1>3 DEF WInv, WheelType
<1>5. LagInv' /\ LateInv'
  BY <1>0, <1>3 DEF WInv, LagInv, LateInv
<1>6. WheelInv'
  BY <1>0, <1>3 DEF WInv, WheelInv
<1> QED
  BY <1>4, <1>5, <1>6 DEF WInv

-----------------------------------------------------------------------------
(* The steps *)

\* The task between two calls.
LEMMA IdleOK == ASSUME NEW y PROVE CallOK(IdleTask, y)
<1>1. 0 \in 0..Wrap - 1
  BY RangeFacts
<1> QED
  BY <1>1 DEF CallOK, IdleTask, Call

\* A call whose timer and expiry stay.
LEMMA SameCall ==
    ASSUME NEW k, NEW l, NEW y, CallOK(k, y), l.op = k.op \/ (l.op = "done" /\ k.op # "idle"),
           l.base = k.base \/ l.base \in CPU \cup {None},
           l.expires = k.expires, l.timer = k.timer
    PROVE  CallOK(l, y)
BY DEF CallOK

\* The end of del_timer.
LEMMA DeletedOK ==
    ASSUME IInv, WInv, task' = Deleted
    PROVE  CallOK(task', jiffies)
<1>1. CASE task.op = "del"
  BY <1>1, IdleOK DEF Deleted
<1>2. CASE task.op # "del"
  <2>1. task' = [task EXCEPT !.step = "check", !.base = None]
    BY <1>2 DEF Deleted
  <2> QED
    BY <2>1, SameCall DEF WInv, IInv, Placed, CoreType, Calls
<1> QED
  BY <1>1, <1>2

\* The initial state.
LEMMA WheelInit == Init => WInv
<1> SUFFICES ASSUME Init PROVE WInv
  OBVIOUS
<1>1. PICK d \in Delays :
          /\ expires = [t \in Timers |-> IF t \in Managed THEN 0 ELSE d]
          /\ base = [t \in Timers |-> IF t \in Managed THEN None ELSE 0]
          /\ slot = [t \in Timers |-> IF t \in Managed THEN NoSlot ELSE internal_add_timer(d, 0)]
  BY DEF Init
<1>2. jiffies = 0 /\ timer_jiffies = [c \in CPU |-> 0] /\ task = IdleTask /\ online = CPU
      /\ dead = {} /\ coming = {}
  BY DEF Init
<1>3. 0 \in 0..Wrap - 1 /\ 0 \in CPU /\ None \notin CPU
  BY RangeFacts, CPUFacts
<1>4. d \in 0..Wrap - 1 /\ Near(d, 0, 1 - MaxLag, Half - MaxLag)
  <2>1. d \in Nat /\ d \in 0..Wrap - 1 /\ 0 + d = d
    BY RangeFacts
  <2>2. (0 + d) % Wrap = d
    BY <2>1, ModIs
  <2> QED
    BY <1>3, <2>1, <2>2, NearDelay
<1>5. Near(d, 0, 1 - MaxLate, Half - MaxLag)
  BY <1>4, NearLate
<1> PICK s : s = internal_add_timer(d, 0)
  OBVIOUS
<1>6. InWheel(s, d, 0)
  BY <1>3, <1>4, AddTimer, SettledInWheel
<1>7. WheelType
  BY <1>1, <1>2, <1>3, <1>4 DEF WheelType
<1>8. CallOK(task, jiffies)
  BY <1>2, IdleOK
<1>9. LagInv
  BY <1>2, <1>3, NearNow DEF LagInv
<1>10. LateInv /\ WheelInv
  BY <1>1, <1>2, <1>3, <1>5, <1>6 DEF LateInv, WheelInv
<1> QED
  BY <1>7, <1>8, <1>9, <1>10 DEF WInv

\* do_timer.
LEMMA WheelTick == ASSUME IInv, WInv, Tick PROVE WInv'
<1> PICK y \in 0..Wrap - 1 : y = jiffies
  BY DEF WInv, WheelType
<1> PICK z : z = (y + 1) % Wrap
  OBVIOUS
<1>0. /\ jiffies' = z /\ UNCHANGED <<timer_jiffies, base, expires, slot, task, online, dead, coming>>
      /\ z \in 0..Wrap - 1
  <2>1. z \in 0..Wrap - 1
    BY NextJiffy, Zenon
  <2> QED
    BY <2>1 DEF Tick, wheel
<1>1. WheelType'
  BY <1>0 DEF WInv, WheelType
<1>2. MaxLag \in Nat /\ MaxLag < Half /\ MaxLate \in Nat /\ MaxLate < Half
      /\ 1 \in Int /\ 1 <= Half /\ Half - MaxLag \in Int /\ Half - MaxLag <= Half
  BY RangeFacts
<1>3. LagInv'
  <2> SUFFICES ASSUME NEW c \in online \cup dead \cup coming
               PROVE  Near(timer_jiffies[c], z, 1 - MaxLag, 1)
    BY <1>0 DEF LagInv
  <2>1. timer_jiffies[c] \in 0..Wrap - 1 /\ Near(timer_jiffies[c], y, 1 - MaxLag, 1)
    BY DEF IInv, Placed, CoreType, WInv, WheelType, LagInv
  <2>2. Sub(y + 1, timer_jiffies[c]) < MaxLag
    BY DEF Tick
  <2> QED
    BY <1>2, <2>1, <2>2, NearTick
<1>4. CallOK(task', jiffies')
  <2> SUFFICES ASSUME task.op = "mod" PROVE Near(task.expires, z, 1 - MaxLag, Half - MaxLag)
    BY <1>0, Zenon DEF WInv, CallOK
  <2>1. task.expires \in 0..Wrap - 1 /\ Near(task.expires, y, 1 - MaxLag, Half - MaxLag)
    BY DEF WInv, CallOK
  <2>2. Negative(Sub(y + 1, task.expires)) \/ Sub(y + 1, task.expires) < MaxLag
    BY DEF Tick, WithinLag
  <2> QED
    BY <1>2, <2>1, <2>2, NearTick
<1>5. LateInv'
  <2> SUFFICES ASSUME NEW t \in Timers, base[t] # None
               PROVE  Near(expires[t], z, 1 - MaxLate, Half - MaxLag)
    BY <1>0 DEF LateInv
  <2>1. expires[t] \in 0..Wrap - 1 /\ Near(expires[t], y, 1 - MaxLate, Half - MaxLag)
    BY DEF WInv, WheelType, LateInv
  <2>2. Negative(Sub(y + 1, expires[t])) \/ Sub(y + 1, expires[t]) < MaxLate
    BY DEF Tick, WithinLag
  <2> QED
    BY <1>2, <2>1, <2>2, NearTick
<1>6. WheelInv'
  BY <1>0 DEF WInv, WheelInv
<1> QED
  BY <1>1, <1>3, <1>4, <1>5, <1>6 DEF WInv

\* One round of __run_timers.
LEMMA WheelRound == ASSUME IInv, WInv, NEW c \in CPU, run_timers(c) PROVE WInv'
<1> PICK y \in 0..Wrap - 1 : y = jiffies
  BY DEF WInv, WheelType
<1> PICK j \in 0..Wrap - 1 : j = timer_jiffies[c]
  BY DEF WInv, WheelType
<1> PICK i : i = (j + 1) % Wrap
  OBVIOUS
<1> PICK moved : moved = [t \in Timers |-> IF base[t] = c /\ slot[t] \in Cascaded(j)
                                          THEN internal_add_timer(expires[t], j) ELSE slot[t]]
  OBVIOUS
<1>0. /\ c \in online /\ Work(c) = {} /\ time_after_eq(y, j)
      /\ timer_jiffies' = [timer_jiffies EXCEPT ![c] = i]
      /\ slot' = [t \in Timers |-> IF base[t] = c /\ moved[t] = <<0, Index(j, 0)>>
                                   THEN WorkList ELSE moved[t]]
      /\ UNCHANGED <<jiffies, base, expires, task, online, dead, coming>>
  BY DEF run_timers, Due, RunRest
<1>1. i \in 0..Wrap - 1
  BY NextJiffy, Zenon
<1>2. /\ base \in [Timers -> CPU \cup {None}] /\ None \notin CPU
      /\ expires \in [Timers -> 0..Wrap - 1] /\ timer_jiffies \in [CPU -> 0..Wrap - 1]
  BY CPUFacts DEF IInv, Placed, CoreType, WInv, WheelType
<1>3. /\ timer_jiffies' \in [CPU -> 0..Wrap - 1]
      /\ \A b \in CPU : timer_jiffies'[b] = IF b = c THEN i ELSE timer_jiffies[b]
  BY <1>0, <1>1, <1>2
<1>4. Near(j, y, 1 - MaxLag, 0) /\ Near(i, y, 1 - MaxLag, 1)
  BY <1>0, NearRound DEF WInv, LagInv
<1>5. ASSUME NEW t \in Timers, base[t] # c PROVE slot'[t] = slot[t]
  BY <1>0, <1>5
<1>6. ASSUME NEW t \in Timers, base[t] = c PROVE InWheel(slot'[t], expires[t], i)
  <2> PICK e \in 0..Wrap - 1 : e = expires[t]
    BY <1>2
  <2> PICK s : s = slot[t]
    OBVIOUS
  <2> PICK m : m = IF s \in Cascaded(j) THEN internal_add_timer(e, j) ELSE s
    OBVIOUS
  <2>1. s # WorkList /\ base[t] # None
    BY <1>0, <1>2, <1>6 DEF Work
  <2>2. InWheel(s, e, j) /\ Near(e, y, 1 - MaxLate, Half - MaxLag)
    BY <1>6, <2>1 DEF WInv, WheelInv, LateInv
  <2>3. Settled(m, e, j)
    BY <2>1, <2>2, CascadeSettles
  <2>4. Over(e, j) => Over(e, i)
    BY <1>4, <2>2, StaysOver
  <2>5. InWheel(IF m = <<0, Index(j, 0)>> THEN WorkList ELSE m, e, i)
    BY <2>3, <2>4, RoundKeeps
  <2>6. slot'[t] = IF m = <<0, Index(j, 0)>> THEN WorkList ELSE m
    BY <1>0, <1>6
  <2> QED
    BY <2>5, <2>6
<1>7. WheelType'
  <2>1. slot' = [t \in Timers |-> slot'[t]]
    BY <1>0
  <2> QED
    BY <1>0, <1>2, <1>3, <1>5, <2>1 DEF WInv, WheelType
<1>8. LagInv'
  BY <1>0, <1>2, <1>3, <1>4 DEF IInv, Placed, CoreType, WInv, LagInv
<1>9. LateInv' /\ CallOK(task', jiffies')
  BY <1>0 DEF WInv, LateInv
<1>10. WheelInv'
  BY <1>0, <1>2, <1>3, <1>5, <1>6 DEF WInv, WheelInv
<1> QED
  BY <1>7, <1>8, <1>9, <1>10 DEF WInv

\* The other steps of the softirq.
LEMMA WheelSoftirq == ASSUME IInv, WInv, NEW c \in CPU, SoftirqNext(c) PROVE WInv'
<1>0. CallOK(task, jiffies) /\ jiffies \in 0..Wrap - 1 /\ task \in Calls(task)
  BY DEF WInv, WheelType, IInv, Placed, CoreType
<1>1. CASE run_timers(c)
  BY <1>1, WheelRound
<1>2. CASE FunctionReturns(c)
  BY <1>0, <1>2, WheelKept DEF FunctionReturns, RunRest
<1>3. CASE RunDone(c)
  BY <1>0, <1>3, WheelKept DEF RunDone, RunRest
<1>4. ASSUME NEW t \in Timers, RunTimer(c, t) PROVE WInv'
  <2>1. Unlink(t) \/ UNCHANGED wheel
    BY <1>4 DEF RunTimer
  <2>2. UNCHANGED <<jiffies, timer_jiffies, task, online, dead, coming>>
    BY <1>4 DEF RunTimer, RunRest
  <2> QED
    BY <1>0, <2>1, <2>2, WheelUnlink, WheelKept
<1>5. ASSUME NEW d \in Delays, Rearm(c, d) PROVE WInv'
  <2> PICK e : e = (jiffies + d) % Wrap
    OBVIOUS
  <2>1. e \in 0..Wrap - 1 /\ Near(e, jiffies, 1 - MaxLate, Half - MaxLag)
    BY <1>0, NearDelay, NearLate
  <2>2. /\ Link(running[c], c, e) /\ running[c] \in Timers
        /\ UNCHANGED <<jiffies, timer_jiffies, online, dead, coming>>
    BY <1>5, TimerConstants DEF Rearm
  <2>3. \E q : task' = [task EXCEPT !.quiet = q]
    BY <1>5 DEF Rearm
  <2>4. CallOK(task', jiffies)
    BY <1>0, <2>3, SameCall DEF Calls
  <2> QED
    BY <2>1, <2>2, <2>4, WheelLink
<1> QED
  BY <1>1, <1>2, <1>3, <1>4, <1>5 DEF SoftirqNext

\* Calls of the task.
LEMMA WheelTask == ASSUME IInv, WInv, TaskNext PROVE WInv'
<1>0. /\ CallOK(task, jiffies) /\ jiffies \in 0..Wrap - 1 /\ task \in Calls(task)
      /\ base \in [Timers -> CPU \cup {None}] /\ online \subseteq CPU
  BY DEF WInv, WheelType, IInv, Placed, CoreType
<1>1. CASE ModLock
  <2>1. task.op = "mod" /\ UNCHANGED <<jiffies, timer_jiffies, online, dead, coming>>
    BY <1>1 DEF ModLock
  <2>2. CASE base[task.timer] = task.base
    <3>1. Link(task.timer, task.new, task.expires) /\ task' = IdleTask
      BY <1>1, <2>2 DEF ModLock
    <3>2. task.new \in CPU /\ task.timer \in Timers
      BY <1>0, <2>1 DEF IInv, Placed, NewOnline, CallOK
    <3>3. task.expires \in 0..Wrap - 1 /\ Near(task.expires, jiffies, 1 - MaxLate, Half - MaxLag)
      BY <1>0, <2>1, NearLate DEF CallOK
    <3> QED
      BY <2>1, <3>1, <3>2, <3>3, IdleOK, WheelLink
  <2>3. CASE base[task.timer] # task.base
    <3>1. task' = [task EXCEPT !.base = base[task.timer]] /\ UNCHANGED wheel
      BY <1>1, <2>3 DEF ModLock
    <3>2. base[task.timer] \in CPU \cup {None}
      BY <1>0, <2>1 DEF CallOK
    <3>3. CallOK(task', jiffies)
      BY <1>0, <3>1, <3>2, SameCall DEF Calls
    <3> QED
      BY <2>1, <3>1, <3>3, WheelKept
  <2> QED
    BY <2>2, <2>3
<1>2. CASE DelRead
  <2>1. CASE base[task.timer] # None
    <3>1. task' = [task EXCEPT !.step = "lock", !.base = base[task.timer]]
      BY <1>2, <2>1 DEF DelRead
    <3>2. base[task.timer] \in CPU \cup {None}
      BY <1>0, <1>2 DEF DelRead, At, CallOK
    <3>3. CallOK(task', jiffies)
      <4>1. task'.op = task.op /\ task'.timer = task.timer /\ task'.expires = task.expires
            /\ task'.base = base[task.timer]
        BY <1>0, <3>1 DEF Calls
      <4> QED
        BY <1>0, <3>2, <4>1, SameCall, Zenon
    <3> QED
      BY <1>2, <3>3, WheelKept DEF DelRead, DelRest
  <2>2. CASE base[task.timer] = None
    BY <1>2, <2>2, DeletedOK, WheelKept DEF DelRead, DelRest
  <2> QED
    BY <2>1, <2>2
<1>3. CASE DelLock
  <2>1. CASE base[task.timer] = task.base
    BY <1>3, <2>1, DeletedOK, WheelUnlink DEF DelLock, DelRest
  <2>2. CASE base[task.timer] # task.base
    <3>1. task' = [task EXCEPT !.step = "read", !.base = None]
      BY <1>3, <2>2 DEF DelLock
    <3>2. CallOK(task', jiffies)
      <4>1. task'.op = task.op /\ task'.timer = task.timer /\ task'.expires = task.expires
            /\ task'.base = None
        BY <1>0, <3>1 DEF Calls
      <4> QED
        BY <1>0, <4>1, SameCall, Zenon
    <3> QED
      BY <1>3, <2>2, <3>2, WheelKept DEF DelLock, DelRest
  <2> QED
    BY <2>1, <2>2
<1>4. CASE SyncCheck
  <2>1. \E q, r : \/ task' = [task EXCEPT !.step = q, !.i = r]
                 \/ task' = [task EXCEPT !.i = r]
    BY <1>4, Zenon DEF SyncCheck
  <2>2. CallOK(task', jiffies)
    BY <1>0, <2>1, SameCall DEF Calls
  <2> QED
    BY <1>4, <2>2, WheelKept DEF SyncCheck, DelRest
<1>5. CASE SyncSpin
  <2>1. task' = [task EXCEPT !.step = "pending", !.i = 0]
    BY <1>5 DEF SyncSpin
  <2>2. CallOK(task', jiffies)
    <3>1. task'.op = task.op /\ task'.timer = task.timer /\ task'.expires = task.expires
          /\ task'.base = task.base
      BY <1>0, <2>1 DEF Calls
    <3> QED
      BY <1>0, <3>1, SameCall, Zenon
  <2> QED
    BY <1>5, <2>2, WheelKept DEF SyncSpin, DelRest
<1>6. CASE SyncPending
  <2>1. task' = [task EXCEPT !.step = "read"] \/ task' = [task EXCEPT !.op = "done"]
    BY <1>6 DEF SyncPending
  <2>2. CallOK(task', jiffies)
    BY <1>0, <1>6, <2>1, SameCall DEF SyncPending, At, Calls
  <2> QED
    BY <1>6, <2>2, WheelKept DEF SyncPending, DelRest
<1>7. CASE SyncReturned
  BY <1>7, IdleOK, WheelKept DEF SyncReturned, DelRest
<1>8. ASSUME NEW t \in Managed, NEW op \in {"del", "sync"}, del_timer(t, op) PROVE WInv'
  <2>1. \E q : task' = [Call(op, t) EXCEPT !.alone = q, !.quiet = q]
    BY <1>8, Zenon DEF del_timer
  <2>2. CallOK(task', jiffies)
    BY <2>1, RangeFacts, TimerConstants DEF CallOK, Call
  <2> QED
    BY <1>8, <2>2, WheelKept DEF del_timer, DelRest
<1>9. ASSUME NEW t \in Managed, NEW c \in online, NEW d \in Delays PROVE
          /\ mod_timer(t, c, d) => WInv'
          /\ add_timer_on(t, c, d) => WInv'
  <2> PICK e : e = (jiffies + d) % Wrap
    OBVIOUS
  <2>0. /\ e \in 0..Wrap - 1 /\ Near(e, jiffies, 1 - MaxLag, Half - MaxLag)
        /\ t \in Timers /\ c \in CPU
    BY <1>0, NearDelay, TimerConstants
  <2>1. ASSUME mod_timer(t, c, d) PROVE WInv'
    <3>1. task' = [Call("mod", t) EXCEPT !.base = base[t], !.new = c, !.expires = e]
      BY <2>1 DEF mod_timer
    <3>2. /\ task'.op = "mod" /\ task'.timer = t /\ task'.base = base[t] /\ task'.expires = e
          /\ base[t] \in CPU \cup {None}
      BY <1>0, <2>0, <3>1 DEF Call
    <3>3. CallOK(task', jiffies)
      BY <2>0, <3>2, Zenon DEF CallOK
    <3> QED
      BY <2>1, <3>3, WheelKept DEF mod_timer
  <2>2. ASSUME add_timer_on(t, c, d) PROVE WInv'
    <3>1. /\ Link(t, c, e) /\ UNCHANGED <<jiffies, timer_jiffies, task, online, dead, coming>>
      BY <2>2 DEF add_timer_on
    <3> QED
      BY <1>0, <2>0, <3>1, NearLate, WheelLink
  <2> QED
    BY <2>1, <2>2
<1> QED
  BY <1>1, <1>2, <1>3, <1>4, <1>5, <1>6, <1>7, <1>8, <1>9 DEF TaskNext

\* CPU hotplug.
LEMMA WheelHotplug == ASSUME IInv, WInv, HotplugNext PROVE WInv'
<1>0. /\ CallOK(task, jiffies) /\ jiffies \in 0..Wrap - 1
      /\ base \in [Timers -> CPU \cup {None}] /\ online \subseteq CPU
      /\ timer_jiffies \in [CPU -> 0..Wrap - 1]
  BY DEF WInv, WheelType, IInv, Placed, CoreType
<1>1. ASSUME NEW c \in CPU, CpuDown(c) PROVE WInv'
  BY <1>0, <1>1, WheelKept DEF CpuDown, HotplugRest
<1>2. ASSUME NEW c \in CPU, MigrateDone(c) PROVE WInv'
  BY <1>0, <1>2, WheelKept DEF MigrateDone, HotplugRest
<1>3. ASSUME NEW c \in CPU, CpuUpPrepare(c) PROVE WInv'
  <2>1. /\ c \notin online \cup dead /\ UNCHANGED <<online, dead>> /\ coming' = {c}
        /\ UNCHANGED <<jiffies, base, expires, slot, task>>
        /\ timer_jiffies' \in [CPU -> 0..Wrap - 1]
        /\ \A b \in CPU : timer_jiffies'[b] = IF b = c THEN jiffies ELSE timer_jiffies[b]
    BY <1>0, <1>3 DEF CpuUpPrepare, HotplugIdle, wheel, HotplugRest
  <2>2. \A t \in Timers : base[t] # c
    BY <2>1, CPUFacts DEF IInv, Placed, NotStranded
  <2>3. WheelType' /\ LateInv' /\ CallOK(task', jiffies')
    BY <2>1 DEF WInv, WheelType, LateInv
  <2>4. LagInv'
    <3>1. online \cup dead \subseteq CPU
      BY DEF IInv, Placed, CoreType
    <3> QED
      BY <1>0, <2>1, <3>1, NearNow DEF WInv, LagInv
  <2>5. WheelInv'
    BY <1>0, <2>1, <2>2 DEF WInv, WheelInv
  <2> QED
    BY <2>3, <2>4, <2>5 DEF WInv
<1>5. ASSUME NEW c \in CPU, CpuUp(c) PROVE WInv'
  BY <1>0, <1>5, WheelKept DEF CpuUp, HotplugRest
<1>4. ASSUME NEW c \in CPU, NEW t \in Timers, NEW n \in online, Migrate(c, t, n) PROVE WInv'
  <2>1. /\ Link(t, n, expires[t]) /\ UNCHANGED <<jiffies, timer_jiffies, task, online, dead, coming>>
        /\ base[t] = c
    BY <1>4 DEF Migrate, HotplugRest
  <2>2. n \in CPU /\ expires[t] \in 0..Wrap - 1 /\ Near(expires[t], jiffies, 1 - MaxLate, Half - MaxLag)
    BY <1>0, <2>1, CPUFacts DEF WInv, WheelType, LateInv
  <2> QED
    BY <1>0, <2>1, <2>2, WheelLink
<1> QED
  BY <1>1, <1>2, <1>3, <1>4, <1>5 DEF HotplugNext

-----------------------------------------------------------------------------

\* Every step keeps the timers in their places.
LEMMA WheelNext == IInv /\ WInv /\ [Next]_vars => WInv'
<1> SUFFICES ASSUME IInv, WInv, [Next]_vars PROVE WInv'
  OBVIOUS
<1>1. CASE Tick
  BY <1>1, WheelTick
<1>2. CASE \E c \in CPU : SoftirqNext(c)
  BY <1>2, WheelSoftirq
<1>3. CASE TaskNext
  BY <1>3, WheelTask
<1>4. CASE HotplugNext
  BY <1>4, WheelHotplug
<1>5. CASE UNCHANGED vars
  <2>1. UNCHANGED <<jiffies, timer_jiffies, wheel, task, online, dead, coming>>
    BY <1>5 DEF vars
  <2>2. CallOK(task', jiffies)
    BY <2>1 DEF WInv
  <2> QED
    BY <2>1, <2>2, WheelKept
<1> QED
  BY <1>1, <1>2, <1>3, <1>4, <1>5 DEF Next

\* The places of the timers, throughout.
LEMMA WheelInvariance == Spec => [](IInv /\ WInv)
<1>1. Init => IInv /\ WInv
  BY InitInv, WheelInit
<1>2. (IInv /\ WInv) /\ [Next]_vars => (IInv /\ WInv)'
  BY NextInv, WheelNext
<1> QED
  BY <1>1, <1>2, PTL DEF Spec

\* Types: in particular every pending timer is in a bucket that exists, or on the work
\* list, and every jiffy is one of an unsigned long.
THEOREM TypeCorrect == Spec => []TypeOK
BY WheelInvariance, WheelTypes, PTL

\* A timer is not run before its jiffy is over, and one whose jiffy is over is on the
\* work list or in the bucket that __run_timers empties next: for every shape of the
\* wheel, across the wrap of jiffies, and whichever way the timer got to its base.
THEOREM OnTimeHolds == Spec => []OnTime
BY WheelInvariance, WheelOnTime, PTL
==============================================================================
