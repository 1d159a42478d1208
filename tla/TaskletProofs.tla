---------------------------- MODULE TaskletProofs ----------------------------
(***************************************************************************)
(* Tasklets, for every number of CPUs, tasklets, softirqs and controlling  *)
(* threads, and with CPUs going down and coming up: a tasklet is           *)
(* serialized with respect to itself (IInv), the types and the disabling   *)
(* count (TInv), a scheduled tasklet is not forgotten (FInv), SCHED has    *)
(* one owner while it is set (OInv), and tasklet_disable and tasklet_kill  *)
(* are synchronous (QInv).                                                 *)
(***************************************************************************)
EXTENDS Tasklet, FiniteSetTheorems, SequenceTheorems, WellFoundedInduction, TLAPS

\* The part of the type invariant that the argument needs.
CoreType ==
    /\ run \in [Tasklet -> BOOLEAN]
    /\ list \in [CPU -> [Vec -> Seq(Tasklet)]]
    /\ pend \in [CPU -> SUBSET Vec]
    /\ soft \in [CPU -> Soft]

\* CPU c is between a successful tasklet_trylock and the matching unlock.
InHand(c) == soft[c].stage \in {"locked", "run"}

\* The tasklet at hand is the head of a list that is not empty.
HasCurrent == \A c \in CPU : soft[c].stage \in {"locked", "run", "put"} => soft[c].todo # <<>>

\* A CPU that has a tasklet in hand holds its RUN bit ...
HoldsRun == \A c \in CPU : InHand(c) => run[Current(c)]

\* ... and no other CPU has that tasklet in hand.
OneHand == \A c, d \in CPU : InHand(c) /\ InHand(d) /\ Current(c) = Current(d) => c = d

IInv == CoreType /\ HasCurrent /\ HoldsRun /\ OneHand

-----------------------------------------------------------------------------

\* A non-empty set of softirq numbers has a least one, and Min picks it.
LEMMA MinInSet ==
    ASSUME NEW S \in SUBSET Vec, S # {}
    PROVE  Min(S) \in S
<1> DEFINE Less == OpToRel(<, Nat)
<1>1. S \subseteq Nat
  BY VecAssumption
<1>2. Less = {p \in Nat \X Nat : p[1] < p[2]}
  BY Zenon DEF OpToRel
<1>3. PICK m \in S : \A k \in S : ~(<<k, m>> \in Less)
  BY <1>1, WFMin, NatLessThanWellFounded
<1>4. \A k \in S : <<k, m>> \in Less <=> k < m
  BY <1>1, <1>2
<1> HIDE DEF Less
<1>5. \A k \in S : m <= k
  <2> SUFFICES ASSUME NEW k \in S PROVE m <= k
    OBVIOUS
  <2>1. ~(k < m) /\ m \in Nat /\ k \in Nat
    BY <1>1, <1>3, <1>4
  <2> QED
    BY <2>1
<1> QED
  BY <1>5 DEF Min

\* The value of soft[c] outside __do_softirq is well formed.
LEMMA NoSoftType == NoSoft \in Soft /\ NoSoft.stage = "none"
<1>1. Min(Vec) \in Vec
  BY MinInSet, VecAssumption
<1>2. 0 \in 0..MaxRestart
  BY RestartAssumption
<1> QED
  BY <1>1, <1>2 DEF NoSoft, Soft, SoftStages

\* Entering __do_softirq starts with no tasklet in hand.
LEMMA EnterStep ==
    ASSUME CoreType, NEW c \in CPU, EnterSoftirq(c)
    PROVE  /\ soft' \in [CPU -> Soft] /\ pend' \in [CPU -> SUBSET Vec]
           /\ \A d \in CPU : d # c => soft'[d] = soft[d]
           /\ soft'[c] = soft[c] \/ soft'[c].stage = "scan"
<1>1. CASE pend[c] = {}
  BY <1>1 DEF EnterSoftirq, CoreType
<1>2. CASE pend[c] # {}
  <2> DEFINE s == [NoSoft EXCEPT !.stage = "scan", !.mask = pend[c], !.left = MaxRestart]
  <2>1. MaxRestart \in 0..MaxRestart
    BY RestartAssumption
  <2>2. s \in Soft /\ s.stage = "scan"
    BY <2>1, NoSoftType DEF CoreType, Soft, SoftStages
  <2>3. soft' = [soft EXCEPT ![c] = s] /\ pend' = [pend EXCEPT ![c] = {}]
    BY <1>2 DEF EnterSoftirq
  <2> HIDE DEF s
  <2> QED
    BY <2>2, <2>3 DEF CoreType
<1> QED
  BY <1>1, <1>2

\* If no CPU takes a tasklet in hand and no RUN bit changes, nothing is lost.
LEMMA Untouched ==
    ASSUME IInv, NEW c \in CPU, CoreType', run' = run,
           \A d \in CPU : d # c => soft'[d] = soft[d],
           soft'[c] = soft[c] \/ soft'[c].stage \in {"none", "scan", "walk"}
    PROVE  IInv'
<1>1. HasCurrent'
  BY DEF IInv, HasCurrent
<1>2. \A d \in CPU : InHand(d)' => InHand(d) /\ Current(d)' = Current(d)
  BY DEF InHand, Current
<1>3. HoldsRun' /\ OneHand'
  BY <1>2 DEF IInv, HoldsRun, OneHand
<1> QED
  BY <1>1, <1>3 DEF IInv

LEMMA InitIInv == Init => IInv
<1> SUFFICES ASSUME Init PROVE IInv
  OBVIOUS
<1>1. CoreType
  BY NoSoftType DEF Init, CoreType
<1>2. \A c \in CPU : soft[c].stage = "none"
  BY NoSoftType DEF Init
<1> QED
  BY <1>1, <1>2 DEF IInv, HasCurrent, HoldsRun, OneHand, InHand

-----------------------------------------------------------------------------
(* The steps of tasklet_action *)

\* tasklet_trylock succeeds only for a tasklet that no CPU has in hand.
LEMMA TrylockStep ==
    ASSUME IInv, NEW c \in CPU, Trylock(c)
    PROVE  IInv'
<1> DEFINE t == Current(c)
<1>0. soft[c].todo \in Seq(Tasklet) /\ soft[c].todo # <<>> /\ soft[c].stage = "walk"
  BY DEF Trylock, IInv, CoreType, Soft
<1>1. t \in Tasklet
  BY <1>0, HeadTailProperties DEF Current
<1>2. /\ soft'[c].todo = soft[c].todo
      /\ soft'[c].stage = IF run[t] THEN "put" ELSE "locked"
      /\ \A d \in CPU : d # c => soft'[d] = soft[d]
      /\ run' = [run EXCEPT ![t] = TRUE]
  BY DEF Trylock, IInv, CoreType, Soft
<1>3. CoreType'
  BY <1>1 DEF Trylock, IInv, CoreType, Soft, SoftStages
<1>4. HasCurrent'
  BY <1>0, <1>2 DEF IInv, HasCurrent
<1>5. \A d \in CPU : Current(d)' = Current(d)
  BY <1>2 DEF Current
<1>6. \A d \in CPU : d # c => (InHand(d)' <=> InHand(d))
  BY <1>2 DEF InHand
<1>7. InHand(c)' => ~run[t]
  BY <1>2 DEF InHand
<1>8. HoldsRun'
  <2> SUFFICES ASSUME NEW d \in CPU, InHand(d)' PROVE run'[Current(d)']
    BY DEF HoldsRun
  <2>1. CASE d = c
    BY <2>1, <1>1, <1>2, <1>5 DEF IInv, CoreType
  <2>2. CASE d # c
    <3>1. run[Current(d)]
      BY <2>2, <1>6 DEF IInv, HoldsRun
    <3> QED
      BY <3>1, <1>1, <1>2, <1>5 DEF IInv, CoreType
  <2> QED
    BY <2>1, <2>2
<1>9. OneHand'
  <2> SUFFICES ASSUME NEW d \in CPU, NEW e \in CPU, InHand(d)', InHand(e)',
                      Current(d) = Current(e)
               PROVE  d = e
    BY <1>5 DEF OneHand
  <2>1. CASE d # c /\ e # c
    BY <2>1, <1>6 DEF IInv, OneHand
  <2>2. CASE d = c /\ e # c
    BY <2>2, <1>6, <1>7 DEF IInv, HoldsRun
  <2>3. CASE d # c /\ e = c
    BY <2>3, <1>6, <1>7 DEF IInv, HoldsRun
  <2> QED
    BY <2>1, <2>2, <2>3
<1> QED
  BY <1>3, <1>4, <1>8, <1>9 DEF IInv

\* Clearing the RUN bit of the tasklet in hand, while letting it go, takes the
\* bit from no other CPU.
LEMMA LetGo ==
    ASSUME IInv, NEW c \in CPU, InHand(c), CoreType', HasCurrent',
           run' = [run EXCEPT ![Current(c)] = FALSE],
           \A d \in CPU : d # c => soft'[d] = soft[d],
           ~InHand(c)'
    PROVE  IInv'
<1>1. \A d \in CPU : d # c => (InHand(d)' <=> InHand(d)) /\ Current(d)' = Current(d)
  BY DEF InHand, Current
<1>2. OneHand'
  BY <1>1 DEF IInv, OneHand
<1>3. HoldsRun'
  <2> SUFFICES ASSUME NEW d \in CPU, InHand(d)' PROVE run'[Current(d)']
    BY DEF HoldsRun
  <2>1. d # c /\ InHand(d) /\ Current(d)' = Current(d)
    BY <1>1
  <2>2. run[Current(d)] /\ Current(d) # Current(c)
    BY <2>1 DEF IInv, HoldsRun, OneHand
  <2>3. soft[d].todo \in Seq(Tasklet) /\ soft[d].todo # <<>>
    BY <2>1 DEF IInv, CoreType, HasCurrent, InHand, Soft
  <2>4. Current(d) \in Tasklet
    BY <2>3, HeadTailProperties DEF Current
  <2> QED
    BY <2>1, <2>2, <2>4 DEF IInv, CoreType
<1> QED
  BY <1>2, <1>3 DEF IInv

LEMMA TestCountStep ==
    ASSUME IInv, NEW c \in CPU, TestCount(c)
    PROVE  IInv'
<1>0. soft[c].stage = "locked" /\ soft[c] \in Soft
  BY DEF TestCount, IInv, CoreType
<1>1. CASE count[Current(c)] = 0
  <2>1. /\ soft'[c].stage = "run" /\ soft'[c].todo = soft[c].todo
        /\ \A d \in CPU : d # c => soft'[d] = soft[d]
        /\ run' = run
    BY <1>1 DEF TestCount, IInv, CoreType, Soft
  <2>a. soft' = [soft EXCEPT ![c].stage = "run"] /\ list' = list /\ pend' = pend
    BY <1>1 DEF TestCount
  <2>b. [soft[c] EXCEPT !.stage = "run"] \in Soft
    BY <1>0 DEF Soft, SoftStages
  <2>c. soft' \in [CPU -> Soft]
    BY <2>a, <2>b DEF IInv, CoreType
  <2>2. CoreType'
    BY <2>1, <2>a, <2>c DEF IInv, CoreType
  <2>3. \A d \in CPU : Current(d)' = Current(d) /\ (InHand(d)' <=> InHand(d))
    BY <2>1, <1>0 DEF Current, InHand
  <2>4. HasCurrent'
    BY <2>1, <1>0 DEF IInv, HasCurrent
  <2> QED
    BY <2>1, <2>2, <2>3, <2>4 DEF IInv, HoldsRun, OneHand
<1>2. CASE count[Current(c)] # 0
  <2>1. /\ soft'[c].stage = "put" /\ soft'[c].todo = soft[c].todo
        /\ \A d \in CPU : d # c => soft'[d] = soft[d]
        /\ run' = [run EXCEPT ![Current(c)] = FALSE]
    BY <1>2 DEF TestCount, IInv, CoreType, Soft
  <2>a. soft' = [soft EXCEPT ![c].stage = "put"] /\ list' = list /\ pend' = pend
    BY <1>2 DEF TestCount
  <2>b. [soft[c] EXCEPT !.stage = "put"] \in Soft
    BY <1>0 DEF Soft, SoftStages
  <2>c. soft' \in [CPU -> Soft]
    BY <2>a, <2>b DEF IInv, CoreType
  <2>d. run' \in [Tasklet -> BOOLEAN]
    BY <2>1 DEF IInv, CoreType
  <2>2. CoreType'
    BY <2>a, <2>c, <2>d DEF IInv, CoreType
  <2>3. HasCurrent'
    BY <2>1, <1>0 DEF IInv, HasCurrent
  <2>4. InHand(c) /\ ~InHand(c)'
    BY <2>1, <1>0 DEF InHand
  <2> QED
    BY <2>1, <2>2, <2>3, <2>4, LetGo
<1> QED
  BY <1>1, <1>2

LEMMA FuncReturnStep ==
    ASSUME IInv, NEW c \in CPU, FuncReturn(c)
    PROVE  IInv'
<1>0. /\ soft[c].stage = "run" /\ soft[c] \in Soft
      /\ soft[c].todo \in Seq(Tasklet) /\ soft[c].todo # <<>>
  BY DEF FuncReturn, IInv, CoreType, HasCurrent, Soft
<1>1. Tail(soft[c].todo) \in Seq(Tasklet)
  BY <1>0, HeadTailProperties
<1>2. /\ soft'[c].stage = "walk"
      /\ \A d \in CPU : d # c => soft'[d] = soft[d]
      /\ run' = [run EXCEPT ![Current(c)] = FALSE]
  BY DEF FuncReturn, IInv, CoreType, Soft
<1>3. CoreType'
  BY <1>0, <1>1 DEF FuncReturn, IInv, CoreType, Soft, SoftStages
<1>4. HasCurrent'
  BY <1>2 DEF IInv, HasCurrent
<1>5. InHand(c) /\ ~InHand(c)'
  BY <1>0, <1>2 DEF InHand
<1> QED
  BY <1>2, <1>3, <1>4, <1>5, LetGo

LEMMA PutBackStep ==
    ASSUME IInv, NEW c \in CPU, PutBack(c)
    PROVE  IInv'
<1>0. /\ soft[c].stage = "put" /\ soft[c] \in Soft /\ soft[c].vec \in Vec
      /\ soft[c].todo \in Seq(Tasklet) /\ soft[c].todo # <<>>
  BY DEF PutBack, IInv, CoreType, HasCurrent, Soft
<1>1. Current(c) \in Tasklet /\ Tail(soft[c].todo) \in Seq(Tasklet)
  BY <1>0, HeadTailProperties DEF Current
<1>2. <<Current(c)>> \o list[c][soft[c].vec] \in Seq(Tasklet)
  BY <1>0, <1>1, ConcatProperties DEF IInv, CoreType
<1>3. CoreType'
  BY <1>0, <1>1, <1>2 DEF PutBack, IInv, CoreType, Soft, SoftStages
<1>4. /\ soft'[c].stage = "walk" /\ run' = run
      /\ \A d \in CPU : d # c => soft'[d] = soft[d]
  BY DEF PutBack, IInv, CoreType, Soft
<1> QED
  BY <1>3, <1>4, Untouched

\* The steps that neither take a tasklet in hand nor let one go.
LEMMA OtherSoftStep ==
    ASSUME IInv, NEW c \in CPU, SoftAction(c) \/ SoftNext(c) \/ WalkEnd(c)
    PROVE  IInv'
<1>0. soft[c] \in Soft
  BY DEF IInv, CoreType
<1>1. CASE SoftAction(c)
  <2> DEFINE v == Min(soft[c].mask)
  <2>1. v \in Vec
    BY <1>0, <1>1, MinInSet DEF SoftAction, Soft
  <2>2. /\ soft' = [soft EXCEPT ![c].stage = "walk", ![c].mask = @ \ {v},
                                ![c].vec = v, ![c].todo = list[c][v]]
        /\ list' = [list EXCEPT ![c][v] = <<>>]
        /\ run' = run /\ pend' = pend
    BY <1>1 DEF SoftAction
  <2> HIDE DEF v
  <2>a. list[c][v] \in Seq(Tasklet) /\ <<>> \in Seq(Tasklet)
    BY <2>1 DEF IInv, CoreType
  <2>b. soft' \in [CPU -> Soft]
    BY <1>0, <2>1, <2>2, <2>a DEF IInv, CoreType, Soft, SoftStages
  <2>c. list' \in [CPU -> [Vec -> Seq(Tasklet)]]
    BY <2>2, <2>a DEF IInv, CoreType
  <2>3. CoreType'
    BY <2>2, <2>b, <2>c DEF IInv, CoreType
  <2>4. soft'[c].stage = "walk" /\ \A d \in CPU : d # c => soft'[d] = soft[d]
    BY <2>2 DEF IInv, CoreType, Soft
  <2> QED
    BY <2>2, <2>3, <2>4, Untouched
<1>2. CASE SoftNext(c)
  <2>0. run' = run /\ list' = list
    BY <1>2 DEF SoftNext
  <2>1. CASE pend[c] # {} /\ soft[c].left > 1
    <3>1. /\ soft' = [soft EXCEPT ![c].mask = pend[c], ![c].left = @ - 1]
          /\ pend' = [pend EXCEPT ![c] = {}]
          /\ soft[c].stage = "scan"
      BY <1>2, <2>1 DEF SoftNext, SoftRestart
    <3>2. soft[c].left - 1 \in 0..MaxRestart
      BY <1>0, <2>1, RestartAssumption DEF Soft
    <3>3. CoreType'
      BY <1>0, <2>0, <3>1, <3>2 DEF IInv, CoreType, Soft, SoftStages
    <3>4. soft'[c].stage = "scan" /\ \A d \in CPU : d # c => soft'[d] = soft[d]
      BY <1>0, <3>1 DEF IInv, CoreType, Soft
    <3> QED
      BY <2>0, <3>3, <3>4, Untouched
  <2>2. CASE ~(pend[c] # {} /\ soft[c].left > 1)
    <3>1. soft' = [soft EXCEPT ![c] = NoSoft] /\ pend' = pend
      BY <1>2, <2>2 DEF SoftNext, SoftEnd
    <3>2. CoreType'
      BY <2>0, <3>1, NoSoftType DEF IInv, CoreType
    <3>3. soft'[c].stage = "none" /\ \A d \in CPU : d # c => soft'[d] = soft[d]
      BY <3>1, NoSoftType DEF IInv, CoreType
    <3> QED
      BY <2>0, <3>2, <3>3, Untouched
  <2> QED
    BY <2>1, <2>2
<1>3. CASE WalkEnd(c)
  <2>1. CoreType'
    BY <1>0, <1>3 DEF WalkEnd, IInv, CoreType, Soft, SoftStages
  <2>2. /\ soft'[c].stage = "scan" /\ run' = run
        /\ \A d \in CPU : d # c => soft'[d] = soft[d]
    BY <1>3 DEF WalkEnd, IInv, CoreType, Soft
  <2> QED
    BY <2>1, <2>2, Untouched
<1> QED
  BY <1>1, <1>2, <1>3

-----------------------------------------------------------------------------

\* A scheduled tasklet is linked into the list of its softirq.
LEMMA DoScheduleStep ==
    ASSUME IInv, NEW t \in Tasklet, NEW c \in CPU, NEW x \in Context, DoSchedule(t, c, x)
    PROVE  IInv'
<1>1. VecOf[t] \in Vec
  BY VecAssumption
<1>2. <<t>> \o list[c][VecOf[t]] \in Seq(Tasklet)
  BY <1>1, ConcatProperties DEF IInv, CoreType
<1>3. list' = [list EXCEPT ![c][VecOf[t]] = <<t>> \o @]
  BY DEF DoSchedule
<1>4. list' \in [CPU -> [Vec -> Seq(Tasklet)]]
  BY <1>1, <1>2, <1>3 DEF IInv, CoreType
<1>5. pend' \in [CPU -> SUBSET Vec] /\ soft' = soft /\ run' = run
  BY <1>1 DEF DoSchedule, RaiseSoftirq, IInv, CoreType
<1>6. CoreType'
  BY <1>4, <1>5 DEF IInv, CoreType
<1> QED
  BY <1>5, <1>6, Untouched

\* __do_softirq is entered from irq_exit, local_bh_enable or ksoftirqd.
LEMMA EnterSteps ==
    ASSUME IInv, NEW c \in CPU, IrqExit(c) \/ LocalBhEnable(c) \/ KLoop(c)
    PROVE  IInv'
<1>1. run' = run /\ list' = list
  BY DEF IrqExit, LocalBhEnable, KLoop
<1>2. CASE EnterSoftirq(c)
  <2>1. CoreType'
    BY <1>1, <1>2, EnterStep DEF IInv, CoreType
  <2> QED
    BY <1>1, <1>2, <2>1, EnterStep, Untouched DEF IInv
<1>3. CASE soft' = soft /\ pend' = pend
  <2>1. CoreType'
    BY <1>1, <1>3 DEF IInv, CoreType
  <2> QED
    BY <1>1, <1>3, <2>1, Untouched
<1> QED
  BY <1>2, <1>3 DEF IrqExit, LocalBhEnable, KLoop

\* The steps that leave run, list, pend and soft alone.
LEMMA FrameStep ==
    ASSUME IInv, UNCHANGED <<run, list, pend, soft>>
    PROVE  IInv'
BY DEF IInv, CoreType, HasCurrent, HoldsRun, OneHand, InHand, Current

\* The tasklets of a dead CPU are appended to the lists of another.
LEMMA TakeOverStep ==
    ASSUME IInv, NEW c \in CPU, NEW n \in CPU, TakeOver(c, n)
    PROVE  IInv'
<1> DEFINE moved == [v \in Vec |-> list[n][v] \o list[c][v]]
           empty == [v \in Vec |-> <<>>]
<1>1. /\ list' = [list EXCEPT ![n] = moved, ![c] = empty]
      /\ pend' = [pend EXCEPT ![n] = Vec]
      /\ UNCHANGED <<run, soft>>
  BY DEF TakeOver, Rest
<1>2. moved \in [Vec -> Seq(Tasklet)]
  <2> SUFFICES ASSUME NEW v \in Vec PROVE list[n][v] \o list[c][v] \in Seq(Tasklet)
    OBVIOUS
  <2>1. list[n][v] \in Seq(Tasklet) /\ list[c][v] \in Seq(Tasklet)
    BY DEF IInv, CoreType
  <2> QED
    BY <2>1, ConcatProperties
<1>3. empty \in [Vec -> Seq(Tasklet)]
  OBVIOUS
<1> HIDE DEF moved, empty
<1>4. CoreType'
  BY <1>1, <1>2, <1>3 DEF IInv, CoreType
<1> QED
  BY <1>1, <1>4, Untouched

LEMMA NextIInv == IInv /\ [Next]_vars => IInv'
<1> SUFFICES ASSUME IInv, [Next]_vars PROVE IInv'
  OBVIOUS
<1>1. CASE \E t \in Tasklet, c \in CPU, x \in Context : Schedule(t, c, x)
  BY <1>1, FrameStep DEF Schedule
<1>2. CASE \E t \in Tasklet, c \in CPU, x \in Context : DoSchedule(t, c, x)
  BY <1>2, DoScheduleStep
<1>3. CASE \E c \in CPU : IrqExit(c) \/ LocalBhEnable(c) \/ KLoop(c)
  BY <1>3, EnterSteps
<1>4. CASE \E c \in CPU : Softirq(c)
  BY <1>4, TrylockStep, TestCountStep, FuncReturnStep, PutBackStep, OtherSoftStep DEF Softirq
<1>5. CASE \E c \in CPU : LocalBhDisable(c) \/ KSet(c) \/ KCheck(c) \/ KWakes(c)
  BY <1>5, FrameStep DEF LocalBhDisable, KSet, KCheck, KWakes
<1>6. CASE \E a \in Ctl, t \in Tasklet : Disable(a, t) \/ Kill(a, t)
  BY <1>6, FrameStep DEF Disable, Kill
<1>7. CASE \E a \in Ctl : Control(a)
  BY <1>7, FrameStep DEF Control, DisableWait, Enable, KillWait, KillClear
<1>8. CASE \E c, n \in CPU : TakeOver(c, n)
  BY <1>8, TakeOverStep
<1>9. CASE \E c \in CPU : CpuDown(c) \/ CpuUpPrepare(c) \/ CpuUp(c) \/ CpuOnline(c)
  BY <1>9, FrameStep DEF CpuDown, CpuUpPrepare, CpuUp, CpuOnline, Rest
<1>10. CASE \E c, n \in CPU, t \in Tasklet : MigrateTask(t, c, n)
  BY <1>10, FrameStep DEF MigrateTask, Rest
<1>11. CASE UNCHANGED vars
  BY <1>11, FrameStep DEF vars
<1> QED
  BY <1>1, <1>2, <1>3, <1>4, <1>5, <1>6, <1>7, <1>8, <1>9, <1>10, <1>11
     DEF Next, Ksoftirqd, HotplugStep

\* A tasklet's function never runs on two CPUs at once: tasklet_action calls it
\* with the RUN bit held, and test_and_set_bit gives the bit to one CPU only.
THEOREM SerializedHolds == Spec => []Serialized
<1>1. IInv => Serialized
  BY DEF IInv, OneHand, InHand, Serialized, Executing
<1> QED
  BY <1>1, InitIInv, NextIInv, PTL DEF Spec

-----------------------------------------------------------------------------
(* Types: the disabling count *)

\* The part of the type invariant that CoreType leaves out.
RestType ==
    /\ sched \in [Tasklet -> BOOLEAN]
    /\ count \in [Tasklet -> Nat]
    /\ calls \in SUBSET Call
    /\ irq \in [CPU -> BOOLEAN]
    /\ bh \in [CPU -> BOOLEAN]
    /\ kpc \in [CPU -> {"none", "set", "check", "sleep", "loop"}]
    /\ kstate \in [CPU -> {"RUNNING", "INTERRUPTIBLE"}]
    /\ ctl \in [Ctl -> [stage : CtlStages, on : Tasklet]]
    /\ life \in [CPU -> Lives]

\* The threads between tasklet_disable and tasklet_enable of t.
Disabling(t) == {a \in Ctl : ctl[a].on = t /\ ctl[a].stage \in {"wait", "off"}}

\* t->count counts them.
Counted == \A t \in Tasklet : count[t] = Cardinality(Disabling(t))

TInv == RestType /\ Counted

LEMMA InitTInv == Init => TInv
<1> SUFFICES ASSUME Init PROVE TInv
  OBVIOUS
<1>1. RestType
  BY DEF Init, RestType, CtlStages, Lives
<1>2. \A t \in Tasklet : Disabling(t) = {}
  BY DEF Init, Disabling
<1>3. Counted
  BY <1>2, FS_EmptySet DEF Init, Counted
<1> QED
  BY <1>1, <1>3 DEF TInv

\* The number of threads that disable a tasklet, and what one more or less does.
LEMMA DisablingSize ==
    ASSUME NEW A \in SUBSET Ctl, NEW a
    PROVE  /\ Cardinality(A) \in 0..Cardinality(Ctl)
           /\ a \notin A => Cardinality(A \cup {a}) = Cardinality(A) + 1
           /\ a \in A => Cardinality(A \ {a}) = Cardinality(A) - 1
<1>1. IsFiniteSet(A) /\ Cardinality(A) <= Cardinality(Ctl)
  BY FS_Subset, SetAssumption
<1>2. Cardinality(A) \in Nat /\ Cardinality(Ctl) \in Nat
  BY <1>1, FS_CardinalityType, SetAssumption
<1>3. a \notin A => Cardinality(A \cup {a}) = Cardinality(A) + 1
  BY <1>1, FS_AddElement
<1>4. a \in A => Cardinality(A \ {a}) = Cardinality(A) - 1
  BY <1>1, FS_RemoveElement
<1> QED
  BY <1>1, <1>2, <1>3, <1>4

\* A thread that enters or leaves neither "wait" nor "off" changes no count.
LEMMA SameCount ==
    ASSUME TInv, NEW a \in Ctl, NEW r \in [stage : CtlStages, on : Tasklet],
           ctl' = [ctl EXCEPT ![a] = r], count' = count,
           \/ ctl[a].stage \notin {"wait", "off"} /\ r.stage \notin {"wait", "off"}
           \/ ctl[a].stage = "wait" /\ r.stage = "off" /\ r.on = ctl[a].on
    PROVE  Counted'
<1>1. \A u \in Tasklet : Disabling(u)' = Disabling(u)
  BY DEF Disabling, TInv, RestType
<1> QED
  BY <1>1 DEF TInv, Counted

\* tasklet_disable and tasklet_enable move the count by one.
LEMMA DisableStep ==
    ASSUME TInv, NEW a \in Ctl, NEW t \in Tasklet, Disable(a, t)
    PROVE  TInv'
<1> DEFINE r == [stage |-> "wait", on |-> t]
<1>1. /\ ctl[a].stage = "idle" /\ count' = [count EXCEPT ![t] = @ + 1]
      /\ ctl' = [ctl EXCEPT ![a] = r]
      /\ UNCHANGED <<sched, calls, irq, bh, kpc, kstate, life>>
  BY DEF Disable
<1>2. r \in [stage : CtlStages, on : Tasklet] /\ r.stage = "wait" /\ r.on = t
  BY DEF CtlStages
<1> HIDE DEF r
<1>3. RestType'
  BY <1>1, <1>2 DEF TInv, RestType
<1>4. \A u \in Tasklet : u # t => Disabling(u)' = Disabling(u)
  BY <1>1, <1>2 DEF Disabling, TInv, RestType
<1>5. Disabling(t)' = Disabling(t) \cup {a} /\ a \notin Disabling(t)
  BY <1>1, <1>2 DEF Disabling, TInv, RestType
<1>6. Cardinality(Disabling(t)') = Cardinality(Disabling(t)) + 1
  BY <1>5, DisablingSize DEF Disabling
<1>7. count'[t] = count[t] + 1 /\ \A u \in Tasklet : u # t => count'[u] = count[u]
  BY <1>1 DEF TInv, RestType
<1>8. Counted'
  BY <1>4, <1>6, <1>7 DEF TInv, Counted
<1> QED
  BY <1>3, <1>8 DEF TInv

LEMMA EnableStep ==
    ASSUME TInv, NEW a \in Ctl, Enable(a)
    PROVE  TInv'
<1>0. PICK t \in Tasklet : t = ctl[a].on
  BY DEF TInv, RestType
<1>1. /\ ctl[a].stage = "off" /\ count' = [count EXCEPT ![t] = @ - 1]
      /\ ctl' = [ctl EXCEPT ![a].stage = "idle"]
      /\ UNCHANGED <<sched, calls, irq, bh, kpc, kstate, life>>
  BY <1>0 DEF Enable
<1>2. ctl'[a].stage = "idle" /\ \A b \in Ctl : b # a => ctl'[b] = ctl[b]
  BY <1>1 DEF TInv, RestType
<1>4. \A u \in Tasklet : u # t => Disabling(u)' = Disabling(u)
  BY <1>0, <1>1, <1>2 DEF Disabling
<1>5. Disabling(t)' = Disabling(t) \ {a} /\ a \in Disabling(t)
  BY <1>0, <1>1, <1>2 DEF Disabling
<1>6. /\ Cardinality(Disabling(t)') = Cardinality(Disabling(t)) - 1
      /\ Cardinality(Disabling(t)') \in Nat
  <2>1. Disabling(t) \in SUBSET Ctl /\ Disabling(t)' \in SUBSET Ctl
    BY DEF Disabling
  <2>2. Cardinality(Disabling(t)') \in 0..Cardinality(Ctl)
    BY <2>1, DisablingSize
  <2>3. Cardinality(Ctl) \in Nat
    BY FS_CardinalityType, SetAssumption
  <2> QED
    BY <1>5, <2>1, <2>2, <2>3, DisablingSize
<1>7. count'[t] = count[t] - 1 /\ \A u \in Tasklet : u # t => count'[u] = count[u]
  BY <1>1, <1>2 DEF TInv, RestType
<1>8. Counted'
  BY <1>2, <1>4, <1>6, <1>7 DEF TInv, Counted
<1>9. count[t] - 1 \in Nat
  BY <1>2, <1>6 DEF TInv, Counted
<1>10. count' \in [Tasklet -> Nat]
  BY <1>1, <1>9 DEF TInv, RestType
<1>11. ctl' \in [Ctl -> [stage : CtlStages, on : Tasklet]]
  BY <1>1 DEF TInv, RestType, CtlStages
<1> QED
  BY <1>1, <1>8, <1>10, <1>11 DEF TInv, RestType

\* The steps that leave the counts and the controlling threads alone.
LEMMA CountKept ==
    ASSUME TInv, UNCHANGED <<count, ctl>>
    PROVE  Counted'
BY DEF TInv, Counted, Disabling

LEMMA NextTInv == IInv /\ TInv /\ [Next]_vars => TInv'
<1> SUFFICES ASSUME IInv, TInv, [Next]_vars PROVE TInv'
  OBVIOUS
<1>0. RestType
  BY DEF TInv
<1>1. ASSUME NEW t \in Tasklet, NEW c \in CPU, NEW x \in Context, Schedule(t, c, x)
      PROVE  TInv'
  <2>1. RestType'
    BY <1>0, <1>1 DEF Schedule, RestType, Call
  <2> QED
    BY <1>1, <2>1, CountKept DEF Schedule, TInv
<1>2. ASSUME NEW t \in Tasklet, NEW c \in CPU, NEW x \in Context, DoSchedule(t, c, x)
      PROVE  TInv'
  <2>1. kstate' \in [CPU -> {"RUNNING", "INTERRUPTIBLE"}]
    BY <1>0, <1>2 DEF DoSchedule, RaiseSoftirq, WakeupSoftirqd, RestType
  <2>2. RestType'
    BY <1>0, <1>2, <2>1 DEF DoSchedule, RestType
  <2> QED
    BY <1>2, <2>2, CountKept DEF DoSchedule, TInv
<1>3. ASSUME NEW c \in CPU, IrqExit(c) \/ LocalBhDisable(c) \/ LocalBhEnable(c)
      PROVE  TInv'
  <2>1. RestType'
    BY <1>0, <1>3 DEF IrqExit, LocalBhDisable, LocalBhEnable, RestType
  <2> QED
    BY <1>3, <2>1, CountKept DEF IrqExit, LocalBhDisable, LocalBhEnable, TInv
<1>4. ASSUME NEW c \in CPU, Softirq(c) PROVE TInv'
  <2>1. CASE SoftNext(c)
    <3>1. kstate' \in [CPU -> {"RUNNING", "INTERRUPTIBLE"}]
      BY <1>0, <2>1 DEF SoftNext, SoftRestart, SoftEnd, WakeupSoftirqd, RestType
    <3>2. RestType'
      BY <1>0, <2>1, <3>1 DEF SoftNext, RestType
    <3> QED
      BY <2>1, <3>2, CountKept DEF SoftNext, TInv
  <2>2. CASE TestCount(c)
    <3>1. sched' \in [Tasklet -> BOOLEAN]
      BY <1>0, <2>2 DEF TestCount, RestType
    <3>2. RestType'
      BY <1>0, <2>2, <3>1 DEF TestCount, RestType
    <3> QED
      BY <2>2, <3>2, CountKept DEF TestCount, TInv
  <2>3. CASE SoftAction(c) \/ WalkEnd(c) \/ Trylock(c) \/ FuncReturn(c) \/ PutBack(c)
    <3>1. UNCHANGED <<sched, count, calls, irq, bh, kpc, kstate, ctl, life>>
      BY <2>3 DEF SoftAction, WalkEnd, Trylock, FuncReturn, PutBack
    <3>2. RestType'
      BY <1>0, <3>1 DEF RestType
    <3> QED
      BY <3>1, <3>2, CountKept DEF TInv
  <2> QED
    BY <1>4, <2>1, <2>2, <2>3 DEF Softirq
<1>5. ASSUME NEW c \in CPU, Ksoftirqd(c) PROVE TInv'
  <2>1. RestType'
    BY <1>0, <1>5 DEF Ksoftirqd, KSet, KCheck, KWakes, KLoop, RestType
  <2>2. UNCHANGED <<count, ctl>>
    BY <1>5 DEF Ksoftirqd, KSet, KCheck, KWakes, KLoop
  <2> QED
    BY <2>1, <2>2, CountKept DEF TInv
<1>6. ASSUME NEW a \in Ctl, NEW t \in Tasklet, Kill(a, t) PROVE TInv'
  <2> DEFINE r == [stage |-> IF sched[t] THEN "spin" ELSE "unlock", on |-> t]
  <2>1. /\ ctl' = [ctl EXCEPT ![a] = r] /\ count' = count
        /\ sched' = [sched EXCEPT ![t] = TRUE]
        /\ UNCHANGED <<calls, irq, bh, kpc, kstate, life>>
        /\ ctl[a].stage \in {"idle", "spin"}
    BY <1>6 DEF Kill
  <2>2. r \in [stage : CtlStages, on : Tasklet] /\ r.stage \notin {"wait", "off"}
    BY DEF CtlStages
  <2> HIDE DEF r
  <2>3. RestType'
    BY <1>0, <2>1, <2>2 DEF RestType
  <2>4. Counted'
    BY <2>1, <2>2, SameCount
  <2> QED
    BY <2>3, <2>4 DEF TInv
<1>7. ASSUME NEW a \in Ctl, DisableWait(a) \/ KillWait(a) \/ KillClear(a) PROVE TInv'
  <2> DEFINE s == CASE ctl[a].stage = "wait" -> "off"
                    [] ctl[a].stage = "unlock" -> "clear"
                    [] OTHER -> "idle"
             r == [ctl[a] EXCEPT !.stage = s]
  <2>1. /\ ctl' = [ctl EXCEPT ![a].stage = s] /\ count' = count
        /\ UNCHANGED <<calls, irq, bh, kpc, kstate, life>>
        /\ \/ ctl[a].stage \in {"unlock", "clear"} /\ s \in {"clear", "idle"}
           \/ ctl[a].stage = "wait" /\ s = "off"
    BY <1>7 DEF DisableWait, KillWait, KillClear
  <2>2. sched' \in [Tasklet -> BOOLEAN]
    BY <1>0, <1>7 DEF DisableWait, KillWait, KillClear, RestType
  <2>3. s \in CtlStages
    BY <2>1 DEF CtlStages
  <2> HIDE DEF s
  <2>4. /\ r \in [stage : CtlStages, on : Tasklet]
        /\ r.stage = s /\ r.on = ctl[a].on /\ ctl' = [ctl EXCEPT ![a] = r]
    BY <1>0, <2>1, <2>3 DEF RestType
  <2> HIDE DEF r
  <2>5. Counted'
    BY <2>1, <2>4, SameCount
  <2>6. RestType'
    BY <1>0, <2>1, <2>2, <2>4 DEF RestType
  <2> QED
    BY <2>5, <2>6 DEF TInv
<1>8. ASSUME NEW c \in CPU, HotplugStep(c) PROVE TInv'
  <2>1. UNCHANGED <<sched, count, irq, bh, ctl>>
    BY <1>8 DEF HotplugStep, CpuDown, CpuUpPrepare, CpuUp, CpuOnline, TakeOver,
                MigrateTask, Rest
  <2>2. life' \in [CPU -> Lives]
    BY <1>0, <1>8 DEF HotplugStep, CpuDown, CpuUpPrepare, CpuUp, CpuOnline, TakeOver,
                      MigrateTask, SetLife, RestType, Lives
  <2>3. calls' \in SUBSET Call
    <3>1. CASE calls' = calls
      BY <1>0, <3>1 DEF RestType
    <3>2. ASSUME NEW n \in CPU, NEW t \in Tasklet, MigrateTask(t, c, n)
          PROVE  calls' \in SUBSET Call
      <4>1. <<t, n, "task">> \in Call
        BY DEF Call, Context
      <4> QED
        BY <1>0, <3>2, <4>1 DEF MigrateTask, RestType
    <3> QED
      BY <1>8, <3>1, <3>2 DEF HotplugStep, CpuDown, CpuUpPrepare, CpuUp, CpuOnline,
                              TakeOver
  <2>4. /\ kpc' \in [CPU -> {"none", "set", "check", "sleep", "loop"}]
        /\ kstate' \in [CPU -> {"RUNNING", "INTERRUPTIBLE"}]
    BY <1>0, <1>8 DEF HotplugStep, CpuDown, CpuUpPrepare, CpuUp, CpuOnline, TakeOver,
                      MigrateTask, WakeupSoftirqd, RestType
  <2>5. RestType'
    BY <1>0, <2>1, <2>2, <2>3, <2>4 DEF RestType
  <2> QED
    BY <2>1, <2>5, CountKept DEF TInv
<1>9. CASE UNCHANGED vars
  <2>1. RestType'
    BY <1>0, <1>9 DEF vars, RestType
  <2> QED
    BY <1>9, <2>1, CountKept DEF vars, TInv
<1> QED
  BY <1>1, <1>2, <1>3, <1>4, <1>5, <1>6, <1>7, <1>8, <1>9, DisableStep, EnableStep
     DEF Next, Control

\* For any constants the state keeps its types; in particular t->count is never
\* negative and never exceeds the number of threads that may disable a tasklet.
THEOREM TypeCorrect == Spec => []TypeOK
<1>1. IInv /\ TInv => TypeOK
  <2> SUFFICES ASSUME IInv, TInv PROVE TypeOK
    OBVIOUS
  <2>1. \A t \in Tasklet : count[t] \in 0..Cardinality(Ctl)
    BY DisablingSize DEF TInv, Counted, Disabling
  <2>2. count \in [Tasklet -> 0..Cardinality(Ctl)]
    BY <2>1 DEF TInv, RestType
  <2> QED
    BY <2>2 DEF TInv, RestType, IInv, CoreType, TypeOK
<1> QED
  BY <1>1, InitIInv, NextIInv, InitTInv, NextTInv, PTL DEF Spec

-----------------------------------------------------------------------------
(* No tasklet is forgotten *)

\* Outside __do_softirq nothing is left of it; between two softirqs no list is
\* in hand.
Between(c) ==
    /\ soft[c].stage = "none" => soft[c] = NoSoft
    /\ soft[c].stage = "scan" => soft[c].todo = <<>>

\* A CPU that is not online does nothing, and one about to start has a fresh
\* ksoftirqd.
Offline(c) ==
    /\ ~Online(c) => ~irq[c] /\ soft[c].stage = "none"
    /\ life[c] = "prepared" => kpc[c] = "set"

\* A tasklet on a list of c has its softirq raised or about to be processed.
Raised(c) ==
    \A v \in Vec : list[c][v] # <<>> =>
        v \in pend[c] \cup soft[c].mask /\ life[c] \notin {"off", "prepared"}

\* A raised softirq of c has a context that will look at it.
Looked(c) ==
    Online(c) /\ pend[c] # {} =>
        InInterrupt(c) \/ kstate[c] = "RUNNING" \/ kpc[c] \in {"set", "check", "loop"}

Good(c) == Between(c) /\ Offline(c) /\ Raised(c) /\ Looked(c)

\* A call in progress keeps its context; a task inside tasklet_schedule may be
\* on a CPU that has just died.
CallLives(t, c) ==
    /\ <<t, c, "irq">> \in calls => irq[c] /\ Online(c)
    /\ <<t, c, "soft">> \in calls => soft[c].stage = "run" /\ Online(c)
    /\ <<t, c, "task">> \in calls => life[c] \in {"up", "dead"}

CallsLive == \A t \in Tasklet, c \in CPU : CallLives(t, c)

FInv == (\A c \in CPU : Good(c)) /\ CallsLive

\* CPU c takes no part in the step.
SameCpu(c) ==
    /\ soft'[c] = soft[c] /\ list'[c] = list[c] /\ pend'[c] = pend[c]
    /\ irq'[c] = irq[c] /\ bh'[c] = bh[c] /\ life'[c] = life[c]
    /\ kpc'[c] = kpc[c] /\ kstate'[c] = kstate[c]

LEMMA GoodKept ==
    ASSUME NEW c \in CPU, Good(c), SameCpu(c)
    PROVE  Good(c)'
<1> USE DEF SameCpu
<1>1. Between(c)' /\ Offline(c)'
  BY DEF Good, Between, Offline, Online
<1>2. Raised(c)'
  BY DEF Good, Raised
<1>3. Looked(c)'
  BY DEF Good, Looked, Online, InInterrupt
<1> QED
  BY <1>1, <1>2, <1>3 DEF Good

\* A step of one CPU keeps the invariant if that CPU stays good.
LEMMA OneCpu ==
    ASSUME FInv, NEW c \in CPU, \A d \in CPU : d # c => SameCpu(d), Good(c)', CallsLive'
    PROVE  FInv'
BY GoodKept DEF FInv

\* The calls in progress live on if none is added and the CPUs stay as they are
\* for them.
LEMMA CallsKept ==
    ASSUME CallsLive, calls' \subseteq calls, life' = life,
           \A t \in Tasklet, c \in CPU :
               /\ <<t, c, "irq">> \in calls' /\ irq[c] => irq'[c]
               /\ <<t, c, "soft">> \in calls' /\ soft[c].stage = "run"
                    => soft'[c].stage = "run"
    PROVE  CallsLive'
BY DEF CallsLive, CallLives, Online

LEMMA InitFInv == Init => FInv
<1> SUFFICES ASSUME Init PROVE FInv
  OBVIOUS
<1>1. ASSUME NEW c \in CPU PROVE Good(c)
  <2>1. soft[c] = NoSoft /\ life[c] = "up" /\ pend[c] = {}
    BY DEF Init
  <2>2. \A v \in Vec : list[c][v] = <<>>
    BY DEF Init
  <2> QED
    BY <2>1, <2>2, NoSoftType DEF Good, Between, Offline, Raised, Looked, Online
<1>2. CallsLive
  BY DEF Init, CallsLive, CallLives
<1> QED
  BY <1>1, <1>2 DEF FInv

\* What FInv says of one CPU.
LEMMA GoodFacts ==
    ASSUME FInv, NEW c \in CPU
    PROVE  Between(c) /\ Offline(c) /\ Raised(c) /\ Looked(c)
BY DEF FInv, Good

\* tasklet_schedule: the bit is set; the caller's context holds the call.
LEMMA ScheduleGood ==
    ASSUME IInv, TInv, FInv, NEW t \in Tasklet, NEW c \in CPU, NEW x \in Context,
           Schedule(t, c, x)
    PROVE  FInv'
<1>1. /\ Online(c) /\ ~irq[c]
      /\ x = "soft" => soft[c].stage = "run"
      /\ calls' = calls \cup {<<t, c, x>>}
      /\ irq' = [irq EXCEPT ![c] = (x = "irq")]
      /\ UNCHANGED <<list, pend, bh, soft, kpc, kstate, life>>
  BY DEF Schedule
<1>2. irq'[c] = (x = "irq") /\ \A d \in CPU : d # c => irq'[d] = irq[d]
  BY <1>1 DEF TInv, RestType
<1>3. \A d \in CPU : d # c => SameCpu(d)
  BY <1>1, <1>2 DEF SameCpu
<1>4. Good(c)'
  BY <1>1, <1>2, GoodFacts
     DEF Good, Between, Offline, Raised, Looked, Online, InInterrupt
<1>5. CallsLive'
  <2> SUFFICES ASSUME NEW u \in Tasklet, NEW d \in CPU PROVE CallLives(u, d)'
    BY DEF CallsLive
  <2>1. CallLives(u, d)
    BY DEF FInv, CallsLive
  <2>2. CASE d # c
    <3>1. \A y : <<u, d, y>> \in calls' <=> <<u, d, y>> \in calls
      BY <1>1, <2>2
    <3> QED
      BY <1>1, <1>2, <2>1, <2>2, <3>1 DEF CallLives, Online
  <2>3. CASE d = c
    <3>1. \A y : <<u, c, y>> \in calls' => <<u, c, y>> \in calls \/ y = x
      BY <1>1
    <3>2. <<u, c, "irq">> \notin calls
      BY <1>1, <2>1, <2>3 DEF CallLives
    <3>3. <<u, c, "irq">> \in calls' => x = "irq"
      BY <3>1, <3>2
    <3>4. <<u, c, "soft">> \in calls' => soft[c].stage = "run"
      BY <1>1, <3>1, <2>1, <2>3 DEF CallLives
    <3> QED
      BY <1>1, <1>2, <2>3, <3>3, <3>4 DEF CallLives, Online
  <2> QED
    BY <2>2, <2>3
<1> QED
  BY <1>3, <1>4, <1>5, OneCpu

\* __tasklet_schedule: linked and raised on a CPU that is alive.
LEMMA DoScheduleGood ==
    ASSUME IInv, TInv, FInv, NEW t \in Tasklet, NEW c \in CPU, NEW x \in Context,
           DoSchedule(t, c, x)
    PROVE  FInv'
<1>0. VecOf[t] \in Vec
  BY VecAssumption
<1>1. /\ <<t, c, x>> \in calls /\ (x = "task" => TaskLevel(c))
      /\ calls' = calls \ {<<t, c, x>>}
      /\ list' = [list EXCEPT ![c][VecOf[t]] = <<t>> \o @]
      /\ pend' = [pend EXCEPT ![c] = @ \cup {VecOf[t]}]
      /\ IF InInterrupt(c) THEN UNCHANGED kstate
                           ELSE kstate' = [kstate EXCEPT ![c] = "RUNNING"]
      /\ UNCHANGED <<irq, bh, soft, kpc, life>>
  BY DEF DoSchedule, RaiseSoftirq, WakeupSoftirqd
<1>2. Online(c)
  BY <1>1 DEF FInv, CallsLive, CallLives, TaskLevel, Context
<1>3. /\ pend'[c] = pend[c] \cup {VecOf[t]}
      /\ \A v \in Vec : v # VecOf[t] => list'[c][v] = list[c][v]
      /\ \A d \in CPU : d # c => /\ list'[d] = list[d] /\ pend'[d] = pend[d]
                                 /\ kstate'[d] = kstate[d]
      /\ InInterrupt(c) \/ kstate'[c] = "RUNNING"
  BY <1>0, <1>1 DEF TInv, RestType, IInv, CoreType
<1>4. \A d \in CPU : d # c => SameCpu(d)
  BY <1>1, <1>3 DEF SameCpu
<1>5. Between(c)' /\ Offline(c)'
  BY <1>1, GoodFacts DEF Between, Offline, Online
<1>6. Raised(c)'
  BY <1>1, <1>2, <1>3, GoodFacts DEF Raised, Online
<1>7. Looked(c)'
  BY <1>1, <1>3 DEF Looked, InInterrupt
<1>8. CallsLive'
  BY <1>1, CallsKept DEF FInv
<1> QED
  BY <1>4, <1>5, <1>6, <1>7, <1>8, OneCpu DEF Good

\* What entering __do_softirq does to the CPU: nothing is left pending.
LEMMA EnterGood ==
    ASSUME IInv, FInv, NEW c \in CPU, EnterSoftirq(c), soft[c].stage = "none"
    PROVE  /\ pend'[c] = {} /\ Between(c)'
           /\ \A v \in Vec : v \in pend[c] \cup soft[c].mask => v \in soft'[c].mask
           /\ \A d \in CPU : d # c => soft'[d] = soft[d] /\ pend'[d] = pend[d]
           /\ soft'[c].stage \in {"none", "scan"}
<1>0. soft[c] = NoSoft /\ NoSoft.mask = {} /\ NoSoft.stage = "none"
  BY GoodFacts, NoSoftType DEF Between, NoSoft
<1>1. CASE pend[c] = {}
  BY <1>0, <1>1 DEF EnterSoftirq, Between
<1>2. CASE pend[c] # {}
  <2> DEFINE s == [NoSoft EXCEPT !.stage = "scan", !.mask = pend[c], !.left = MaxRestart]
  <2>1. s.stage = "scan" /\ s.mask = pend[c] /\ s.todo = <<>>
    BY DEF NoSoft
  <2>2. soft' = [soft EXCEPT ![c] = s] /\ pend' = [pend EXCEPT ![c] = {}]
    BY <1>2 DEF EnterSoftirq
  <2> HIDE DEF s
  <2>3. /\ soft'[c] = s /\ pend'[c] = {}
        /\ \A d \in CPU : d # c => soft'[d] = soft[d] /\ pend'[d] = pend[d]
    BY <2>2 DEF IInv, CoreType
  <2> QED
    BY <1>0, <2>1, <2>3 DEF Between
<1> QED
  BY <1>1, <1>2

LEMMA EnterStepsGood ==
    ASSUME IInv, TInv, FInv, NEW c \in CPU, IrqExit(c) \/ LocalBhEnable(c) \/ KLoop(c)
    PROVE  FInv'
<1>0. UNCHANGED <<calls, list, kstate, life>>
  BY DEF IrqExit, LocalBhEnable, KLoop
<1>1. /\ irq'[c] => irq[c]
      /\ \A d \in CPU : d # c => irq'[d] = irq[d] /\ bh'[d] = bh[d] /\ kpc'[d] = kpc[d]
      /\ kpc'[c] \in {kpc[c], "set"}
      /\ irq'[c] = FALSE
      /\ \A t \in Tasklet : <<t, c, "irq">> \notin calls
  BY GoodFacts DEF IrqExit, LocalBhEnable, KLoop, KRuns, TaskLevel, TInv, RestType,
                   FInv, CallsLive, CallLives
<1>2. CASE EnterSoftirq(c) /\ soft[c].stage = "none"
  <2>1. /\ pend'[c] = {} /\ Between(c)'
        /\ \A v \in Vec : v \in pend[c] \cup soft[c].mask => v \in soft'[c].mask
        /\ \A d \in CPU : d # c => soft'[d] = soft[d] /\ pend'[d] = pend[d]
        /\ soft'[c].stage \in {"none", "scan"}
    BY <1>2, EnterGood
  <2>2. Online(c)
    BY GoodFacts DEF IrqExit, LocalBhEnable, KLoop, KRuns, TaskLevel, Offline
  <2>3. \A d \in CPU : d # c => SameCpu(d)
    BY <1>0, <1>1, <2>1 DEF SameCpu
  <2>4. Good(c)'
    BY <1>0, <1>1, <2>1, <2>2, GoodFacts DEF Good, Offline, Raised, Looked, Online
  <2>5. CallsLive'
    BY <1>0, <1>1, <1>2, <2>1, CallsKept DEF FInv
  <2> QED
    BY <2>3, <2>4, <2>5, OneCpu
<1>3. CASE IrqExit(c) /\ (bh[c] \/ soft[c].stage # "none")
  <2>1. UNCHANGED <<soft, pend, bh, kpc>>
    BY <1>3 DEF IrqExit
  <2>2. \A d \in CPU : d # c => SameCpu(d)
    BY <1>0, <1>1, <2>1 DEF SameCpu
  <2>3. Good(c)'
    BY <1>0, <1>1, <1>3, <2>1, GoodFacts
       DEF Good, Between, Offline, Raised, Looked, Online, InInterrupt
  <2>4. CallsLive'
    BY <1>0, <1>1, <2>1, CallsKept DEF FInv
  <2> QED
    BY <2>2, <2>3, <2>4, OneCpu
<1> QED
  BY <1>2, <1>3 DEF IrqExit, LocalBhEnable, KLoop, KRuns, TaskLevel

\* A step of the softirq code that puts nothing on a list and raises nothing,
\* and stays inside __do_softirq.
LEMMA SoftGood ==
    ASSUME IInv, TInv, FInv, NEW c \in CPU, soft[c].stage # "none",
           UNCHANGED <<calls, irq, bh, kpc, kstate, life, pend>>,
           \A d \in CPU : d # c => soft'[d] = soft[d] /\ list'[d] = list[d],
           soft'[c].stage # "none", soft'[c].stage = "scan" => soft'[c].todo = <<>>,
           \A v \in Vec : list'[c][v] # <<>> =>
               list[c][v] # <<>> /\ (v \in soft[c].mask => v \in soft'[c].mask),
           soft[c].stage = "run" =>
               soft'[c].stage = "run" \/ \A t \in Tasklet : <<t, c, "soft">> \notin calls
    PROVE  FInv'
<1>1. \A d \in CPU : d # c => SameCpu(d)
  BY DEF SameCpu
<1>2. Between(c)' /\ Offline(c)'
  BY GoodFacts DEF Between, Offline, Online
<1>3. Raised(c)'
  BY GoodFacts DEF Raised
<1>4. Looked(c)'
  BY DEF Looked, InInterrupt
<1>5. CallsLive'
  BY CallsKept DEF FInv
<1> QED
  BY <1>1, <1>2, <1>3, <1>4, <1>5, OneCpu DEF Good

LEMMA SoftStepsGood ==
    ASSUME IInv, TInv, FInv, NEW c \in CPU, Softirq(c)
    PROVE  FInv'
<1>0. /\ soft[c] \in Soft /\ soft \in [CPU -> Soft] /\ soft[c].stage # "none"
      /\ list \in [CPU -> [Vec -> Seq(Tasklet)]] /\ pend \in [CPU -> SUBSET Vec]
  BY DEF IInv, CoreType, Softirq, SoftAction, SoftNext, WalkEnd, Trylock, TestCount,
         FuncReturn, PutBack, SoftLevel
<1>1. CASE SoftAction(c)
  <2> DEFINE v == Min(soft[c].mask)
  <2>1. v \in Vec
    BY <1>0, <1>1, MinInSet DEF SoftAction, Soft
  <2>2. /\ soft' = [soft EXCEPT ![c].stage = "walk", ![c].mask = @ \ {v},
                                ![c].vec = v, ![c].todo = list[c][v]]
        /\ list' = [list EXCEPT ![c][v] = <<>>]
        /\ UNCHANGED <<calls, irq, bh, kpc, kstate, life, pend>>
        /\ soft[c].stage = "scan"
    BY <1>1 DEF SoftAction
  <2> HIDE DEF v
  <2>3. /\ soft'[c].stage = "walk" /\ soft'[c].mask = soft[c].mask \ {v}
        /\ \A d \in CPU : d # c => soft'[d] = soft[d]
    BY <1>0, <2>2 DEF Soft
  <2>4. /\ list'[c][v] = <<>> /\ \A w \in Vec : w # v => list'[c][w] = list[c][w]
        /\ \A d \in CPU : d # c => list'[d] = list[d]
    BY <1>0, <2>1, <2>2
  <2>5. \A w \in Vec : list'[c][w] # <<>> =>
            list[c][w] # <<>> /\ (w \in soft[c].mask => w \in soft'[c].mask)
    BY <2>3, <2>4
  <2>6. UNCHANGED <<calls, irq, bh, kpc, kstate, life, pend>> /\ soft[c].stage = "scan"
    BY <2>2
  <2> QED
    BY <1>0, <2>3, <2>4, <2>5, <2>6, SoftGood
<1>2. CASE SoftNext(c)
  <2>0. /\ UNCHANGED <<calls, list, irq, bh, kpc, life>>
        /\ soft[c].stage = "scan" /\ soft[c].mask = {}
    BY <1>2 DEF SoftNext
  <2>1. CASE pend[c] # {} /\ soft[c].left > 1
    <3>1. /\ soft' = [soft EXCEPT ![c].mask = pend[c], ![c].left = @ - 1]
          /\ pend' = [pend EXCEPT ![c] = {}] /\ kstate' = kstate
      BY <1>2, <2>1 DEF SoftNext, SoftRestart
    <3>2. /\ soft'[c].stage = "scan" /\ soft'[c].mask = pend[c]
          /\ soft'[c].todo = soft[c].todo /\ pend'[c] = {}
          /\ \A d \in CPU : d # c => soft'[d] = soft[d] /\ pend'[d] = pend[d]
      BY <1>0, <2>0, <3>1 DEF Soft
    <3>3. \A d \in CPU : d # c => SameCpu(d)
      BY <2>0, <3>1, <3>2 DEF SameCpu
    <3>4. Good(c)'
      BY <2>0, <3>2, GoodFacts DEF Good, Between, Offline, Raised, Looked, Online
    <3>5. CallsLive'
      BY <2>0, <3>2, CallsKept DEF FInv
    <3> QED
      BY <3>3, <3>4, <3>5, OneCpu
  <2>2. CASE ~(pend[c] # {} /\ soft[c].left > 1)
    <3>1. /\ soft' = [soft EXCEPT ![c] = NoSoft] /\ pend' = pend
          /\ IF pend[c] # {} THEN kstate' = [kstate EXCEPT ![c] = "RUNNING"]
                             ELSE kstate' = kstate
      BY <1>2, <2>2 DEF SoftNext, SoftEnd, WakeupSoftirqd
    <3>2. /\ soft'[c] = NoSoft /\ NoSoft.stage = "none" /\ NoSoft.mask = {}
          /\ \A d \in CPU : d # c => soft'[d] = soft[d]
      BY <1>0, <3>1, NoSoftType DEF NoSoft
    <3>3. /\ pend[c] # {} => kstate'[c] = "RUNNING"
          /\ \A d \in CPU : d # c => kstate'[d] = kstate[d]
      BY <3>1 DEF TInv, RestType
    <3>4. \A d \in CPU : d # c => SameCpu(d)
      BY <2>0, <3>1, <3>2, <3>3 DEF SameCpu
    <3>5. Between(c)' /\ Offline(c)'
      BY <1>0, <2>0, <3>2, GoodFacts DEF Between, Offline, Online
    <3>6. Raised(c)' /\ Looked(c)'
      BY <2>0, <3>1, <3>2, <3>3, GoodFacts DEF Raised, Looked
    <3>7. CallsLive'
      BY <2>0, <3>2, CallsKept DEF FInv
    <3> QED
      BY <3>4, <3>5, <3>6, <3>7, OneCpu DEF Good
  <2> QED
    BY <2>1, <2>2
<1>3. CASE WalkEnd(c) \/ Trylock(c) \/ TestCount(c) \/ FuncReturn(c)
  <2>1. /\ UNCHANGED <<calls, list, pend, irq, bh, kpc, kstate, life>>
        /\ soft[c].stage = "run" => \A t \in Tasklet : <<t, c, "soft">> \notin calls
    BY <1>3 DEF WalkEnd, Trylock, TestCount, FuncReturn
  <2>2. /\ soft'[c].stage \in {"scan", "put", "locked", "run", "walk"}
        /\ soft'[c].mask = soft[c].mask
        /\ soft'[c].stage = "scan" => soft'[c].todo = <<>>
        /\ \A d \in CPU : d # c => soft'[d] = soft[d]
    BY <1>0, <1>3 DEF WalkEnd, Trylock, TestCount, FuncReturn, Soft
  <2> QED
    BY <1>0, <2>1, <2>2, SoftGood
<1>4. CASE PutBack(c)
  <2> DEFINE v == soft[c].vec
  <2>1. v \in Vec
    BY <1>0 DEF Soft
  <2>2. /\ list' = [list EXCEPT ![c][v] = <<Current(c)>> \o @]
        /\ pend' = [pend EXCEPT ![c] = @ \cup {v}]
        /\ soft' = [soft EXCEPT ![c].stage = "walk", ![c].todo = Tail(@)]
        /\ UNCHANGED <<calls, irq, bh, kpc, kstate, life>> /\ soft[c].stage = "put"
    BY <1>4 DEF PutBack
  <2> HIDE DEF v
  <2>3. /\ soft'[c].stage = "walk" /\ soft'[c].mask = soft[c].mask
        /\ \A d \in CPU : d # c => soft'[d] = soft[d]
    BY <1>0, <2>2 DEF Soft
  <2>4. /\ \A w \in Vec : w # v => list'[c][w] = list[c][w]
        /\ pend'[c] = pend[c] \cup {v}
        /\ \A d \in CPU : d # c => list'[d] = list[d] /\ pend'[d] = pend[d]
    BY <1>0, <2>1, <2>2
  <2>5. \A d \in CPU : d # c => SameCpu(d)
    BY <2>2, <2>3, <2>4 DEF SameCpu
  <2>6. Online(c)
    BY <1>0, GoodFacts DEF Offline
  <2>7. Between(c)' /\ Offline(c)' /\ Looked(c)'
    BY <2>2, <2>3, <2>6, GoodFacts DEF Between, Offline, Looked, Online, InInterrupt
  <2>8. Raised(c)'
    BY <2>2, <2>3, <2>4, <2>6, GoodFacts DEF Raised, Online
  <2>9. CallsLive'
    BY <2>2, <2>3, CallsKept DEF FInv
  <2> QED
    BY <2>5, <2>7, <2>8, <2>9, OneCpu DEF Good
<1> QED
  BY <1>1, <1>2, <1>3, <1>4 DEF Softirq

\* local_bh_disable, and ksoftirqd up to its call of do_softirq.
LEMMA TaskStepsGood ==
    ASSUME IInv, TInv, FInv, NEW c \in CPU,
           LocalBhDisable(c) \/ KSet(c) \/ KCheck(c) \/ KWakes(c)
    PROVE  FInv'
<1>1. UNCHANGED <<calls, list, pend, irq, soft, life>> /\ Online(c)
  BY DEF LocalBhDisable, KSet, KCheck, KWakes, KRuns, TaskLevel
<1>2. /\ \A d \in CPU : d # c => bh'[d] = bh[d] /\ kpc'[d] = kpc[d] /\ kstate'[d] = kstate[d]
      /\ \/ bh'[c]
         \/ kpc'[c] \in {"check", "loop"}
         \/ kpc'[c] = "sleep" /\ pend[c] = {}
  BY DEF LocalBhDisable, KSet, KCheck, KWakes, TInv, RestType
<1>3. \A d \in CPU : d # c => SameCpu(d)
  BY <1>1, <1>2 DEF SameCpu
<1>4. Between(c)' /\ Offline(c)' /\ Raised(c)'
  BY <1>1, GoodFacts DEF Between, Offline, Raised, Online
<1>5. Looked(c)'
  BY <1>1, <1>2 DEF Looked, InInterrupt
<1>6. CallsLive'
  BY <1>1, CallsKept DEF FInv
<1> QED
  BY <1>3, <1>4, <1>5, <1>6, OneCpu DEF Good

\* The steps that leave the CPUs and the calls alone.
LEMMA CtlGood ==
    ASSUME FInv, UNCHANGED <<calls, list, pend, irq, bh, soft, kpc, kstate, life>>
    PROVE  FInv'
<1>1. \A c \in CPU : SameCpu(c)
  BY DEF SameCpu
<1>2. CallsLive'
  BY CallsKept DEF FInv
<1> QED
  BY <1>1, <1>2, GoodKept DEF FInv

LEMMA HotplugGood ==
    ASSUME IInv, TInv, FInv, NEW c \in CPU, HotplugStep(c)
    PROVE  FInv'
<1>0. /\ UNCHANGED <<irq, bh, soft>> /\ life \in [CPU -> Lives]
      /\ list \in [CPU -> [Vec -> Seq(Tasklet)]] /\ pend \in [CPU -> SUBSET Vec]
  BY DEF HotplugStep, CpuDown, CpuUpPrepare, CpuUp, CpuOnline, TakeOver, MigrateTask,
         Rest, TInv, RestType, IInv, CoreType
<1>1. CASE CpuDown(c) \/ CpuUpPrepare(c) \/ CpuUp(c)
  <2>1. UNCHANGED <<calls, list, pend>>
    BY <1>1 DEF CpuDown, CpuUpPrepare, CpuUp
  <2>2. /\ \A d \in CPU : d # c => /\ life'[d] = life[d] /\ kpc'[d] = kpc[d]
                                   /\ kstate'[d] = kstate[d]
        /\ \/ life[c] = "up" /\ life'[c] = "dead" /\ soft[c].stage = "none" /\ ~irq[c]
           \/ life[c] = "off" /\ life'[c] = "prepared" /\ kpc'[c] = "set"
           \/ life[c] = "prepared" /\ life'[c] = "up" /\ kpc'[c] = kpc[c]
    BY <1>0, <1>1 DEF CpuDown, CpuUpPrepare, CpuUp, SetLife, TaskLevel, Online, TInv, RestType
  <2>3. \A d \in CPU : d # c => SameCpu(d)
    BY <1>0, <2>1, <2>2 DEF SameCpu
  <2>4. Between(c)' /\ Offline(c)'
    BY <1>0, <2>2, GoodFacts DEF Between, Offline, Online
  <2>5. Raised(c)'
    BY <1>0, <2>1, <2>2, GoodFacts DEF Raised
  <2>6. Looked(c)'
    BY <1>0, <2>1, <2>2, GoodFacts DEF Looked, Offline, Online
  <2>7. CallsLive'
    <3> SUFFICES ASSUME NEW t \in Tasklet, NEW d \in CPU PROVE CallLives(t, d)'
      BY DEF CallsLive
    <3>1. CallLives(t, d)
      BY DEF FInv, CallsLive
    <3>2. CASE d # c
      BY <1>0, <2>1, <2>2, <3>1, <3>2 DEF CallLives, Online
    <3>3. CASE d = c
      BY <1>0, <2>1, <2>2, <3>1, <3>3 DEF CallLives, Online
    <3> QED
      BY <3>2, <3>3
  <2> QED
    BY <2>3, <2>4, <2>5, <2>6, <2>7, OneCpu DEF Good
<1>2. CASE CpuOnline(c)
  <2>1. UNCHANGED <<calls, list, pend, kpc, life>> /\ kstate' = [kstate EXCEPT ![c] = "RUNNING"]
    BY <1>2 DEF CpuOnline, WakeupSoftirqd
  <2>2. kstate'[c] = "RUNNING" /\ \A d \in CPU : d # c => kstate'[d] = kstate[d]
    BY <2>1 DEF TInv, RestType
  <2>3. \A d \in CPU : d # c => SameCpu(d)
    BY <1>0, <2>1, <2>2 DEF SameCpu
  <2>4. Good(c)'
    BY <1>0, <2>1, <2>2, GoodFacts DEF Good, Between, Offline, Raised, Looked, Online
  <2>5. CallsLive'
    BY <1>0, <2>1, CallsKept DEF FInv
  <2> QED
    BY <2>3, <2>4, <2>5, OneCpu
<1>3. ASSUME NEW n \in CPU, TakeOver(c, n) PROVE FInv'
  <2> DEFINE moved == [v \in Vec |-> list[n][v] \o list[c][v]]
             empty == [v \in Vec |-> <<>>]
  <2>1. /\ life[c] \in {"dead", "prepared"} /\ \A t \in Tasklet : <<t, c, "task">> \notin calls
        /\ n # c /\ Online(n)
        /\ list' = [list EXCEPT ![n] = moved, ![c] = empty]
        /\ pend' = [pend EXCEPT ![n] = Vec]
        /\ kpc' = [kpc EXCEPT ![c] = "none"]
        /\ kstate' = [kstate EXCEPT ![n] = "RUNNING"]
        /\ life' = [life EXCEPT ![c] = "off"]
        /\ calls' = calls
    BY <1>3 DEF TakeOver, TaskLevel, SetLife
  <2>2. \A v \in Vec : empty[v] = <<>>
    OBVIOUS
  <2> HIDE DEF moved, empty
  <2>3. /\ list'[c] = empty /\ life'[c] = "off"
        /\ pend'[n] = Vec /\ kstate'[n] = "RUNNING" /\ life'[n] = "up"
        /\ \A d \in CPU : d # c => life'[d] = life[d] /\ kpc'[d] = kpc[d]
        /\ \A d \in CPU : d \notin {c, n} => /\ list'[d] = list[d] /\ pend'[d] = pend[d]
                                             /\ kstate'[d] = kstate[d]
    BY <1>0, <2>1 DEF TInv, RestType, Online
  <2>4. \A d \in CPU : d \notin {c, n} => SameCpu(d)
    BY <1>0, <2>3 DEF SameCpu
  <2>5. Good(c)'
    BY <1>0, <2>1, <2>2, <2>3, GoodFacts DEF Good, Between, Offline, Raised, Looked, Online
  <2>6. Good(n)'
    BY <1>0, <2>1, <2>3, GoodFacts DEF Good, Between, Offline, Raised, Looked, Online
  <2>7. CallsLive'
    <3> SUFFICES ASSUME NEW t \in Tasklet, NEW d \in CPU PROVE CallLives(t, d)'
      BY DEF CallsLive
    <3>1. CallLives(t, d)
      BY DEF FInv, CallsLive
    <3>2. CASE d # c
      BY <1>0, <2>1, <2>3, <3>1, <3>2 DEF CallLives, Online
    <3>3. CASE d = c
      BY <1>0, <2>1, <2>3, <3>1, <3>3 DEF CallLives, Online
    <3> QED
      BY <3>2, <3>3
  <2> QED
    BY <2>4, <2>5, <2>6, <2>7, GoodKept DEF FInv
<1>4. ASSUME NEW n \in CPU, NEW t \in Tasklet, MigrateTask(t, c, n) PROVE FInv'
  <2>1. /\ life[c] = "dead" /\ Online(n)
        /\ calls' = (calls \ {<<t, c, "task">>}) \cup {<<t, n, "task">>}
        /\ UNCHANGED <<list, pend, kpc, kstate, life>>
    BY <1>4 DEF MigrateTask
  <2>2. \A d \in CPU : SameCpu(d)
    BY <1>0, <2>1 DEF SameCpu
  <2>3. CallsLive'
    <3> SUFFICES ASSUME NEW u \in Tasklet, NEW d \in CPU PROVE CallLives(u, d)'
      BY DEF CallsLive
    <3>1. CallLives(u, d)
      BY DEF FInv, CallsLive
    <3>2. \A x \in Context : <<u, d, x>> \in calls' =>
                                 <<u, d, x>> \in calls \/ (d = n /\ x = "task")
      BY <2>1
    <3> QED
      BY <1>0, <2>1, <3>1, <3>2 DEF CallLives, Online, Context
  <2> QED
    BY <2>2, <2>3, GoodKept DEF FInv
<1> QED
  BY <1>1, <1>2, <1>3, <1>4 DEF HotplugStep

LEMMA NextFInv == IInv /\ TInv /\ FInv /\ [Next]_vars => FInv'
<1> SUFFICES ASSUME IInv, TInv, FInv, [Next]_vars PROVE FInv'
  OBVIOUS
<1>1. CASE \E a \in Ctl, t \in Tasklet : Disable(a, t) \/ Kill(a, t)
  BY <1>1, CtlGood DEF Disable, Kill
<1>2. CASE \E a \in Ctl : Control(a)
  BY <1>2, CtlGood DEF Control, DisableWait, Enable, KillWait, KillClear
<1>3. CASE UNCHANGED vars
  BY <1>3, CtlGood DEF vars
<1> QED
  BY <1>1, <1>2, <1>3, ScheduleGood, DoScheduleGood, EnterStepsGood, SoftStepsGood,
     TaskStepsGood, HotplugGood DEF Next, Ksoftirqd

\* For any constants, with CPUs going down and coming up: a tasklet on a list has
\* its softirq raised or about to be processed, a raised softirq has a context
\* that will look at it, and a CPU that is off has no tasklets.
THEOREM NotForgottenHolds == Spec => []NotForgotten
<1>1. FInv => NotForgotten
  BY DEF FInv, Good, Raised, Looked, NotForgotten
<1> QED
  BY <1>1, InitIInv, NextIInv, InitTInv, NextTInv, InitFInv, NextFInv, PTL DEF Spec

-----------------------------------------------------------------------------
(* Who owns a tasklet with SCHED set *)

\* Position i of a list of c, or of the list its softirq is working on, is t; the
\* position at hand does not count once SCHED has been cleared to call the function.
OnList(t, c, v, i) == i \in DOMAIN list[c][v] /\ list[c][v][i] = t
InTodo(t, c, i) ==
    /\ i \in DOMAIN soft[c].todo /\ soft[c].todo[i] = t
    /\ ~(i = 1 /\ soft[c].stage = "run")

\* Thread a has set the SCHED bit in tasklet_kill and will clear it.
Killing(t, a) == ctl[a].on = t /\ ctl[a].stage \in {"unlock", "clear"}

\* No party of a kind has the tasklet ...
NoCall(t) == \A c \in CPU, x \in Context : <<t, c, x>> \notin calls
NoList(t) == \A c \in CPU, v \in Vec, i \in Nat : ~OnList(t, c, v, i)
NoTodo(t) == \A c \in CPU, i \in Nat : ~InTodo(t, c, i)
NoKill(t) == \A a \in Ctl : ~Killing(t, a)

\* ... or exactly one has it, at one place.
OneCall(t) ==
    \E c \in CPU, x \in Context :
        \A d \in CPU, y \in Context : <<t, d, y>> \in calls <=> d = c /\ y = x
ListAt(t, c, v, i) ==
    \A d \in CPU, w \in Vec, j \in Nat : OnList(t, d, w, j) <=> d = c /\ w = v /\ j = i
OneList(t) == \E c \in CPU, v \in Vec, i \in Nat : ListAt(t, c, v, i)
TodoAt(t, c, i) == \A d \in CPU, j \in Nat : InTodo(t, d, j) <=> d = c /\ j = i
OneTodo(t) == \E c \in CPU, i \in Nat : TodoAt(t, c, i)
OneKill(t) == \E a \in Ctl : \A b \in Ctl : Killing(t, b) <=> b = a

\* SCHED is clear and nobody has the tasklet, or it is set and one party has it.
Owned(t) ==
    \/ ~sched[t] /\ NoCall(t) /\ NoList(t) /\ NoTodo(t) /\ NoKill(t)
    \/ sched[t] /\ OneCall(t) /\ NoList(t) /\ NoTodo(t) /\ NoKill(t)
    \/ sched[t] /\ NoCall(t) /\ OneList(t) /\ NoTodo(t) /\ NoKill(t)
    \/ sched[t] /\ NoCall(t) /\ NoList(t) /\ OneTodo(t) /\ NoKill(t)
    \/ sched[t] /\ NoCall(t) /\ NoList(t) /\ NoTodo(t) /\ OneKill(t)

OInv == \A t \in Tasklet : Owned(t)

\* A kind of party is left as it is by the step, for tasklet t.
SameCall(t) == (NoCall(t) => NoCall(t)') /\ (OneCall(t) => OneCall(t)')
SameList(t) == (NoList(t) => NoList(t)') /\ (OneList(t) => OneList(t)')
SameTodo(t) == (NoTodo(t) => NoTodo(t)') /\ (OneTodo(t) => OneTodo(t)')
SameKill(t) == (NoKill(t) => NoKill(t)') /\ (OneKill(t) => OneKill(t)')

LEMMA OwnedKept ==
    ASSUME NEW t \in Tasklet, Owned(t), sched'[t] = sched[t],
           SameCall(t), SameList(t), SameTodo(t), SameKill(t)
    PROVE  Owned(t)'
BY DEF Owned, SameCall, SameList, SameTodo, SameKill

\* Conditions under which a kind is left as it is.
LEMMA CallKept ==
    ASSUME NEW t \in Tasklet,
           \A c \in CPU, x \in Context : <<t, c, x>> \in calls' <=> <<t, c, x>> \in calls
    PROVE  SameCall(t)
BY DEF SameCall, NoCall, OneCall

LEMMA ListKept ==
    ASSUME NEW t \in Tasklet,
           \A c \in CPU, v \in Vec, i \in Nat : OnList(t, c, v, i)' <=> OnList(t, c, v, i)
    PROVE  SameList(t)
BY DEF SameList, NoList, OneList, ListAt

LEMMA TodoKept ==
    ASSUME NEW t \in Tasklet,
           \A c \in CPU, i \in Nat : InTodo(t, c, i)' <=> InTodo(t, c, i)
    PROVE  SameTodo(t)
BY DEF SameTodo, NoTodo, OneTodo, TodoAt

LEMMA KillKept ==
    ASSUME NEW t \in Tasklet, \A a \in Ctl : Killing(t, a)' <=> Killing(t, a)
    PROVE  SameKill(t)
BY DEF SameKill, NoKill, OneKill

\* Variables that do not change.
LEMMA Unchanged ==
    ASSUME NEW t \in Tasklet
    PROVE  /\ calls' = calls => SameCall(t)
           /\ list' = list => SameList(t)
           /\ soft' = soft => SameTodo(t)
           /\ ctl' = ctl => SameKill(t)
<1>1. calls' = calls => SameCall(t)
  BY CallKept
<1>2. ASSUME list' = list PROVE SameList(t)
  BY <1>2, ListKept DEF OnList
<1>3. ASSUME soft' = soft PROVE SameTodo(t)
  BY <1>3, TodoKept DEF InTodo
<1>4. ASSUME ctl' = ctl PROVE SameKill(t)
  BY <1>4, KillKept DEF Killing
<1> QED
  BY <1>1, <1>2, <1>3, <1>4

\* The tasklet at hand before SCHED is cleared has no other owner.
LEMMA AtHand ==
    ASSUME OInv, NEW t \in Tasklet, NEW c \in CPU, InTodo(t, c, 1)
    PROVE  /\ sched[t] /\ NoCall(t) /\ NoList(t) /\ NoKill(t)
           /\ \A d \in CPU, j \in Nat : InTodo(t, d, j) <=> d = c /\ j = 1
<1>1. Owned(t) /\ 1 \in Nat
  BY DEF OInv
<1>2. ~NoTodo(t)
  BY <1>1 DEF NoTodo
<1>3. sched[t] /\ NoCall(t) /\ NoList(t) /\ NoKill(t) /\ OneTodo(t)
  BY <1>1, <1>2 DEF Owned
<1>4. PICK e \in CPU, i \in Nat : \A d \in CPU, j \in Nat : InTodo(t, d, j) <=> d = e /\ j = i
  BY <1>3 DEF OneTodo, TodoAt
<1>5. e = c /\ i = 1
  BY <1>1, <1>4
<1> QED
  BY <1>3, <1>4, <1>5

LEMMA InitOInv == Init => OInv
<1> SUFFICES ASSUME Init, NEW t \in Tasklet PROVE Owned(t)
  BY DEF OInv
<1>1. NoCall(t) /\ ~sched[t]
  BY DEF Init, NoCall
<1>2. NoList(t)
  <2>1. \A c \in CPU, v \in Vec : list[c][v] = <<>>
    BY DEF Init
  <2> QED
    BY <2>1 DEF NoList, OnList
<1>3. NoTodo(t)
  <2>1. \A c \in CPU : soft[c].todo = <<>>
    BY DEF Init, NoSoft
  <2> QED
    BY <2>1 DEF NoTodo, InTodo
<1>4. NoKill(t)
  BY DEF Init, NoKill, Killing
<1> QED
  BY <1>1, <1>2, <1>3, <1>4 DEF Owned

-----------------------------------------------------------------------------
(* What the steps do to lists *)

\* A tasklet is linked at the head of a list: the others move up by one.
LEMMA PushFront ==
    ASSUME CoreType, NEW t \in Tasklet, NEW c \in CPU, NEW v \in Vec,
           list' = [list EXCEPT ![c][v] = <<t>> \o @]
    PROVE  /\ \A u \in Tasklet : u # t => SameList(u)
           /\ NoList(t) => OneList(t)'
<1> DEFINE s == list[c][v]
<1>1. s \in Seq(Tasklet) /\ Len(s) \in Nat /\ DOMAIN s = 1..Len(s)
  BY DEF CoreType
<1>2. /\ list'[c][v] = <<t>> \o s
      /\ \A d \in CPU, w \in Vec : ~(d = c /\ w = v) => list'[d][w] = list[d][w]
  BY DEF CoreType
<1>3. /\ DOMAIN (<<t>> \o s) = 1..(Len(s) + 1)
      /\ (<<t>> \o s)[1] = t
      /\ \A i \in 1..Len(s) : (<<t>> \o s)[i + 1] = s[i]
  BY <1>1
<1>4. \A u \in Tasklet : OnList(u, c, v, 1)' <=> u = t
  BY <1>1, <1>2, <1>3 DEF OnList
<1>5. \A u \in Tasklet, i \in Nat : i # 0 =>
          (OnList(u, c, v, i + 1)' <=> OnList(u, c, v, i))
  <2> SUFFICES ASSUME NEW u \in Tasklet, NEW i \in Nat, i # 0
               PROVE  OnList(u, c, v, i + 1)' <=> OnList(u, c, v, i)
    OBVIOUS
  <2>1. i + 1 \in 1..(Len(s) + 1) <=> i \in 1..Len(s)
    BY <1>1
  <2> HIDE DEF s
  <2>2. list[c][v] = s
    BY DEF s
  <2> QED
    BY <1>1, <1>2, <1>3, <2>1, <2>2 DEF OnList
<1>6. \A u \in Tasklet, d \in CPU, w \in Vec, i \in Nat :
          ~(d = c /\ w = v) => (OnList(u, d, w, i)' <=> OnList(u, d, w, i))
  BY <1>2 DEF OnList
<1>7. \A u \in Tasklet, d \in CPU, w \in Vec :
          ~OnList(u, d, w, 0) /\ ~OnList(u, c, v, 0)'
  <2>1. \A d \in CPU, w \in Vec : DOMAIN list[d][w] = 1..Len(list[d][w])
    BY DEF CoreType
  <2> QED
    BY <1>1, <1>2, <1>3, <2>1 DEF OnList
<1> HIDE DEF s
<1>8. ASSUME NEW u \in Tasklet, u # t PROVE SameList(u)
  <2>1. \A i \in Nat : OnList(u, c, v, i)' => i - 1 \in Nat /\ OnList(u, c, v, i - 1)
    <3> SUFFICES ASSUME NEW i \in Nat, OnList(u, c, v, i)'
                 PROVE  i - 1 \in Nat /\ OnList(u, c, v, i - 1)
      OBVIOUS
    <3>1. i # 0 /\ i # 1
      BY <1>4, <1>7, <1>8
    <3>2. i - 1 \in Nat /\ i - 1 # 0 /\ (i - 1) + 1 = i
      BY <3>1
    <3> QED
      BY <1>5, <3>2
  <2>2. NoList(u) => NoList(u)'
    <3> SUFFICES ASSUME NoList(u), NEW d \in CPU, NEW w \in Vec, NEW i \in Nat
                 PROVE  ~OnList(u, d, w, i)'
      BY DEF NoList
    <3> QED
      BY <1>6, <2>1 DEF NoList
  <2>3. ASSUME OneList(u) PROVE OneList(u)'
    <3>1. PICK e \in CPU, z \in Vec, k \in Nat :
             \A d \in CPU, w \in Vec, j \in Nat : OnList(u, d, w, j) <=> d = e /\ w = z /\ j = k
      BY <2>3 DEF OneList, ListAt
    <3>2. CASE e = c /\ z = v
      <4>1. k # 0 /\ k + 1 \in Nat
        BY <1>7, <3>1
      <4>2. OnList(u, c, v, k + 1)'
        BY <1>5, <3>1, <3>2, <4>1
      <4>3. ASSUME NEW d \in CPU, NEW w \in Vec, NEW j \in Nat, OnList(u, d, w, j)'
            PROVE  d = c /\ w = v /\ j = k + 1
        <5>1. d = c /\ w = v
          BY <1>6, <3>1, <3>2, <4>3
        <5>2. j - 1 \in Nat /\ OnList(u, c, v, j - 1)
          BY <2>1, <4>3, <5>1
        <5>3. j - 1 = k
          BY <3>1, <5>2
        <5> QED
          BY <5>1, <5>3
      <4>4. PICK h \in Nat : h = k + 1
        BY <4>1
      <4>5. ListAt(u, c, v, h)'
        BY <4>2, <4>3, <4>4 DEF ListAt
      <4> QED
        BY <4>5 DEF OneList
    <3>3. CASE ~(e = c /\ z = v)
      <4>1. \A j \in Nat : ~OnList(u, c, v, j)'
        BY <2>1, <3>1, <3>3
      <4>2. ListAt(u, e, z, k)'
        BY <1>6, <3>1, <3>3, <4>1 DEF ListAt
      <4> QED
        BY <4>2 DEF OneList
    <3> QED
      BY <3>2, <3>3
  <2> QED
    BY <2>2, <2>3 DEF SameList
<1>9. ASSUME NoList(t) PROVE OneList(t)'
  <2>1. OnList(t, c, v, 1)'
    BY <1>4
  <2>2. ASSUME NEW d \in CPU, NEW w \in Vec, NEW j \in Nat, OnList(t, d, w, j)'
        PROVE  d = c /\ w = v /\ j = 1
    <3>1. d = c /\ w = v
      BY <1>6, <1>9, <2>2 DEF NoList
    <3>2. j # 0
      BY <1>7, <2>2, <3>1
    <3>3. CASE j # 1
      <4>1. j - 1 \in Nat /\ j - 1 # 0 /\ (j - 1) + 1 = j
        BY <3>2, <3>3
      <4>2. OnList(t, c, v, j - 1)
        BY <1>5, <2>2, <3>1, <4>1
      <4> QED
        BY <1>9, <4>1, <4>2 DEF NoList
    <3> QED
      BY <3>1, <3>3
  <2>3. ListAt(t, c, v, 1)'
    BY <2>1, <2>2 DEF ListAt
  <2>4. 1 \in Nat
    OBVIOUS
  <2> QED
    BY <2>3, <2>4 DEF OneList
<1> QED
  BY <1>8, <1>9

\* tasklet_action goes on to the next tasklet of its list: all but the one at
\* hand stay in the list.
LEMMA TailTodo ==
    ASSUME CoreType, NEW c \in CPU, soft[c].todo # <<>>,
           soft'[c].todo = Tail(soft[c].todo), soft'[c].stage # "run",
           \A d \in CPU : d # c => soft'[d] = soft[d]
    PROVE  \A u \in Tasklet :
               /\ ~InTodo(u, c, 1) => SameTodo(u)
               /\ (\A d \in CPU, j \in Nat : InTodo(u, d, j) <=> d = c /\ j = 1) => NoTodo(u)'
<1> DEFINE s == soft[c].todo
<1>1. s \in Seq(Tasklet) /\ Len(s) \in Nat \ {0} /\ DOMAIN s = 1..Len(s)
  <2>1. s \in Seq(Tasklet)
    BY DEF CoreType, Soft
  <2> QED
    BY <2>1, EmptySeq, LenProperties
<1>2. /\ DOMAIN Tail(s) = 1..(Len(s) - 1)
      /\ \A i \in 1..(Len(s) - 1) : Tail(s)[i] = s[i + 1]
  BY <1>1, HeadTailProperties, LenProperties
<1> HIDE DEF s
<1>0. soft[c].todo = s /\ soft'[c].todo = Tail(s)
  BY DEF s
<1>3. \A u \in Tasklet, i \in Nat :
          InTodo(u, c, i)' => i # 0 /\ i + 1 \in Nat /\ InTodo(u, c, i + 1)
  <2> SUFFICES ASSUME NEW u \in Tasklet, NEW i \in Nat, InTodo(u, c, i)'
               PROVE  i # 0 /\ InTodo(u, c, i + 1)
    OBVIOUS
  <2>1. i \in 1..(Len(s) - 1) /\ Tail(s)[i] = u
    BY <1>0, <1>2 DEF InTodo
  <2>2. i + 1 \in 1..Len(s) /\ i + 1 # 1 /\ s[i + 1] = u /\ i # 0
    BY <1>1, <1>2, <2>1
  <2> QED
    BY <1>0, <1>1, <2>2 DEF InTodo
<1>4. \A u \in Tasklet, i \in Nat :
          InTodo(u, c, i) /\ i # 1 => i - 1 \in Nat /\ InTodo(u, c, i - 1)'
  <2> SUFFICES ASSUME NEW u \in Tasklet, NEW i \in Nat, InTodo(u, c, i), i # 1
               PROVE  i - 1 \in Nat /\ InTodo(u, c, i - 1)'
    OBVIOUS
  <2>1. i \in 1..Len(s) /\ s[i] = u
    BY <1>0, <1>1 DEF InTodo
  <2>2. i - 1 \in 1..(Len(s) - 1) /\ (i - 1) + 1 = i
    BY <1>1, <2>1
  <2>3. Tail(s)[i - 1] = u
    BY <1>2, <2>1, <2>2
  <2> QED
    BY <1>0, <1>2, <2>2, <2>3 DEF InTodo
<1>5. \A u \in Tasklet, d \in CPU, i \in Nat :
          d # c => (InTodo(u, d, i)' <=> InTodo(u, d, i))
  BY DEF InTodo
<1>6. ASSUME NEW u \in Tasklet, ~InTodo(u, c, 1) PROVE SameTodo(u)
  <2>1. NoTodo(u) => NoTodo(u)'
    BY <1>3, <1>5 DEF NoTodo
  <2>2. ASSUME OneTodo(u) PROVE OneTodo(u)'
    <3>1. PICK e \in CPU, k \in Nat :
             \A d \in CPU, j \in Nat : InTodo(u, d, j) <=> d = e /\ j = k
      BY <2>2 DEF OneTodo, TodoAt
    <3>2. CASE e = c
      <4>1. InTodo(u, c, k) /\ k # 1
        BY <1>6, <3>1, <3>2
      <4>2. PICK h \in Nat : h = k - 1
        BY <1>4, <4>1
      <4>3. InTodo(u, c, h)'
        BY <1>4, <4>1, <4>2
      <4>4. ASSUME NEW d \in CPU, NEW j \in Nat, InTodo(u, d, j)'
            PROVE  d = c /\ j = h
        <5>1. d = c
          BY <1>5, <3>1, <3>2, <4>4
        <5>2. j + 1 \in Nat /\ InTodo(u, c, j + 1)
          BY <1>3, <4>4, <5>1
        <5>3. j + 1 = k
          BY <3>1, <5>2
        <5> QED
          BY <4>2, <5>1, <5>3
      <4>5. TodoAt(u, c, h)'
        BY <4>3, <4>4 DEF TodoAt
      <4> QED
        BY <4>5 DEF OneTodo
    <3>3. CASE e # c
      <4>1. \A j \in Nat : ~InTodo(u, c, j)'
        BY <1>3, <3>1, <3>3
      <4>2. TodoAt(u, e, k)'
        BY <1>5, <3>1, <3>3, <4>1 DEF TodoAt
      <4> QED
        BY <4>2 DEF OneTodo
    <3> QED
      BY <3>2, <3>3
  <2> QED
    BY <2>1, <2>2 DEF SameTodo
<1>7. ASSUME NEW u \in Tasklet,
             \A d \in CPU, j \in Nat : InTodo(u, d, j) <=> d = c /\ j = 1
      PROVE  NoTodo(u)'
  <2> SUFFICES ASSUME NEW d \in CPU, NEW j \in Nat, InTodo(u, d, j)' PROVE FALSE
    BY DEF NoTodo
  <2>1. d = c
    BY <1>5, <1>7
  <2>2. j # 0 /\ j + 1 \in Nat /\ InTodo(u, c, j + 1)
    BY <1>3, <2>1
  <2>3. j + 1 = 1
    BY <1>7, <2>2
  <2> QED
    BY <2>2, <2>3
<1> QED
  BY <1>6, <1>7

\* tasklet_action takes a list over: what was on it is in hand.
LEMMA TakeList ==
    ASSUME CoreType, NEW c \in CPU, NEW v \in Vec, soft[c].todo = <<>>,
           list'[c][v] = <<>>, soft'[c].todo = list[c][v], soft'[c].stage = "walk",
           \A d \in CPU, w \in Vec : ~(d = c /\ w = v) => list'[d][w] = list[d][w],
           \A d \in CPU : d # c => soft'[d] = soft[d]
    PROVE  \A u \in Tasklet :
               /\ NoList(u) => NoList(u)' /\ SameTodo(u)
               /\ NoTodo(u) /\ OneList(u) =>
                     (OneList(u)' /\ NoTodo(u)') \/ (NoList(u)' /\ OneTodo(u)')
<1>1. \A u \in Tasklet, d \in CPU, w \in Vec, i \in Nat :
          OnList(u, d, w, i)' <=> OnList(u, d, w, i) /\ ~(d = c /\ w = v)
  BY DEF OnList
<1>2. \A u \in Tasklet, i \in Nat : /\ InTodo(u, c, i)' <=> OnList(u, c, v, i)
                                    /\ ~InTodo(u, c, i)
  BY DEF OnList, InTodo
<1>3. \A u \in Tasklet, d \in CPU, i \in Nat :
          d # c => (InTodo(u, d, i)' <=> InTodo(u, d, i))
  BY DEF InTodo
<1> SUFFICES ASSUME NEW u \in Tasklet
             PROVE  /\ NoList(u) => NoList(u)' /\ SameTodo(u)
                    /\ NoTodo(u) /\ OneList(u) =>
                          (OneList(u)' /\ NoTodo(u)') \/ (NoList(u)' /\ OneTodo(u)')
  OBVIOUS
<1>4. ASSUME NoList(u) PROVE NoList(u)' /\ SameTodo(u)
  <2>1. NoList(u)'
    BY <1>1, <1>4 DEF NoList
  <2>2. \A d \in CPU, i \in Nat : InTodo(u, d, i)' <=> InTodo(u, d, i)
    BY <1>2, <1>3, <1>4 DEF NoList
  <2> QED
    BY <2>1, <2>2, TodoKept
<1>5. ASSUME NoTodo(u), OneList(u)
      PROVE  (OneList(u)' /\ NoTodo(u)') \/ (NoList(u)' /\ OneTodo(u)')
  <2>1. PICK e \in CPU, z \in Vec, k \in Nat :
           \A d \in CPU, w \in Vec, j \in Nat : OnList(u, d, w, j) <=> d = e /\ w = z /\ j = k
    BY <1>5 DEF OneList, ListAt
  <2>2. CASE e = c /\ z = v
    <3>1. NoList(u)'
      BY <1>1, <2>1, <2>2 DEF NoList
    <3>2. TodoAt(u, c, k)'
      BY <1>2, <1>3, <1>5, <2>1, <2>2 DEF NoTodo, TodoAt
    <3> QED
      BY <3>1, <3>2 DEF OneTodo
  <2>3. CASE ~(e = c /\ z = v)
    <3>1. NoTodo(u)'
      BY <1>2, <1>3, <1>5, <2>1, <2>3 DEF NoTodo
    <3>2. ListAt(u, e, z, k)'
      BY <1>1, <2>1, <2>3 DEF ListAt
    <3> QED
      BY <3>1, <3>2 DEF OneList
  <2> QED
    BY <2>2, <2>3
<1> QED
  BY <1>4, <1>5

\* Positions in the concatenation of two lists.
LEMMA ConcatPositions ==
    ASSUME NEW a \in Seq(Tasklet), NEW b \in Seq(Tasklet)
    PROVE  /\ Len(a) \in Nat
           /\ \A i \in DOMAIN a : i \in DOMAIN (a \o b) /\ (a \o b)[i] = a[i]
           /\ \A i \in DOMAIN b : /\ i + Len(a) \in DOMAIN (a \o b)
                                  /\ (a \o b)[i + Len(a)] = b[i]
           /\ \A i \in DOMAIN (a \o b) :
                 \/ i \in DOMAIN a /\ (a \o b)[i] = a[i]
                 \/ /\ i - Len(a) \in Nat /\ i - Len(a) \in DOMAIN b
                    /\ (a \o b)[i] = b[i - Len(a)]
<1>1. /\ Len(a) \in Nat /\ Len(b) \in Nat
      /\ DOMAIN a = 1..Len(a) /\ DOMAIN b = 1..Len(b)
  BY LenProperties
<1>2. /\ DOMAIN (a \o b) = 1..(Len(a) + Len(b))
      /\ \A i \in 1..(Len(a) + Len(b)) :
            (a \o b)[i] = IF i <= Len(a) THEN a[i] ELSE b[i - Len(a)]
  <2>1. /\ a \o b \in Seq(Tasklet) /\ Len(a \o b) = Len(a) + Len(b)
        /\ \A i \in 1..(Len(a) + Len(b)) :
              (a \o b)[i] = IF i <= Len(a) THEN a[i] ELSE b[i - Len(a)]
    BY ConcatProperties
  <2> QED
    BY <2>1, LenProperties
<1>3. \A i \in DOMAIN a : i \in DOMAIN (a \o b) /\ (a \o b)[i] = a[i]
  BY <1>1, <1>2
<1>4. ASSUME NEW i \in DOMAIN b
      PROVE  i + Len(a) \in DOMAIN (a \o b) /\ (a \o b)[i + Len(a)] = b[i]
  <2>1. /\ i + Len(a) \in 1..(Len(a) + Len(b)) /\ ~(i + Len(a) <= Len(a))
        /\ (i + Len(a)) - Len(a) = i
    BY <1>1, <1>4
  <2> QED
    BY <1>2, <2>1
<1>5. ASSUME NEW i \in DOMAIN (a \o b), i \notin DOMAIN a
      PROVE  /\ i - Len(a) \in Nat /\ i - Len(a) \in DOMAIN b
             /\ (a \o b)[i] = b[i - Len(a)]
  <2>1. ~(i <= Len(a)) /\ i - Len(a) \in 1..Len(b) /\ i \in 1..(Len(a) + Len(b))
    BY <1>1, <1>2, <1>5
  <2> QED
    BY <1>1, <1>2, <2>1
<1> QED
  BY <1>1, <1>3, <1>4, <1>5

\* takeover_tasklets: the lists of c are appended to those of n.
LEMMA AppendLists ==
    ASSUME CoreType, NEW c \in CPU, NEW n \in CPU, n # c,
           \A v \in Vec : list'[n][v] = list[n][v] \o list[c][v] /\ list'[c][v] = <<>>,
           \A d \in CPU : d \notin {c, n} => list'[d] = list[d]
    PROVE  \A u \in Tasklet : SameList(u)
<1> SUFFICES ASSUME NEW u \in Tasklet PROVE SameList(u)
  OBVIOUS
<1>1. ASSUME NEW v \in Vec
      PROVE  \E l \in Nat :
               /\ \A i \in Nat : OnList(u, n, v, i) => OnList(u, n, v, i)'
               /\ \A i \in Nat : OnList(u, c, v, i) => OnList(u, n, v, i + l)'
               /\ \A i \in Nat : OnList(u, n, v, i)' =>
                      OnList(u, n, v, i) \/ (i - l \in Nat /\ OnList(u, c, v, i - l))
               /\ \A i \in Nat : ~OnList(u, c, v, i)'
  <2>1. PICK a \in Seq(Tasklet), b \in Seq(Tasklet) : a = list[n][v] /\ b = list[c][v]
    BY DEF CoreType
  <2>2. list'[n][v] = a \o b /\ list'[c][v] = <<>>
    BY <2>1
  <2>3. /\ \A i \in Nat : OnList(u, n, v, i) <=> i \in DOMAIN a /\ a[i] = u
        /\ \A i \in Nat : OnList(u, c, v, i) <=> i \in DOMAIN b /\ b[i] = u
        /\ \A i \in Nat : OnList(u, n, v, i)' <=> i \in DOMAIN (a \o b) /\ (a \o b)[i] = u
        /\ \A i \in Nat : ~OnList(u, c, v, i)'
    BY <2>1, <2>2 DEF OnList
  <2>4. Len(a) \in Nat
    BY ConcatPositions
  <2>5. \A i \in Nat : OnList(u, n, v, i) => OnList(u, n, v, i)'
    BY <2>3, ConcatPositions
  <2>6. ASSUME NEW i \in Nat, OnList(u, c, v, i) PROVE OnList(u, n, v, i + Len(a))'
    <3>1. i + Len(a) \in Nat
      BY <2>4
    <3>2. i + Len(a) \in DOMAIN (a \o b) /\ (a \o b)[i + Len(a)] = u
      BY <2>3, <2>6, ConcatPositions
    <3> QED
      BY <2>3, <3>1, <3>2
  <2>7. ASSUME NEW i \in Nat, OnList(u, n, v, i)'
        PROVE  OnList(u, n, v, i) \/ (i - Len(a) \in Nat /\ OnList(u, c, v, i - Len(a)))
    <3>1. i \in DOMAIN (a \o b) /\ (a \o b)[i] = u
      BY <2>3, <2>7
    <3>2. \/ i \in DOMAIN a /\ a[i] = u
          \/ i - Len(a) \in Nat /\ i - Len(a) \in DOMAIN b /\ b[i - Len(a)] = u
      BY <3>1, ConcatPositions
    <3> QED
      BY <2>3, <3>2
  <2>8. PICK l \in Nat : l = Len(a)
    BY <2>4
  <2> QED
    BY <2>3, <2>5, <2>6, <2>7, <2>8
<1>2. \A d \in CPU, v \in Vec, i \in Nat :
          d \notin {c, n} => (OnList(u, d, v, i)' <=> OnList(u, d, v, i))
  BY DEF OnList
<1>3. NoList(u) => NoList(u)'
  <2> SUFFICES ASSUME NoList(u), NEW d \in CPU, NEW v \in Vec, NEW i \in Nat,
                      OnList(u, d, v, i)'
               PROVE  FALSE
    BY DEF NoList
  <2>1. CASE d \notin {c, n}
    BY <1>2, <2>1 DEF NoList
  <2>2. CASE d = n
    BY <1>1, <2>2 DEF NoList
  <2>3. CASE d = c
    BY <1>1, <2>3
  <2> QED
    BY <2>1, <2>2, <2>3
<1>4. ASSUME OneList(u) PROVE OneList(u)'
  <2>1. PICK e \in CPU, z \in Vec, k \in Nat :
           \A d \in CPU, w \in Vec, j \in Nat : OnList(u, d, w, j) <=> d = e /\ w = z /\ j = k
    BY <1>4 DEF OneList, ListAt
  <2>0. OnList(u, e, z, k)
    BY <2>1
  <2>2. CASE e = c
    <3>0. PICK l \in Nat :
             /\ \A i \in Nat : OnList(u, c, z, i) => OnList(u, n, z, i + l)'
             /\ \A i \in Nat : OnList(u, n, z, i)' =>
                   OnList(u, n, z, i) \/ (i - l \in Nat /\ OnList(u, c, z, i - l))
      BY <1>1
    <3>1. PICK h \in Nat : h = k + l
      OBVIOUS
    <3>2. OnList(u, n, z, h)'
      BY <2>0, <2>2, <3>0, <3>1
    <3>3. ASSUME NEW d \in CPU, NEW w \in Vec, NEW j \in Nat, OnList(u, d, w, j)'
          PROVE  d = n /\ w = z /\ j = h
      <4>1. d = n
        BY <1>1, <1>2, <2>1, <2>2, <3>3
      <4>2. \A y \in Nat : ~OnList(u, n, w, y) /\ (w # z => ~OnList(u, c, w, y))
        BY <2>1, <2>2
      <4>3. w = z
        BY <1>1, <3>3, <4>1, <4>2
      <4>4. j - l \in Nat /\ OnList(u, c, z, j - l)
        BY <3>0, <3>3, <4>1, <4>2, <4>3
      <4>5. j - l = k
        BY <2>1, <4>4
      <4> QED
        BY <3>1, <4>1, <4>3, <4>5
    <3>4. ListAt(u, n, z, h)'
      BY <3>2, <3>3 DEF ListAt
    <3> QED
      BY <3>4 DEF OneList
  <2>3. CASE e # c
    <3>1. OnList(u, e, z, k)'
      BY <1>1, <1>2, <2>0, <2>3
    <3>2. ASSUME NEW d \in CPU, NEW w \in Vec, NEW j \in Nat, OnList(u, d, w, j)'
          PROVE  d = e /\ w = z /\ j = k
      <4>1. \A i \in Nat : ~OnList(u, c, w, i)
        BY <2>1, <2>3
      <4>2. OnList(u, d, w, j)
        BY <1>1, <1>2, <3>2, <4>1
      <4> QED
        BY <2>1, <4>2
    <3>3. ListAt(u, e, z, k)'
      BY <3>1, <3>2 DEF ListAt
    <3> QED
      BY <3>3 DEF OneList
  <2> QED
    BY <2>2, <2>3
<1> QED
  BY <1>3, <1>4 DEF SameList

-----------------------------------------------------------------------------
(* The steps keep the ownership *)

LEMMA ScheduleOwned ==
    ASSUME IInv, TInv, OInv, NEW t \in Tasklet, NEW c \in CPU, NEW x \in Context,
           Schedule(t, c, x)
    PROVE  OInv'
<1>1. /\ ~sched[t] /\ sched' = [sched EXCEPT ![t] = TRUE]
      /\ calls' = calls \cup {<<t, c, x>>}
      /\ list' = list /\ soft' = soft /\ ctl' = ctl
  BY DEF Schedule
<1>2. sched'[t] /\ \A u \in Tasklet : u # t => sched'[u] = sched[u]
  BY <1>1 DEF TInv, RestType
<1>3. ASSUME NEW u \in Tasklet, u # t PROVE Owned(u)'
  <2>1. SameCall(u)
    BY <1>1, <1>3, CallKept
  <2>2. SameList(u) /\ SameTodo(u) /\ SameKill(u)
    BY <1>1, Unchanged
  <2> QED
    BY <1>2, <1>3, <2>1, <2>2, OwnedKept DEF OInv
<1>4. Owned(t)'
  <2>1. NoCall(t) /\ NoList(t) /\ NoTodo(t) /\ NoKill(t)
    BY <1>1 DEF OInv, Owned
  <2>2. NoList(t)' /\ NoTodo(t)' /\ NoKill(t)'
    BY <1>1, <2>1, Unchanged DEF SameList, SameTodo, SameKill
  <2>3. \A d \in CPU, y \in Context : <<t, d, y>> \in calls' <=> d = c /\ y = x
    BY <1>1, <2>1 DEF NoCall
  <2>4. OneCall(t)'
    BY <2>3 DEF OneCall
  <2> QED
    BY <1>2, <2>2, <2>4 DEF Owned
<1> QED
  BY <1>3, <1>4 DEF OInv

LEMMA DoScheduleOwned ==
    ASSUME IInv, TInv, OInv, NEW t \in Tasklet, NEW c \in CPU, NEW x \in Context,
           DoSchedule(t, c, x)
    PROVE  OInv'
<1>1. /\ <<t, c, x>> \in calls /\ calls' = calls \ {<<t, c, x>>}
      /\ list' = [list EXCEPT ![c][VecOf[t]] = <<t>> \o @]
      /\ sched' = sched /\ soft' = soft /\ ctl' = ctl
  BY DEF DoSchedule
<1>2. VecOf[t] \in Vec
  BY VecAssumption
<1>3. (\A u \in Tasklet : u # t => SameList(u)) /\ (NoList(t) => OneList(t)')
  BY <1>1, <1>2, PushFront DEF IInv
<1>4. ASSUME NEW u \in Tasklet, u # t PROVE Owned(u)'
  <2>1. SameCall(u)
    BY <1>1, <1>4, CallKept
  <2>2. SameTodo(u) /\ SameKill(u)
    BY <1>1, Unchanged
  <2> QED
    BY <1>1, <1>3, <1>4, <2>1, <2>2, OwnedKept DEF OInv
<1>5. Owned(t)'
  <2>1. ~NoCall(t)
    BY <1>1 DEF NoCall
  <2>2. sched[t] /\ OneCall(t) /\ NoList(t) /\ NoTodo(t) /\ NoKill(t)
    BY <2>1 DEF OInv, Owned
  <2>3. NoTodo(t)' /\ NoKill(t)' /\ OneList(t)'
    BY <1>1, <1>3, <2>2, Unchanged DEF SameTodo, SameKill
  <2>4. NoCall(t)'
    <3>1. PICK e \in CPU, z \in Context :
             \A d \in CPU, y \in Context : <<t, d, y>> \in calls <=> d = e /\ y = z
      BY <2>2 DEF OneCall
    <3>2. e = c /\ z = x
      BY <1>1, <3>1
    <3> QED
      BY <1>1, <3>1, <3>2 DEF NoCall
  <2> QED
    BY <1>1, <2>2, <2>3, <2>4 DEF Owned
<1> QED
  BY <1>4, <1>5 DEF OInv

\* Steps in which no tasklet changes its owner.
LEMMA NothingMoves ==
    ASSUME OInv, UNCHANGED <<sched, calls, list, ctl>>,
           \A c \in CPU : \/ soft'[c] = soft[c]
                          \/ soft'[c].todo = <<>> /\ soft[c].todo = <<>>
                          \/ /\ soft'[c].todo = soft[c].todo
                             /\ soft'[c].stage # "run" /\ soft[c].stage # "run"
    PROVE  OInv'
<1> SUFFICES ASSUME NEW u \in Tasklet PROVE Owned(u)'
  BY DEF OInv
<1>1. SameCall(u) /\ SameList(u) /\ SameKill(u)
  BY Unchanged
<1>2. \A c \in CPU, i \in Nat : InTodo(u, c, i)' <=> InTodo(u, c, i)
  BY DEF InTodo
<1>3. SameTodo(u)
  BY <1>2, TodoKept
<1> QED
  BY <1>1, <1>3, OwnedKept DEF OInv

LEMMA EnterOwned ==
    ASSUME IInv, FInv, OInv, NEW c \in CPU, IrqExit(c) \/ LocalBhEnable(c) \/ KLoop(c)
    PROVE  OInv'
<1>1. UNCHANGED <<sched, calls, list, ctl>>
  BY DEF IrqExit, LocalBhEnable, KLoop
<1>2. CASE EnterSoftirq(c) /\ soft[c].stage = "none"
  <2>0. soft[c] = NoSoft
    BY <1>2, GoodFacts DEF Between
  <2>1. soft[c].todo = <<>> /\ soft \in [CPU -> Soft]
    BY <2>0 DEF NoSoft, IInv, CoreType
  <2>2. CASE pend[c] = {}
    BY <1>1, <1>2, <2>2, NothingMoves DEF EnterSoftirq
  <2>3. CASE pend[c] # {}
    <3> DEFINE s == [NoSoft EXCEPT !.stage = "scan", !.mask = pend[c], !.left = MaxRestart]
    <3>1. s.todo = <<>>
      BY DEF NoSoft
    <3>2. soft' = [soft EXCEPT ![c] = s]
      BY <1>2, <2>3 DEF EnterSoftirq
    <3> HIDE DEF s
    <3>3. soft'[c].todo = <<>> /\ \A d \in CPU : d # c => soft'[d] = soft[d]
      BY <2>1, <3>1, <3>2
    <3> QED
      BY <1>1, <2>1, <3>3, NothingMoves
  <2> QED
    BY <2>2, <2>3
<1>3. CASE soft' = soft
  BY <1>1, <1>3, NothingMoves
<1> QED
  BY <1>2, <1>3 DEF IrqExit, LocalBhEnable, KLoop, KRuns, TaskLevel

LEMMA SoftActionOwned ==
    ASSUME IInv, FInv, OInv, NEW c \in CPU, SoftAction(c)
    PROVE  OInv'
<1>1. PICK v \in Vec : v = Min(soft[c].mask)
  BY MinInSet DEF SoftAction, IInv, CoreType, Soft
<1>2. /\ soft' = [soft EXCEPT ![c].stage = "walk", ![c].mask = @ \ {v},
                              ![c].vec = v, ![c].todo = list[c][v]]
      /\ list' = [list EXCEPT ![c][v] = <<>>]
      /\ UNCHANGED <<sched, calls, ctl>> /\ soft[c].stage = "scan"
  BY <1>1 DEF SoftAction
<1>3. soft[c].todo = <<>>
  BY <1>2, GoodFacts DEF Between
<1>4. /\ soft'[c].stage = "walk" /\ soft'[c].todo = list[c][v]
      /\ \A d \in CPU : d # c => soft'[d] = soft[d]
  BY <1>2 DEF IInv, CoreType, Soft
<1>5. /\ list'[c][v] = <<>>
      /\ \A d \in CPU, w \in Vec : ~(d = c /\ w = v) => list'[d][w] = list[d][w]
  BY <1>2 DEF IInv, CoreType
<1>6. \A u \in Tasklet :
          /\ NoList(u) => NoList(u)' /\ SameTodo(u)
          /\ NoTodo(u) /\ OneList(u) =>
                (OneList(u)' /\ NoTodo(u)') \/ (NoList(u)' /\ OneTodo(u)')
  BY <1>3, <1>4, <1>5, TakeList DEF IInv
<1>7. ASSUME NEW u \in Tasklet PROVE Owned(u)'
  <2>1. SameCall(u) /\ SameKill(u) /\ sched'[u] = sched[u]
    BY <1>2, Unchanged
  <2>2. Owned(u)
    BY DEF OInv
  <2> QED
    BY <1>6, <2>1, <2>2 DEF Owned, SameCall, SameKill, SameTodo
<1> QED
  BY <1>7 DEF OInv

\* The stages of tasklet_action: the tasklet at hand.
LEMMA HandFacts ==
    ASSUME IInv, NEW c \in CPU, soft[c].stage \in {"locked", "run", "put"}
    PROVE  /\ soft[c].todo \in Seq(Tasklet) /\ soft[c].todo # <<>>
           /\ Current(c) \in Tasklet
           /\ \A u \in Tasklet : InTodo(u, c, 1) <=> u = Current(c) /\ soft[c].stage # "run"
<1>1. soft[c].todo \in Seq(Tasklet) /\ soft[c].todo # <<>>
  BY DEF IInv, CoreType, HasCurrent, Soft
<1>2. /\ Current(c) \in Tasklet /\ Current(c) = soft[c].todo[1]
      /\ 1 \in DOMAIN soft[c].todo
  <2>1. Len(soft[c].todo) \in Nat \ {0} /\ DOMAIN soft[c].todo = 1..Len(soft[c].todo)
    BY <1>1, EmptySeq, LenProperties
  <2> QED
    BY <1>1, <2>1, HeadTailProperties, ElementOfSeq DEF Current
<1> QED
  BY <1>1, <1>2 DEF InTodo

LEMMA TestCountOwned ==
    ASSUME IInv, TInv, OInv, NEW c \in CPU, TestCount(c)
    PROVE  OInv'
<1>0. soft[c].stage = "locked" /\ soft \in [CPU -> Soft] /\ sched \in [Tasklet -> BOOLEAN]
  BY DEF TestCount, IInv, CoreType, TInv, RestType
<1>1. CASE count[Current(c)] # 0
  <2>1. /\ UNCHANGED <<sched, calls, list, ctl>>
        /\ soft' = [soft EXCEPT ![c].stage = "put"]
    BY <1>1 DEF TestCount
  <2>2. /\ soft'[c].stage = "put" /\ soft'[c].todo = soft[c].todo
        /\ \A d \in CPU : d # c => soft'[d] = soft[d]
    BY <1>0, <2>1 DEF Soft
  <2> QED
    BY <1>0, <2>1, <2>2, NothingMoves
<1>2. CASE count[Current(c)] = 0
  <2>1. PICK t \in Tasklet : t = Current(c) /\ InTodo(t, c, 1)
    BY <1>0, HandFacts
  <2>2. /\ sched' = [sched EXCEPT ![t] = FALSE] /\ UNCHANGED <<calls, list, ctl>>
        /\ soft' = [soft EXCEPT ![c].stage = "run"]
    BY <1>2, <2>1 DEF TestCount
  <2>3. /\ soft'[c].stage = "run" /\ soft'[c].todo = soft[c].todo
        /\ \A d \in CPU : d # c => soft'[d] = soft[d]
    BY <1>0, <2>2 DEF Soft
  <2>4. ~sched'[t] /\ \A u \in Tasklet : u # t => sched'[u] = sched[u]
    BY <1>0, <2>2
  <2>5. \A u \in Tasklet, d \in CPU, i \in Nat :
            InTodo(u, d, i)' <=> InTodo(u, d, i) /\ ~(d = c /\ i = 1)
    BY <1>0, <2>3 DEF InTodo
  <2>6. ASSUME NEW u \in Tasklet, u # t PROVE Owned(u)'
    <3>1. ~InTodo(u, c, 1)
      BY <1>0, <2>1, <2>6, HandFacts
    <3>2. SameTodo(u)
      BY <2>5, <3>1, TodoKept
    <3> QED
      BY <2>2, <2>4, <2>6, <3>2, Unchanged, OwnedKept DEF OInv
  <2>7. Owned(t)'
    <3>1. /\ NoCall(t) /\ NoList(t) /\ NoKill(t)
          /\ \A d \in CPU, j \in Nat : InTodo(t, d, j) <=> d = c /\ j = 1
      BY <2>1, AtHand
    <3>2. NoTodo(t)'
      BY <2>5, <3>1 DEF NoTodo
    <3>3. NoCall(t)' /\ NoList(t)' /\ NoKill(t)'
      BY <2>2, <3>1, Unchanged DEF SameCall, SameList, SameKill
    <3> QED
      BY <2>4, <3>2, <3>3 DEF Owned
  <2> QED
    BY <2>6, <2>7 DEF OInv
<1> QED
  BY <1>1, <1>2

LEMMA FuncReturnOwned ==
    ASSUME IInv, OInv, NEW c \in CPU, FuncReturn(c)
    PROVE  OInv'
<1>0. soft[c].stage = "run" /\ soft \in [CPU -> Soft]
  BY DEF FuncReturn, IInv, CoreType
<1>1. /\ UNCHANGED <<sched, calls, list, ctl>>
      /\ soft' = [soft EXCEPT ![c].stage = "walk", ![c].todo = Tail(@)]
  BY DEF FuncReturn
<1>2. /\ soft'[c].stage # "run" /\ soft'[c].todo = Tail(soft[c].todo)
      /\ \A d \in CPU : d # c => soft'[d] = soft[d]
  BY <1>0, <1>1 DEF Soft
<1>3. /\ soft[c].todo # <<>> /\ \A u \in Tasklet : ~InTodo(u, c, 1)
  BY <1>0, HandFacts
<1>4. \A u \in Tasklet : SameTodo(u)
  BY <1>2, <1>3, TailTodo DEF IInv
<1> QED
  BY <1>1, <1>4, Unchanged, OwnedKept DEF OInv

LEMMA PutBackOwned ==
    ASSUME IInv, OInv, NEW c \in CPU, PutBack(c)
    PROVE  OInv'
<1>0. soft[c].stage = "put" /\ soft \in [CPU -> Soft]
  BY DEF PutBack, IInv, CoreType
<1>1. PICK t \in Tasklet : t = Current(c) /\ InTodo(t, c, 1)
  BY <1>0, HandFacts
<1>2. PICK v \in Vec : v = soft[c].vec
  BY <1>0 DEF Soft
<1>3. /\ UNCHANGED <<sched, calls, ctl>>
      /\ list' = [list EXCEPT ![c][v] = <<t>> \o @]
      /\ soft' = [soft EXCEPT ![c].stage = "walk", ![c].todo = Tail(@)]
  BY <1>1, <1>2 DEF PutBack
<1>4. /\ soft'[c].stage # "run" /\ soft'[c].todo = Tail(soft[c].todo)
      /\ \A d \in CPU : d # c => soft'[d] = soft[d]
  BY <1>0, <1>3 DEF Soft
<1>5. /\ soft[c].todo # <<>> /\ \A u \in Tasklet : u # t => ~InTodo(u, c, 1)
  BY <1>0, <1>1, HandFacts
<1>6. \A u \in Tasklet :
          /\ ~InTodo(u, c, 1) => SameTodo(u)
          /\ (\A d \in CPU, j \in Nat : InTodo(u, d, j) <=> d = c /\ j = 1) => NoTodo(u)'
  BY <1>4, <1>5, TailTodo DEF IInv
<1>7. (\A u \in Tasklet : u # t => SameList(u)) /\ (NoList(t) => OneList(t)')
  BY <1>3, PushFront DEF IInv
<1>8. ASSUME NEW u \in Tasklet, u # t PROVE Owned(u)'
  BY <1>3, <1>5, <1>6, <1>7, <1>8, Unchanged, OwnedKept DEF OInv
<1>9. Owned(t)'
  <2>1. /\ sched[t] /\ NoCall(t) /\ NoList(t) /\ NoKill(t)
        /\ \A d \in CPU, j \in Nat : InTodo(t, d, j) <=> d = c /\ j = 1
    BY <1>1, AtHand
  <2>2. NoTodo(t)' /\ OneList(t)' /\ sched'[t]
    BY <1>3, <1>6, <1>7, <2>1
  <2>3. NoCall(t)' /\ NoKill(t)'
    BY <1>3, <2>1, Unchanged DEF SameCall, SameKill
  <2> QED
    BY <2>2, <2>3 DEF Owned
<1> QED
  BY <1>8, <1>9 DEF OInv

\* The other steps of the softirq code.
LEMMA SoftOwned ==
    ASSUME IInv, FInv, OInv, NEW c \in CPU, SoftNext(c) \/ WalkEnd(c) \/ Trylock(c)
    PROVE  OInv'
<1>0. soft \in [CPU -> Soft]
  BY DEF IInv, CoreType
<1>1. UNCHANGED <<sched, calls, list, ctl>>
  BY DEF SoftNext, WalkEnd, Trylock
<1>2. CASE SoftNext(c)
  <2>1. soft[c].todo = <<>>
    BY <1>2, GoodFacts DEF SoftNext, Between
  <2>2. soft'[c].todo = <<>> /\ \A d \in CPU : d # c => soft'[d] = soft[d]
    BY <1>0, <1>2, <2>1 DEF SoftNext, SoftRestart, SoftEnd, NoSoft, Soft
  <2> QED
    BY <1>1, <2>1, <2>2, NothingMoves
<1>3. CASE WalkEnd(c) \/ Trylock(c)
  <2>1. /\ soft'[c].todo = soft[c].todo /\ soft'[c].stage # "run" /\ soft[c].stage # "run"
        /\ \A d \in CPU : d # c => soft'[d] = soft[d]
    BY <1>0, <1>3 DEF WalkEnd, Trylock, Soft
  <2> QED
    BY <1>1, <2>1, NothingMoves
<1> QED
  BY <1>2, <1>3

\* tasklet_kill and tasklet_disable.
LEMMA CtlOwned ==
    ASSUME TInv, OInv, NEW a \in Ctl, NEW t \in Tasklet,
           NEW r \in [stage : CtlStages, on : Tasklet],
           UNCHANGED <<calls, list, soft>>, ctl' = [ctl EXCEPT ![a] = r], r.on = t,
           \A u \in Tasklet : u # t => sched'[u] = sched[u] /\ ~Killing(u, a),
           \/ /\ sched'[t] = sched[t]
              /\ Killing(t, a) <=> r.stage \in {"unlock", "clear"}
           \/ ~sched[t] /\ sched'[t] /\ r.stage = "unlock"
           \/ Killing(t, a) /\ ~sched'[t] /\ r.stage = "idle"
    PROVE  OInv'
<1>1. ctl'[a] = r /\ \A b \in Ctl : b # a => ctl'[b] = ctl[b]
  BY DEF TInv, RestType
<1>2. /\ \A u \in Tasklet, b \in Ctl : b # a => (Killing(u, b)' <=> Killing(u, b))
      /\ \A u \in Tasklet : u # t => ~Killing(u, a)'
      /\ Killing(t, a)' <=> r.stage \in {"unlock", "clear"}
  BY <1>1 DEF Killing
<1>3. \A u \in Tasklet : SameCall(u) /\ SameList(u) /\ SameTodo(u)
  BY Unchanged
<1>4. ASSUME NEW u \in Tasklet, u # t PROVE Owned(u)'
  <2>1. SameKill(u)
    BY <1>2, <1>4, KillKept
  <2> QED
    BY <1>3, <1>4, <2>1, OwnedKept DEF OInv
<1>5. Owned(t)'
  <2>0. Owned(t)
    BY DEF OInv
  <2>1. CASE /\ sched'[t] = sched[t]
             /\ Killing(t, a) <=> r.stage \in {"unlock", "clear"}
    <3>1. SameKill(t)
      BY <1>2, <2>1, KillKept
    <3> QED
      BY <1>3, <2>0, <2>1, <3>1, OwnedKept
  <2>2. CASE ~sched[t] /\ sched'[t] /\ r.stage = "unlock"
    <3>1. NoCall(t) /\ NoList(t) /\ NoTodo(t) /\ NoKill(t)
      BY <2>0, <2>2 DEF Owned
    <3>2. \A b \in Ctl : Killing(t, b)' <=> b = a
      BY <1>2, <2>2, <3>1 DEF NoKill
    <3>3. OneKill(t)'
      BY <3>2 DEF OneKill
    <3> QED
      BY <1>3, <2>2, <3>1, <3>3 DEF Owned, SameCall, SameList, SameTodo
  <2>3. CASE Killing(t, a) /\ ~sched'[t] /\ r.stage = "idle"
    <3>1. ~NoKill(t)
      BY <2>3 DEF NoKill
    <3>2. NoCall(t) /\ NoList(t) /\ NoTodo(t) /\ OneKill(t)
      BY <2>0, <3>1 DEF Owned
    <3>3. \A b \in Ctl : Killing(t, b) <=> b = a
      BY <2>3, <3>2 DEF OneKill
    <3>4. NoKill(t)'
      BY <1>2, <2>3, <3>3 DEF NoKill
    <3> QED
      BY <1>3, <2>3, <3>2, <3>4 DEF Owned, SameCall, SameList, SameTodo
  <2> QED
    BY <2>1, <2>2, <2>3
<1> QED
  BY <1>4, <1>5 DEF OInv

LEMMA ControlOwned ==
    ASSUME TInv, OInv, NEW a \in Ctl,
           Control(a) \/ \E t \in Tasklet : Disable(a, t) \/ Kill(a, t)
    PROVE  OInv'
<1>0. /\ ctl[a] \in [stage : CtlStages, on : Tasklet] /\ UNCHANGED <<calls, list, soft>>
      /\ sched \in [Tasklet -> BOOLEAN] /\ ctl \in [Ctl -> [stage : CtlStages, on : Tasklet]]
  BY DEF TInv, RestType, Control, DisableWait, Enable, KillWait, KillClear, Disable, Kill
<1>1. ASSUME NEW t \in Tasklet, Disable(a, t) PROVE OInv'
  <2>1. PICK r \in [stage : CtlStages, on : Tasklet] : r = [stage |-> "wait", on |-> t]
    BY DEF CtlStages
  <2>2. /\ ctl' = [ctl EXCEPT ![a] = r] /\ sched' = sched /\ ctl[a].stage = "idle"
        /\ r.stage = "wait" /\ r.on = t
    BY <1>1, <2>1 DEF Disable
  <2>3. /\ \A u \in Tasklet : u # t => sched'[u] = sched[u] /\ ~Killing(u, a)
        /\ sched'[t] = sched[t] /\ (Killing(t, a) <=> r.stage \in {"unlock", "clear"})
    BY <2>2 DEF Killing
  <2> QED
    BY <1>0, <2>2, <2>3, CtlOwned
<1>2. ASSUME NEW t \in Tasklet, Kill(a, t) PROVE OInv'
  <2>0. PICK s \in CtlStages : s = IF sched[t] THEN "spin" ELSE "unlock"
    BY DEF CtlStages
  <2>1. PICK r \in [stage : CtlStages, on : Tasklet] : r = [stage |-> s, on |-> t]
    OBVIOUS
  <2>2. /\ ctl' = [ctl EXCEPT ![a] = r] /\ sched' = [sched EXCEPT ![t] = TRUE]
        /\ ctl[a].stage \in {"idle", "spin"}
        /\ r.stage = (IF sched[t] THEN "spin" ELSE "unlock") /\ r.on = t
    BY <1>2, <2>0, <2>1 DEF Kill
  <2>3. \A u \in Tasklet : ~Killing(u, a)
    BY <2>2 DEF Killing
  <2>4. sched'[t] /\ \A u \in Tasklet : u # t => sched'[u] = sched[u]
    BY <1>0, <2>2
  <2>5. CASE sched[t]
    BY <1>0, <2>2, <2>3, <2>4, <2>5, CtlOwned
  <2>6. CASE ~sched[t]
    BY <1>0, <2>2, <2>3, <2>4, <2>6, CtlOwned
  <2> QED
    BY <2>5, <2>6
<1>3. CASE Control(a)
  <2>1. PICK t \in Tasklet : t = ctl[a].on
    BY <1>0
  <2>2. \A u \in Tasklet : u # t => ~Killing(u, a)
    BY <2>1 DEF Killing
  <2>3. CASE DisableWait(a) \/ Enable(a) \/ KillWait(a)
    <3>1. PICK s \in CtlStages :
             /\ ctl' = [ctl EXCEPT ![a].stage = s] /\ sched' = sched
             /\ \/ ctl[a].stage \in {"wait", "off"} /\ s \in {"off", "idle"}
                \/ ctl[a].stage = "unlock" /\ s = "clear"
      BY <2>3 DEF DisableWait, Enable, KillWait, CtlStages
    <3>2. PICK r \in [stage : CtlStages, on : Tasklet] : r = [stage |-> s, on |-> t]
      OBVIOUS
    <3>3. r.stage = s /\ r.on = t /\ ctl' = [ctl EXCEPT ![a] = r]
      <4>1. r = [ctl[a] EXCEPT !.stage = s]
        BY <1>0, <2>1, <3>2
      <4>2. ctl' = [ctl EXCEPT ![a] = r]
        BY <3>1, <4>1, Zenon
      <4> QED
        BY <3>2, <4>2
    <3>4. /\ \A u \in Tasklet : u # t => sched'[u] = sched[u] /\ ~Killing(u, a)
          /\ sched'[t] = sched[t] /\ (Killing(t, a) <=> r.stage \in {"unlock", "clear"})
      BY <2>1, <2>2, <3>1, <3>3 DEF Killing
    <3> QED
      BY <1>0, <3>3, <3>4, CtlOwned
  <2>4. CASE KillClear(a)
    <3>1. /\ ctl[a].stage = "clear" /\ sched' = [sched EXCEPT ![t] = FALSE]
          /\ ctl' = [ctl EXCEPT ![a].stage = "idle"]
      BY <2>1, <2>4 DEF KillClear
    <3>2. PICK r \in [stage : CtlStages, on : Tasklet] : r = [stage |-> "idle", on |-> t]
      BY DEF CtlStages
    <3>3. r.stage = "idle" /\ r.on = t /\ ctl' = [ctl EXCEPT ![a] = r]
      <4>1. r = [ctl[a] EXCEPT !.stage = "idle"]
        BY <1>0, <2>1, <3>2
      <4>2. ctl' = [ctl EXCEPT ![a] = r]
        BY <3>1, <4>1, Zenon
      <4> QED
        BY <3>2, <4>2
    <3>4. /\ Killing(t, a) /\ ~sched'[t]
          /\ \A u \in Tasklet : u # t => sched'[u] = sched[u] /\ ~Killing(u, a)
      BY <1>0, <2>1, <2>2, <3>1 DEF Killing
    <3> QED
      BY <1>0, <3>3, <3>4, CtlOwned
  <2> QED
    BY <1>3, <2>3, <2>4 DEF Control
<1> QED
  BY <1>1, <1>2, <1>3

LEMMA HotplugOwned ==
    ASSUME IInv, OInv, NEW c \in CPU, HotplugStep(c)
    PROVE  OInv'
<1>0. UNCHANGED <<sched, soft, ctl>>
  BY DEF HotplugStep, CpuDown, CpuUpPrepare, CpuUp, CpuOnline, TakeOver, MigrateTask, Rest
<1>1. CASE CpuDown(c) \/ CpuUpPrepare(c) \/ CpuUp(c) \/ CpuOnline(c)
  <2>1. UNCHANGED <<calls, list>>
    BY <1>1 DEF CpuDown, CpuUpPrepare, CpuUp, CpuOnline
  <2> QED
    BY <1>0, <2>1, NothingMoves
<1>2. ASSUME NEW n \in CPU, TakeOver(c, n) PROVE OInv'
  <2>1. /\ n # c /\ calls' = calls
        /\ list' = [list EXCEPT ![n] = [v \in Vec |-> list[n][v] \o list[c][v]],
                                ![c] = [v \in Vec |-> <<>>]]
    BY <1>2 DEF TakeOver
  <2>2. /\ \A v \in Vec : list'[n][v] = list[n][v] \o list[c][v] /\ list'[c][v] = <<>>
        /\ \A d \in CPU : d \notin {c, n} => list'[d] = list[d]
    BY <2>1 DEF IInv, CoreType
  <2>3. \A u \in Tasklet : SameList(u)
    BY <2>1, <2>2, AppendLists DEF IInv
  <2> QED
    BY <1>0, <2>1, <2>3, Unchanged, OwnedKept DEF OInv
<1>3. ASSUME NEW n \in CPU, NEW t \in Tasklet, MigrateTask(t, c, n) PROVE OInv'
  <2>1. /\ <<t, c, "task">> \in calls /\ list' = list
        /\ calls' = (calls \ {<<t, c, "task">>}) \cup {<<t, n, "task">>}
    BY <1>3 DEF MigrateTask
  <2>2. ASSUME NEW u \in Tasklet, u # t PROVE Owned(u)'
    <3>1. SameCall(u)
      BY <2>1, <2>2, CallKept
    <3> QED
      BY <1>0, <2>1, <3>1, Unchanged, OwnedKept DEF OInv
  <2>3. Owned(t)'
    <3>0. "task" \in Context
      BY DEF Context
    <3>1. ~NoCall(t)
      BY <2>1, <3>0 DEF NoCall
    <3>2. sched[t] /\ OneCall(t) /\ NoList(t) /\ NoTodo(t) /\ NoKill(t)
      BY <3>1 DEF OInv, Owned
    <3>3. \A d \in CPU, y \in Context : <<t, d, y>> \in calls <=> d = c /\ y = "task"
      BY <2>1, <3>0, <3>2 DEF OneCall
    <3>4. \A d \in CPU, y \in Context : <<t, d, y>> \in calls' <=> d = n /\ y = "task"
      BY <2>1, <3>3
    <3>5. OneCall(t)'
      BY <3>0, <3>4 DEF OneCall
    <3> QED
      BY <1>0, <2>1, <3>2, <3>5, Unchanged DEF Owned, SameList, SameTodo, SameKill
  <2> QED
    BY <2>2, <2>3 DEF OInv
<1> QED
  BY <1>1, <1>2, <1>3 DEF HotplugStep

LEMMA NextOInv == IInv /\ TInv /\ FInv /\ OInv /\ [Next]_vars => OInv'
<1> SUFFICES ASSUME IInv, TInv, FInv, OInv, [Next]_vars PROVE OInv'
  OBVIOUS
<1>1. CASE \E c \in CPU : LocalBhDisable(c) \/ KSet(c) \/ KCheck(c) \/ KWakes(c)
  BY <1>1, NothingMoves DEF LocalBhDisable, KSet, KCheck, KWakes
<1>2. CASE UNCHANGED vars
  BY <1>2, NothingMoves DEF vars
<1>3. CASE \E c \in CPU : Softirq(c)
  BY <1>3, SoftActionOwned, SoftOwned, TestCountOwned, FuncReturnOwned, PutBackOwned
     DEF Softirq
<1> QED
  BY <1>1, <1>2, <1>3, ScheduleOwned, DoScheduleOwned, EnterOwned, ControlOwned,
     HotplugOwned DEF Next, Ksoftirqd

-----------------------------------------------------------------------------
(* The owner is unique *)

\* The four kinds of owner, as SchedOwned counts them.
CallSet(t) == {k \in calls : k[1] = t}
ListSet(t) ==
    UNION {{<<c, "list", v, i>> : i \in {j \in DOMAIN list[c][v] : list[c][v][j] = t}} :
             c \in CPU, v \in Vec}
TodoSet(t) ==
    UNION {{<<c, "todo", soft[c].vec, i>> : i \in {j \in DOMAIN soft[c].todo :
              soft[c].todo[j] = t /\ ~(j = 1 /\ soft[c].stage = "run")}} : c \in CPU}
KillSet(t) ==
    {<<a, "kill">> : a \in {b \in Ctl : ctl[b].on = t /\ ctl[b].stage \in {"unlock", "clear"}}}

LEMMA CallSetIs ==
    ASSUME TInv, NEW t \in Tasklet
    PROVE  (NoCall(t) => CallSet(t) = {}) /\ (OneCall(t) => \E k : CallSet(t) = {k})
<1>1. \A k \in CallSet(t) : \E c \in CPU, x \in Context : k = <<t, c, x>> /\ <<t, c, x>> \in calls
  <2> SUFFICES ASSUME NEW k \in CallSet(t)
               PROVE  \E c \in CPU, x \in Context : k = <<t, c, x>> /\ <<t, c, x>> \in calls
    OBVIOUS
  <2>1. k \in calls /\ k[1] = t /\ k \in Tasklet \X CPU \X Context
    BY DEF CallSet, TInv, RestType, Call
  <2> QED
    BY <2>1
<1>2. NoCall(t) => CallSet(t) = {}
  BY <1>1 DEF NoCall
<1>3. ASSUME OneCall(t) PROVE \E k : CallSet(t) = {k}
  <2>1. PICK c \in CPU, x \in Context :
           \A d \in CPU, y \in Context : <<t, d, y>> \in calls <=> d = c /\ y = x
    BY <1>3 DEF OneCall
  <2>2. <<t, c, x>> \in CallSet(t)
    BY <2>1 DEF CallSet
  <2>3. \A k \in CallSet(t) : k = <<t, c, x>>
    BY <1>1, <2>1
  <2>4. CallSet(t) = {<<t, c, x>>}
    BY <2>2, <2>3
  <2> QED
    BY <2>4
<1> QED
  BY <1>2, <1>3

LEMMA ListSetIs ==
    ASSUME IInv, NEW t \in Tasklet
    PROVE  (NoList(t) => ListSet(t) = {}) /\ (OneList(t) => \E k : ListSet(t) = {k})
<1>0. \A c \in CPU, v \in Vec : DOMAIN list[c][v] \subseteq Nat
  <2> SUFFICES ASSUME NEW c \in CPU, NEW v \in Vec PROVE DOMAIN list[c][v] \subseteq Nat
    OBVIOUS
  <2>1. list[c][v] \in Seq(Tasklet)
    BY DEF IInv, CoreType
  <2> QED
    BY <2>1
<1>1. \A k \in ListSet(t) : \E c \in CPU, v \in Vec, i \in Nat :
         k = <<c, "list", v, i>> /\ OnList(t, c, v, i)
  BY <1>0 DEF ListSet, OnList
<1>2. NoList(t) => ListSet(t) = {}
  BY <1>1 DEF NoList
<1>3. ASSUME OneList(t) PROVE \E k : ListSet(t) = {k}
  <2>1. PICK c \in CPU, v \in Vec, i \in Nat : ListAt(t, c, v, i)
    BY <1>3 DEF OneList
  <2>2. \A d \in CPU, w \in Vec, j \in Nat : OnList(t, d, w, j) <=> d = c /\ w = v /\ j = i
    BY <2>1 DEF ListAt
  <2>3. OnList(t, c, v, i)
    BY <2>2
  <2>4. <<c, "list", v, i>> \in ListSet(t)
    <3> DEFINE S == {<<c, "list", v, j>> : j \in {h \in DOMAIN list[c][v] : list[c][v][h] = t}}
    <3> DEFINE U == {{<<d, "list", w, j>> : j \in {h \in DOMAIN list[d][w] : list[d][w][h] = t}} :
                       d \in CPU, w \in Vec}
    <3>1. <<c, "list", v, i>> \in S
      BY <2>3 DEF OnList
    <3>2. S \in U /\ ListSet(t) = UNION U
      BY DEF ListSet
    <3> HIDE DEF S, U
    <3> QED
      BY <3>1, <3>2
  <2>5. \A k \in ListSet(t) : k = <<c, "list", v, i>>
    BY <1>1, <2>2
  <2>6. ListSet(t) = {<<c, "list", v, i>>}
    BY <2>4, <2>5
  <2> QED
    BY <2>6
<1> QED
  BY <1>2, <1>3

LEMMA TodoSetIs ==
    ASSUME IInv, NEW t \in Tasklet
    PROVE  (NoTodo(t) => TodoSet(t) = {}) /\ (OneTodo(t) => \E k : TodoSet(t) = {k})
<1>0. \A c \in CPU : DOMAIN soft[c].todo \subseteq Nat
  <2> SUFFICES ASSUME NEW c \in CPU PROVE DOMAIN soft[c].todo \subseteq Nat
    OBVIOUS
  <2>1. soft[c].todo \in Seq(Tasklet)
    BY DEF IInv, CoreType, Soft
  <2> QED
    BY <2>1
<1>1. \A k \in TodoSet(t) : \E c \in CPU, i \in Nat :
         k = <<c, "todo", soft[c].vec, i>> /\ InTodo(t, c, i)
  BY <1>0 DEF TodoSet, InTodo
<1>2. NoTodo(t) => TodoSet(t) = {}
  BY <1>1 DEF NoTodo
<1>3. ASSUME OneTodo(t) PROVE \E k : TodoSet(t) = {k}
  <2>1. PICK c \in CPU, i \in Nat : TodoAt(t, c, i)
    BY <1>3 DEF OneTodo
  <2>2. \A d \in CPU, j \in Nat : InTodo(t, d, j) <=> d = c /\ j = i
    BY <2>1 DEF TodoAt
  <2>3. InTodo(t, c, i)
    BY <2>2
  <2>4. <<c, "todo", soft[c].vec, i>> \in TodoSet(t)
    BY <2>3 DEF TodoSet, InTodo
  <2>5. \A k \in TodoSet(t) : k = <<c, "todo", soft[c].vec, i>>
    BY <1>1, <2>2
  <2>6. TodoSet(t) = {<<c, "todo", soft[c].vec, i>>}
    BY <2>4, <2>5
  <2> QED
    BY <2>6
<1> QED
  BY <1>2, <1>3

LEMMA KillSetIs ==
    ASSUME NEW t \in Tasklet
    PROVE  (NoKill(t) => KillSet(t) = {}) /\ (OneKill(t) => \E k : KillSet(t) = {k})
<1>1. \A k : k \in KillSet(t) <=> \E a \in Ctl : k = <<a, "kill">> /\ Killing(t, a)
  BY DEF KillSet, Killing
<1>2. NoKill(t) => KillSet(t) = {}
  BY <1>1 DEF NoKill
<1>3. ASSUME OneKill(t) PROVE \E k : KillSet(t) = {k}
  <2>1. PICK a \in Ctl : \A b \in Ctl : Killing(t, b) <=> b = a
    BY <1>3 DEF OneKill
  <2>2. \A k : k \in KillSet(t) <=> k = <<a, "kill">>
    BY <1>1, <2>1
  <2>3. KillSet(t) = {<<a, "kill">>}
    BY <2>2
  <2> QED
    BY <2>3
<1> QED
  BY <1>2, <1>3

LEMMA CountOwners ==
    ASSUME IInv, TInv, NEW t \in Tasklet, Owned(t)
    PROVE  Cardinality(Holders(t)) = IF sched[t] THEN 1 ELSE 0
<1>1. Holders(t) = ((CallSet(t) \cup ListSet(t)) \cup TodoSet(t)) \cup KillSet(t)
  BY DEF Holders, CallSet, ListSet, TodoSet, KillSet
<1>2. CASE ~sched[t]
  <2>1. Holders(t) = {}
    BY <1>1, <1>2, CallSetIs, ListSetIs, TodoSetIs, KillSetIs DEF Owned
  <2> QED
    BY <1>2, <2>1, FS_EmptySet
<1>3. CASE sched[t]
  <2>1. \E k : Holders(t) = {k}
    BY <1>1, <1>3, CallSetIs, ListSetIs, TodoSetIs, KillSetIs DEF Owned
  <2> QED
    BY <1>3, <2>1, FS_Singleton
<1> QED
  BY <1>2, <1>3

\* SCHED is set exactly while one party has the tasklet, for every number of CPUs,
\* tasklets and threads, and with CPUs going down and coming up (softirq.c,
\* tasklet_action, tasklet_kill, takeover_tasklets).
THEOREM SchedOwnedHolds == Spec => []SchedOwned
<1>1. IInv /\ TInv /\ OInv => SchedOwned
  BY CountOwners DEF OInv, SchedOwned
<1> QED
  BY <1>1, InitIInv, NextIInv, InitTInv, NextTInv, InitFInv, NextFInv, InitOInv,
     NextOInv, PTL DEF Spec

-----------------------------------------------------------------------------
(* tasklet_disable and tasklet_kill are synchronous *)

\* No CPU is in the function that thread a has disabled or killed.
Idle(a) == \A c \in CPU : soft[c].stage = "run" => Current(c) # ctl[a].on
QInv == \A a \in Ctl : ctl[a].stage \in {"off", "clear"} => Idle(a)

LEMMA InitQInv == Init => QInv
  BY NoSoftType DEF Init, QInv, Idle

\* A step that starts no function keeps it.
LEMMA NothingStarts ==
    ASSUME QInv, ctl' = ctl,
           \A c \in CPU : soft'[c].stage = "run" =>
              soft[c].stage = "run" /\ soft'[c].todo = soft[c].todo
    PROVE  QInv'
  BY DEF QInv, Idle, Current

\* The softirq steps of c other than the call leave it outside any function.
LEMMA SoftQuiet ==
    ASSUME IInv, QInv, NEW c \in CPU, ctl' = ctl,
           NEW s, s.stage # "run", soft' = [soft EXCEPT ![c] = s]
    PROVE  QInv'
<1>1. soft'[c] = s /\ \A d \in CPU : d # c => soft'[d] = soft[d]
  BY DEF IInv, CoreType
<1> QED
  BY <1>1, NothingStarts

\* do_softirq starts at the first bit of the mask.
LEMMA EnterQuiet ==
    ASSUME IInv, QInv, NEW c \in CPU, ctl' = ctl, EnterSoftirq(c) \/ UNCHANGED <<soft, pend>>
    PROVE  QInv'
<1>1. CASE soft' = soft
  BY <1>1, NothingStarts
<1>2. CASE soft' = [soft EXCEPT ![c] = [NoSoft EXCEPT !.stage = "scan", !.mask = pend[c],
                                                      !.left = MaxRestart]]
  <2>1. [NoSoft EXCEPT !.stage = "scan", !.mask = pend[c], !.left = MaxRestart].stage # "run"
    BY DEF NoSoft
  <2> QED
    BY <1>2, <2>1, SoftQuiet
<1> QED
  BY <1>1, <1>2 DEF EnterSoftirq

LEMMA SoftStepsQuiet ==
    ASSUME IInv, QInv, NEW c \in CPU,
           \/ SoftAction(c) \/ SoftNext(c) \/ WalkEnd(c) \/ Trylock(c)
           \/ FuncReturn(c) \/ PutBack(c)
    PROVE  QInv'
<1>0. soft \in [CPU -> Soft] /\ ctl' = ctl
  BY DEF IInv, CoreType, SoftAction, SoftNext, WalkEnd, Trylock, FuncReturn, PutBack
<1>1. soft'[c].stage # "run" /\ \A d \in CPU : d # c => soft'[d] = soft[d]
  <2>1. CASE SoftAction(c)
    BY <1>0, <2>1 DEF SoftAction, Soft
  <2>2. CASE SoftNext(c)
    BY <1>0, <2>2 DEF SoftNext, SoftRestart, SoftEnd, NoSoft, Soft
  <2>3. CASE WalkEnd(c) \/ Trylock(c) \/ FuncReturn(c) \/ PutBack(c)
    BY <1>0, <2>3 DEF WalkEnd, Trylock, FuncReturn, PutBack, Soft
  <2> QED
    BY <2>1, <2>2, <2>3
<1> QED
  BY <1>0, <1>1, NothingStarts

\* The call: the count was zero, so no thread has the tasklet disabled, and the
\* softirq owned SCHED, so no thread is killing it.
LEMMA TestCountQuiet ==
    ASSUME IInv, TInv, OInv, QInv, NEW c \in CPU, TestCount(c)
    PROVE  QInv'
<1>0. soft \in [CPU -> Soft] /\ ctl' = ctl
  BY DEF IInv, CoreType, TestCount
<1>1. PICK t \in Tasklet : t = Current(c) /\ InTodo(t, c, 1)
  <2>1. soft[c].stage = "locked" /\ soft[c].todo # <<>> /\ soft[c].todo \in Seq(Tasklet)
    BY <1>0 DEF TestCount, IInv, HasCurrent, Soft
  <2>2. 1 \in DOMAIN soft[c].todo /\ soft[c].todo[1] = Current(c) /\ Current(c) \in Tasklet
    BY <2>1 DEF Current
  <2> QED
    BY <2>1, <2>2 DEF InTodo
<1>2. CASE count[t] = 0
  <2>1. soft'[c].todo = soft[c].todo /\ \A d \in CPU : d # c => soft'[d] = soft[d]
    BY <1>0, <1>1, <1>2 DEF TestCount, Soft
  <2>2. \A a \in Ctl : ~Killing(t, a)
    BY <1>1, AtHand DEF NoKill
  <2>3. Disabling(t) = {}
    <3>1. Disabling(t) \in SUBSET Ctl
      BY DEF Disabling
    <3>2. IsFiniteSet(Disabling(t))
      BY <3>1, SetAssumption, FS_Subset
    <3>3. Cardinality(Disabling(t)) = 0
      BY <1>2 DEF TInv, Counted
    <3> QED
      BY <3>2, <3>3, FS_EmptySet
  <2>4. \A a \in Ctl : ctl[a].stage \in {"off", "clear"} => ctl[a].on # t
    BY <2>2, <2>3 DEF Killing, Disabling
  <2>5. Current(c)' = t
    BY <1>1, <2>1 DEF Current
  <2>6. ASSUME NEW a \in Ctl, ctl'[a].stage \in {"off", "clear"}, NEW d \in CPU,
               soft'[d].stage = "run"
        PROVE  Current(d)' # ctl'[a].on
    <3>1. ctl[a].on # t /\ Idle(a)
      BY <1>0, <2>4, <2>6 DEF QInv
    <3>2. CASE d = c
      BY <1>0, <2>5, <3>1, <3>2
    <3>3. CASE d # c
      <4>1. soft'[d] = soft[d]
        BY <2>1, <3>3
      <4>2. Current(d)' = Current(d) /\ soft[d].stage = "run"
        BY <2>6, <4>1 DEF Current
      <4> QED
        BY <1>0, <3>1, <4>2 DEF Idle
    <3> QED
      BY <3>2, <3>3
  <2> QED
    BY <2>6 DEF QInv, Idle
<1>3. CASE count[t] # 0
  <2>1. soft'[c].stage # "run" /\ \A d \in CPU : d # c => soft'[d] = soft[d]
    BY <1>0, <1>1, <1>3 DEF TestCount, Soft
  <2> QED
    BY <1>0, <2>1, NothingStarts
<1> QED
  BY <1>2, <1>3

\* A thread gets to "off" or "clear" by waiting for RUN to be clear.
LEMMA ControlQuiet ==
    ASSUME IInv, TInv, QInv, NEW a \in Ctl,
           Control(a) \/ \E t \in Tasklet : Disable(a, t) \/ Kill(a, t)
    PROVE  QInv'
<1>0. ctl \in [Ctl -> [stage : CtlStages, on : Tasklet]] /\ soft' = soft
  BY DEF TInv, RestType, Control, DisableWait, Enable, KillWait, KillClear, Disable, Kill
<1>1. \A b \in Ctl : b # a => ctl'[b] = ctl[b]
  BY <1>0 DEF Control, DisableWait, Enable, KillWait, KillClear, Disable, Kill
<1>2. ASSUME NEW b \in Ctl, b # a, ctl'[b].stage \in {"off", "clear"} PROVE Idle(b)'
  BY <1>0, <1>1, <1>2 DEF QInv, Idle, Current
<1>3. ASSUME ctl'[a].stage \in {"off", "clear"} PROVE Idle(a)'
  <2>1. DisableWait(a) \/ KillWait(a)
    BY <1>0, <1>3 DEF Control, DisableWait, Enable, KillWait, KillClear, Disable, Kill
  <2>2. ~run[ctl[a].on] /\ ctl'[a].on = ctl[a].on
    BY <1>0, <2>1 DEF DisableWait, KillWait
  <2>3. \A c \in CPU : soft[c].stage = "run" => Current(c) # ctl[a].on
    BY <2>2 DEF IInv, HoldsRun, InHand
  <2> QED
    BY <1>0, <2>2, <2>3 DEF Idle, Current
<1> QED
  BY <1>2, <1>3 DEF QInv

LEMMA NextQInv == IInv /\ TInv /\ OInv /\ QInv /\ [Next]_vars => QInv'
<1> SUFFICES ASSUME IInv, TInv, OInv, QInv, [Next]_vars PROVE QInv'
  OBVIOUS
<1>1. CASE \E c \in CPU : LocalBhDisable(c) \/ KSet(c) \/ KCheck(c) \/ KWakes(c)
  BY <1>1, NothingStarts DEF LocalBhDisable, KSet, KCheck, KWakes
<1>2. CASE UNCHANGED vars
  BY <1>2, NothingStarts DEF vars
<1>3. CASE \E t \in Tasklet, c \in CPU, x \in Context : Schedule(t, c, x) \/ DoSchedule(t, c, x)
  BY <1>3, NothingStarts DEF Schedule, DoSchedule
<1>4. CASE \E c \in CPU : IrqExit(c) \/ LocalBhEnable(c) \/ KLoop(c)
  BY <1>4, EnterQuiet DEF IrqExit, LocalBhEnable, KLoop
<1>5. CASE \E c \in CPU : Softirq(c)
  BY <1>5, SoftStepsQuiet, TestCountQuiet DEF Softirq
<1>6. CASE \E c \in CPU : HotplugStep(c)
  BY <1>6, NothingStarts
     DEF HotplugStep, CpuDown, CpuUpPrepare, CpuUp, CpuOnline, TakeOver, MigrateTask, Rest
<1> QED
  BY <1>1, <1>2, <1>3, <1>4, <1>5, <1>6, ControlQuiet DEF Next, Ksoftirqd

\* After tasklet_disable has returned and when tasklet_kill has done its waits, the
\* function runs nowhere, and a killed tasklet is on no list (interrupt.h,
\* tasklet_disable; softirq.c, tasklet_kill).
THEOREM QuiescedHolds == Spec => []Quiesced
<1>1. IInv /\ TInv /\ OInv /\ QInv => Quiesced
  <2> SUFFICES ASSUME IInv, TInv, OInv, QInv, NEW a \in Ctl
               PROVE  /\ ctl[a].stage \in {"off", "clear"} => Executing(ctl[a].on) = {}
                      /\ ctl[a].stage = "clear" =>
                            \A c \in CPU : \A v \in Vec : ~Contains(list[c][v], ctl[a].on)
    BY DEF Quiesced
  <2>1. ctl[a].stage \in {"off", "clear"} => Executing(ctl[a].on) = {}
    BY DEF QInv, Idle, Executing
  <2>2. ASSUME ctl[a].stage = "clear", NEW c \in CPU, NEW v \in Vec
        PROVE  ~Contains(list[c][v], ctl[a].on)
    <3>1. PICK t \in Tasklet : t = ctl[a].on
      BY DEF TInv, RestType
    <3>2. ~NoKill(t)
      BY <2>2, <3>1 DEF NoKill, Killing
    <3>3. NoList(t)
      BY <3>2 DEF OInv, Owned
    <3>4. list[c][v] \in Seq(Tasklet)
      BY DEF IInv, CoreType
    <3>5. \A i \in DOMAIN list[c][v] : i \in Nat
      BY <3>4
    <3>6. \A i \in DOMAIN list[c][v] : list[c][v][i] # t
      BY <3>3, <3>5 DEF NoList, OnList
    <3>7. ~\E i \in 1..Len(list[c][v]) : list[c][v][i] = t
      BY <3>4, <3>6
    <3> QED
      BY <3>1, <3>7 DEF Contains
  <2> QED
    BY <2>1, <2>2
<1> QED
  BY <1>1, InitIInv, NextIInv, InitTInv, NextTInv, InitFInv, NextFInv, InitOInv,
     NextOInv, InitQInv, NextQInv, PTL DEF Spec
==============================================================================
