------------------------ MODULE WorkqueueFlushProofs ------------------------
(***************************************************************************)
(* flush_workqueue waits for what it found, for every number of CPUs,      *)
(* works and flushers: FlushWaits.  A flush compares sequence counters of  *)
(* a fixed width, so the proof counts: the works between remove_sequence   *)
(* and insert_sequence are those in the queue and on the worker's stack    *)
(* (CountInv), they never reach half the range of the counters (RoomInv),  *)
(* and the works a flush waits for lie before its sequence_needed          *)
(* (AheadInv).                                                             *)
(***************************************************************************)
EXTENDS WorkqueueProofs

(* The sequence counters *)

Counters == 0..SeqRange-1

\* Counter m is k increments ahead of counter n.
Gap(m, n, k) == m = n + k \/ m = n + k - SeqRange

LEMMA RangeFacts ==
    /\ SeqRange \in Nat /\ SeqRange \div 2 \in Nat /\ SeqRange \div 2 > 0
    /\ SeqRange \div 2 < SeqRange /\ MaxDepth \in Nat
    /\ Cardinality(Work) \in Nat /\ Cardinality(SelfFlush) \in Nat
    /\ Cardinality(Work) + Cardinality(SelfFlush) + MaxDepth < SeqRange \div 2
<1>1. Cardinality(Work) \in Nat /\ Cardinality(SelfFlush) \in Nat
  BY WorkAssumption, FS_Subset, FS_CardinalityType
<1>2. /\ SeqRange \in Nat /\ MaxDepth \in Nat
      /\ Cardinality(Work) + Cardinality(SelfFlush) + MaxDepth < SeqRange \div 2
  BY SeqAssumption
<1>3. \A n \in Nat : n \div 2 \in Nat /\ (n \div 2 > 0 => n \div 2 < n)
  OBVIOUS
<1>4. SeqRange \div 2 \in Nat /\ SeqRange \div 2 > 0
  BY <1>1, <1>2, <1>3
<1> QED
  BY <1>1, <1>2, <1>3, <1>4

LEMMA Residues ==
    \A x \in Counters : /\ x % SeqRange = x
                        /\ (x - SeqRange) % SeqRange = x
                        /\ (x + SeqRange) % SeqRange = x
<1>1. SeqRange \in Nat /\ SeqRange > 0
  BY RangeFacts
<1> QED
  BY <1>1 DEF Counters

LEMMA IncIs ==
    ASSUME NEW n \in Counters
    PROVE  Inc(n) \in Counters /\ Inc(n) = IF n = SeqRange - 1 THEN 0 ELSE n + 1
<1>1. SeqRange \in Nat /\ SeqRange > 0 /\ n \in 0..SeqRange-1
  BY RangeFacts DEF Counters
<1>2. CASE n = SeqRange - 1
  <2>1. 0 \in Counters
    BY <1>1 DEF Counters
  <2>2. (0 + SeqRange) % SeqRange = 0
    BY <2>1, Residues
  <2> QED
    BY <1>1, <1>2, <2>1, <2>2 DEF Inc
<1>3. CASE n # SeqRange - 1
  <2>1. n + 1 \in Counters
    BY <1>1, <1>3 DEF Counters
  <2> QED
    BY <1>1, <1>3, <2>1, Residues DEF Inc
<1> QED
  BY <1>2, <1>3

\* insert_sequence++ ...
LEMMA GapMore ==
    ASSUME NEW m \in Counters, NEW n \in Counters, NEW k \in Nat, k < SeqRange, Gap(m, n, k)
    PROVE  Gap(Inc(m), n, k + 1)
<1>1. SeqRange \in Nat /\ m \in 0..SeqRange-1 /\ n \in 0..SeqRange-1
  BY RangeFacts DEF Counters
<1>2. Inc(m) = IF m = SeqRange - 1 THEN 0 ELSE m + 1
  BY IncIs
<1> QED
  BY <1>1, <1>2 DEF Gap

\* ... and remove_sequence++.
LEMMA GapLess ==
    ASSUME NEW m \in Counters, NEW n \in Counters, NEW k \in Nat, k > 0, Gap(m, n, k)
    PROVE  Gap(m, Inc(n), k - 1)
<1>1. SeqRange \in Nat /\ m \in 0..SeqRange-1 /\ n \in 0..SeqRange-1
  BY RangeFacts DEF Counters
<1>2. Inc(n) = IF n = SeqRange - 1 THEN 0 ELSE n + 1
  BY IncIs
<1> QED
  BY <1>1, <1>2 DEF Gap

\* A sequence that is ahead by less than half the range is not reached.
LEMMA GapAhead ==
    ASSUME NEW m \in Counters, NEW n \in Counters, NEW k \in Nat, 0 < k, k < SeqRange \div 2,
           Gap(m, n, k)
    PROVE  Ahead(m, n)
<1>1. SeqRange \in Nat /\ m \in 0..SeqRange-1 /\ n \in 0..SeqRange-1 /\ k \in Counters
  BY RangeFacts DEF Counters
<1>2. m - n = k \/ m - n = k - SeqRange
  BY <1>1 DEF Gap
<1>3. (m - n) % SeqRange = k
  BY <1>1, <1>2, Residues
<1> QED
  BY <1>3 DEF Ahead

-----------------------------------------------------------------------------
(* The frames of a worker *)

\* Only a work of SelfFlush flushes.
SelfOnlyIn(c) ==
    \A i \in DOMAIN stack[c] : stack[c][i].fl.stage # "none" => stack[c][i].work \in SelfFlush
SelfOnly == \A c \in CPU : SelfOnlyIn(c)

\* The works on the stack of CPU c stay; one of them may start or go on with a flush.
Steady(c) ==
    /\ Len(stack'[c]) = Len(stack[c]) /\ DOMAIN stack'[c] = DOMAIN stack[c]
    /\ \A i \in DOMAIN stack[c] :
          /\ stack'[c][i].work = stack[c][i].work
          /\ stack'[c][i].fl.stage = "none" => stack[c][i].fl.stage = "none"
          /\ stack'[c][i].fl.stage # "none" =>
                stack[c][i].fl.stage # "none" \/ stack[c][i].work \in SelfFlush

\* None of them becomes owed to a flush.
NoNewDebt(c) ==
    \A i \in DOMAIN stack[c] : stack'[c][i].owed = stack[c][i].owed

LEMMA SteadySame ==
    ASSUME NEW c \in CPU, stack'[c] = stack[c]
    PROVE  Steady(c) /\ NoNewDebt(c)
  BY DEF Steady, NoNewDebt

LEMMA SteadyWoken ==
    ASSUME TypeOK, NEW c \in CPU, NEW d \in CPU, WokenOther(stack', stack, c, d)
    PROVE  Steady(d) /\ NoNewDebt(d)
<1>1. ASSUME NEW i \in DOMAIN stack[d]
      PROVE  /\ stack'[d][i].work = stack[d][i].work /\ stack'[d][i].owed = stack[d][i].owed
             /\ stack'[d][i].fl.stage = "none" <=> stack[d][i].fl.stage = "none"
  <2>1. /\ stack'[d][i].work = stack[d][i].work /\ stack'[d][i].owed = stack[d][i].owed
        /\ stack'[d][i].fl = WakeCall(stack[d][i].fl, c) /\ stack[d][i].fl \in FlushCall
    BY <1>1, FrameType DEF WokenOther, WokenFrame
  <2>2. WakeCall(stack[d][i].fl, c).stage = "none" <=> stack[d][i].fl.stage = "none"
    <3>1. CASE stack[d][i].fl.stage = "wait" /\ Min(stack[d][i].fl.todo) = c
      BY <2>1, <3>1, WakeCallFacts
    <3>2. CASE ~(stack[d][i].fl.stage = "wait" /\ Min(stack[d][i].fl.todo) = c)
      BY <2>1, <3>2, WakeCallFacts
    <3> QED
      BY <3>1, <3>2
  <2> QED
    BY <2>1, <2>2
<1>2. DOMAIN stack'[d] = DOMAIN stack[d] /\ Len(stack'[d]) = Len(stack[d])
  BY DEF WokenOther
<1> QED
  BY <1>1, <1>2 DEF Steady, NoNewDebt

\* The innermost frame is replaced by g.
LEMMA SteadyNewTop ==
    ASSUME TypeOK, NEW c \in CPU, Running(c), NEW g \in Frame, NewTop(c, g),
           g.work = Top(c).work, g.owed = Top(c).owed,
           g.fl.stage = "none" => Top(c).fl.stage = "none",
           g.fl.stage # "none" => Top(c).fl.stage # "none" \/ Top(c).work \in SelfFlush
    PROVE  \A d \in CPU : Steady(d) /\ NoNewDebt(d)
<1>1. Len(stack[c]) \in DOMAIN stack[c] /\ Top(c) = stack[c][Len(stack[c])]
  BY TopFacts
<1>2. Steady(c) /\ NoNewDebt(c)
  <2>1. Len(stack'[c]) = Len(stack[c]) /\ DOMAIN stack'[c] = DOMAIN stack[c]
    BY DEF NewTop
  <2>2. ASSUME NEW i \in DOMAIN stack[c], i # Len(stack[c]) PROVE stack'[c][i] = stack[c][i]
    BY <2>2 DEF NewTop
  <2>3. stack'[c][Len(stack[c])] = g
    BY DEF NewTop
  <2> QED
    BY <1>1, <2>1, <2>2, <2>3 DEF Steady, NoNewDebt
<1>3. ASSUME NEW d \in CPU, d # c PROVE Steady(d) /\ NoNewDebt(d)
  <2>1. stack'[d] = stack[d]
    BY <1>3 DEF NewTop
  <2> QED
    BY <2>1, SteadySame
<1> QED
  BY <1>2, <1>3

\* A step of the flush of thread t replaces its flush call; a Flusher has no frame.
LEMMA SteadySetFlush ==
    ASSUME TypeOK, NEW t \in Flusher \cup CPU, NEW r \in FlushCall, SetFlush(t, r),
           FlushOf(t).stage # "none", t \in CPU => r.stage # "none"
    PROVE  \A d \in CPU : Steady(d) /\ NoNewDebt(d)
<1>1. CASE t \in CPU
  <2>1. Running(t) /\ Top(t).fl.stage # "none"
    BY <1>1, FlushOfFacts
  <2>2. PICK g \in Frame : /\ NewTop(t, g) /\ g.fl = r /\ g.work = Top(t).work
                           /\ g.owed = Top(t).owed
    BY <1>1, <2>1, SetFlushFacts
  <2> QED
    BY <1>1, <2>1, <2>2, SteadyNewTop
<1>2. CASE t \notin CPU
  <2>1. stack' = stack
    BY <1>2, SetFlushFacts
  <2> QED
    BY <2>1, SteadySame
<1> QED
  BY <1>1, <1>2

\* The history variable.
LEMMA SteadyOwe ==
    ASSUME TypeOK, NEW f \in Flusher, OweAll(f)
    PROVE  \A d \in CPU : Steady(d)
<1> SUFFICES ASSUME NEW d \in CPU PROVE Steady(d)
  OBVIOUS
<1>1. SameFrames(stack'[d], stack[d])
  BY OweFacts
<1> QED
  BY <1>1 DEF SameFrames, Steady

\* The first k frames of c keep their works.
Below(c, k) ==
    \A i \in 1..k : /\ i \in DOMAIN stack[c] /\ stack'[c][i].work = stack[c][i].work
                    /\ stack'[c][i].fl.stage # "none" => stack[c][i].fl.stage # "none"

\* The first work of the queue of c is taken into frame k.
TakesHead(c, k) ==
    /\ k \in Nat /\ k > 0 /\ Len(stack'[c]) = k /\ Below(c, k - 1)
    /\ list[c] # <<>> /\ list' = [list EXCEPT ![c] = Tail(list[c])]
    /\ stack'[c][k].work = Head(list[c]).work /\ stack'[c][k].owed = Head(list[c]).owed
    /\ stack'[c][k].fl.stage = "none"

\* The queue is empty: frame k is the innermost again, if there is one.
BackTo(c, k) ==
    /\ k \in Nat /\ Len(stack'[c]) = k /\ Below(c, k)
    /\ list[c] = <<>> /\ list' = list
    /\ k > 0 => stack'[c][k].fl.stage = "loop"

\* The other workers.
OthersSteady(c) == \A d \in CPU : d # c => Steady(d) /\ NoNewDebt(d)

LEMMA FirstShape ==
    ASSUME TypeOK, NEW c \in CPU, WorkerOf(c), WorkerResume(c), list[c] # <<>>
    PROVE  Len(stack[c]) = 0 /\ TakesHead(c, 1) /\ OthersSteady(c)
<1>1. First(c) /\ stack[c] = <<>>
  BY FirstFacts DEF WorkerOf, WorkerResume
<1>2. 1 - 1 = 0 /\ 1..0 = {} /\ 1 \in Nat /\ 1 > 0
  OBVIOUS
<1>3. Below(c, 1 - 1)
  BY <1>2 DEF Below
<1>4. TakesHead(c, 1)
  BY <1>1, <1>2, <1>3 DEF TakesHead, First
<1>5. OthersSteady(c)
  BY <1>1, SteadySame DEF OthersSteady, First
<1>6. Len(stack[c]) = 0
  BY <1>1, EmptyStack
<1> QED
  BY <1>4, <1>5, <1>6

LEMMA PushShape ==
    ASSUME TypeOK, NEW c \in CPU, FlushSelf(c), list[c] # <<>>, NEW n, n = Len(stack[c])
    PROVE  /\ n \in Nat /\ n > 0 /\ stack[c][n].fl.stage # "none"
           /\ TakesHead(c, n + 1) /\ OthersSteady(c)
<1>1. n \in Nat /\ n > 0 /\ Pushed(c, n)
  BY PushSelf
<1>2. FlushOf(c).stage = "loop"
  BY DEF FlushSelf
<1>3. Running(c) /\ FlushOf(c) = Top(c).fl
  BY <1>2, FlushOfFacts
<1>4. Top(c) = stack[c][n] /\ DOMAIN stack[c] = 1..n
  BY <1>3, TopFacts
<1>5. stack[c][n].fl.stage = "loop"
  BY <1>2, <1>3, <1>4
<1>6. Below(c, n)
  <2> SUFFICES ASSUME NEW i \in 1..n
               PROVE  /\ stack'[c][i].work = stack[c][i].work
                      /\ stack'[c][i].fl.stage # "none" => stack[c][i].fl.stage # "none"
    BY <1>4 DEF Below
  <2>1. i = n \/ i \in 1..n-1
    BY <1>1
  <2>2. CASE i = n
    BY <1>1, <1>5, <2>2 DEF Pushed
  <2>3. CASE i \in 1..n-1
    BY <1>1, <2>3 DEF Pushed
  <2> QED
    BY <2>1, <2>2, <2>3
<1>7. PICK k : k = n + 1
  OBVIOUS
<1>8. k \in Nat /\ k > 0 /\ k - 1 = n
  BY <1>1, <1>7
<1>9. TakesHead(c, k)
  BY <1>1, <1>6, <1>7, <1>8 DEF TakesHead, Pushed
<1>10. OthersSteady(c)
  BY <1>1, SteadySame DEF OthersSteady, Pushed
<1> QED
  BY <1>1, <1>5, <1>7, <1>9, <1>10

LEMMA FinishShape ==
    ASSUME TypeOK, Nested, NEW c \in CPU, FinishWork(c), NEW n, n = Len(stack[c])
    PROVE  /\ n \in Nat /\ n > 0 /\ OthersSteady(c)
           /\ \/ NextTaken(c, n) /\ TakesHead(c, n)
              \/ LoopEnds(c, n) /\ BackTo(c, n - 1)
<1>1. n \in Nat /\ n > 0 /\ Finished(c, n)
  BY FinishFacts
<1>2. DOMAIN stack[c] = 1..n /\ \A i \in 1..n : stack[c][i].fl \in FlushCall
  BY FrameType
<1>3. ASSUME NEW i \in 1..n, WokenFrame(stack', stack, c, c, i)
      PROVE  /\ stack'[c][i].work = stack[c][i].work
             /\ stack'[c][i].fl.stage # "none" => stack[c][i].fl.stage # "none"
  BY <1>2, <1>3, WakeCallFacts DEF WokenFrame
<1>4. \A i \in 1..n-1 : i \in 1..n /\ i # n /\ ((i = n - 1 /\ n > 1) \/ i \in 1..n-2)
  BY <1>1
<1>5. ASSUME NextTaken(c, n) PROVE TakesHead(c, n)
  <2>1. Below(c, n - 1)
    BY <1>1, <1>2, <1>3, <1>4, <1>5 DEF Below, Finished, NextTaken
  <2> QED
    BY <1>1, <1>5, <2>1 DEF TakesHead, NextTaken
<1>6. ASSUME LoopEnds(c, n) PROVE BackTo(c, n - 1)
  <2>1. Below(c, n - 1)
    <3> SUFFICES ASSUME NEW i \in 1..n-1
                 PROVE  /\ stack'[c][i].work = stack[c][i].work
                        /\ stack'[c][i].fl.stage # "none" => stack[c][i].fl.stage # "none"
      BY <1>2, <1>4 DEF Below
    <3>1. CASE i = n - 1 /\ n > 1
      <4>1. stack[c][i].fl.stage = "self"
        BY <1>2, <1>4 DEF Nested, NestedIn
      <4> QED
        BY <1>6, <3>1, <4>1 DEF LoopEnds
    <3>2. CASE i \in 1..n-2
      BY <1>1, <1>3, <1>4, <3>2 DEF Finished
    <3> QED
      BY <1>4, <3>1, <3>2
  <2>2. n - 1 \in Nat /\ (n - 1 > 0 => n > 1)
    BY <1>1
  <2> QED
    BY <1>1, <1>6, <2>1, <2>2 DEF BackTo, LoopEnds
<1>7. OthersSteady(c)
  BY <1>1, SteadyWoken DEF OthersSteady, Finished
<1> QED
  BY <1>1, <1>5, <1>6, <1>7 DEF Finished

\* Nobody sets the pending bit of a work, or gives up one it has taken with the bit set.
NoneQueued == \A u \in Work : pending'[u] => pending[u] /\ SameTaken(stack, stack', u)

\* A step of the worker of c that goes on with what it is doing ...
GoesOn ==
    /\ NoneQueued /\ list' = list /\ remove' = remove /\ flush' = flush
    /\ \A d \in CPU : Steady(d) /\ NoNewDebt(d)

\* ... or enters run_workqueue, from worker_thread or from a flush.
Enters(c, n) ==
    /\ TakesHead(c, n + 1) /\ TookHead(c, n + 1) /\ OthersSteady(c)
    /\ remove' = remove /\ flush' = flush
    /\ n > 0 => n \in DOMAIN stack[c] /\ stack[c][n].fl.stage # "none"

\* clear_bit concerns the work of the innermost frame only.
LEMMA TakenCleared ==
    ASSUME TypeOK, NEW c \in CPU, Running(c), NEW g, NewTop(c, g), ~g.taken, g.work = Top(c).work
    PROVE  \A u : u # Top(c).work => SameTaken(stack, stack', u)
<1>1. \A u : \A d \in CPU, i \in Nat :
          u # Top(c).work => (IsTaken(stack', u, d, i) <=> IsTaken(stack, u, d, i))
  BY TopFacts DEF NewTop, IsTaken
<1> QED
  BY <1>1, TakenKept

LEMMA TakenSetFlush ==
    ASSUME TypeOK, NEW t \in Flusher \cup CPU, NEW r \in FlushCall, SetFlush(t, r),
           FlushOf(t).stage # "none"
    PROVE  \A u : SameTaken(stack, stack', u)
<1>1. CASE t \in CPU
  <2>1. Running(t)
    BY <1>1, FlushOfFacts
  <2>2. PICK g \in Frame : NewTop(t, g) /\ g.work = Top(t).work /\ g.taken = Top(t).taken
    BY <1>1, <2>1, SetFlushFacts
  <2> QED
    BY <1>1, <2>1, <2>2, TakenNewTop
<1>2. CASE t \notin CPU
  <2>1. stack' = stack
    BY <1>2, SetFlushFacts
  <2> QED
    BY <2>1, SameRefl
<1> QED
  BY <1>1, <1>2

LEMMA WorkerShape ==
    ASSUME TypeOK, NEW c \in CPU, WorkerOf(c), Worker(c), NEW n, n = Len(stack[c])
    PROVE  GoesOn \/ Enters(c, n) \/ FinishWork(c)
<1>1. CASE WorkerSet(c) \/ WorkerTest(c) \/ WorkerCheck(c) \/ WorkerWakes(c)
  <2>1. /\ list' = list /\ remove' = remove /\ flush' = flush /\ stack' = stack
        /\ pending' = pending
    BY <1>1 DEF WorkerSet, WorkerTest, WorkerCheck, WorkerWakes
  <2> QED
    BY <2>1, SteadySame, SameRefl DEF GoesOn, NoneQueued
<1>2. CASE WorkerResume(c)
  <2>1. remove' = remove /\ flush' = flush /\ pending' = pending
    BY <1>2 DEF WorkerResume
  <2>2. CASE list[c] = <<>>
    <3>1. list' = list /\ stack' = stack
      BY <1>2, <2>2 DEF WorkerResume
    <3> QED
      BY <2>1, <3>1, SteadySame, SameRefl DEF GoesOn, NoneQueued
  <2>3. CASE list[c] # <<>>
    <3>1. n = 0 /\ TakesHead(c, 1) /\ TookHead(c, 1) /\ OthersSteady(c)
      BY <1>2, <2>3, FirstShape, TookFirst
    <3>2. n + 1 = 1 /\ ~(n > 0)
      BY <3>1
    <3> QED
      BY <2>1, <3>1, <3>2 DEF Enters
  <2> QED
    BY <2>2, <2>3
<1>3. CASE ClearPending(c)
  <2>1. Running(c) /\ Top(c) \in Frame
    BY <1>3, TopFacts DEF ClearPending
  <2>2. PICK g : g = [Top(c) EXCEPT !.taken = FALSE]
    OBVIOUS
  <2>3. /\ g \in Frame /\ g.work = Top(c).work /\ g.owed = Top(c).owed /\ g.fl = Top(c).fl
        /\ ~g.taken
    BY <2>1, <2>2, FrameFacts
  <2>4. /\ stack' = [stack EXCEPT ![c] = Front(stack[c]) \o <<g>>]
        /\ list' = list /\ remove' = remove /\ flush' = flush
    BY <1>3, <2>2 DEF ClearPending
  <2>5. NewTop(c, g)
    BY <2>1, <2>3, <2>4, SetTop
  <2>6. NoneQueued
    <3>1. PICK w \in Work : w = Top(c).work
      BY <2>1, FrameFacts
    <3>2. pending' = [pending EXCEPT ![w] = FALSE]
      BY <1>3, <3>1 DEF ClearPending
    <3>3. \A u \in Work : pending'[u] => pending[u] /\ u # w
      BY <3>1, <3>2 DEF TypeOK
    <3>4. \A u : u # w => SameTaken(stack, stack', u)
      BY <2>1, <2>3, <2>5, <3>1, TakenCleared
    <3> QED
      BY <3>3, <3>4 DEF NoneQueued
  <2> QED
    BY <2>1, <2>3, <2>4, <2>5, <2>6, SteadyNewTop DEF GoesOn
<1>4. CASE CallFlush(c)
  <2>1. Running(c) /\ Top(c) \in Frame /\ Top(c).work \in SelfFlush
    BY <1>4, TopFacts DEF CallFlush
  <2>2. PICK g : g = [Top(c) EXCEPT !.fl.stage = "lock"]
    OBVIOUS
  <2>3. /\ g \in Frame /\ g.work = Top(c).work /\ g.owed = Top(c).owed /\ g.fl.stage = "lock"
        /\ g.taken = Top(c).taken
    BY <2>1, <2>2 DEF Frame, FlushCall, FlushStages
  <2>4. /\ stack' = [stack EXCEPT ![c] = Front(stack[c]) \o <<g>>]
        /\ list' = list /\ remove' = remove /\ flush' = flush /\ pending' = pending
    BY <1>4, <2>2 DEF CallFlush
  <2>5. NewTop(c, g)
    BY <2>1, <2>3, <2>4, SetTop
  <2>6. NoneQueued
    BY <2>1, <2>3, <2>4, <2>5, TakenNewTop DEF NoneQueued
  <2> QED
    BY <2>1, <2>3, <2>4, <2>5, <2>6, SteadyNewTop DEF GoesOn
<1>5. CASE FlushSelf(c)
  <2>1. remove' = remove /\ pending' = pending
    BY <1>5 DEF FlushSelf
  <2>2. CASE list[c] = <<>>
    <3>1. PICK x \in FlushCall : SetFlush(c, x) /\ x.stage = "loop" /\ FlushOf(c).stage = "loop"
      BY <1>5, <2>2, FlushSelfEmpty
    <3>2. \A d \in CPU : Steady(d) /\ NoNewDebt(d)
      BY <3>1, SteadySetFlush
    <3>3. list' = list /\ flush' = flush
      BY <1>5, <2>2, <3>1 DEF FlushSelf, SetFlush
    <3>4. NoneQueued
      BY <2>1, <3>1, TakenSetFlush DEF NoneQueued
    <3> QED
      BY <2>1, <3>2, <3>3, <3>4 DEF GoesOn
  <2>3. CASE list[c] # <<>>
    <3>1. /\ n \in Nat /\ n > 0 /\ stack[c][n].fl.stage # "none"
          /\ TakesHead(c, n + 1) /\ TookHead(c, n + 1) /\ OthersSteady(c)
      BY <1>5, <2>3, PushShape, TookPush
    <3>2. n \in DOMAIN stack[c]
      BY <3>1, FrameType
    <3>3. flush' = flush
      BY <1>5, <2>3 DEF FlushSelf
    <3> QED
      BY <2>1, <3>1, <3>2, <3>3 DEF Enters
  <2> QED
    BY <2>2, <2>3
<1> QED
  BY <1>1, <1>2, <1>3, <1>4, <1>5 DEF Worker

LEMMA TakenOwe ==
    ASSUME TypeOK, NEW f \in Flusher, OweAll(f)
    PROVE  \A u : SameTaken(stack, stack', u)
<1>1. \A d \in CPU : SameFrames(stack'[d], stack[d])
  BY OweFacts
<1>2. \A u : \A d \in CPU, i \in Nat : IsTaken(stack', u, d, i) <=> IsTaken(stack, u, d, i)
  BY <1>1 DEF SameFrames, IsTaken
<1> QED
  BY <1>2, TakenKept

\* A step of a flush.
LEMMA FlushShape ==
    ASSUME TypeOK, NEW t \in Flusher \cup CPU, Flush(t)
    PROVE  /\ insert' = insert /\ remove' = remove /\ online' = online /\ hp' = hp
           /\ NoneQueued
           /\ \A d \in CPU : Steady(d)
           /\ ~(FlushLock(t) /\ t \notin CPU) => list' = list /\ \A d \in CPU : NoNewDebt(d)
<1>1. /\ insert' = insert /\ remove' = remove /\ online' = online /\ hp' = hp
      /\ pending' = pending
  BY DEF Flush, FlushLock, FlushCpu, FlushRetry, FlushReturn
<1>2. FlushOf(t).stage # "none"
  BY DEF Flush, FlushLock, FlushCpu, FlushRetry, FlushReturn
<1>6. ASSUME \A u : SameTaken(stack, stack', u) PROVE NoneQueued
  BY <1>1, <1>6 DEF NoneQueued
<1>3. CASE FlushLock(t)
  <2>1. PICK x \in FlushCall : /\ x.stage = "loop"
                               /\ t \in CPU => SetFlush(t, x) /\ list' = list
                               /\ t \notin CPU => t \in Flusher /\ OweAll(t)
    BY <1>3, FlushLockFacts
  <2>2. CASE t \in CPU
    BY <1>1, <1>2, <1>6, <2>1, <2>2, SteadySetFlush, TakenSetFlush
  <2>3. CASE t \notin CPU
    BY <1>1, <1>3, <1>6, <2>1, <2>3, SteadyOwe, TakenOwe
  <2> QED
    BY <2>2, <2>3
<1>4. CASE FlushCpu(t) \/ FlushRetry(t)
  <2>1. PICK x \in FlushCall : SetFlush(t, x) /\ Resting(x, FlushOf(t))
    BY <1>4, FlushCpuFacts, FlushRetryFacts
  <2>2. x.stage # "none"
    BY <2>1 DEF Resting
  <2>3. list' = list
    BY <1>4 DEF FlushCpu, FlushRetry
  <2> QED
    BY <1>1, <1>2, <1>6, <2>1, <2>2, <2>3, SteadySetFlush, TakenSetFlush
<1>5. CASE FlushReturn(t)
  <2>1. PICK x \in FlushCall : SetFlush(t, x) /\ (t \in CPU => x.stage # "none")
    <3>1. NoFlush \in FlushCall
      BY IncType DEF NoFlush, FlushCall, FlushStages
    <3>2. /\ [NoFlush EXCEPT !.stage = "done"] \in FlushCall
          /\ [NoFlush EXCEPT !.stage = "done"].stage = "done"
      BY <3>1, FlushFacts DEF FlushStages
    <3> QED
      BY <1>5, <3>1, <3>2 DEF FlushReturn
  <2>2. list' = list
    BY <1>5 DEF FlushReturn
  <2> QED
    BY <1>1, <1>2, <1>6, <2>1, <2>2, SteadySetFlush, TakenSetFlush
<1> QED
  BY <1>3, <1>4, <1>5 DEF Flush

LEMMA SelfSteady ==
    ASSUME NEW c \in CPU, SelfOnlyIn(c), Steady(c)
    PROVE  SelfOnlyIn(c)'
  BY DEF SelfOnlyIn, Steady

LEMMA SelfShape ==
    ASSUME NEW c \in CPU, SelfOnlyIn(c), stack' \in Stacks, NEW k, TakesHead(c, k) \/ BackTo(c, k)
    PROVE  SelfOnlyIn(c)'
<1>1. k \in Nat /\ DOMAIN stack'[c] = 1..k
  BY StackShape DEF TakesHead, BackTo
<1>2. CASE TakesHead(c, k)
  <2>1. \A i \in 1..k : i = k \/ i \in 1..k-1
    BY <1>1
  <2> QED
    BY <1>1, <1>2, <2>1 DEF TakesHead, Below, SelfOnlyIn
<1>3. CASE BackTo(c, k)
  BY <1>1, <1>3 DEF BackTo, Below, SelfOnlyIn
<1> QED
  BY <1>2, <1>3

LEMMA SelfInit == Init => SelfOnly
<1>1. Init => \A c \in CPU : DOMAIN stack[c] = {}
  BY DEF Init
<1> QED
  BY <1>1 DEF SelfOnly, SelfOnlyIn

LEMMA SelfNext == TypeOK /\ TypeOK' /\ LockInv /\ HotInv /\ SelfOnly /\ [Next]_vars => SelfOnly'
<1> SUFFICES ASSUME TypeOK, TypeOK', LockInv, HotInv, SelfOnly, [Next]_vars PROVE SelfOnly'
  OBVIOUS
<1>1. CASE \A d \in CPU : Steady(d)
  BY <1>1, SelfSteady DEF SelfOnly
<1>2. CASE stack' = stack
  BY <1>1, <1>2, SteadySame
<1>3. ASSUME NEW c \in CPU, Worker(c) PROVE SelfOnly'
  <2>1. PICK n : n = Len(stack[c])
    OBVIOUS
  <2>2. GoesOn \/ Enters(c, n) \/ FinishWork(c)
    BY <1>3, <2>1, WorkerShape DEF HotInv
  <2>3. CASE GoesOn
    BY <1>1, <2>3 DEF GoesOn
  <2>4. stack' \in Stacks
    BY DEF TypeOK, Stacks
  <2>5. ASSUME OthersSteady(c), NEW k, TakesHead(c, k) \/ BackTo(c, k) PROVE SelfOnly'
    <3>1. SelfOnlyIn(c)'
      BY <2>4, <2>5, SelfShape DEF SelfOnly
    <3>2. \A d \in CPU : d # c => SelfOnlyIn(d)'
      BY <2>5, SelfSteady DEF SelfOnly, OthersSteady
    <3> QED
      BY <3>1, <3>2 DEF SelfOnly
  <2>6. CASE Enters(c, n)
    BY <2>5, <2>6 DEF Enters
  <2>7. CASE FinishWork(c)
    BY <2>1, <2>5, <2>7, FinishShape DEF LockInv
  <2> QED
    BY <2>2, <2>3, <2>6, <2>7
<1>4. ASSUME NEW t \in Flusher \cup CPU, Flush(t) PROVE SelfOnly'
  BY <1>1, <1>4, FlushShape
<1>5. CASE \/ UNCHANGED vars \/ HotplugStep
           \/ \E c \in CPU : CpuUpPrepare(c) \/ \E d \in CPU : CpuDown(c, d)
           \/ \E f \in Flusher : FlushStart(f)
           \/ \E w \in Work, c \in CPU :
                 \/ QueueWork(w, c) \/ QueueDelayedWork(w, c) \/ DelayedWorkTimer(w, c)
                 \/ CancelDelayedWork(w, c) \/ CancelClear(w, c) \/ DoQueueWork(w, c)
  <2>1. stack' = stack
    BY <1>5 DEF vars, HotplugStep, CpuUpPrepare, CpuDown, CpuDead, CpuStopped, TakeOverOne,
                TakeOverDone, CpuUp, CpuOnline, CpuUpCanceled, FlushStart, QueueWork,
                QueueDelayedWork, DelayedWorkTimer, CancelDelayedWork, CancelClear, DoQueueWork
  <2> QED
    BY <1>2, <2>1
<1> QED
  BY <1>3, <1>4, <1>5 DEF Next

-----------------------------------------------------------------------------
(* How many works there can be on a CPU *)

\* The works of SelfFlush that have been queued and not yet taken.
SelfQueued == {w \in SelfFlush : pending[w] /\ NoTaken(stack, w)}
Ready == Cardinality(SelfQueued)

\* Each of them can put one more frame on a stack whose innermost work may flush.
Cap == MaxDepth + Cardinality(SelfFlush)
SelfTop(c) == Len(stack[c]) > 0 => stack[c][Len(stack[c])].work \in SelfFlush
Room(c) ==
    /\ Len(stack[c]) + Ready <= Cap
    /\ SelfTop(c) => Len(stack[c]) + 1 + Ready <= Cap
RoomInv == \A c \in CPU : Room(c)

LEMMA Fewer ==
    ASSUME NEW S, IsFiniteSet(S), NEW T, T \subseteq S
    PROVE  /\ IsFiniteSet(T) /\ Cardinality(T) \in Nat /\ Cardinality(T) <= Cardinality(S)
           /\ \A w \in S : w \notin T => Cardinality(T) + 1 <= Cardinality(S)
<1>1. IsFiniteSet(T) /\ Cardinality(T) \in Nat /\ Cardinality(S) \in Nat
  BY FS_Subset, FS_CardinalityType
<1>2. Cardinality(T) <= Cardinality(S)
  BY FS_Subset
<1>3. ASSUME NEW w \in S, w \notin T PROVE Cardinality(T) + 1 <= Cardinality(S)
  <2>1. IsFiniteSet(S \ {w}) /\ Cardinality(S \ {w}) = Cardinality(S) - 1
    BY FS_RemoveElement
  <2>2. Cardinality(T) <= Cardinality(S \ {w})
    BY <1>3, <2>1, FS_Subset
  <2> QED
    BY <1>1, <2>1, <2>2
<1> QED
  BY <1>1, <1>2, <1>3

LEMMA ReadyFacts ==
    /\ Cap \in Nat
    /\ Ready \in Nat /\ Ready <= Cardinality(SelfFlush)
    /\ Ready' \in Nat /\ Ready' <= Cardinality(SelfFlush)
    /\ SelfQueued' \subseteq SelfQueued => Ready' <= Ready
    /\ \A w \in SelfQueued :
          SelfQueued' \subseteq SelfQueued /\ w \notin SelfQueued' => Ready' + 1 <= Ready
<1>1. IsFiniteSet(SelfFlush)
  BY WorkAssumption, FS_Subset
<1>2. SelfQueued \subseteq SelfFlush /\ SelfQueued' \subseteq SelfFlush
  BY DEF SelfQueued
<1>3. Ready = Cardinality(SelfQueued) /\ Ready' = Cardinality(SelfQueued')
  BY DEF Ready
<1>4. /\ IsFiniteSet(SelfQueued) /\ Ready \in Nat /\ Ready <= Cardinality(SelfFlush)
      /\ Ready' \in Nat /\ Ready' <= Cardinality(SelfFlush)
  BY <1>1, <1>2, <1>3, Fewer
<1>5. SelfQueued' \subseteq SelfQueued => Ready' <= Ready
  BY <1>3, <1>4, Fewer
<1>6. ASSUME NEW w \in SelfQueued, SelfQueued' \subseteq SelfQueued, w \notin SelfQueued'
      PROVE  Ready' + 1 <= Ready
  BY Zenon, <1>3, <1>4, <1>6, Fewer
<1>7. Cap \in Nat
  BY RangeFacts DEF Cap
<1> QED
  BY Zenon, <1>4, <1>5, <1>6, <1>7

LEMMA NotBoth ==
    ASSUME NEW s, NEW w, OneTaken(s, w)
    PROVE  ~NoTaken(s, w)
<1>1. PICK c \in CPU, i \in Nat : TakenAt(s, w, c, i)
  BY DEF OneTaken
<1>2. IsTaken(s, w, c, i)
  BY <1>1 DEF TakenAt
<1> QED
  BY <1>2 DEF NoTaken

\* Nobody becomes ready, and what is taken is no longer.
LEMMA ReadySame ==
    ASSUME OwnInv, NoneQueued
    PROVE  SelfQueued' \subseteq SelfQueued
<1> SUFFICES ASSUME NEW u \in SelfFlush, pending'[u], NoTaken(stack', u)
             PROVE  pending[u] /\ NoTaken(stack, u)
  BY DEF SelfQueued
<1>1. u \in Work
  BY WorkAssumption
<1>2. pending[u] /\ SameTaken(stack, stack', u) /\ Owned(u)
  BY <1>1 DEF OwnInv, NoneQueued
<1>3. NoTaken(stack, u) \/ OneTaken(stack, u)
  BY <1>2 DEF Owned
<1>4. ~OneTaken(stack', u)
  BY NotBoth
<1> QED
  BY <1>2, <1>3, <1>4 DEF SameTaken

LEMMA ReadyTook ==
    ASSUME TypeOK, OwnInv, NEW c \in CPU, NEW k \in Nat, TookHead(c, k)
    PROVE  Ready' <= Ready /\ (Head(list[c]).work \in SelfFlush => Ready' + 1 <= Ready)
<1>0. PICK w : w = Head(list[c]).work
  OBVIOUS
<1>1. list \in Lists
  BY DEF TypeOK, Lists
<1>2. OnQueue(list, w, c, 1)
  BY <1>0, <1>1, TailQ DEF TookHead
<1>3. (\A u : u # w => SameTaken(stack, stack', u)) /\ (NoTaken(stack, w) => OneTaken(stack', w))
  BY <1>0, TakenComes DEF TookHead
<1>4. pending' = pending
  BY DEF TookHead
<1>5. w \in Work
  <2>1. list[c] \in Seq(Entry) /\ list[c] # <<>>
    BY <1>1 DEF TookHead, Lists
  <2>2. Head(list[c]) \in Entry
    BY <2>1, TailFacts
  <2> QED
    BY <1>0, <2>2 DEF Entry
<1>6. pending[w] /\ NoTaken(stack, w)
  BY <1>2, <1>5, OnlyQueue DEF OwnInv
<1>7. w \notin SelfQueued'
  BY <1>3, <1>6, NotBoth DEF SelfQueued
<1>8. SelfQueued' \subseteq SelfQueued
  <2> SUFFICES ASSUME NEW u \in SelfFlush, pending'[u], NoTaken(stack', u), u # w
               PROVE  pending[u] /\ NoTaken(stack, u)
    BY <1>7 DEF SelfQueued
  <2>1. u \in Work
    BY WorkAssumption
  <2>2. pending[u] /\ SameTaken(stack, stack', u) /\ Owned(u)
    BY <1>3, <1>4, <2>1 DEF OwnInv
  <2>3. NoTaken(stack, u) \/ OneTaken(stack, u)
    BY <2>2 DEF Owned
  <2>4. ~OneTaken(stack', u)
    BY NotBoth
  <2> QED
    BY <2>2, <2>3, <2>4 DEF SameTaken
<1>9. w \in SelfFlush => w \in SelfQueued
  BY <1>6 DEF SelfQueued
<1> QED
  BY Zenon, <1>0, <1>7, <1>8, <1>9, ReadyFacts

\* What that means for the frames of a CPU.
LEMMA Shrinks ==
    \A n, a, b, m \in Nat :
        n + a <= m => (b <= a => n + b <= m) /\ (b + 1 <= a => n + 1 + b <= m)
  OBVIOUS

LEMMA RoomSteady ==
    ASSUME TypeOK, NEW c \in CPU, Room(c), Steady(c), Ready' <= Ready
    PROVE  Room(c)'
<1>1. PICK n \in Nat : n = Len(stack[c]) /\ DOMAIN stack[c] = 1..n
  BY FrameType
<1>2. Len(stack'[c]) = n /\ (n > 0 => stack'[c][n].work = stack[c][n].work)
  BY <1>1 DEF Steady
<1>3. SelfTop(c)' => SelfTop(c)
  BY <1>1, <1>2 DEF SelfTop
<1>4. n + Ready <= Cap /\ (SelfTop(c)' => n + 1 + Ready <= Cap)
  BY <1>1, <1>3 DEF Room
<1>5. Ready \in Nat /\ Ready' \in Nat /\ Cap \in Nat /\ Cap' = Cap
  BY ReadyFacts DEF Cap
<1>6. n + Ready' <= Cap'
  BY Zenon, <1>4, <1>5, Shrinks
<1>7. ASSUME SelfTop(c)' PROVE n + 1 + Ready' <= Cap'
  <2>1. n + 1 + Ready <= Cap /\ n + 1 \in Nat
    BY <1>4, <1>7
  <2> QED
    BY Zenon, <1>5, <2>1, Shrinks
<1> QED
  BY <1>2, <1>6, <1>7 DEF Room

LEMMA RoomTakes ==
    ASSUME TypeOK, NEW c \in CPU, Room(c), NEW n, n = Len(stack[c]), NEW k, TakesHead(c, k),
           k = n \/ (k = n + 1 /\ SelfTop(c)),
           Ready' <= Ready, Head(list[c]).work \in SelfFlush => Ready' + 1 <= Ready
    PROVE  Room(c)'
<1>1. n \in Nat /\ k \in Nat /\ k > 0
  BY FrameType DEF TakesHead
<1>2. Len(stack'[c]) = k /\ stack'[c][k].work = Head(list[c]).work
  BY DEF TakesHead
<1>3. SelfTop(c)' => Ready' + 1 <= Ready
  BY <1>1, <1>2 DEF SelfTop
<1>4. n + Ready <= Cap /\ (SelfTop(c) => n + 1 + Ready <= Cap)
  BY DEF Room
<1>5. Ready \in Nat /\ Ready' \in Nat /\ Cap \in Nat /\ Cap' = Cap
  BY ReadyFacts DEF Cap
<1>6. k + Ready <= Cap
  BY <1>1, <1>4, <1>5
<1>7. k + Ready' <= Cap'
  BY Zenon, <1>1, <1>5, <1>6, Shrinks
<1>8. ASSUME SelfTop(c)' PROVE k + 1 + Ready' <= Cap'
  <2>1. Ready' + 1 <= Ready
    BY <1>3, <1>8
  <2> QED
    BY Zenon, <1>1, <1>5, <1>6, <2>1, Shrinks
<1> QED
  BY <1>2, <1>7, <1>8 DEF Room

LEMMA RoomBack ==
    ASSUME TypeOK, NEW c \in CPU, Room(c), NEW n, n = Len(stack[c]), BackTo(c, n - 1),
           Ready' <= Ready
    PROVE  Room(c)'
<1>1. n \in Nat /\ Len(stack'[c]) = n - 1
  BY FrameType DEF BackTo
<1>2. n + Ready <= Cap
  BY DEF Room
<1>3. Ready \in Nat /\ Ready' \in Nat /\ Cap \in Nat /\ Cap' = Cap
  BY ReadyFacts DEF Cap
<1>4. n - 1 + Ready' <= Cap' /\ n - 1 + 1 + Ready' <= Cap'
  BY <1>1, <1>2, <1>3
<1> QED
  BY <1>1, <1>4 DEF Room

\* A work of SelfFlush is queued only at a depth that leaves room for all of them.
LEMMA RoomNested ==
    ASSUME TypeOK, stack' = stack, \A c \in CPU : Len(stack[c]) < MaxDepth
    PROVE  RoomInv'
<1> SUFFICES ASSUME NEW c \in CPU PROVE Room(c)'
  BY DEF RoomInv
<1>1. PICK n \in Nat : n = Len(stack[c]) /\ n < MaxDepth
  BY FrameType
<1>2. /\ Ready' \in Nat /\ Ready' <= Cardinality(SelfFlush) /\ MaxDepth \in Nat
      /\ Cardinality(SelfFlush) \in Nat
  BY ReadyFacts, RangeFacts
<1>3. n + 1 + Ready' <= MaxDepth + Cardinality(SelfFlush) /\ n + Ready' <= MaxDepth + Cardinality(SelfFlush)
  BY <1>1, <1>2
<1>4. Len(stack'[c]) = n /\ Cap' = MaxDepth + Cardinality(SelfFlush)
  BY <1>1 DEF Cap
<1> QED
  BY <1>3, <1>4 DEF Room

LEMMA RoomInit == TypeOK /\ Init => RoomInv
<1> SUFFICES ASSUME TypeOK, Init, NEW c \in CPU PROVE Room(c)
  BY DEF RoomInv
<1>1. Len(stack[c]) = 0
  BY DEF Init
<1>2. SelfQueued = {}
  BY WorkAssumption DEF Init, SelfQueued
<1>3. Ready = 0
  BY <1>2, FS_EmptySet DEF Ready
<1>4. Cap \in Nat /\ Cap >= 1
  BY RangeFacts, SeqAssumption DEF Cap
<1> QED
  BY <1>1, <1>3, <1>4 DEF Room

LEMMA RoomWorker ==
    ASSUME TypeOK, TypeOK', LockInv, HotInv, OwnInv, SelfOnly, RoomInv, NEW c \in CPU, Worker(c)
    PROVE  RoomInv'
<1>1. PICK n : n = Len(stack[c])
  OBVIOUS
<1>2. WorkerOf(c) /\ Nested /\ SelfOnlyIn(c) /\ Room(c)
  BY DEF HotInv, LockInv, SelfOnly, RoomInv
<1>3. n \in Nat
  BY <1>1, FrameType
<1>4. ASSUME OthersSteady(c), Ready' <= Ready, Room(c)' PROVE RoomInv'
  BY <1>4, RoomSteady DEF RoomInv, OthersSteady
<1>5. CASE GoesOn
  <2>1. Ready' <= Ready
    BY <1>5, ReadySame, ReadyFacts DEF GoesOn
  <2> QED
    BY <1>5, <2>1, RoomSteady DEF RoomInv, GoesOn
<1>6. CASE Enters(c, n)
  <2>1. SelfTop(c)
    BY <1>1, <1>2, <1>6 DEF Enters, SelfOnlyIn, SelfTop
  <2>2. TakesHead(c, n + 1) /\ TookHead(c, n + 1) /\ OthersSteady(c) /\ n + 1 \in Nat
    BY <1>3, <1>6 DEF Enters
  <2>3. Ready' <= Ready /\ (Head(list[c]).work \in SelfFlush => Ready' + 1 <= Ready)
    BY <2>2, ReadyTook
  <2>4. Room(c)'
    BY <1>1, <1>2, <2>1, <2>2, <2>3, RoomTakes
  <2> QED
    BY <1>4, <2>2, <2>3, <2>4
<1>7. CASE FinishWork(c)
  <2>1. /\ OthersSteady(c)
        /\ (NextTaken(c, n) /\ TakesHead(c, n)) \/ (LoopEnds(c, n) /\ BackTo(c, n - 1))
    BY <1>1, <1>2, <1>7, FinishShape
  <2>2. CASE NextTaken(c, n) /\ TakesHead(c, n)
    <3>1. TookHead(c, n)
      BY <1>1, <1>7, <2>2, TookFinish
    <3>2. Ready' <= Ready /\ (Head(list[c]).work \in SelfFlush => Ready' + 1 <= Ready)
      BY <1>3, <3>1, ReadyTook
    <3>3. Room(c)'
      BY <1>1, <1>2, <2>2, <3>2, RoomTakes
    <3> QED
      BY <1>4, <2>1, <3>2, <3>3
  <2>3. CASE LoopEnds(c, n) /\ BackTo(c, n - 1)
    <3>1. NoneQueued
      BY <1>1, <1>7, <2>3, TookFinish DEF NoneQueued
    <3>2. Ready' <= Ready
      BY <3>1, ReadySame, ReadyFacts
    <3>3. Room(c)'
      BY <1>1, <1>2, <2>3, <3>2, RoomBack
    <3> QED
      BY <1>4, <2>1, <3>2, <3>3
  <2> QED
    BY <2>1, <2>2, <2>3
<1> QED
  BY <1>1, <1>2, <1>5, <1>6, <1>7, WorkerShape

LEMMA RoomQueue ==
    ASSUME TypeOK, OwnInv, RoomInv, NEW w \in Work, NEW c \in CPU,
           QueueWork(w, c) \/ QueueDelayedWork(w, c)
    PROVE  RoomInv'
<1>1. stack' = stack /\ pending' = [pending EXCEPT ![w] = TRUE] /\ MayNest(w)
  BY DEF QueueWork, QueueDelayedWork
<1>2. CASE w \in SelfFlush
  BY <1>1, <1>2, RoomNested DEF MayNest
<1>3. CASE w \notin SelfFlush
  <2>1. \A u \in SelfFlush : pending'[u] = pending[u]
    BY <1>1, <1>3, WorkAssumption DEF TypeOK
  <2>2. SelfQueued' \subseteq SelfQueued
    BY <1>1, <2>1 DEF SelfQueued
  <2>3. Ready' <= Ready
    BY <2>2, ReadyFacts
  <2> QED
    BY <1>1, <2>3, SteadySame, RoomSteady DEF RoomInv
<1> QED
  BY <1>2, <1>3

LEMMA RoomNext ==
    /\ TypeOK /\ TypeOK' /\ LockInv /\ HotInv /\ OwnInv /\ SelfOnly /\ RoomInv /\ [Next]_vars
    => RoomInv'
<1> SUFFICES ASSUME TypeOK, TypeOK', LockInv, HotInv, OwnInv, SelfOnly, RoomInv, [Next]_vars
             PROVE  RoomInv'
  OBVIOUS
<1>1. ASSUME NoneQueued, \A d \in CPU : Steady(d) PROVE RoomInv'
  <2>1. Ready' <= Ready
    BY <1>1, ReadySame, ReadyFacts
  <2> QED
    BY <1>1, <2>1, RoomSteady DEF RoomInv
<1>2. CASE stack' = stack /\ pending' = pending
  <2>1. NoneQueued
    BY <1>2, SameRefl DEF NoneQueued
  <2> QED
    BY <1>1, <1>2, <2>1, SteadySame
<1>3. ASSUME NEW t \in Flusher \cup CPU, Flush(t) PROVE RoomInv'
  BY <1>1, <1>3, FlushShape
<1>4. ASSUME NEW w \in Work, NEW c \in CPU, CancelClear(w, c) PROVE RoomInv'
  <2>1. stack' = stack /\ pending' = [pending EXCEPT ![w] = FALSE]
    BY <1>4 DEF CancelClear
  <2>2. \A u \in Work : pending'[u] => pending[u]
    BY <2>1 DEF TypeOK
  <2>3. NoneQueued
    BY <2>1, <2>2, SameRefl DEF NoneQueued
  <2> QED
    BY <1>1, <2>1, <2>3, SteadySame
<1>5. CASE \/ UNCHANGED vars \/ HotplugStep
           \/ \E c \in CPU : CpuUpPrepare(c) \/ \E d \in CPU : CpuDown(c, d)
           \/ \E f \in Flusher : FlushStart(f)
           \/ \E w \in Work, c \in CPU :
                 DelayedWorkTimer(w, c) \/ CancelDelayedWork(w, c) \/ DoQueueWork(w, c)
  <2>1. stack' = stack /\ pending' = pending
    BY <1>5 DEF vars, HotplugStep, CpuUpPrepare, CpuDown, CpuDead, CpuStopped, TakeOverOne,
                TakeOverDone, CpuUp, CpuOnline, CpuUpCanceled, FlushStart, DelayedWorkTimer,
                CancelDelayedWork, DoQueueWork
  <2> QED
    BY <1>2, <2>1
<1> QED
  BY <1>3, <1>4, <1>5, RoomWorker, RoomQueue DEF Next

\* A work is queued once, so no queue is longer than there are works.
LEMMA ListBound ==
    ASSUME TypeOK, OwnInv, NEW c \in CPU
    PROVE  Len(list[c]) \in Nat /\ Len(list[c]) <= Cardinality(Work)
<1>1. PICK n \in Nat : n = Len(list[c]) /\ DOMAIN list[c] = 1..n /\ \A i \in 1..n : list[c][i].work \in Work
  <2>1. list[c] \in Seq(Entry)
    BY DEF TypeOK
  <2>2. Len(list[c]) \in Nat /\ DOMAIN list[c] = 1..Len(list[c])
    BY <2>1
  <2>3. \A i \in 1..Len(list[c]) : list[c][i] \in Entry
    BY <2>1
  <2> QED
    BY <2>2, <2>3 DEF Entry
<1>2. PICK g : g = [i \in 1..n |-> list[c][i].work]
  OBVIOUS
<1>3. g \in [1..n -> Work] /\ \A i \in 1..n : g[i] = list[c][i].work
  BY <1>1, <1>2
<1>4. ASSUME NEW i \in 1..n, NEW j \in 1..n, g[i] = g[j] PROVE i = j
  <2>1. PICK w \in Work : w = g[i]
    BY <1>3
  <2>2. OnQueue(list, w, c, i) /\ OnQueue(list, w, c, j) /\ i \in Nat /\ j \in Nat
    BY <1>1, <1>3, <1>4, <2>1 DEF OnQueue
  <2>3. QueueAt(list, w, c, i)
    BY <2>2, OnlyQueue DEF OwnInv
  <2> QED
    BY <2>2, <2>3 DEF QueueAt
<1>5. g \in Injection(1..n, Work)
  BY <1>3, <1>4 DEF Injection, IsInjective
<1>6. Cardinality(1..n) <= Cardinality(Work)
  BY <1>5, WorkAssumption, FS_Injection
<1>7. Cardinality(1..n) = n
  <2>1. Cardinality(1..n) = IF 1 > n THEN 0 ELSE n - 1 + 1
    BY FS_Interval
  <2> QED
    BY <2>1
<1> QED
  BY <1>1, <1>6, <1>7

-----------------------------------------------------------------------------
(* What is owed to a flush, and the counters *)

\* The works between remove_sequence and insert_sequence of c.
Load(c) == Len(list[c]) + Len(stack[c])

\* Work i of the queue of c, and the innermost work of its worker, are owed to f.
OwedAt(f, c, i) == i \in DOMAIN list[c] /\ f \in list[c][i].owed
OwedTop(f, c) ==
    LET n == Len(stack[c])
    IN  n > 0 /\ f \in stack[c][n].owed /\ stack[c][n].fl.stage = "none"
Owes(f, c) == OwedTop(f, c) \/ \E i \in Nat : OwedAt(f, c, i)

LEMMA LoadBound ==
    ASSUME TypeOK, OwnInv, RoomInv, NEW c \in CPU
    PROVE  /\ Len(list[c]) \in Nat /\ Len(stack[c]) \in Nat /\ Load(c) \in Nat
           /\ Load(c) < SeqRange \div 2 /\ Load(c) < SeqRange
<1>1. PICK l \in Nat : l = Len(list[c]) /\ l <= Cardinality(Work)
  BY ListBound
<1>2. PICK s \in Nat : s = Len(stack[c])
  BY FrameType
<1>3. PICK r \in Nat : r = Ready
  BY ReadyFacts
<1>4. s + r <= MaxDepth + Cardinality(SelfFlush)
  BY <1>2, <1>3 DEF RoomInv, Room, Cap
<1>5. l + s \in Nat /\ l + s < SeqRange \div 2 /\ l + s < SeqRange
  BY <1>1, <1>4, RangeFacts
<1>6. Load(c) = l + s
  BY <1>1, <1>2 DEF Load
<1> QED
  BY <1>1, <1>2, <1>5, <1>6

\* What a step can do to the queue and the stack of c, as far as the flushers of F are
\* concerned: nothing that matters, ...
Keeps(F, c) ==
    \A f \in F : /\ OwedTop(f, c)' => OwedTop(f, c)
                 /\ \A i \in Nat : OwedAt(f, c, i)' => OwedAt(f, c, i)
Shifts(F, c) ==
    \A f \in F : /\ OwedTop(f, c)' => OwedAt(f, c, 1)
                 /\ \A i \in Nat : OwedAt(f, c, i)' => OwedAt(f, c, i + 1)
Clears(F, c) == \A f \in F : ~OwedTop(f, c)' /\ \A i \in Nat : ~OwedAt(f, c, i)'

Quiet(F, c) ==
    /\ insert'[c] = insert[c] /\ remove'[c] = remove[c]
    /\ Len(list'[c]) = Len(list[c]) /\ Len(stack'[c]) = Len(stack[c]) /\ Keeps(F, c)

\* ... add a work, ...
Adds(F, c) ==
    /\ insert'[c] = Inc(insert[c]) /\ remove'[c] = remove[c]
    /\ Len(list'[c]) = Len(list[c]) + 1 /\ Len(stack'[c]) = Len(stack[c]) /\ Keeps(F, c)

\* ... take one from the queue, ...
Takes(F, c) ==
    /\ insert'[c] = insert[c] /\ remove'[c] = remove[c]
    /\ Len(list'[c]) = Len(list[c]) - 1 /\ Len(stack'[c]) = Len(stack[c]) + 1 /\ Shifts(F, c)

\* ... end one and take the next, or end the last.
Advances(F, c) ==
    /\ insert'[c] = insert[c] /\ remove'[c] = Inc(remove[c])
    /\ Len(list'[c]) = Len(list[c]) - 1 /\ Len(stack'[c]) = Len(stack[c])
    /\ Len(list[c]) > 0 /\ Shifts(F, c)
Empties(F, c) ==
    /\ insert'[c] = insert[c] /\ remove'[c] = Inc(remove[c])
    /\ Len(list'[c]) = Len(list[c]) /\ Len(stack'[c]) = Len(stack[c]) - 1
    /\ Len(stack[c]) > 0 /\ Clears(F, c)

Counted(F, c) == Quiet(F, c) \/ Adds(F, c) \/ Takes(F, c) \/ Advances(F, c) \/ Empties(F, c)

\* insert_sequence is ahead of remove_sequence by the works there are.
Balanced(c) == Gap(insert[c], remove[c], Load(c))

LEMMA Sizes ==
    ASSUME TypeOK, OwnInv, RoomInv, NEW c \in CPU, NEW F
    PROVE  \E l, s \in Nat :
              /\ l = Len(list[c]) /\ s = Len(stack[c]) /\ Load(c) = l + s
              /\ l + s \in Nat /\ l + s < SeqRange
              /\ Load(c)' = Len(list'[c]) + Len(stack'[c])
              /\ Quiet(F, c) => Load(c)' = l + s
              /\ Adds(F, c) => Load(c)' = l + s + 1
              /\ Takes(F, c) => Load(c)' = l + s
              /\ Advances(F, c) => Load(c)' = l + s - 1 /\ l > 0
              /\ Empties(F, c) => Load(c)' = l + s - 1 /\ s > 0
<1>1. PICK l \in Nat, s \in Nat : l = Len(list[c]) /\ s = Len(stack[c])
  BY LoadBound
<1>2. Load(c) = l + s
  BY <1>1 DEF Load
<1>3. l + s \in Nat /\ l + s < SeqRange
  BY <1>2, LoadBound
<1>4. PICK m, t : m = Len(list'[c]) /\ t = Len(stack'[c])
  OBVIOUS
<1>5. Load(c)' = m + t
  BY <1>4 DEF Load
<1>6. Quiet(F, c) => m = l /\ t = s
  BY <1>1, <1>4 DEF Quiet
<1>7. Adds(F, c) => m = l + 1 /\ t = s
  BY <1>1, <1>4 DEF Adds
<1>8. Takes(F, c) => m = l - 1 /\ t = s + 1
  BY <1>1, <1>4 DEF Takes
<1>9. Advances(F, c) => m = l - 1 /\ t = s /\ l > 0
  BY <1>1, <1>4 DEF Advances
<1>10. Empties(F, c) => m = l /\ t = s - 1 /\ s > 0
  BY <1>1, <1>4 DEF Empties
<1>11. l + 1 + s = l + s + 1 /\ l - 1 + (s + 1) = l + s /\ l - 1 + s = l + s - 1
       /\ l + (s - 1) = l + s - 1
  OBVIOUS
<1>12. /\ Quiet(F, c) => m + t = l + s
       /\ Adds(F, c) => m + t = l + s + 1
       /\ Takes(F, c) => m + t = l + s
       /\ Advances(F, c) => m + t = l + s - 1 /\ l > 0
       /\ Empties(F, c) => m + t = l + s - 1 /\ s > 0
  BY Zenon, <1>6, <1>7, <1>8, <1>9, <1>10, <1>11
<1> QED
  BY Zenon, <1>1, <1>2, <1>3, <1>4, <1>5, <1>12

LEMMA BalancedKept ==
    ASSUME TypeOK, OwnInv, RoomInv, NEW c \in CPU, NEW F, Balanced(c), Counted(F, c)
    PROVE  Balanced(c)'
<1>1. PICK l \in Nat, s \in Nat :
          /\ Load(c) = l + s /\ l + s \in Nat /\ l + s < SeqRange
          /\ Quiet(F, c) => Load(c)' = l + s
          /\ Adds(F, c) => Load(c)' = l + s + 1
          /\ Takes(F, c) => Load(c)' = l + s
          /\ Advances(F, c) => Load(c)' = l + s - 1 /\ l > 0
          /\ Empties(F, c) => Load(c)' = l + s - 1 /\ s > 0
  BY Sizes
<1>2. PICK m \in Counters, n \in Counters : m = insert[c] /\ n = remove[c]
  BY DEF TypeOK, Counters
<1>10. PICK k \in Nat : k = l + s /\ k < SeqRange
  BY <1>1
<1>3. Gap(m, n, k)
  BY <1>1, <1>2, <1>10 DEF Balanced
<1>4. ASSUME NEW x, NEW y, NEW j, x = insert'[c], y = remove'[c], Load(c)' = j, Gap(x, y, j)
      PROVE  Balanced(c)'
  BY <1>4 DEF Balanced, Gap
<1>5. CASE Quiet(F, c) \/ Takes(F, c)
  BY <1>1, <1>2, <1>3, <1>4, <1>5, <1>10 DEF Quiet, Takes
<1>6. CASE Adds(F, c)
  <2>1. Load(c)' = k + 1
    BY <1>1, <1>6, <1>10
  <2>2. Gap(Inc(m), n, k + 1)
    BY <1>3, <1>10, GapMore
  <2> QED
    BY <1>2, <1>4, <1>6, <2>1, <2>2 DEF Adds
<1>7. CASE Advances(F, c) \/ Empties(F, c)
  <2>1. k > 0
    BY <1>1, <1>7, <1>10
  <2>2. Load(c)' = k - 1
    BY <1>1, <1>7, <1>10
  <2>3. Gap(m, Inc(n), k - 1)
    BY <1>3, <2>1, GapLess
  <2> QED
    BY <1>2, <1>4, <1>7, <2>2, <2>3 DEF Advances, Empties
<1> QED
  BY <1>5, <1>6, <1>7 DEF Counted

\* No step makes a work owed that was not.
LEMMA OwesKept ==
    ASSUME NEW c \in CPU, NEW F, NEW f \in F, Counted(F, c), Owes(f, c)'
    PROVE  Owes(f, c)
<1>1. OwedTop(f, c)' \/ \E i \in Nat : OwedAt(f, c, i)'
  BY DEF Owes
<1>2. CASE Keeps(F, c)
  BY <1>1, <1>2 DEF Keeps, Owes
<1>3. CASE Shifts(F, c)
  <2>1. 1 \in Nat /\ \A i \in Nat : i + 1 \in Nat
    OBVIOUS
  <2> QED
    BY Zenon, <1>1, <1>3, <2>1 DEF Shifts, Owes
<1>4. CASE Clears(F, c)
  BY <1>1, <1>4 DEF Clears
<1> QED
  BY <1>2, <1>3, <1>4 DEF Counted, Quiet, Adds, Takes, Advances, Empties

\* What c owes to f lies before the sequence m: remove_sequence has e increments to go
\* until it is reached, and each of those works ends with one of them.
Before(f, c, m, e) ==
    /\ Gap(m, remove[c], e) /\ e <= Load(c)
    /\ OwedTop(f, c) => Len(stack[c]) <= e
    /\ \A i \in Nat : OwedAt(f, c, i) => Len(stack[c]) + i <= e
AheadOf(f, c, m) == Owes(f, c) => \E e \in Nat : Before(f, c, m, e)

LEMMA AheadKept ==
    ASSUME TypeOK, OwnInv, RoomInv, NEW c \in CPU, NEW F, NEW f \in F, NEW m \in Counters,
           AheadOf(f, c, m), Counted(F, c)
    PROVE  AheadOf(f, c, m)'
<1> SUFFICES ASSUME Owes(f, c)' PROVE \E e \in Nat : Before(f, c, m, e)'
  BY Zenon DEF AheadOf
<1>1. PICK l \in Nat, s \in Nat :
          /\ s = Len(stack[c]) /\ Load(c) = l + s /\ l + s \in Nat
          /\ Quiet(F, c) => Load(c)' = l + s
          /\ Adds(F, c) => Load(c)' = l + s + 1
          /\ Takes(F, c) => Load(c)' = l + s
          /\ Advances(F, c) => Load(c)' = l + s - 1
  BY Sizes
<1>2. PICK e \in Nat : Before(f, c, m, e)
  BY OwesKept DEF AheadOf
<1>3. /\ e <= l + s /\ (OwedTop(f, c) => s <= e)
      /\ \A i \in Nat : OwedAt(f, c, i) => s + i <= e
  BY <1>1, <1>2 DEF Before
<1>4. PICK n \in Counters : n = remove[c] /\ Gap(m, n, e)
  BY <1>2 DEF TypeOK, Counters, Before
<1>5. ASSUME NEW k \in Nat, NEW y, NEW j, NEW t, y = remove'[c], Load(c)' = j,
             t = Len(stack'[c]), Gap(m, y, k), k <= j, OwedTop(f, c)' => t <= k,
             \A i \in Nat : OwedAt(f, c, i)' => t + i <= k
      PROVE  \E x \in Nat : Before(f, c, m, x)'
  <2>1. Before(f, c, m, k)'
    BY <1>5 DEF Before, Gap
  <2> QED
    BY <2>1
<1>6. CASE Quiet(F, c) \/ Adds(F, c)
  <2>1. remove'[c] = n /\ Len(stack'[c]) = s /\ Keeps(F, c)
    BY <1>1, <1>4, <1>6 DEF Quiet, Adds
  <2>2. (OwedTop(f, c)' => s <= e) /\ \A i \in Nat : OwedAt(f, c, i)' => s + i <= e
    BY <1>3, <2>1 DEF Keeps
  <2>3. PICK j \in Nat : Load(c)' = j /\ e <= j
    BY <1>1, <1>3, <1>6
  <2> QED
    BY <1>4, <1>5, <2>1, <2>2, <2>3
<1>7. CASE Takes(F, c)
  <2>1. remove'[c] = n /\ Len(stack'[c]) = s + 1 /\ Shifts(F, c) /\ Load(c)' = l + s
    BY <1>1, <1>4, <1>7 DEF Takes
  <2>2. OwedTop(f, c)' => s + 1 <= e
    BY <1>3, <2>1 DEF Shifts
  <2>3. ASSUME NEW i \in Nat, OwedAt(f, c, i)' PROVE s + 1 + i <= e
    <3>1. OwedAt(f, c, i + 1)
      BY <2>1, <2>3 DEF Shifts
    <3>2. s + (i + 1) <= e
      BY <1>3, <3>1
    <3> QED
      BY <3>2
  <2> QED
    BY <1>3, <1>4, <1>5, <2>1, <2>2, <2>3
<1>8. CASE Advances(F, c)
  <2>1. remove'[c] = Inc(n) /\ Len(stack'[c]) = s /\ Shifts(F, c) /\ Load(c)' = l + s - 1
    BY <1>1, <1>4, <1>8 DEF Advances
  <2>2. OwedTop(f, c)' => s + 1 <= e
    BY <1>3, <2>1 DEF Shifts
  <2>3. ASSUME NEW i \in Nat, OwedAt(f, c, i)' PROVE s + i + 1 <= e
    <3>1. OwedAt(f, c, i + 1)
      BY <2>1, <2>3 DEF Shifts
    <3>2. s + (i + 1) <= e
      BY <1>3, <3>1
    <3> QED
      BY <3>2
  <2>4. e > 0
    <3>1. OwedTop(f, c)' \/ \E i \in Nat : OwedAt(f, c, i)'
      BY DEF Owes
    <3>2. CASE OwedTop(f, c)'
      BY <2>2, <3>2
    <3>3. CASE \E i \in Nat : OwedAt(f, c, i)'
      BY <2>3, <3>3
    <3> QED
      BY <3>1, <3>2, <3>3
  <2>5. PICK k \in Nat : k = e - 1 /\ k <= l + s - 1
    BY <1>3, <2>4
  <2>6. Gap(m, Inc(n), k)
    BY <1>4, <2>4, <2>5, GapLess
  <2>7. OwedTop(f, c)' => s <= k
    BY <2>2, <2>5
  <2>8. \A i \in Nat : OwedAt(f, c, i)' => s + i <= k
    BY <2>3, <2>5
  <2> QED
    BY <1>5, <2>1, <2>5, <2>6, <2>7, <2>8
<1>9. CASE Empties(F, c)
  BY <1>9 DEF Empties, Clears, Owes
<1> QED
  BY <1>6, <1>7, <1>8, <1>9 DEF Counted

\* A flush that has just sampled insert_sequence has all of them before it.
LEMMA AheadSample ==
    ASSUME TypeOK, OwnInv, RoomInv, NEW c \in CPU, NEW f \in Flusher, Balanced(c)
    PROVE  AheadOf(f, c, insert[c])
<1>1. PICK l \in Nat, s \in Nat : l = Len(list[c]) /\ s = Len(stack[c]) /\ Load(c) = l + s /\ l + s \in Nat
  BY Sizes
<1>2. \A i \in DOMAIN list[c] : i \in 1..l
  BY <1>1 DEF TypeOK
<1>3. PICK k \in Nat : k = l + s
  BY <1>1
<1>4. \A i \in Nat : OwedAt(f, c, i) => s + i <= k
  <2> SUFFICES ASSUME NEW i \in Nat, OwedAt(f, c, i) PROVE s + i <= k
    OBVIOUS
  <2>1. i \in 1..l
    BY <1>2 DEF OwedAt
  <2> QED
    BY <1>3, <2>1
<1>5. s <= k /\ k <= k
  BY <1>3
<1>6. Before(f, c, insert[c], k)
  BY <1>1, <1>3, <1>4, <1>5 DEF Before, Balanced
<1> QED
  BY <1>6 DEF AheadOf

\* As long as c owes anything to f, such a sequence is not reached.
LEMMA AheadWaits ==
    ASSUME TypeOK, OwnInv, RoomInv, NEW c \in CPU, NEW f \in Flusher, NEW m \in Counters,
           AheadOf(f, c, m), Owes(f, c)
    PROVE  Behind(m, c)
<1>1. PICK s \in Nat : s = Len(stack[c]) /\ Load(c) \in Nat /\ Load(c) < SeqRange \div 2
  BY LoadBound
<1>2. PICK e \in Nat : Before(f, c, m, e)
  BY DEF AheadOf
<1>3. e <= Load(c) /\ Gap(m, remove[c], e)
  BY <1>2 DEF Before
<1>4. e > 0
  <2>1. CASE OwedTop(f, c)
    <3>1. s > 0 /\ s <= e
      BY <1>1, <1>2, <2>1 DEF OwedTop, Before
    <3> QED
      BY <3>1
  <2>2. CASE \E i \in Nat : OwedAt(f, c, i)
    <3>1. PICK i \in Nat : OwedAt(f, c, i)
      BY <2>2
    <3>2. s + i <= e
      BY <1>1, <1>2, <3>1 DEF Before
    <3>3. i \in 1..Len(list[c]) /\ Len(list[c]) \in Nat
      BY <3>1 DEF OwedAt, TypeOK
    <3>4. i > 0
      BY <3>3
    <3> QED
      BY <3>2, <3>4
  <2> QED
    BY <2>1, <2>2 DEF Owes
<1>5. e < SeqRange \div 2
  <2>1. SeqRange \div 2 \in Nat
    BY RangeFacts
  <2>2. PICK k \in Nat : k = Load(c)
    BY <1>1
  <2> QED
    BY <1>1, <1>3, <2>1, <2>2
<1>6. remove[c] \in Counters
  BY DEF TypeOK, Counters
<1>7. Ahead(m, remove[c])
  BY <1>3, <1>4, <1>5, <1>6, GapAhead
<1> QED
  BY <1>7, BehindAhead

LEMMA QuietSteady ==
    ASSUME TypeOK, NEW c \in CPU, Steady(c), NoNewDebt(c), list'[c] = list[c],
           insert'[c] = insert[c], remove'[c] = remove[c]
    PROVE  Quiet(Flusher, c)
<1>1. PICK n \in Nat : n = Len(stack[c]) /\ DOMAIN stack[c] = 1..n
  BY FrameType
<1>2. Len(stack'[c]) = n
  BY <1>1 DEF Steady
<1>3. ASSUME NEW f \in Flusher, OwedTop(f, c)' PROVE OwedTop(f, c)
  <2>1. n > 0 /\ f \in stack'[c][n].owed /\ stack'[c][n].fl.stage = "none"
    BY <1>2, <1>3 DEF OwedTop
  <2>2. n \in DOMAIN stack[c]
    BY <1>1, <2>1
  <2>3. f \in stack[c][n].owed /\ stack[c][n].fl.stage = "none"
    BY <2>1, <2>2 DEF Steady, NoNewDebt
  <2> QED
    BY <1>1, <2>1, <2>3 DEF OwedTop
<1>4. \A f \in Flusher : \A i \in Nat : OwedAt(f, c, i)' => OwedAt(f, c, i)
  BY DEF OwedAt
<1>5. Keeps(Flusher, c)
  BY <1>3, <1>4 DEF Keeps
<1>6. Len(list'[c]) = Len(list[c]) /\ Len(stack'[c]) = Len(stack[c])
  BY <1>1, <1>2
<1> QED
  BY <1>5, <1>6 DEF Quiet

LEMMA ShiftsTakes ==
    ASSUME TypeOK, NEW c \in CPU, NEW k, TakesHead(c, k)
    PROVE  /\ Shifts(Flusher, c) /\ Len(list'[c]) = Len(list[c]) - 1 /\ Len(list[c]) > 0
           /\ \A d \in CPU : d # c => list'[d] = list[d]
<1>1. list[c] \in Seq(Entry) /\ list[c] # <<>> /\ list' = [list EXCEPT ![c] = Tail(list[c])]
  BY DEF TypeOK, TakesHead
<1>2. list'[c] = Tail(list[c]) /\ \A d \in CPU : d # c => list'[d] = list[d]
  BY <1>1 DEF TypeOK
<1>3. PICK l \in Nat : l = Len(list[c])
  BY <1>1
<1>4. /\ l > 0 /\ Head(list[c]) = list[c][1] /\ DOMAIN list[c] = 1..l
      /\ Len(list'[c]) = l - 1 /\ \A i \in 1..l-1 : list'[c][i] = list[c][i + 1]
  <2>1. PICK q \in Seq(Entry) : q = list[c] /\ q # <<>> /\ Len(q) = l
    BY <1>1, <1>3
  <2>2. DOMAIN q = 1..l
    BY <2>1
  <2>3. /\ l > 0 /\ Head(q) = q[1] /\ Len(Tail(q)) = l - 1
        /\ \A i \in 1..l-1 : Tail(q)[i] = q[i + 1]
    BY <2>1, TailFacts
  <2> QED
    BY <1>2, <2>1, <2>2, <2>3
<1>5. DOMAIN list'[c] = 1..l-1
  <2>1. Tail(list[c]) \in Seq(Entry)
    BY <1>1, TailFacts
  <2> QED
    BY <1>2, <1>4, <2>1
<1>6. ASSUME NEW f \in Flusher, OwedTop(f, c)' PROVE OwedAt(f, c, 1)
  <2>1. k = Len(stack'[c]) /\ stack'[c][k].owed = Head(list[c]).owed
    BY DEF TakesHead
  <2>2. f \in stack'[c][k].owed
    BY <1>6, <2>1 DEF OwedTop
  <2>3. 1 \in DOMAIN list[c]
    BY <1>4
  <2> QED
    BY <1>4, <2>1, <2>2, <2>3 DEF OwedAt
<1>7. ASSUME NEW f \in Flusher, NEW i \in Nat, OwedAt(f, c, i)' PROVE OwedAt(f, c, i + 1)
  <2>1. i \in 1..l-1 /\ f \in list'[c][i].owed
    BY <1>5, <1>7 DEF OwedAt
  <2>2. i + 1 \in DOMAIN list[c]
    BY <1>4, <2>1
  <2> QED
    BY <1>4, <2>1, <2>2 DEF OwedAt
<1>8. Shifts(Flusher, c)
  BY <1>6, <1>7 DEF Shifts
<1> QED
  BY <1>2, <1>3, <1>4, <1>8

LEMMA ClearsBack ==
    ASSUME NEW c \in CPU, NEW k, BackTo(c, k)
    PROVE  Clears(Flusher, c) /\ list' = list
<1>1. list' = list /\ list[c] = <<>> /\ Len(stack'[c]) = k /\ (k > 0 => stack'[c][k].fl.stage = "loop")
  BY DEF BackTo
<1>2. DOMAIN list'[c] = {}
  BY <1>1
<1>3. \A f \in Flusher : \A i \in Nat : ~OwedAt(f, c, i)'
  BY <1>2 DEF OwedAt
<1>4. \A f \in Flusher : ~OwedTop(f, c)'
  BY <1>1 DEF OwedTop
<1> QED
  BY <1>1, <1>3, <1>4 DEF Clears

LEMMA CountedWorker ==
    ASSUME TypeOK, Nested, NEW c \in CPU, WorkerOf(c), Worker(c), NEW d \in CPU
    PROVE  Counted(Flusher, d)
<1>1. insert' = insert
  BY DEF Worker, WorkerSet, WorkerTest, WorkerCheck, WorkerWakes, WorkerResume, ClearPending,
         CallFlush, FinishWork, FlushSelf
<1>2. PICK n : n = Len(stack[c])
  OBVIOUS
<1>3. n \in Nat
  BY <1>2, FrameType
<1>4. CASE GoesOn
  <2>1. Quiet(Flusher, d)
    BY <1>1, <1>4, QuietSteady DEF GoesOn
  <2> QED
    BY <2>1 DEF Counted
<1>5. CASE Enters(c, n)
  <2>1. TakesHead(c, n + 1) /\ OthersSteady(c) /\ remove' = remove /\ Len(stack'[c]) = n + 1
    BY <1>5 DEF Enters, TakesHead
  <2>2. /\ Shifts(Flusher, c) /\ Len(list'[c]) = Len(list[c]) - 1
        /\ \A b \in CPU : b # c => list'[b] = list[b]
    BY <2>1, ShiftsTakes
  <2>3. CASE d = c
    BY <1>1, <1>2, <2>1, <2>2, <2>3 DEF Counted, Takes
  <2>4. CASE d # c
    <3>1. Quiet(Flusher, d)
      BY <1>1, <2>1, <2>2, <2>4, QuietSteady DEF OthersSteady
    <3> QED
      BY <3>1 DEF Counted
  <2> QED
    BY <2>3, <2>4
<1>6. CASE FinishWork(c)
  <2>1. /\ OthersSteady(c) /\ n > 0
        /\ TakesHead(c, n) \/ BackTo(c, n - 1)
    BY <1>2, <1>6, FinishShape
  <2>2. remove' = [remove EXCEPT ![c] = Inc(remove[c])]
    BY <1>6 DEF FinishWork
  <2>3. remove'[c] = Inc(remove[c]) /\ \A b \in CPU : b # c => remove'[b] = remove[b]
    BY <2>2 DEF TypeOK
  <2>4. \A b \in CPU : b # c => list'[b] = list[b]
    BY <2>1, ShiftsTakes, ClearsBack
  <2>5. CASE d # c
    <3>1. Quiet(Flusher, d)
      BY <1>1, <2>1, <2>3, <2>4, <2>5, QuietSteady DEF OthersSteady
    <3> QED
      BY <3>1 DEF Counted
  <2>6. CASE d = c /\ TakesHead(c, n)
    <3>1. /\ Shifts(Flusher, c) /\ Len(list'[c]) = Len(list[c]) - 1 /\ Len(list[c]) > 0
          /\ Len(stack'[c]) = n
      BY <2>6, ShiftsTakes DEF TakesHead
    <3>2. Advances(Flusher, c)
      BY <1>1, <1>2, <2>3, <3>1 DEF Advances
    <3> QED
      BY <2>6, <3>2 DEF Counted
  <2>7. CASE d = c /\ BackTo(c, n - 1)
    <3>1. Clears(Flusher, c) /\ list' = list /\ Len(stack'[c]) = n - 1
      BY <2>7, ClearsBack DEF BackTo
    <3>2. Empties(Flusher, c)
      BY <1>1, <1>2, <2>1, <2>3, <3>1 DEF Empties
    <3> QED
      BY <2>7, <3>2 DEF Counted
  <2> QED
    BY <2>1, <2>5, <2>6, <2>7
<1> QED
  BY <1>2, <1>4, <1>5, <1>6, WorkerShape

\* __queue_work.
LEMMA CountedQueue ==
    ASSUME TypeOK, NEW w \in Work, NEW c \in CPU, DoQueueWork(w, c), NEW d \in CPU
    PROVE  Counted(Flusher, d)
<1>1. PICK e : e = [work |-> w, owed |-> {}]
  OBVIOUS
<1>2. e \in Entry /\ e.owed = {}
  BY <1>1 DEF Entry
<1>3. /\ list' = [list EXCEPT ![c] = Append(list[c], e)]
      /\ insert' = [insert EXCEPT ![c] = Inc(insert[c])]
      /\ remove' = remove /\ stack' = stack
  BY <1>1 DEF DoQueueWork, AddTail
<1>4. /\ list'[c] = Append(list[c], e) /\ insert'[c] = Inc(insert[c])
      /\ \A b \in CPU : b # c => list'[b] = list[b] /\ insert'[b] = insert[b]
  BY <1>3 DEF TypeOK
<1>5. CASE d # c
  <2>1. Quiet(Flusher, d)
    BY <1>3, <1>4, <1>5, SteadySame, QuietSteady
  <2> QED
    BY <2>1 DEF Counted
<1>6. CASE d = c
  <2>1. list[c] \in Seq(Entry)
    BY DEF TypeOK
  <2>2. PICK l \in Nat : l = Len(list[c]) /\ DOMAIN list[c] = 1..l
    BY <2>1
  <2>3. /\ Len(list'[c]) = l + 1 /\ DOMAIN list'[c] = 1..l+1 /\ list'[c][l + 1] = e
        /\ \A i \in 1..l : list'[c][i] = list[c][i]
    BY <1>2, <1>4, <2>1, <2>2, PushFacts
  <2>4. ASSUME NEW f \in Flusher, NEW i \in Nat, OwedAt(f, c, i)' PROVE OwedAt(f, c, i)
    <3>1. i \in 1..l+1 /\ f \in list'[c][i].owed
      BY <2>3, <2>4 DEF OwedAt
    <3>2. i # l + 1
      BY <1>2, <2>3, <3>1
    <3>3. i \in 1..l
      BY <3>1, <3>2
    <3> QED
      BY <2>2, <2>3, <3>1, <3>3 DEF OwedAt
  <2>5. \A f \in Flusher : OwedTop(f, c)' => OwedTop(f, c)
    BY <1>3 DEF OwedTop
  <2>6. Keeps(Flusher, c)
    BY <2>4, <2>5 DEF Keeps
  <2>7. Adds(Flusher, c)
    BY <1>3, <1>4, <2>2, <2>3, <2>6 DEF Adds
  <2> QED
    BY <1>6, <2>7 DEF Counted
<1> QED
  BY <1>5, <1>6

-----------------------------------------------------------------------------
(* What flush_workqueue waits for *)

\* The queue of c is in use: c is online, or CPU_UP_PREPARE has just initialised it.
Live(c) == c \in online \/ (hp.stage = "prepared" /\ hp.cpu = c)

CountInv == \A c \in CPU : Live(c) => Balanced(c)

\* Only a flush that holds off CPU hotplug has CPUs to go to, and they are online.
TodoInv ==
    \A f \in Flusher : /\ Holds(flush[f]) \/ flush[f].todo = {}
                       /\ flush[f].todo \subseteq online

\* What is owed to a flush is on a CPU that it has not gone past ...
DebtInv == \A f \in Flusher, c \in CPU : Owes(f, c) => c \in flush[f].todo

\* ... and before the sequence it waits for.
Awaits(r) == r.stage \in {"wait", "woken"}
AheadInv ==
    \A f \in Flusher, c \in CPU :
        Awaits(flush[f]) /\ c = Min(flush[f].todo) => AheadOf(f, c, flush[f].needed)

FlushInv == CountInv /\ TodoInv /\ DebtInv /\ AheadInv

\* A step that leaves the flush of f where it is; wake_up may move it on.
SameCall(f) ==
    /\ flush'[f].todo = flush[f].todo
    /\ Holds(flush[f]) => Holds(flush'[f]) \/ flush[f].todo = {}
    /\ Awaits(flush'[f]) => Awaits(flush[f]) /\ flush'[f].needed = flush[f].needed

LEMMA SameCalls ==
    ASSUME flush' = flush
    PROVE  \A f \in Flusher : SameCall(f)
  BY DEF SameCall, Awaits, Holds

\* No CPU comes into use and none goes offline.
SameCpus == online \subseteq online' /\ \A c \in CPU : Live(c)' => Live(c)

LEMMA SameLive ==
    ASSUME online' = online, hp' = hp
    PROVE  SameCpus
  BY DEF SameCpus, Live

LEMMA NeededType ==
    ASSUME TypeOK, NEW f \in Flusher
    PROVE  flush[f] \in FlushCall /\ flush[f].needed \in Counters /\ flush[f].todo \in SUBSET CPU
<1>1. flush[f] \in FlushCall
  BY DEF TypeOK
<1> QED
  BY <1>1, FlushFacts DEF Counters

\* The parts of the invariant for one flush: g is the call of f after the step.
LEMMA DebtKept ==
    ASSUME DebtInv, NEW F, NEW f \in F, f \in Flusher, \A c \in CPU : Counted(F, c),
           flush'[f].todo = flush[f].todo
    PROVE  \A c \in CPU : Owes(f, c)' => c \in flush'[f].todo
<1>1. ASSUME NEW c \in CPU, Owes(f, c)' PROVE c \in flush'[f].todo
  <2>1. Owes(f, c)
    BY <1>1, OwesKept
  <2> QED
    BY <2>1 DEF DebtInv
<1> QED
  BY <1>1

LEMMA WaitKept ==
    ASSUME TypeOK, OwnInv, RoomInv, AheadInv, NEW F, NEW f \in F, f \in Flusher,
           \A c \in CPU : Counted(F, c), SameCall(f), Awaits(flush'[f]),
           NEW c \in CPU, c = Min(flush'[f].todo)
    PROVE  AheadOf(f, c, flush[f].needed)'
<1>1. PICK m \in Counters : m = flush[f].needed
  BY NeededType
<1>2. flush'[f].needed = m /\ Awaits(flush[f]) /\ c = Min(flush[f].todo)
  BY <1>1 DEF SameCall
<1>3. AheadOf(f, c, m)
  BY <1>1, <1>2 DEF AheadInv
<1>4. AheadOf(f, c, m)'
  BY <1>3, AheadKept
<1> QED
  BY <1>2, <1>4 DEF AheadOf, Before

LEMMA CountKept ==
    ASSUME TypeOK, OwnInv, RoomInv, CountInv, NEW F, \A c \in CPU : Counted(F, c), SameCpus
    PROVE  CountInv'
<1>1. ASSUME NEW c \in CPU, Live(c)' PROVE Balanced(c)'
  <2>1. Balanced(c)
    BY <1>1 DEF SameCpus, CountInv
  <2> QED
    BY <2>1, BalancedKept
<1> QED
  BY <1>1 DEF CountInv

LEMMA TodoKept ==
    ASSUME TodoInv, NEW f \in Flusher, SameCall(f), online \subseteq online'
    PROVE  (Holds(flush'[f]) \/ flush'[f].todo = {}) /\ flush'[f].todo \subseteq online'
  BY DEF TodoInv, SameCall

\* A step that leaves every flush where it is.
LEMMA FlushKept ==
    ASSUME TypeOK, OwnInv, RoomInv, FlushInv, \A c \in CPU : Counted(Flusher, c),
           \A f \in Flusher : SameCall(f), SameCpus
    PROVE  FlushInv'
<1>1. CountInv /\ TodoInv /\ DebtInv /\ AheadInv /\ online \subseteq online'
  BY DEF FlushInv, SameCpus
<1>2. CountInv'
  BY <1>1, CountKept
<1>3. TodoInv'
  <2>1. \A f \in Flusher : /\ Holds(flush'[f]) \/ flush'[f].todo = {}
                           /\ flush'[f].todo \subseteq online'
    BY <1>1, TodoKept
  <2> QED
    BY <2>1 DEF TodoInv, Holds
<1>4. DebtInv'
  <2>1. \A f \in Flusher : \A c \in CPU : Owes(f, c)' => c \in flush'[f].todo
    BY <1>1, DebtKept DEF SameCall
  <2> QED
    BY <2>1 DEF DebtInv
<1>5. AheadInv'
  <2>1. \A f \in Flusher : \A c \in CPU :
            Awaits(flush'[f]) /\ c = Min(flush'[f].todo) => AheadOf(f, c, flush[f].needed)'
    BY <1>1, WaitKept
  <2> QED
    BY <2>1 DEF AheadInv, Awaits
<1> QED
  BY <1>2, <1>3, <1>4, <1>5 DEF FlushInv

\* A step that leaves the queues and the stacks alone.
LEMMA CountedSame ==
    ASSUME TypeOK, list' = list, insert' = insert, remove' = remove, stack' = stack
    PROVE  \A c \in CPU : Counted(Flusher, c)
  BY SteadySame, QuietSteady DEF Counted

LEMMA CallWoken ==
    ASSUME TypeOK, NEW c \in CPU, WakeFlushers(c)
    PROVE  \A f \in Flusher : SameCall(f)
<1> SUFFICES ASSUME NEW f \in Flusher PROVE SameCall(f)
  OBVIOUS
<1>1. flush[f] \in FlushCall /\ flush'[f] = WakeCall(flush[f], c)
  BY DEF TypeOK, WakeFlushers
<1>2. PICK x : x = WakeCall(flush[f], c)
  OBVIOUS
<1>3. /\ x.todo = flush[f].todo /\ x.needed = flush[f].needed
      /\ Holds(flush[f]) => Holds(x)
  BY <1>1, <1>2, WakeCallFacts, WakeHolds
<1>4. Awaits(x) => Awaits(flush[f])
  <2>1. CASE flush[f].stage = "wait" /\ Min(flush[f].todo) = c
    BY <2>1 DEF Awaits
  <2>2. CASE ~(flush[f].stage = "wait" /\ Min(flush[f].todo) = c)
    BY <1>1, <1>2, <2>2, WakeCallFacts
  <2> QED
    BY <2>1, <2>2
<1> QED
  BY <1>1, <1>2, <1>3, <1>4 DEF SameCall

LEMMA FlushWorker ==
    ASSUME TypeOK, LockInv, HotInv, OwnInv, RoomInv, FlushInv, NEW c \in CPU, Worker(c)
    PROVE  FlushInv'
<1>1. \A d \in CPU : Counted(Flusher, d)
  BY CountedWorker DEF LockInv, HotInv
<1>2. online' = online /\ hp' = hp
  BY DEF Worker, WorkerSet, WorkerTest, WorkerCheck, WorkerWakes, WorkerResume, ClearPending,
         CallFlush, FinishWork, FlushSelf
<1>3. CASE FinishWork(c)
  BY <1>1, <1>2, <1>3, CallWoken, SameLive, FlushKept DEF FinishWork
<1>4. CASE ~FinishWork(c)
  <2>1. PICK n : n = Len(stack[c])
    OBVIOUS
  <2>2. GoesOn \/ Enters(c, n)
    BY <1>4, <2>1, WorkerShape DEF HotInv
  <2>3. flush' = flush
    BY <2>2 DEF GoesOn, Enters
  <2> QED
    BY <1>1, <1>2, <2>3, SameCalls, SameLive, FlushKept
<1> QED
  BY <1>3, <1>4

LEMMA FlushQueue ==
    ASSUME TypeOK, OwnInv, RoomInv, FlushInv, NEW w \in Work, NEW c \in CPU,
           \/ QueueWork(w, c) \/ QueueDelayedWork(w, c) \/ DelayedWorkTimer(w, c)
           \/ CancelDelayedWork(w, c) \/ CancelClear(w, c) \/ DoQueueWork(w, c)
    PROVE  FlushInv'
<1>1. online' = online /\ hp' = hp /\ flush' = flush
  BY DEF QueueWork, QueueDelayedWork, DelayedWorkTimer, CancelDelayedWork, CancelClear, DoQueueWork
<1>2. \A d \in CPU : Counted(Flusher, d)
  <2>1. CASE DoQueueWork(w, c)
    BY <2>1, CountedQueue
  <2>2. CASE ~DoQueueWork(w, c)
    <3>1. list' = list /\ insert' = insert /\ remove' = remove /\ stack' = stack
      BY <2>2 DEF QueueWork, QueueDelayedWork, DelayedWorkTimer, CancelDelayedWork, CancelClear
    <3> QED
      BY <3>1, CountedSame
  <2> QED
    BY <2>1, <2>2
<1> QED
  BY <1>1, <1>2, SameCalls, SameLive, FlushKept

\* A step that replaces the flush call of f by x.
LEMMA CallSet ==
    ASSUME TypeOK, NEW f \in Flusher, NEW x, flush' = [flush EXCEPT ![f] = x]
    PROVE  flush'[f] = x /\ \A g \in Flusher : g # f => SameCall(g)
<1>1. flush'[f] = x /\ \A g \in Flusher : g # f => flush'[g] = flush[g]
  BY DEF TypeOK
<1>2. \A g \in Flusher : flush'[g] = flush[g] => SameCall(g)
  BY DEF SameCall
<1> QED
  BY <1>1, <1>2

LEMMA FlushStarted ==
    ASSUME TypeOK, OwnInv, RoomInv, FlushInv, NEW f \in Flusher, FlushStart(f)
    PROVE  FlushInv'
<1>1. /\ list' = list /\ insert' = insert /\ remove' = remove /\ stack' = stack
      /\ online' = online /\ hp' = hp /\ flush[f].stage = "none"
      /\ flush' = [flush EXCEPT ![f].stage = "lock"]
  BY DEF FlushStart
<1>2. PICK x : x = [flush[f] EXCEPT !.stage = "lock"]
  OBVIOUS
<1>3. flush[f] \in FlushCall /\ "lock" \in FlushStages
  BY NeededType DEF FlushStages
<1>4. x.stage = "lock" /\ x.todo = flush[f].todo
  BY <1>2, <1>3, FlushFacts
<1>5. flush' = [flush EXCEPT ![f] = x]
  BY <1>1, <1>2 DEF TypeOK
<1>6. SameCall(f)
  BY <1>1, <1>4, <1>5, CallSet DEF SameCall, Holds, Awaits
<1>7. \A g \in Flusher : SameCall(g)
  BY <1>5, <1>6, CallSet
<1> QED
  BY <1>1, <1>7, CountedSame, SameLive, FlushKept

\* Steps of a flush that change neither what is queued nor what is owed.
LEMMA CountedFlush ==
    ASSUME TypeOK, NEW t \in Flusher \cup CPU, Flush(t), ~(FlushLock(t) /\ t \notin CPU)
    PROVE  (\A c \in CPU : Counted(Flusher, c)) /\ SameCpus
<1>1. /\ insert' = insert /\ remove' = remove /\ online' = online /\ hp' = hp /\ list' = list
      /\ \A d \in CPU : Steady(d) /\ NoNewDebt(d)
  BY FlushShape
<1>2. \A c \in CPU : Quiet(Flusher, c)
  BY <1>1, QuietSteady
<1> QED
  BY <1>1, <1>2, SameLive DEF Counted

\* The flush of a worker.
LEMMA FlushByWorker ==
    ASSUME TypeOK, OwnInv, RoomInv, FlushInv, NEW t \in CPU, Flush(t)
    PROVE  FlushInv'
<1>1. flush' = flush
  <2>1. t \notin Flusher
    BY ThreadAssumption
  <2> QED
    BY <2>1 DEF Flush, FlushLock, FlushCpu, FlushRetry, FlushReturn, FlushWait, SetFlush
<1> QED
  BY <1>1, CountedFlush, SameCalls, FlushKept

\* A Flusher returns from flush_workqueue.
LEMMA FlushReturned ==
    ASSUME TypeOK, OwnInv, RoomInv, FlushInv, NEW f \in Flusher, FlushReturn(f)
    PROVE  FlushInv'
<1>1. f \notin CPU /\ FlushOf(f) = flush[f]
  BY ThreadAssumption DEF FlushOf
<1>2. flush[f].todo = {} /\ flush' = [flush EXCEPT ![f] = NoFlush]
  BY <1>1 DEF FlushReturn, SetFlush
<1>3. NoFlush.todo = {} /\ NoFlush.stage = "none"
  BY DEF NoFlush
<1>4. SameCall(f)
  BY <1>2, <1>3, CallSet DEF SameCall, Holds, Awaits
<1>5. \A g \in Flusher : SameCall(g)
  BY <1>2, <1>4, CallSet
<1>6. ~FlushLock(f)
  <2>1. FlushOf(f).stage = "loop"
    BY DEF FlushReturn
  <2> QED
    BY <2>1 DEF FlushLock
<1> QED
  BY <1>5, <1>6, CountedFlush, FlushKept DEF Flush

\* flush_cpu_workqueue, with sequence_needed m: f sleeps, or goes past the CPU.
LEMMA FlushWaitIs ==
    ASSUME NEW f \in Flusher, NEW r \in FlushCall, FlushWait(f, r)
    PROVE  \E x \in FlushCall :
              /\ flush' = [flush EXCEPT ![f] = x]
              /\ \/ x.stage = "wait" /\ x.todo = r.todo /\ x.needed = r.needed
                 \/ /\ x.stage = "loop" /\ x.todo = r.todo \ {Min(r.todo)}
                    /\ ~Behind(r.needed, Min(r.todo))
<1>1. "wait" \in FlushStages /\ "loop" \in FlushStages /\ f \notin CPU
  BY ThreadAssumption DEF FlushStages
<1>2. CASE Behind(r.needed, Min(r.todo))
  <2>1. PICK x : x = [r EXCEPT !.stage = "wait"]
    OBVIOUS
  <2>2. x \in FlushCall /\ x.stage = "wait" /\ x.todo = r.todo /\ x.needed = r.needed
    BY <1>1, <2>1 DEF FlushCall
  <2>3. flush' = [flush EXCEPT ![f] = x]
    BY <1>1, <1>2, <2>1 DEF FlushWait, SetFlush
  <2> QED
    BY <2>2, <2>3
<1>3. CASE ~Behind(r.needed, Min(r.todo))
  <2>1. PICK x : x = [r EXCEPT !.stage = "loop", !.todo = r.todo \ {Min(r.todo)}]
    OBVIOUS
  <2>2. r.todo \ {Min(r.todo)} \in SUBSET CPU
    BY FlushFacts
  <2>3. x \in FlushCall /\ x.stage = "loop" /\ x.todo = r.todo \ {Min(r.todo)}
    BY <1>1, <2>1, <2>2 DEF FlushCall
  <2>4. flush' = [flush EXCEPT ![f] = x]
    BY <1>1, <1>3, <2>1 DEF FlushWait, SetFlush
  <2> QED
    BY <1>3, <2>3, <2>4
<1> QED
  BY <1>2, <1>3

\* f sleeps or goes past CPU d: nothing owed to it is left behind, because the sequence m
\* that has been reached was ahead of all of it.
LEMMA FlushGoes ==
    ASSUME TypeOK, OwnInv, RoomInv, FlushInv, NEW f \in Flusher, NEW r \in FlushCall,
           FlushWait(f, r), r.todo = flush[f].todo, Holds(flush[f]),
           \A c \in CPU : c = Min(r.todo) => AheadOf(f, c, r.needed),
           \A c \in CPU : Counted(Flusher, c), SameCpus
    PROVE  FlushInv'
<1>1. CountInv /\ TodoInv /\ DebtInv /\ AheadInv /\ online \subseteq online'
  BY DEF FlushInv, SameCpus
<1>2. PICK x \in FlushCall :
          /\ flush' = [flush EXCEPT ![f] = x]
          /\ \/ x.stage = "wait" /\ x.todo = r.todo /\ x.needed = r.needed
             \/ /\ x.stage = "loop" /\ x.todo = r.todo \ {Min(r.todo)}
                /\ ~Behind(r.needed, Min(r.todo))
  BY FlushWaitIs
<1>3. flush'[f] = x /\ \A g \in Flusher : g # f => SameCall(g)
  BY <1>2, CallSet
<1>4. CountInv'
  BY <1>1, CountKept
<1>5. TodoInv'
  <2>1. Holds(x) /\ x.todo \subseteq online'
    BY <1>1, <1>2 DEF TodoInv, Holds
  <2>2. \A g \in Flusher : /\ Holds(flush'[g]) \/ flush'[g].todo = {}
                           /\ flush'[g].todo \subseteq online'
    BY <1>1, <1>3, <2>1, TodoKept
  <2> QED
    BY <2>2 DEF TodoInv, Holds
<1>6. PICK m \in Counters : m = r.needed
  BY FlushFacts DEF Counters
<1>7. ASSUME NEW c \in CPU, Owes(f, c)' PROVE c \in x.todo
  <2>1. Owes(f, c)
    BY <1>7, OwesKept
  <2>2. c \in r.todo
    BY <1>1, <2>1 DEF DebtInv
  <2>3. CASE c = Min(r.todo)
    <3>1. Behind(m, c)
      BY <1>6, <2>1, <2>3, AheadWaits
    <3> QED
      BY <1>2, <1>6, <2>2, <2>3, <3>1
  <2>4. CASE c # Min(r.todo)
    BY <1>2, <2>2, <2>4
  <2> QED
    BY <2>3, <2>4
<1>8. DebtInv'
  <2>1. \A g \in Flusher : g # f => \A c \in CPU : Owes(g, c)' => c \in flush'[g].todo
    BY <1>1, <1>3, DebtKept DEF SameCall
  <2>2. \A g \in Flusher : \A c \in CPU : Owes(g, c)' => c \in flush'[g].todo
    BY <1>3, <1>7, <2>1
  <2> QED
    BY <2>2 DEF DebtInv
<1>9. ASSUME NEW c \in CPU, Awaits(x), c = Min(x.todo) PROVE AheadOf(f, c, flush[f].needed)'
  <2>1. c = Min(r.todo) /\ flush'[f].needed = m
    BY <1>2, <1>3, <1>6, <1>9 DEF Awaits
  <2>2. AheadOf(f, c, m)'
    BY <1>6, <2>1, AheadKept
  <2> QED
    BY <2>1, <2>2 DEF AheadOf, Before
<1>10. AheadInv'
  <2>1. \A g \in Flusher : g # f => \A c \in CPU :
            Awaits(flush'[g]) /\ c = Min(flush'[g].todo) => AheadOf(g, c, flush[g].needed)'
    BY <1>1, <1>3, WaitKept
  <2>2. \A g \in Flusher : \A c \in CPU :
            Awaits(flush'[g]) /\ c = Min(flush'[g].todo) => AheadOf(g, c, flush[g].needed)'
    BY <1>3, <1>9, <2>1
  <2> QED
    BY <2>2 DEF AheadInv, Awaits
<1> QED
  BY <1>4, <1>5, <1>8, <1>10 DEF FlushInv

LEMMA FlushWaited ==
    ASSUME TypeOK, OwnInv, RoomInv, FlushInv, NEW f \in Flusher, FlushCpu(f) \/ FlushRetry(f)
    PROVE  FlushInv'
<1>1. f \notin CPU /\ FlushOf(f) = flush[f] /\ flush[f] \in FlushCall
  BY ThreadAssumption, NeededType DEF FlushOf
<1>2. (\A c \in CPU : Counted(Flusher, c)) /\ SameCpus
  <2>1. ~FlushLock(f)
    BY DEF FlushCpu, FlushRetry, FlushLock
  <2> QED
    BY <2>1, CountedFlush DEF Flush
<1>3. CASE FlushCpu(f)
  <2>1. flush[f].todo # {} /\ flush[f].todo \in SUBSET CPU /\ flush[f].stage = "loop"
    BY <1>1, <1>3, NeededType DEF FlushCpu
  <2>2. PICK d \in CPU : d = Min(flush[f].todo) /\ d \in flush[f].todo
    BY <2>1, MinInSet
  <2>3. PICK r : r = [flush[f] EXCEPT !.needed = insert[d]]
    OBVIOUS
  <2>4. insert[d] \in 0..SeqRange-1
    BY DEF TypeOK
  <2>5. r \in FlushCall /\ r.todo = flush[f].todo /\ r.needed = insert[d]
    BY <1>1, <2>3, <2>4, FlushFacts
  <2>6. FlushWait(f, r)
    BY <1>1, <1>3, <2>2, <2>3 DEF FlushCpu, Sample
  <2>7. Balanced(d)
    BY <2>2 DEF FlushInv, TodoInv, CountInv, Live
  <2>8. AheadOf(f, d, insert[d])
    BY <2>7, AheadSample
  <2>9. Holds(flush[f])
    BY <2>1 DEF Holds
  <2> QED
    BY <1>2, <2>2, <2>5, <2>6, <2>8, <2>9, FlushGoes
<1>4. CASE FlushRetry(f)
  <2>1. flush[f].stage = "woken" /\ FlushWait(f, flush[f])
    BY <1>1, <1>4 DEF FlushRetry
  <2>2. Holds(flush[f]) /\ Awaits(flush[f])
    BY <2>1 DEF Holds, Awaits
  <2>3. \A c \in CPU : c = Min(flush[f].todo) => AheadOf(f, c, flush[f].needed)
    BY <2>2 DEF FlushInv, AheadInv
  <2> QED
    BY <1>1, <1>2, <2>1, <2>2, <2>3, FlushGoes
<1> QED
  BY <1>3, <1>4

\* The other flushers when the works become owed to f.
LEMMA CountedOwe ==
    ASSUME TypeOK, NEW f \in Flusher, OweAll(f), insert' = insert, remove' = remove, NEW c \in CPU
    PROVE  /\ Counted(Flusher \ {f}, c)
           /\ Owes(f, c)' => stack[c] # <<>> \/ list[c] # <<>>
<1>1. stack[c] \in Seq(Frame) /\ list[c] \in Seq(Entry)
  BY DEF TypeOK
<1>2. PICK r, l : /\ r = Owe(f, stack[c]) /\ l = Owe(f, list[c])
                  /\ stack'[c] = r /\ list'[c] = l
  BY Zenon DEF OweAll
<1>3. /\ Len(r) = Len(stack[c]) /\ DOMAIN r = DOMAIN stack[c]
      /\ \A i \in DOMAIN stack[c] : /\ r[i].fl = stack[c][i].fl
                                    /\ r[i].owed = stack[c][i].owed \cup {f}
  BY <1>1, <1>2, OweFrames
<1>4. /\ Len(l) = Len(list[c]) /\ DOMAIN l = DOMAIN list[c]
      /\ \A i \in DOMAIN list[c] : l[i].owed = list[c][i].owed \cup {f}
  BY <1>1, <1>2, OweEntries
<1>5. PICK n \in Nat : n = Len(stack[c]) /\ DOMAIN stack[c] = 1..n
  BY FrameType
<1>6. ASSUME NEW g \in Flusher \ {f}, OwedTop(g, c)' PROVE OwedTop(g, c)
  <2>1. n > 0 /\ g \in r[n].owed /\ r[n].fl.stage = "none"
    BY <1>2, <1>3, <1>5, <1>6 DEF OwedTop
  <2>2. n \in DOMAIN stack[c]
    BY <1>5, <2>1
  <2>3. g \in stack[c][n].owed /\ stack[c][n].fl.stage = "none"
    BY <1>3, <1>6, <2>1, <2>2
  <2> QED
    BY <1>5, <2>1, <2>3 DEF OwedTop
<1>7. ASSUME NEW g \in Flusher \ {f}, NEW i \in Nat, OwedAt(g, c, i)' PROVE OwedAt(g, c, i)
  <2>1. i \in DOMAIN l /\ g \in l[i].owed
    BY <1>2, <1>7 DEF OwedAt
  <2> QED
    BY <1>4, <1>7, <2>1 DEF OwedAt
<1>8. Keeps(Flusher \ {f}, c)
  BY <1>6, <1>7 DEF Keeps
<1>9. Quiet(Flusher \ {f}, c)
  BY <1>2, <1>3, <1>4, <1>8 DEF Quiet
<1>10. ASSUME Owes(f, c)', stack[c] = <<>>, list[c] = <<>> PROVE FALSE
  <2>1. Len(r) = 0 /\ DOMAIN l = {}
    BY <1>3, <1>4, <1>10
  <2>2. ~OwedTop(f, c)' /\ \A i \in Nat : ~OwedAt(f, c, i)'
    BY <1>2, <2>1 DEF OwedTop, OwedAt
  <2> QED
    BY <1>10, <2>2 DEF Owes
<1> QED
  BY <1>9, <1>10 DEF Counted

\* lock_cpu_hotplug by f: no CPU that is offline has any work.
LEMMA FlushLocked ==
    ASSUME TypeOK, LockInv, HotInv, OwnInv, RoomInv, FlushInv, NEW f \in Flusher, FlushLock(f)
    PROVE  FlushInv'
<1>1. CountInv /\ TodoInv /\ DebtInv /\ AheadInv
  BY DEF FlushInv
<1>2. PICK x : x = [stage |-> "loop", todo |-> online, needed |-> 0]
  OBVIOUS
<1>3. x.stage = "loop" /\ x.todo = online
  BY <1>2
<1>4. /\ flush' = [flush EXCEPT ![f] = x] /\ OweAll(f) /\ lock = Nobody
      /\ insert' = insert /\ remove' = remove /\ online' = online /\ hp' = hp
  BY <1>2 DEF FlushLock
<1>5. flush'[f] = x /\ \A g \in Flusher : g # f => SameCall(g)
  BY <1>4, CallSet
<1>6. PICK F : F = Flusher \ {f}
  OBVIOUS
<1>7. SameCpus /\ \A c \in CPU : Counted(F, c)
  BY <1>4, <1>6, CountedOwe, SameLive
<1>8. hp.stage = "idle"
  BY <1>4, ThreadAssumption DEF LockInv, HpLock
<1>9. ASSUME NEW c \in CPU, Owes(f, c)' PROVE c \in x.todo
  <2>1. stack[c] # <<>> \/ list[c] # <<>>
    BY <1>4, <1>9, CountedOwe
  <2> QED
    BY <1>3, <1>8, <2>1 DEF HotInv, WorkerOf, Handled
<1>10. CountInv'
  BY <1>1, <1>7, CountKept
<1>11. TodoInv'
  <2>1. Holds(x) /\ x.todo \subseteq online'
    BY <1>3, <1>4 DEF Holds
  <2>2. \A g \in Flusher : /\ Holds(flush'[g]) \/ flush'[g].todo = {}
                           /\ flush'[g].todo \subseteq online'
    BY <1>1, <1>4, <1>5, <2>1, TodoKept
  <2> QED
    BY <2>2 DEF TodoInv, Holds
<1>12. DebtInv'
  <2>1. ASSUME NEW g \in Flusher, g # f PROVE \A c \in CPU : Owes(g, c)' => c \in flush'[g].todo
    <3>1. g \in F /\ flush'[g].todo = flush[g].todo
      BY <1>5, <1>6, <2>1 DEF SameCall
    <3> QED
      BY <1>1, <1>7, <3>1, DebtKept
  <2>2. \A g \in Flusher : \A c \in CPU : Owes(g, c)' => c \in flush'[g].todo
    BY <1>5, <1>9, <2>1
  <2> QED
    BY <2>2 DEF DebtInv
<1>13. AheadInv'
  <2>1. ASSUME NEW g \in Flusher, NEW c \in CPU, Awaits(flush'[g]), c = Min(flush'[g].todo)
        PROVE  AheadOf(g, c, flush[g].needed)'
    <3>1. g # f
      BY <1>3, <1>5, <2>1 DEF Awaits
    <3>2. g \in F /\ SameCall(g)
      BY <1>5, <1>6, <3>1
    <3> QED
      BY <1>1, <1>7, <2>1, <3>2, WaitKept
  <2> QED
    BY <2>1 DEF AheadInv, Awaits
<1> QED
  BY <1>10, <1>11, <1>12, <1>13 DEF FlushInv

\* A CPU hotplug operation has cpucontrol: no flush is going on.
LEMMA NothingOwed ==
    ASSUME LockInv, FlushInv, Hotplug, lock \in {Hotplugger, Nobody}, NEW f \in Flusher
    PROVE  flush[f].todo = {} /\ ~Awaits(flush[f]) /\ \A c \in CPU : ~Owes(f, c)
<1>1. ~Holds(flush[f])
  BY NotHeld, ThreadAssumption DEF LockInv
<1>2. flush[f].todo = {} /\ ~Awaits(flush[f])
  BY <1>1 DEF FlushInv, TodoInv, Holds, Awaits
<1> QED
  BY <1>2 DEF FlushInv, DebtInv

LEMMA HotplugKept ==
    ASSUME LockInv, FlushInv, Hotplug, lock \in {Hotplugger, Nobody}, flush' = flush,
           \A f \in Flusher, c \in CPU : Owes(f, c)' => \E d \in CPU : Owes(f, d), CountInv'
    PROVE  FlushInv'
<1>1. \A f \in Flusher : /\ flush[f].todo = {} /\ ~Awaits(flush[f])
                         /\ \A c \in CPU : ~Owes(f, c)
  BY NothingOwed
<1>2. \A f \in Flusher : flush'[f].todo = {} /\ ~Awaits(flush'[f])
  BY <1>1
<1>3. \A f \in Flusher, c \in CPU : ~Owes(f, c)'
  BY <1>1
<1>4. TodoInv'
  BY <1>2 DEF TodoInv
<1>5. DebtInv'
  BY <1>3 DEF DebtInv
<1>6. AheadInv'
  BY <1>2 DEF AheadInv, Awaits
<1> QED
  BY <1>4, <1>5, <1>6 DEF FlushInv

\* The counters alone: no flusher is concerned.
LEMMA CountedNobody ==
    ASSUME NEW c \in CPU, insert'[c] = insert[c], remove'[c] = remove[c], list'[c] = list[c],
           stack'[c] = stack[c]
    PROVE  Counted({}, c)
  BY DEF Counted, Quiet, Keeps

LEMMA OwesSame ==
    ASSUME list' = list, stack' = stack
    PROVE  \A f \in Flusher, c \in CPU : Owes(f, c)' => Owes(f, c)
  BY DEF Owes, OwedTop, OwedAt

LEMMA FlushDown ==
    ASSUME TypeOK, LockInv, OwnInv, RoomInv, FlushInv, NEW c \in CPU, NEW d \in CPU, CpuDown(c, d)
    PROVE  FlushInv'
<1>1. /\ Hotplug /\ lock = Nobody /\ flush' = flush /\ online' = online \ {c}
      /\ list' = list /\ insert' = insert /\ remove' = remove /\ stack' = stack
      /\ hp' = [stage |-> "dead", cpu |-> c, on |-> d]
  BY DEF CpuDown
<1>2. \A b \in CPU : Live(b)' => Live(b)
  BY <1>1 DEF Live
<1>3. CountInv'
  <2>1. ASSUME NEW b \in CPU, Live(b)' PROVE Balanced(b)'
    <3>1. Balanced(b) /\ Counted({}, b)
      BY <1>1, <1>2, <2>1, CountedNobody DEF FlushInv, CountInv
    <3> QED
      BY <3>1, BalancedKept
  <2> QED
    BY <2>1 DEF CountInv
<1>4. \A f \in Flusher, b \in CPU : Owes(f, b)' => \E a \in CPU : Owes(f, a)
  BY <1>1, OwesSame
<1> QED
  BY <1>1, <1>3, <1>4, HotplugKept

\* CPU_UP_PREPARE: an empty queue, with both counters zero.
LEMMA FlushPrepare ==
    ASSUME TypeOK, LockInv, HotInv, OwnInv, RoomInv, FlushInv, NEW c \in CPU, CpuUpPrepare(c)
    PROVE  FlushInv'
<1>1. /\ Hotplug /\ lock = Nobody /\ flush' = flush /\ online' = online /\ stack' = stack
      /\ list' = [list EXCEPT ![c] = <<>>] /\ hp.stage = "idle" /\ c \notin online
      /\ insert' = [insert EXCEPT ![c] = 0] /\ remove' = [remove EXCEPT ![c] = 0]
      /\ hp' = [hp EXCEPT !.stage = "prepared", !.cpu = c]
  BY DEF CpuUpPrepare
<1>2. list[c] = <<>> /\ stack[c] = <<>>
  BY <1>1 DEF HotInv, WorkerOf, Handled
<1>3. list' = list
  BY <1>1, <1>2 DEF TypeOK
<1>4. /\ insert'[c] = 0 /\ remove'[c] = 0
      /\ \A b \in CPU : b # c => insert'[b] = insert[b] /\ remove'[b] = remove[b]
  BY <1>1 DEF TypeOK
<1>5. hp'.cpu = c
  BY <1>1 DEF TypeOK
<1>6. \A b \in CPU : Live(b)' => b = c \/ Live(b)
  BY <1>1, <1>5 DEF Live
<1>7. Balanced(c)'
  <2>1. Len(list'[c]) = 0 /\ Len(stack'[c]) = 0
    BY <1>1, <1>2, <1>3
  <2>2. Load(c)' = 0
    BY <2>1 DEF Load
  <2> QED
    BY <1>4, <2>2 DEF Balanced, Gap
<1>8. CountInv'
  <2>1. ASSUME NEW b \in CPU, Live(b)', b # c PROVE Balanced(b)'
    <3>1. Balanced(b) /\ Counted({}, b)
      BY <1>1, <1>3, <1>4, <1>6, <2>1, CountedNobody DEF FlushInv, CountInv
    <3> QED
      BY <3>1, BalancedKept
  <2> QED
    BY <1>7, <2>1 DEF CountInv
<1>9. \A f \in Flusher, b \in CPU : Owes(f, b)' => \E a \in CPU : Owes(f, a)
  BY <1>1, <1>3, OwesSame
<1> QED
  BY <1>1, <1>8, <1>9, HotplugKept

\* take_over_work: the work is added to a CPU that is online.
LEMMA FlushTakeOver ==
    ASSUME TypeOK, LockInv, HotInv, OwnInv, RoomInv, FlushInv, TakeOverOne
    PROVE  FlushInv'
<1>1. PICK c \in CPU, b \in CPU : c = hp.cpu /\ b = hp.on
  BY DEF TypeOK
<1>2. /\ hp.stage = "takeover" /\ list[c] # <<>> /\ flush' = flush /\ online' = online
      /\ hp' = hp /\ stack' = stack /\ remove' = remove
  BY <1>1 DEF TakeOverOne
<1>3. c # b /\ c \notin online
  BY <1>1, <1>2 DEF HotInv, HpCpu
<1>4. Hotplug /\ lock = Hotplugger
  BY <1>2 DEF LockInv, HpLock
<1>5. PICK e : e = Head(list[c])
  OBVIOUS
<1>6. list[c] \in Seq(Entry) /\ list[b] \in Seq(Entry)
  BY DEF TypeOK
<1>7. PICK k \in Nat : k = Len(list[c]) /\ DOMAIN list[c] = 1..k
  BY <1>6
<1>8. PICK l \in Nat : l = Len(list[b]) /\ DOMAIN list[b] = 1..l
  BY <1>6
<1>9. PICK p, q : p = Append(list[b], e) /\ q = Tail(list[c])
  OBVIOUS
<1>10. /\ k > 0 /\ e = list[c][1] /\ e \in Entry /\ q \in Seq(Entry) /\ Len(q) = k - 1
       /\ \A i \in 1..k-1 : q[i] = list[c][i + 1]
  BY <1>2, <1>5, <1>6, <1>7, <1>9, TailFacts
<1>11. /\ Len(p) = l + 1 /\ DOMAIN p = 1..l+1 /\ p[l + 1] = e
       /\ \A i \in 1..l : p[i] = list[b][i]
  BY <1>6, <1>8, <1>9, <1>10, PushFacts
<1>12. list' = [list EXCEPT ![b] = p, ![c] = q] /\ insert' = [insert EXCEPT ![b] = Inc(insert[b])]
  BY <1>1, <1>5, <1>9 DEF TakeOverOne
<1>13. /\ list'[b] = p /\ list'[c] = q /\ insert'[b] = Inc(insert[b])
       /\ \A d \in CPU : d # b /\ d # c => list'[d] = list[d] /\ insert'[d] = insert[d]
  BY <1>3, <1>12 DEF TypeOK
<1>14. CountInv'
  <2>1. ASSUME NEW d \in CPU, Live(d)' PROVE Balanced(d)'
    <3>1. d # c /\ Balanced(d)
      BY <1>2, <1>3, <2>1 DEF Live, FlushInv, CountInv
    <3>2. CASE d = b
      <4>1. Adds({}, b)
        BY <1>2, <1>8, <1>11, <1>13 DEF Adds, Keeps
      <4> QED
        BY <3>1, <3>2, <4>1, BalancedKept DEF Counted
    <3>3. CASE d # b
      <4>1. Counted({}, d)
        BY <1>2, <1>13, <3>1, <3>3, CountedNobody
      <4> QED
        BY <3>1, <4>1, BalancedKept
    <3> QED
      BY <3>2, <3>3
  <2> QED
    BY <2>1 DEF CountInv
<1>15. ASSUME NEW f \in Flusher, NEW d \in CPU, Owes(f, d)' PROVE \E a \in CPU : Owes(f, a)
  <2>1. CASE OwedTop(f, d)'
    <3>1. OwedTop(f, d)
      BY <1>2, <2>1 DEF OwedTop
    <3> QED
      BY <3>1 DEF Owes
  <2>2. ASSUME NEW i \in Nat, OwedAt(f, d, i)' PROVE \E a \in CPU : \E j \in Nat : OwedAt(f, a, j)
    <3>1. i \in DOMAIN list'[d] /\ f \in list'[d][i].owed
      BY <2>2 DEF OwedAt
    <3>2. CASE d = b
      <4>1. i \in 1..l \/ i = l + 1
        BY <1>11, <1>13, <3>1, <3>2
      <4>2. CASE i \in 1..l
        BY <1>8, <1>11, <1>13, <3>1, <3>2, <4>2 DEF OwedAt
      <4>3. CASE i = l + 1
        <5>1. 1 \in Nat /\ 1 \in DOMAIN list[c]
          BY <1>7, <1>10
        <5>2. f \in list[c][1].owed
          BY <1>10, <1>11, <1>13, <3>1, <3>2, <4>3
        <5> QED
          BY <5>1, <5>2 DEF OwedAt
      <4> QED
        BY <4>1, <4>2, <4>3
    <3>3. CASE d = c
      <4>1. DOMAIN q = 1..k-1
        BY <1>10
      <4>2. i \in 1..k-1 /\ f \in list[c][i + 1].owed
        BY <1>10, <1>13, <3>1, <3>3, <4>1
      <4>3. i + 1 \in Nat /\ i + 1 \in DOMAIN list[c]
        BY <1>7, <4>2
      <4> QED
        BY <4>2, <4>3 DEF OwedAt
    <3>4. CASE d # b /\ d # c
      BY <1>13, <3>1, <3>4 DEF OwedAt
    <3> QED
      BY <3>2, <3>3, <3>4
  <2> QED
    BY <1>15, <2>1, <2>2 DEF Owes
<1> QED
  BY <1>2, <1>4, <1>14, <1>15, HotplugKept

LEMMA FlushHotplug ==
    ASSUME TypeOK, LockInv, HotInv, OwnInv, RoomInv, FlushInv, HotplugStep
    PROVE  FlushInv'
<1>1. CASE \/ CpuDead \/ CpuStopped \/ TakeOverDone \/ CpuUp \/ CpuOnline \/ CpuUpCanceled
  <2>1. /\ list' = list /\ insert' = insert /\ remove' = remove /\ stack' = stack
        /\ flush' = flush
    BY <1>1 DEF CpuDead, CpuStopped, TakeOverDone, CpuUp, CpuOnline, CpuUpCanceled
  <2>2. SameCpus
    <3>1. CASE CpuUp
      <4>1. /\ hp.stage = "prepared" /\ hp'.stage # "prepared"
            /\ online' = online \/ online' = online \cup {hp.cpu}
        BY <3>1 DEF CpuUp, TypeOK
      <4> QED
        BY <4>1 DEF SameCpus, Live
    <3>2. CASE CpuDead \/ CpuStopped \/ TakeOverDone \/ CpuOnline \/ CpuUpCanceled
      <4>1. online' = online /\ hp'.stage # "prepared"
        BY <3>2 DEF CpuDead, CpuStopped, TakeOverDone, CpuOnline, CpuUpCanceled, TypeOK
      <4> QED
        BY <4>1 DEF SameCpus, Live
    <3> QED
      BY <1>1, <3>1, <3>2
  <2> QED
    BY <2>1, <2>2, CountedSame, SameCalls, FlushKept
<1>2. CASE TakeOverOne
  BY <1>2, FlushTakeOver
<1> QED
  BY <1>1, <1>2 DEF HotplugStep

LEMMA FlushInit == TypeOK /\ Init => FlushInv
<1> SUFFICES ASSUME TypeOK, Init PROVE FlushInv
  OBVIOUS
<1>1. ASSUME NEW c \in CPU PROVE Balanced(c) /\ \A f \in Flusher : ~Owes(f, c)
  <2>1. insert[c] = 0 /\ remove[c] = 0 /\ list[c] = <<>> /\ stack[c] = <<>>
    BY DEF Init
  <2>2. Load(c) = 0 /\ Len(stack[c]) = 0 /\ DOMAIN list[c] = {}
    BY <2>1 DEF Load
  <2> QED
    BY <2>1, <2>2 DEF Balanced, Gap, Owes, OwedTop, OwedAt
<1>2. \A f \in Flusher : flush[f].todo = {} /\ flush[f].stage = "none"
  BY DEF Init, NoFlush
<1> QED
  BY <1>1, <1>2 DEF FlushInv, CountInv, TodoInv, DebtInv, AheadInv, Awaits

LEMMA FlushNext ==
    TypeOK /\ LockInv /\ HotInv /\ OwnInv /\ RoomInv /\ FlushInv /\ [Next]_vars => FlushInv'
<1> SUFFICES ASSUME TypeOK, LockInv, HotInv, OwnInv, RoomInv, FlushInv, [Next]_vars
             PROVE  FlushInv'
  OBVIOUS
<1>1. CASE UNCHANGED vars
  <2>1. /\ list' = list /\ insert' = insert /\ remove' = remove /\ stack' = stack
        /\ flush' = flush /\ online' = online /\ hp' = hp
    BY <1>1 DEF vars
  <2> QED
    BY <2>1, CountedSame, SameCalls, SameLive, FlushKept
<1>2. ASSUME NEW t \in Flusher \cup CPU, Flush(t) PROVE FlushInv'
  BY <1>2, FlushByWorker, FlushLocked, FlushWaited, FlushReturned DEF Flush
<1>3. ASSUME NEW w \in Work, NEW c \in CPU,
             \/ QueueWork(w, c) \/ QueueDelayedWork(w, c) \/ DelayedWorkTimer(w, c)
             \/ CancelDelayedWork(w, c) \/ CancelClear(w, c) \/ DoQueueWork(w, c)
      PROVE  FlushInv'
  BY <1>3, FlushQueue
<1>4. ASSUME NEW c \in CPU, Worker(c) PROVE FlushInv'
  BY <1>4, FlushWorker
<1>5. ASSUME NEW f \in Flusher, FlushStart(f) PROVE FlushInv'
  BY <1>5, FlushStarted
<1>6. ASSUME NEW c \in CPU, NEW d \in CPU, CpuDown(c, d) PROVE FlushInv'
  BY <1>6, FlushDown
<1>7. ASSUME NEW c \in CPU, CpuUpPrepare(c) PROVE FlushInv'
  BY <1>7, FlushPrepare
<1>8. CASE HotplugStep
  BY <1>8, FlushHotplug
<1> QED
  BY <1>1, <1>2, <1>3, <1>4, <1>5, <1>6, <1>7, <1>8 DEF Next

LEMMA DebtWaits == TypeOK /\ LockInv /\ FlushInv => FlushWaits
<1> SUFFICES ASSUME TypeOK, LockInv, FlushInv, NEW c \in CPU, NEW f \in Flusher,
                    \/ \E i \in DOMAIN list[c] : f \in list[c][i].owed
                    \/ \E i \in DOMAIN stack[c] :
                          f \in stack[c][i].owed /\ stack[c][i].fl.stage = "none"
             PROVE  Owes(f, c)
  BY DEF FlushWaits, FlushInv, DebtInv
<1>1. ASSUME NEW i \in DOMAIN list[c], f \in list[c][i].owed PROVE Owes(f, c)
  <2>1. i \in Nat
    BY <1>1 DEF TypeOK
  <2> QED
    BY <1>1, <2>1 DEF Owes, OwedAt
<1>2. ASSUME NEW i \in DOMAIN stack[c], f \in stack[c][i].owed, stack[c][i].fl.stage = "none"
      PROVE  Owes(f, c)
  <2>1. i = Len(stack[c])
    BY <1>2 DEF LockInv, Nested, NestedIn
  <2>2. Len(stack[c]) > 0
    BY <1>2, <2>1, FrameType
  <2> QED
    BY <1>2, <2>1, <2>2 DEF Owes, OwedTop
<1> QED
  BY <1>1, <1>2

\* flush_workqueue waits for every work that was queued or running when it took
\* cpucontrol: none of them is still there once flush_cpu_workqueue has gone past the CPU,
\* although works are queued, run and moved by CPU hotplug meanwhile, workers flush their
\* own queue and the sequence counters wrap.
THEOREM FlushWaitsHolds == Spec => []FlushWaits
<1>1. TypeOK /\ LockInv /\ [Next]_vars => LockInv'
  BY LockNext
<1>2. TypeOK /\ HotInv /\ [Next]_vars => HotInv'
  BY HotNext
<1>3. TypeOK /\ HotInv /\ OwnInv /\ [Next]_vars => OwnInv'
  BY OwnNext
<1>4. TypeOK /\ TypeOK' /\ LockInv /\ HotInv /\ SelfOnly /\ [Next]_vars => SelfOnly'
  BY SelfNext
<1>5. TypeOK /\ TypeOK' /\ LockInv /\ HotInv /\ OwnInv /\ SelfOnly /\ RoomInv /\ [Next]_vars
      => RoomInv'
  BY RoomNext
<1>6. TypeOK /\ LockInv /\ HotInv /\ OwnInv /\ RoomInv /\ FlushInv /\ [Next]_vars => FlushInv'
  BY FlushNext
<1>7. TypeOK /\ Init => RoomInv /\ FlushInv
  BY RoomInit, FlushInit
<1> QED
  BY <1>1, <1>2, <1>3, <1>4, <1>5, <1>6, <1>7, DebtWaits, TypeCorrect, LockInit, HotInit,
     OwnInit, SelfInit, PTL DEF Spec

=============================================================================
