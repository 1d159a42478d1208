--------------------------- MODULE SemaphoreProofs ---------------------------
(***************************************************************************)
(* The counting semaphore, for every finite set of tasks and every initial *)
(* value: exclusion, the accounting of count and sleepers, and no lost     *)
(* wakeup.                                                                 *)
(***************************************************************************)
EXTENDS Semaphore, FiniteSetTheorems, SequenceTheorems,
        WellFoundedInduction, TLAPS

\* Adding a task to a set of tasks, or removing one, changes its size by at
\* most one.
LEMMA CardUpdate ==
    ASSUME NEW A \in SUBSET Task, NEW t
    PROVE  /\ Cardinality(A) \in Nat
           /\ Cardinality(A \cup {t}) = IF t \in A THEN Cardinality(A)
                                                   ELSE Cardinality(A) + 1
           /\ Cardinality(A \ {t}) = IF t \in A THEN Cardinality(A) - 1
                                                ELSE Cardinality(A)
<1>1. IsFiniteSet(A)
  BY FS_Subset, TaskAssumption
<1> QED
  BY <1>1, FS_CardinalityType, FS_AddElement, FS_RemoveElement

-----------------------------------------------------------------------------

\* A non-empty set of natural numbers has a least element, the one Min picks.
LEMMA MinOfNats ==
    ASSUME NEW I, I \subseteq Nat, I # {}
    PROVE  Min(I) \in I
<1> DEFINE R == OpToRel(<, Nat)
<1>0. R = {ss \in Nat \X Nat : ss[1] < ss[2]}
  BY Zenon DEF OpToRel
<1>1. PICK i \in I : \A j \in I : ~(<<j, i>> \in R)
  BY WFMin, NatLessThanWellFounded
<1>2. \A j \in I : <<j, i>> \in R <=> j < i
  BY <1>0
<1> HIDE DEF R
<1>3. \A j \in I : i <= j
  <2> SUFFICES ASSUME NEW j \in I PROVE i <= j
    OBVIOUS
  <2>1. ~(j < i) /\ i \in Nat /\ j \in Nat
    BY <1>1, <1>2
  <2> QED
    BY <2>1
<1> QED
  BY <1>3 DEF Min

\* A queue loses one task and stays a queue of tasks.
LEMMA RemoveType ==
    ASSUME NEW q \in Seq(Task), NEW t
    PROVE  RemoveFirst(q, t) \in Seq(Task)
<1> DEFINE I == {i \in 1..Len(q) : q[i] = t}
<1> DEFINE i == Min(I)
<1> SUFFICES ASSUME I # {}
             PROVE  RemoveAt(q, i) \in Seq(Task)
  BY DEF RemoveFirst, SelectInSeq
<1>0. Len(q) \in Nat
  BY LenProperties
<1>1. Min(I) \in I
  <2>1. I \subseteq Nat
    BY <1>0
  <2> QED
    BY <2>1, MinOfNats
<1> HIDE DEF i
<1>2. \A j \in 1..Len(q) : q[j] \in Task
  BY LenProperties, ElementOfSeq
<1>5. i \in 1..Len(q)
  BY <1>1 DEF i
<1>3. SubSeq(q, 1, i - 1) \in Seq(Task)
  BY <1>0, <1>2, <1>5, SubSeqProperties
<1>4. SubSeq(q, i + 1, Len(q)) \in Seq(Task)
  BY <1>0, <1>2, <1>5, SubSeqProperties
<1> QED
  BY <1>3, <1>4, ConcatProperties DEF RemoveAt

\* Waking a waiter changes nothing but the state of tasks.
LEMMA WakeUpType ==
    ASSUME NEW S, NEW st \in [Task -> S], "RUNNING" \in S, NEW q \in Seq(Task)
    PROVE  WakeUp(q, st) \in [Task -> S]
BY DEF WakeUp

-----------------------------------------------------------------------------

\* The inductive invariant: the accounting equation is what makes exclusion
\* hold, because a task becomes a holder only where count ends up >= 0.
IInv == TypeOK /\ Accounting /\ Exclusion

\* sema_init establishes it, whichever tasks hold the semaphore at first.
LEMMA InitIInv == Init => IInv
<1> SUFFICES ASSUME Init PROVE IInv
  OBVIOUS
<1>1. PICK H \in SUBSET Task :
        /\ Cardinality(H) <= N
        /\ count = N - Cardinality(H)
        /\ pc = [t \in Task |-> IF t \in H THEN "hold" ELSE "idle"]
        /\ sleepers = 0
        /\ wait = <<>>
        /\ tstate = [t \in Task |-> "RUNNING"]
        /\ sig = [t \in Task |-> FALSE]
        /\ mode = [t \in Task |-> "down"]
  BY DEF Init
<1>2. Holders = H /\ Entering = {}
  BY <1>1 DEF Holders, Entering
<1>3. Cardinality(H) \in Nat /\ Cardinality({}) = 0
  BY FS_Subset, FS_CardinalityType, FS_EmptySet, TaskAssumption
<1>4. TypeOK
  BY <1>1, <1>3, NAssumption DEF TypeOK, PC, Modes
<1> QED
  BY <1>1, <1>2, <1>3, <1>4, NAssumption DEF IInv, Accounting, Exclusion

\* What Counts says of the sizes after task t has moved from o to p.
Moved(o, p) ==
    /\ Cardinality(Holders) \in Nat
    /\ Cardinality(Entering) \in Nat
    /\ Cardinality(Holders') \in Nat
    /\ Cardinality(Entering') \in Nat
    /\ Cardinality(Holders') = Cardinality(Holders)
          + (IF p = "hold" THEN 1 ELSE 0) - (IF o = "hold" THEN 1 ELSE 0)
    /\ Cardinality(Entering') = Cardinality(Entering)
          + (IF p = "slow" THEN 1 ELSE 0) - (IF o = "slow" THEN 1 ELSE 0)

\* How a change of one program counter moves the two counted sets.
LEMMA Counts ==
    ASSUME pc \in [Task -> PC], NEW t \in Task, NEW p \in PC,
           pc' = [pc EXCEPT ![t] = p]
    PROVE  Moved(pc[t], p)
<1>1. /\ Holders \in SUBSET Task /\ Holders' \in SUBSET Task
      /\ Entering \in SUBSET Task /\ Entering' \in SUBSET Task
  BY DEF Holders, Entering
<1>2. /\ t \in Holders <=> pc[t] = "hold"
      /\ t \in Entering <=> pc[t] = "slow"
  BY DEF Holders, Entering
<1>3. Holders' = IF p = "hold" THEN Holders \cup {t} ELSE Holders \ {t}
  BY DEF Holders
<1>4. Entering' = IF p = "slow" THEN Entering \cup {t} ELSE Entering \ {t}
  BY DEF Entering
<1>5. /\ Cardinality(Holders) \in Nat /\ Cardinality(Holders') \in Nat
      /\ Cardinality(Entering) \in Nat /\ Cardinality(Entering') \in Nat
  BY <1>1, CardUpdate
<1>6. Cardinality(Holders') = Cardinality(Holders)
        + (IF p = "hold" THEN 1 ELSE 0) - (IF pc[t] = "hold" THEN 1 ELSE 0)
  <2>1. /\ Cardinality(Holders \cup {t}) = IF t \in Holders THEN Cardinality(Holders)
                                        ELSE Cardinality(Holders) + 1
        /\ Cardinality(Holders \ {t}) = IF t \in Holders THEN Cardinality(Holders) - 1
                                     ELSE Cardinality(Holders)
    BY <1>1, CardUpdate
  <2> QED
    BY <2>1, <1>2, <1>3, <1>5
<1>7. Cardinality(Entering') = Cardinality(Entering)
        + (IF p = "slow" THEN 1 ELSE 0) - (IF pc[t] = "slow" THEN 1 ELSE 0)
  <2>1. /\ Cardinality(Entering \cup {t}) = IF t \in Entering THEN Cardinality(Entering)
                                        ELSE Cardinality(Entering) + 1
        /\ Cardinality(Entering \ {t}) = IF t \in Entering THEN Cardinality(Entering) - 1
                                     ELSE Cardinality(Entering)
    BY <1>1, CardUpdate
  <2> QED
    BY <2>1, <1>2, <1>4, <1>5
<1> QED
  BY <1>5, <1>6, <1>7 DEF Moved

\* Exclusion follows from the equation wherever count is not negative.
LEMMA NonNegative ==
    ASSUME NEW c \in Nat, NEW h \in Nat, NEW e \in Nat, NEW k \in Nat,
           c + h + e + k = N
    PROVE  h <= N
OBVIOUS

\* The states a task can be in.
TState == {"RUNNING", "INTERRUPTIBLE", "UNINTERRUPTIBLE"}

\* Leaving the queue keeps the types; the count is the caller's business.
LEMMA LeaveQueueType ==
    ASSUME TypeOK, NEW t \in Task, NEW q \in Seq(Task), NEW p \in PC,
           LeaveQueue(t, q, p), count' \in Int
    PROVE  TypeOK' /\ sleepers' = 0 /\ pc' = [pc EXCEPT ![t] = p]
<1> DEFINE st == [tstate EXCEPT ![t] = "RUNNING"]
<1>1. RemoveFirst(q, t) \in Seq(Task)
  BY RemoveType
<1>2. st \in [Task -> TState]
  BY DEF TypeOK, TState
<1> HIDE DEF st
<1>3. WakeUp(RemoveFirst(q, t), st) \in [Task -> TState]
  BY <1>1, <1>2, WakeUpType DEF TState
<1>4. /\ sleepers' = 0
      /\ wait' = RemoveFirst(q, t)
      /\ tstate' = WakeUp(RemoveFirst(q, t), st)
      /\ pc' = [pc EXCEPT ![t] = p]
      /\ sig' = [sig EXCEPT ![t] = FALSE]
      /\ mode' = mode
  BY DEF LeaveQueue, st
<1> QED
  BY <1>1, <1>3, <1>4 DEF TypeOK, TState

\* One turn of the loop, entered with s sleepers counted and, when the task
\* comes from the fast path, its own decrement still outstanding.
LEMMA DownLoopStep ==
    ASSUME IInv, NEW t \in Task, NEW s \in {0, 1, 2}, NEW q \in Seq(Task),
           DownLoop(t, s, q),
           \/ pc[t] = "slow" /\ s = sleepers + 1
           \/ pc[t] = "sleep" /\ s = sleepers
    PROVE  IInv'
<1> USE NAssumption
<1>0. TypeOK /\ Accounting /\ Exclusion /\ pc \in [Task -> PC] /\ count \in Int
      /\ sleepers \in {0, 1}
  BY DEF IInv, TypeOK
<1>1. CASE Interrupted(t, s, q)
  <2>1. count' = count + s /\ LeaveQueue(t, q, "idle")
    BY <1>1 DEF Interrupted
  <2>2. TypeOK' /\ sleepers' = 0 /\ pc' = [pc EXCEPT ![t] = "idle"]
    BY <1>0, <2>1, LeaveQueueType DEF PC
  <2>9. Moved(pc[t], "idle")
    BY <1>0, <2>2, Counts DEF PC
  <2>3. CASE pc[t] = "slow" /\ s = sleepers + 1
    BY <1>0, <2>1, <2>2, <2>3, <2>9 DEF IInv, Accounting, Exclusion, Moved
  <2>4. CASE pc[t] = "sleep" /\ s = sleepers
    BY <1>0, <2>1, <2>2, <2>4, <2>9 DEF IInv, Accounting, Exclusion, Moved
  <2> QED
    BY <2>3, <2>4
<1>2. CASE Acquired(t, s, q)
  <2>1. /\ count' = count + (s - 1) /\ LeaveQueue(t, q, "hold")
        /\ count + (s - 1) >= 0
    BY <1>2 DEF Acquired
  <2>2. TypeOK' /\ sleepers' = 0 /\ pc' = [pc EXCEPT ![t] = "hold"]
    BY <1>0, <2>1, LeaveQueueType DEF PC
  <2>3. count' \in Nat /\ sleepers' \in Nat
    BY <1>0, <2>1, <2>2
  <2>9. Moved(pc[t], "hold")
    BY <1>0, <2>2, Counts DEF PC
  <2>4. Accounting'
    <3>1. CASE pc[t] = "slow" /\ s = sleepers + 1
      <4>1. /\ Cardinality(Holders') = Cardinality(Holders) + 1
            /\ Cardinality(Entering') = Cardinality(Entering) - 1
            /\ Cardinality(Holders) \in Nat /\ Cardinality(Entering) \in Nat
        BY <2>9, <3>1 DEF Moved
      <4> QED
        BY <1>0, <2>1, <2>2, <3>1, <4>1 DEF Accounting
    <3>2. CASE pc[t] = "sleep" /\ s = sleepers
      <4>1. /\ Cardinality(Holders') = Cardinality(Holders) + 1
            /\ Cardinality(Entering') = Cardinality(Entering)
            /\ Cardinality(Holders) \in Nat /\ Cardinality(Entering) \in Nat
        BY <2>9, <3>2 DEF Moved
      <4> QED
        BY <1>0, <2>1, <2>2, <3>2, <4>1 DEF Accounting
    <3> QED
      BY <3>1, <3>2
  <2>5. Exclusion'
    <3>1. /\ Cardinality(Holders') \in Nat /\ Cardinality(Entering') \in Nat
          /\ count' + Cardinality(Holders') + Cardinality(Entering') + sleepers' = N
      BY <2>9, <2>4 DEF Accounting, Moved
    <3> QED
      BY <3>1, <2>3, NonNegative DEF Exclusion
  <2> QED
    BY <2>2, <2>4, <2>5 DEF IInv
<1>3. CASE Blocked(t, s, q)
  <2>1. TypeOK' /\ pc' = [pc EXCEPT ![t] = "sleep"]
    BY <1>0, <1>3 DEF Blocked, TypeOK, PC, SleepState
  <2>2. count' = count + (s - 1) /\ sleepers' = 1
    BY <1>3 DEF Blocked
  <2>9. Moved(pc[t], "sleep")
    BY <1>0, <2>1, Counts DEF PC
  <2>3. CASE pc[t] = "slow" /\ s = sleepers + 1
    BY <1>0, <2>1, <2>2, <2>3, <2>9 DEF IInv, Accounting, Exclusion, Moved
  <2>4. CASE pc[t] = "sleep" /\ s = sleepers
    BY <1>0, <2>1, <2>2, <2>4, <2>9 DEF IInv, Accounting, Exclusion, Moved
  <2> QED
    BY <2>3, <2>4
<1> QED
  BY <1>1, <1>2, <1>3 DEF DownLoop

\* Every step keeps the invariant.
LEMMA NextIInv == IInv /\ [Next]_vars => IInv'
<1> SUFFICES ASSUME IInv, [Next]_vars PROVE IInv'
  OBVIOUS
<1> USE NAssumption
<1>0. TypeOK /\ Accounting /\ Exclusion /\ pc \in [Task -> PC] /\ count \in Int
      /\ sleepers \in {0, 1} /\ wait \in Seq(Task) /\ tstate \in [Task -> TState]
  BY DEF IInv, TypeOK, TState
<1>1. CASE UNCHANGED vars
  BY <1>0, <1>1 DEF IInv, TypeOK, Accounting, Exclusion, Holders, Entering, vars
<1>2. ASSUME NEW t \in Task, NEW m \in Modes, Down(t, m) PROVE IInv'
  <2> DEFINE p == IF count - 1 < 0 THEN "slow" ELSE "hold"
  <2>1. p \in PC /\ pc' = [pc EXCEPT ![t] = p] /\ pc[t] = "idle"
    BY <1>2 DEF Down, PC
  <2>2. TypeOK' /\ count' = count - 1 /\ sleepers' = sleepers
    BY <1>0, <1>2, <2>1 DEF Down, TypeOK
  <2>9. Moved(pc[t], p)
    BY <1>0, <2>1, Counts DEF PC
  <2>3. CASE count - 1 < 0
    BY <1>0, <2>1, <2>2, <2>3, <2>9 DEF IInv, Accounting, Exclusion, Moved
  <2>4. CASE ~(count - 1 < 0)
    <3>1. p = "hold"
      BY <2>4
    <3>2. count' \in Nat /\ sleepers' \in Nat
      BY <1>0, <2>2, <2>4
    <3> HIDE DEF p
    <3>3. Accounting'
      BY <1>0, <2>1, <2>2, <2>9, <3>1 DEF Accounting, Moved
    <3>4. Exclusion'
      <4>1. /\ Cardinality(Holders') \in Nat /\ Cardinality(Entering') \in Nat
            /\ count' + Cardinality(Holders') + Cardinality(Entering') + sleepers' = N
        BY <2>9, <3>3 DEF Accounting, Moved
      <4> QED
        BY <4>1, <3>2, NonNegative DEF Exclusion
    <3> QED
      BY <2>2, <3>3, <3>4 DEF IInv
  <2> QED
    BY <2>3, <2>4
<1>3. ASSUME NEW t \in Task, Up(t) PROVE IInv'
  <2> DEFINE p == IF UpNeedsWake(count + 1) THEN "wake" ELSE "idle"
  <2>1. /\ p \in PC /\ pc' = [pc EXCEPT ![t] = p] /\ pc[t] = "hold"
        /\ p # "hold" /\ p # "slow"
    BY <1>3 DEF Up, PC
  <2>2. TypeOK' /\ count' = count + 1 /\ sleepers' = sleepers
    BY <1>0, <1>3, <2>1 DEF Up, TypeOK
  <2> HIDE DEF p
  <2>9. Moved(pc[t], p)
    BY <1>0, <2>1, Counts DEF PC
  <2> QED
    BY <1>0, <2>1, <2>2, <2>9 DEF IInv, Accounting, Exclusion, Moved
<1>4. ASSUME NEW t \in Task, UpWake(t) PROVE IInv'
  <2>1. pc' = [pc EXCEPT ![t] = "idle"] /\ pc[t] = "wake"
    BY <1>4 DEF UpWake
  <2>2. tstate' \in [Task -> TState]
    BY <1>0, <1>4, WakeUpType DEF UpWake, TState
  <2>3. TypeOK' /\ count' = count /\ sleepers' = sleepers
    BY <1>0, <1>4, <2>1, <2>2 DEF UpWake, TypeOK, PC, TState
  <2>9. Moved(pc[t], "idle")
    BY <1>0, <2>1, Counts DEF PC
  <2> QED
    BY <1>0, <2>1, <2>3, <2>9 DEF IInv, Accounting, Exclusion, Moved
<1>5. ASSUME NEW t \in Task, DownEnter(t) PROVE IInv'
  <2>1. sleepers + 1 \in {0, 1, 2} /\ Append(wait, t) \in Seq(Task)
    BY <1>0
  <2> QED
    BY <1>5, <2>1, DownLoopStep DEF DownEnter
<1>6. ASSUME NEW t \in Task, DownRetry(t) PROVE IInv'
  BY <1>0, <1>6, DownLoopStep DEF DownRetry
<1>7. ASSUME NEW t \in Task, TrylockFailed(t) PROVE IInv'
  <2>1. pc' = [pc EXCEPT ![t] = "idle"] /\ pc[t] = "slow"
    BY <1>7 DEF TrylockFailed
  <2>2. tstate' \in [Task -> TState]
    BY <1>0, <1>7, WakeUpType DEF TrylockFailed, TState
  <2>3. TypeOK' /\ count' = count + sleepers + 1 /\ sleepers' = 0
    BY <1>0, <1>7, <2>1, <2>2 DEF TrylockFailed, TypeOK, PC, TState
  <2>9. Moved(pc[t], "idle")
    BY <1>0, <2>1, Counts DEF PC
  <2> QED
    BY <1>0, <2>1, <2>3, <2>9 DEF IInv, Accounting, Exclusion, Moved
<1>8. ASSUME NEW t \in Task, Signal(t) PROVE IInv'
  BY <1>0, <1>8 DEF Signal, IInv, TypeOK, Accounting, Exclusion, Holders, Entering
<1> QED
  BY <1>1, <1>2, <1>3, <1>4, <1>5, <1>6, <1>7, <1>8 DEF Next, Step

-----------------------------------------------------------------------------

\* In every behaviour of the semaphore, for any number of tasks and any initial
\* value, the types are kept (sleepers never leaves {0, 1} outside the lock).
THEOREM TypeCorrect == Spec => []TypeOK
<1>1. IInv => TypeOK
  BY DEF IInv
<1> QED
  BY <1>1, InitIInv, NextIInv, PTL DEF Spec

\* count, the holders, the outstanding decrements and sleepers always add up to
\* the initial value: no down, up, -EINTR or failed trylock loses a unit.
THEOREM AccountingHolds == Spec => []Accounting
<1>1. IInv => Accounting
  BY DEF IInv
<1> QED
  BY <1>1, InitIInv, NextIInv, PTL DEF Spec

\* Never more than N holders: the semaphore excludes.
THEOREM ExclusionHolds == Spec => []Exclusion
<1>1. IInv => Exclusion
  BY DEF IInv
<1> QED
  BY <1>1, InitIInv, NextIInv, PTL DEF Spec

-----------------------------------------------------------------------------
(* No lost wakeup *)

\* A task that is not runnable is in schedule() inside a down.
SleepsInDown == \A t \in Task : tstate[t] # "RUNNING" => pc[t] = "sleep"

\* A task in schedule() is where __up looks for it.
Queued == \A t \in Task : pc[t] = "sleep" => \E i \in DOMAIN wait : wait[i] = t

\* Some waiter is asleep.
Asleep == \E t \in Task : pc[t] = "sleep" /\ tstate[t] # "RUNNING"

\* Some task is on the way to a contended section, or to __up.
Awake ==
    \E t \in Task :
        \/ pc[t] \in {"slow", "wake"}
        \/ pc[t] = "sleep" /\ tstate[t] = "RUNNING"

\* While everybody who waits is asleep, count is negative, so that the next up
\* takes the contended path.  sleepers says nothing here: a failed trylock
\* zeroes it and leaves the waiters asleep.
Settled == Asleep /\ ~Awake => count < 0

\* The inductive invariant of the wakeups.
WInv == SleepsInDown /\ Queued /\ Settled

\* Taking a task out of the queue leaves the others in it.
LEMMA RemoveKeeps ==
    ASSUME NEW q \in Seq(Task), NEW t \in Task, NEW k \in DOMAIN q, q[k] # t
    PROVE  \E j \in DOMAIN RemoveFirst(q, t) : RemoveFirst(q, t)[j] = q[k]
<1> DEFINE u == q[k]
<1> DEFINE I == {i \in 1..Len(q) : q[i] = t}
<1> DEFINE i == Min(I)
<1>0. Len(q) \in Nat /\ k \in 1..Len(q)
  BY LenProperties
<1> SUFFICES ASSUME I # {}
             PROVE  \E j \in DOMAIN RemoveAt(q, i) : RemoveAt(q, i)[j] = u
  BY DEF RemoveFirst, SelectInSeq
<1>1. Min(I) \in I
  <2>1. I \subseteq Nat
    BY <1>0
  <2> QED
    BY <2>1, MinOfNats
<1>5. i \in 1..Len(q) /\ q[i] = t
  BY <1>1
<1> HIDE DEF i
<1> DEFINE a == SubSeq(q, 1, i - 1)
           b == SubSeq(q, i + 1, Len(q))
<1>2. \A j \in 1..Len(q) : q[j] \in Task
  BY LenProperties, ElementOfSeq
<1>3. a \in Seq(Task) /\ Len(a) = i - 1 /\ \A j \in 1..(i - 1) : a[j] = q[j]
  BY <1>0, <1>2, <1>5, SubSeqProperties
<1>4. /\ b \in Seq(Task) /\ Len(b) = Len(q) - i
      /\ \A j \in 1..(Len(q) - i) : b[j] = q[i + j]
  BY <1>0, <1>2, <1>5, SubSeqProperties
<1> HIDE DEF a, b
<1>6. /\ DOMAIN (a \o b) = 1..(Len(q) - 1)
      /\ \A j \in 1..(Len(q) - 1) : (a \o b)[j] = IF j <= i - 1 THEN a[j]
                                                          ELSE b[j - (i - 1)]
  BY <1>0, <1>3, <1>4, <1>5, ConcatProperties
<1>7. k # i
  BY <1>5
<1>8. CASE k < i
  <2>1. k \in 1..(i - 1) /\ k \in 1..(Len(q) - 1) /\ k <= i - 1
    BY <1>0, <1>5, <1>8
  <2>2. (a \o b)[k] = u
    BY <1>3, <1>6, <2>1
  <2> QED
    BY <1>6, <2>1, <2>2 DEF RemoveAt, a, b
<1>9. CASE i < k
  <2>1. /\ k - 1 \in 1..(Len(q) - 1) /\ ~(k - 1 <= i - 1)
        /\ (k - 1) - (i - 1) = k - i /\ k - i \in 1..(Len(q) - i)
        /\ i + (k - i) = k
    BY <1>0, <1>5, <1>9
  <2>2. (a \o b)[k - 1] = b[k - i]
    BY <1>6, <2>1
  <2>3. b[k - i] = q[k]
    BY <1>4, <2>1
  <2> QED
    BY <1>6, <2>1, <2>2, <2>3 DEF RemoveAt, a, b
<1> QED
  BY <1>0, <1>5, <1>7, <1>8, <1>9

\* A wakeup makes nobody sleep, and somebody runnable if anyone in the queue
\* was not.
LEMMA WakeUpFacts ==
    ASSUME NEW st \in [Task -> TState], NEW q \in Seq(Task)
    PROVE  /\ \A t \in Task : st[t] = "RUNNING" => WakeUp(q, st)[t] = "RUNNING"
           /\ (\E i \in DOMAIN q : st[q[i]] # "RUNNING")
              => \E t \in Task : st[t] # "RUNNING" /\ WakeUp(q, st)[t] = "RUNNING"
<1> DEFINE asleep == {i \in DOMAIN q : st[q[i]] # "RUNNING"}
           k == Min(asleep)
<1>1. CASE asleep = {}
  BY <1>1 DEF WakeUp
<1>2. CASE asleep # {}
  <2>1. DOMAIN q = 1..Len(q) /\ Len(q) \in Nat
    BY LenProperties
  <2>2. asleep \subseteq Nat
    BY <2>1
  <2>3. k \in asleep
    BY <1>2, <2>2, MinOfNats
  <2>4. q[k] \in Task /\ st[q[k]] # "RUNNING"
    BY <2>1, <2>3, ElementOfSeq
  <2>5. WakeUp(q, st) = [st EXCEPT ![q[k]] = "RUNNING"]
    BY <1>2 DEF WakeUp, Min
  <2> HIDE DEF k
  <2>6. WakeUp(q, st)[q[k]] = "RUNNING"
    BY <2>4, <2>5
  <2> QED
    BY <2>4, <2>5, <2>6
<1> QED
  BY <1>1, <1>2

\* A step that ends with a wakeup of the queue loses none: whoever still sleeps
\* then, another waiter is on its way.
LEMMA Wakes ==
    ASSUME NEW st \in [Task -> TState], wait' \in Seq(Task),
           \A u \in Task : st[u] # "RUNNING" => pc'[u] = "sleep",
           Queued', tstate' = WakeUp(wait', st)
    PROVE  WInv'
<1> DEFINE w == WakeUp(wait', st)
<1>1. /\ \A t \in Task : st[t] = "RUNNING" => w[t] = "RUNNING"
      /\ (\E i \in DOMAIN wait' : st[wait'[i]] # "RUNNING")
         => \E t \in Task : st[t] # "RUNNING" /\ w[t] = "RUNNING"
  BY WakeUpFacts
<1> HIDE DEF w
<1>2. tstate' = w
  BY DEF w
<1>3. SleepsInDown'
  BY <1>1, <1>2 DEF SleepsInDown
<1>4. ASSUME Asleep' PROVE Awake'
  <2>1. PICK t \in Task : pc'[t] = "sleep" /\ w[t] # "RUNNING"
    BY <1>2, <1>4 DEF Asleep
  <2>2. PICK i \in DOMAIN wait' : wait'[i] = t
    BY <2>1 DEF Queued
  <2>3. st[wait'[i]] # "RUNNING"
    BY <1>1, <2>1, <2>2
  <2>4. PICK u \in Task : st[u] # "RUNNING" /\ w[u] = "RUNNING"
    BY <1>1, <2>2, <2>3
  <2> QED
    BY <1>2, <2>4 DEF Awake
<1> QED
  BY <1>3, <1>4 DEF WInv, Settled

\* A task leaves the queue and the loop: the others are still in the queue, and
\* the first that sleeps is woken.
LEMMA LeaveQueueWakes ==
    ASSUME TypeOK, SleepsInDown, NEW t \in Task, NEW q \in Seq(Task),
           NEW p \in PC, p # "sleep",
           \A u \in Task : pc[u] = "sleep" => \E i \in DOMAIN q : q[i] = u,
           LeaveQueue(t, q, p)
    PROVE  WInv'
<1> DEFINE rest == RemoveFirst(q, t)
           st == [tstate EXCEPT ![t] = "RUNNING"]
<1>1. /\ wait' = rest
      /\ tstate' = WakeUp(rest, st)
      /\ pc' = [pc EXCEPT ![t] = p]
  BY DEF LeaveQueue
<1>2. rest \in Seq(Task)
  BY RemoveType
<1>3. st \in [Task -> TState] /\ pc \in [Task -> PC]
  BY DEF TypeOK, TState
<1>4. \A u \in Task : st[u] # "RUNNING" => pc'[u] = "sleep"
  BY <1>1 DEF TypeOK, SleepsInDown
<1>5. \A u \in Task : pc'[u] = "sleep" => u # t /\ pc[u] = "sleep"
  BY <1>1, <1>3
<1> HIDE DEF rest, st
<1>6. Queued'
  <2> SUFFICES ASSUME NEW u \in Task, pc'[u] = "sleep"
               PROVE  \E i \in DOMAIN rest : rest[i] = u
    BY <1>1 DEF Queued
  <2>1. u # t /\ pc[u] = "sleep"
    BY <1>5
  <2>2. PICK k \in DOMAIN q : q[k] = u
    BY <2>1
  <2> QED
    BY <2>1, <2>2, RemoveKeeps DEF rest
<1> QED
  BY <1>1, <1>2, <1>3, <1>4, <1>6, Wakes

\* One turn of the loop, with the task in the queue.
LEMMA DownLoopWakes ==
    ASSUME TypeOK, SleepsInDown, NEW t \in Task, NEW s \in {0, 1, 2},
           NEW q \in Seq(Task), NEW k \in DOMAIN q, q[k] = t,
           \A u \in Task : pc[u] = "sleep" => \E i \in DOMAIN q : q[i] = u,
           DownLoop(t, s, q)
    PROVE  WInv'
<1>1. CASE Interrupted(t, s, q)
  BY <1>1, LeaveQueueWakes DEF Interrupted, PC
<1>2. CASE Acquired(t, s, q)
  BY <1>2, LeaveQueueWakes DEF Acquired, PC
<1>3. CASE Blocked(t, s, q)
  <2>1. /\ count' < 0 /\ wait' = q
        /\ tstate' = [tstate EXCEPT ![t] = SleepState(t)]
        /\ pc' = [pc EXCEPT ![t] = "sleep"]
    BY <1>3 DEF Blocked
  <2>2. tstate \in [Task -> TState] /\ pc \in [Task -> PC]
    BY DEF TypeOK, TState
  <2>3. SleepsInDown'
    BY <2>1, <2>2 DEF SleepsInDown
  <2>4. Queued'
    BY <2>1, <2>2 DEF Queued
  <2> QED
    BY <2>1, <2>3, <2>4 DEF WInv, Settled
<1> QED
  BY <1>1, <1>2, <1>3 DEF DownLoop

\* Nobody waits when the semaphore is initialised.
LEMMA InitWInv == Init => WInv
BY DEF Init, WInv, SleepsInDown, Queued, Settled, Asleep

\* Every step keeps the invariant of the wakeups.
LEMMA NextWInv == TypeOK /\ WInv /\ [Next]_vars => WInv'
<1> SUFFICES ASSUME TypeOK, WInv, [Next]_vars PROVE WInv'
  OBVIOUS
<1>0. /\ SleepsInDown /\ Queued /\ Settled
      /\ pc \in [Task -> PC] /\ count \in Int /\ sleepers \in {0, 1}
      /\ wait \in Seq(Task) /\ tstate \in [Task -> TState]
  BY DEF WInv, TypeOK, TState
<1>1. CASE UNCHANGED vars
  BY <1>0, <1>1 DEF WInv, SleepsInDown, Queued, Settled, Asleep, Awake, vars
<1>2. ASSUME NEW t \in Task, NEW m \in Modes, Down(t, m) PROVE WInv'
  <2>1. /\ pc[t] = "idle" /\ count' = count - 1
        /\ pc' = [pc EXCEPT ![t] = IF count - 1 < 0 THEN "slow" ELSE "hold"]
        /\ wait' = wait /\ tstate' = tstate
    BY <1>2 DEF Down
  <2>2. SleepsInDown' /\ Queued'
    BY <1>0, <2>1 DEF SleepsInDown, Queued
  <2>3. CASE count - 1 < 0
    BY <1>0, <2>1, <2>2, <2>3 DEF WInv, Settled, Awake
  <2>4. CASE ~(count - 1 < 0)
    <3>1. pc' = [pc EXCEPT ![t] = "hold"]
      BY <2>1, <2>4
    <3>2. (Asleep' => Asleep) /\ (Awake => Awake')
      BY <1>0, <2>1, <3>1 DEF Asleep, Awake
    <3>3. ~(count < 0)
      BY <1>0, <2>4
    <3> QED
      BY <1>0, <2>2, <3>2, <3>3 DEF WInv, Settled
  <2> QED
    BY <2>3, <2>4
<1>3. ASSUME NEW t \in Task, Up(t) PROVE WInv'
  <2>1. /\ pc[t] = "hold" /\ count' = count + 1
        /\ pc' = [pc EXCEPT ![t] = IF count + 1 <= 0 THEN "wake" ELSE "idle"]
        /\ wait' = wait /\ tstate' = tstate
    BY <1>3 DEF Up, UpNeedsWake
  <2>2. SleepsInDown' /\ Queued'
    BY <1>0, <2>1 DEF SleepsInDown, Queued
  <2>3. CASE count + 1 <= 0
    BY <1>0, <2>1, <2>2, <2>3 DEF WInv, Settled, Awake
  <2>4. CASE ~(count + 1 <= 0)
    <3>1. pc' = [pc EXCEPT ![t] = "idle"]
      BY <2>1, <2>4
    <3>2. (Asleep' => Asleep) /\ (Awake => Awake')
      BY <1>0, <2>1, <3>1 DEF Asleep, Awake
    <3>3. ~(count < 0)
      BY <1>0, <2>4
    <3> QED
      BY <1>0, <2>2, <3>2, <3>3 DEF WInv, Settled
  <2> QED
    BY <2>3, <2>4
<1>4. ASSUME NEW t \in Task, UpWake(t) PROVE WInv'
  <2>1. /\ pc[t] = "wake" /\ pc' = [pc EXCEPT ![t] = "idle"]
        /\ wait' = wait /\ tstate' = WakeUp(wait, tstate)
    BY <1>4 DEF UpWake
  <2>2. /\ \A u \in Task : tstate[u] # "RUNNING" => pc'[u] = "sleep"
        /\ Queued'
    BY <1>0, <2>1 DEF SleepsInDown, Queued
  <2> QED
    BY <1>0, <2>1, <2>2, Wakes
<1>5. ASSUME NEW t \in Task, DownEnter(t) PROVE WInv'
  <2> DEFINE q == Append(wait, t)
  <2>1. /\ sleepers + 1 \in {0, 1, 2} /\ q \in Seq(Task)
        /\ Len(wait) + 1 \in DOMAIN q /\ q[Len(wait) + 1] = t
        /\ \A i \in DOMAIN wait : i \in DOMAIN q /\ q[i] = wait[i]
    BY <1>0
  <2>2. DownLoop(t, sleepers + 1, q)
    BY <1>5 DEF DownEnter
  <2> HIDE DEF q
  <2>3. \A u \in Task : pc[u] = "sleep" => \E i \in DOMAIN q : q[i] = u
    BY <1>0, <2>1 DEF Queued
  <2> QED
    BY <1>0, <2>1, <2>2, <2>3, DownLoopWakes
<1>6. ASSUME NEW t \in Task, DownRetry(t) PROVE WInv'
  <2>1. pc[t] = "sleep" /\ DownLoop(t, sleepers, wait)
    BY <1>6 DEF DownRetry
  <2>2. PICK k \in DOMAIN wait : wait[k] = t
    BY <1>0, <2>1 DEF Queued
  <2> QED
    BY <1>0, <2>1, <2>2, DownLoopWakes DEF Queued
<1>7. ASSUME NEW t \in Task, TrylockFailed(t) PROVE WInv'
  <2>1. /\ pc[t] = "slow" /\ pc' = [pc EXCEPT ![t] = "idle"]
        /\ count' = count + sleepers + 1 /\ wait' = wait
        /\ tstate' = IF count + sleepers + 1 >= 0 THEN WakeUp(wait, tstate)
                                                  ELSE tstate
    BY <1>7 DEF TrylockFailed
  <2>2. /\ \A u \in Task : tstate[u] # "RUNNING" => pc'[u] = "sleep"
        /\ Queued'
    BY <1>0, <2>1 DEF SleepsInDown, Queued
  <2>3. CASE count + sleepers + 1 >= 0
    BY <1>0, <2>1, <2>2, <2>3, Wakes
  <2>4. CASE ~(count + sleepers + 1 >= 0)
    <3>1. tstate' = tstate /\ count' < 0
      BY <1>0, <2>1, <2>4
    <3> QED
      BY <2>2, <3>1 DEF WInv, SleepsInDown, Settled
  <2> QED
    BY <2>3, <2>4
<1>8. ASSUME NEW t \in Task, Signal(t) PROVE WInv'
  <2>1. /\ pc[t] \in {"slow", "sleep"} /\ pc' = pc /\ wait' = wait
        /\ tstate' = [tstate EXCEPT ![t] = "RUNNING"]
    BY <1>8 DEF Signal
  <2>2. SleepsInDown' /\ Queued'
    BY <1>0, <2>1 DEF SleepsInDown, Queued
  <2>3. Awake'
    BY <1>0, <2>1 DEF Awake
  <2> QED
    BY <2>2, <2>3 DEF WInv, Settled
<1> QED
  BY <1>1, <1>2, <1>3, <1>4, <1>5, <1>6, <1>7, <1>8 DEF Next, Step

\* For any number of tasks and units no wakeup is lost: a waiter sleeps beside a
\* free semaphore only while some task is on its way to the contended code.
\* Settled gives a negative count, and Accounting then leaves no unit free.
THEOREM NoLostWakeupHolds == Spec => []NoLostWakeup
<1>1. IInv /\ WInv => NoLostWakeup
  <2> SUFFICES ASSUME IInv, WInv, Cardinality(Holders) < N, Asleep, ~Awake
               PROVE  FALSE
    BY DEF NoLostWakeup, Asleep, Awake
  <2>1. count < 0 /\ count \in Int /\ sleepers \in {0, 1}
    BY DEF WInv, Settled, IInv, TypeOK
  <2>2. Entering = {}
    BY DEF Entering, Awake
  <2>3. Cardinality(Entering) = 0 /\ Cardinality(Holders) \in Nat
    BY <2>2, FS_EmptySet, CardUpdate DEF Holders
  <2>4. count + Cardinality(Holders) + Cardinality(Entering) + sleepers = N
    BY DEF IInv, Accounting
  <2> QED
    BY <2>1, <2>3, <2>4, NAssumption
<1>2. IInv => TypeOK
  BY DEF IInv
<1> QED
  BY <1>1, <1>2, InitIInv, NextIInv, InitWInv, NextWInv, PTL DEF Spec
==============================================================================
