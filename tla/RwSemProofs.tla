----------------------------- MODULE RwSemProofs -----------------------------
(***************************************************************************)
(* The meaning of sem->count, exclusion, the life of the queue entries and *)
(* the refinement of RwLock, for every finite set of fewer than 2^15       *)
(* tasks.                                                                  *)
(***************************************************************************)
EXTENDS RwSem, FiniteSetTheorems, SequenceTheorems,
        WellFoundedInduction, TLAPS

(* Sets, sequences and the two halves of count *)

\* Adding a task to a set of tasks, or removing one, changes its size by at
\* most one.
LEMMA CardUpdate ==
    ASSUME NEW A \in SUBSET Task, NEW t
    PROVE  /\ Cardinality(A) \in Nat
           /\ Cardinality(A \cup {t}) = IF t \in A THEN Cardinality(A)
                                                   ELSE Cardinality(A) + 1
           /\ Cardinality(A \ {t}) = IF t \in A THEN Cardinality(A) - 1
                                                ELSE Cardinality(A)
<1>1. IsFiniteSet(A)
  BY FS_Subset, TaskAssumption
<1> QED
  BY <1>1, FS_CardinalityType, FS_AddElement, FS_RemoveElement

\* Only the empty set has size 0.
LEMMA CardZero ==
    ASSUME NEW A \in SUBSET Task
    PROVE  Cardinality(A) = 0 <=> A = {}
<1>1. IsFiniteSet(A)
  BY FS_Subset, TaskAssumption
<1> QED
  BY <1>1, FS_EmptySet

\* The sizes of two disjoint sets of tasks add up.
LEMMA CardDisjoint ==
    ASSUME NEW A \in SUBSET Task, NEW B \in SUBSET Task, A \cap B = {}
    PROVE  Cardinality(A \cup B) = Cardinality(A) + Cardinality(B)
<1>1. IsFiniteSet(A) /\ IsFiniteSet(B)
  BY FS_Subset, TaskAssumption
<1>2. Cardinality(A) \in Nat /\ Cardinality(B) \in Nat
  BY <1>1, FS_CardinalityType
<1>3. Cardinality(A \cap B) = 0
  BY FS_EmptySet
<1>4. Cardinality(A \cup B) = Cardinality(A) + Cardinality(B) - Cardinality(A \cap B)
  BY <1>1, FS_Union
<1> QED
  BY <1>2, <1>3, <1>4

\* There is room for every task in the active half of count.
LEMMA CardBound ==
    ASSUME NEW A \in SUBSET Task
    PROVE  Cardinality(A) \in Nat /\ Cardinality(A) < 32768
<1>1. /\ IsFiniteSet(A) /\ Cardinality(A) <= Cardinality(Task)
      /\ Cardinality(A) \in Nat /\ Cardinality(Task) \in Nat
  BY FS_Subset, FS_CardinalityType, TaskAssumption
<1> QED
  BY <1>1, TaskAssumption

\* "count & RWSEM_ACTIVE_MASK" is the active half as long as it does not
\* overflow, and the sign of count tells whether the other half is zero.
LEMMA Halves ==
    ASSUME NEW a \in Nat, a < 65536, NEW b \in Nat, NEW c \in Int,
           c = a - 65536 * b
    PROVE  /\ Active(c) = a
           /\ c >= 0 => b = 0
           /\ c = 0 <=> a = 0 /\ b = 0
<1>1. (a - 65536 * b) % 65536 = a
  OBVIOUS
<1> QED
  BY <1>1 DEF Active

\* The entries of a queue.
LEMMA QueueRange ==
    ASSUME NEW q \in Seq(Task)
    PROVE  /\ Range(q) \in SUBSET Task
           /\ \A x \in Task : x \in Range(q) <=> \E i \in 1..Len(q) : x = q[i]
           /\ DOMAIN q = 1..Len(q)
           /\ Len(q) \in Nat
<1>1. /\ q \in [1..Len(q) -> Task]
      /\ DOMAIN q = 1..Len(q)
      /\ Len(q) \in Nat
  BY LenProperties
<1>2. Range(q) \in SUBSET Task
  BY <1>1 DEF Range
<1>3. \A x \in Task : x \in Range(q) <=> \E i \in 1..Len(q) : x = q[i]
  BY <1>1 DEF Range
<1> QED
  BY <1>1, <1>2, <1>3

\* A waiter that is not in the queue joins it at the end.
LEMMA AppendFacts ==
    ASSUME NEW q \in Seq(Task), NEW t \in Task
    PROVE  /\ Append(q, t) \in Seq(Task)
           /\ Len(Append(q, t)) = Len(q) + 1
           /\ \A i \in 1..Len(q) : Append(q, t)[i] = q[i]
           /\ Append(q, t)[Len(q) + 1] = t
           /\ Range(Append(q, t)) = Range(q) \cup {t}
<1>1. /\ Append(q, t) \in Seq(Task)
      /\ Len(Append(q, t)) = Len(q) + 1
      /\ \A i \in 1..Len(q) : Append(q, t)[i] = q[i]
      /\ Append(q, t)[Len(q) + 1] = t
      /\ Len(q) \in Nat
  BY LenProperties
<1>2. Range(Append(q, t)) = Range(q) \cup {t}
  <2>1. \A x \in Task : x \in Range(Append(q, t)) <=> x \in Range(q) \cup {t}
    <3>1. \A x \in Task : x \in Range(Append(q, t)) <=>
                    \E i \in 1..(Len(q) + 1) : x = Append(q, t)[i]
      BY <1>1, QueueRange
    <3>2. \A x \in Task : x \in Range(q) <=> \E i \in 1..Len(q) : x = q[i]
      BY QueueRange
    <3>3. \A i : i \in 1..(Len(q) + 1) <=> i \in 1..Len(q) \/ i = Len(q) + 1
      BY <1>1
    <3> QED
      BY <1>1, <3>1, <3>2, <3>3
  <2>2. Range(Append(q, t)) \in SUBSET Task /\ Range(q) \in SUBSET Task
    BY <1>1, QueueRange
  <2> QED
    BY <2>1, <2>2
<1> QED
  BY <1>1, <1>2

\* The front waiter leaves a queue without duplicates.
LEMMA TailFacts ==
    ASSUME NEW q \in Seq(Task), q # <<>>,
           \A i, j \in DOMAIN q : q[i] = q[j] => i = j
    PROVE  /\ Tail(q) \in Seq(Task)
           /\ Len(Tail(q)) = Len(q) - 1
           /\ \A i \in 1..Len(Tail(q)) : Tail(q)[i] = q[i + 1]
           /\ Head(q) \in Range(q) /\ Head(q) = q[1] /\ Len(q) > 0
           /\ Range(Tail(q)) = Range(q) \ {Head(q)}
           /\ \A i, j \in DOMAIN Tail(q) : Tail(q)[i] = Tail(q)[j] => i = j
<1>1. /\ Tail(q) \in Seq(Task)
      /\ Len(Tail(q)) = Len(q) - 1
      /\ \A i \in 1..Len(Tail(q)) : Tail(q)[i] = q[i + 1]
      /\ Head(q) = q[1] /\ Len(q) > 0 /\ Len(q) \in Nat
      /\ DOMAIN q = 1..Len(q) /\ DOMAIN Tail(q) = 1..Len(Tail(q))
  BY HeadTailProperties, EmptySeq, LenProperties
<1>2. Head(q) \in Range(q)
  BY <1>1, QueueRange, HeadTailProperties
<1>3. Range(Tail(q)) = Range(q) \ {Head(q)}
  <2>1. \A x \in Task : x \in Range(Tail(q)) => x \in Range(q) \ {Head(q)}
    <3> SUFFICES ASSUME NEW x \in Task, x \in Range(Tail(q))
                 PROVE  x \in Range(q) /\ x # Head(q)
      OBVIOUS
    <3>1. PICK i \in 1..Len(Tail(q)) : x = Tail(q)[i]
      BY <1>1, QueueRange
    <3>2. i + 1 \in 1..Len(q) /\ x = q[i + 1] /\ i + 1 # 1 /\ 1 \in 1..Len(q)
      BY <1>1, <3>1
    <3> QED
      BY <1>1, <3>2, QueueRange
  <2>2. \A x \in Task : x \in Range(q) \ {Head(q)} => x \in Range(Tail(q))
    <3> SUFFICES ASSUME NEW x \in Task, x \in Range(q), x # Head(q)
                 PROVE  x \in Range(Tail(q))
      OBVIOUS
    <3>1. PICK i \in 1..Len(q) : x = q[i]
      BY QueueRange
    <3>2. i # 1
      BY <1>1, <3>1
    <3>3. i - 1 \in 1..Len(Tail(q)) /\ (i - 1) + 1 = i
      BY <1>1, <3>1, <3>2
    <3>4. x = Tail(q)[i - 1]
      BY <1>1, <3>1, <3>3
    <3> QED
      BY <1>1, <3>3, <3>4, QueueRange
  <2>3. Range(Tail(q)) \in SUBSET Task /\ Range(q) \in SUBSET Task
    BY <1>1, QueueRange
  <2> QED
    BY <2>1, <2>2, <2>3
<1>4. \A i, j \in DOMAIN Tail(q) : Tail(q)[i] = Tail(q)[j] => i = j
  <2> SUFFICES ASSUME NEW i \in 1..Len(Tail(q)), NEW j \in 1..Len(Tail(q)),
                      Tail(q)[i] = Tail(q)[j]
               PROVE  i = j
    BY <1>1
  <2>1. i + 1 \in 1..Len(q) /\ j + 1 \in 1..Len(q) /\ q[i + 1] = q[j + 1]
    BY <1>1
  <2>2. i + 1 = j + 1
    BY <1>1, <2>1
  <2> QED
    BY <1>1, <2>2
<1> QED
  BY <1>1, <1>2, <1>3, <1>4

\* A non-empty set of natural numbers has a least element.
LEMMA LeastNat ==
    ASSUME NEW I, I \subseteq Nat, I # {}
    PROVE  \E i \in I : \A j \in I : i <= j
<1> DEFINE R == OpToRel(<, Nat)
<1>0. R = {ss \in Nat \X Nat : ss[1] < ss[2]}
  BY Zenon DEF OpToRel
<1>1. PICK i \in I : \A j \in I : ~(<<j, i>> \in R)
  BY WFMin, NatLessThanWellFounded
<1>2. \A j \in I : <<j, i>> \in R <=> j < i
  BY <1>0
<1> HIDE DEF R
<1>3. \A j \in I : i <= j
  <2> SUFFICES ASSUME NEW j \in I PROVE i <= j
    OBVIOUS
  <2>1. ~(j < i) /\ i \in Nat /\ j \in Nat
    BY <1>1, <1>2
  <2> QED
    BY <2>1
<1> QED
  BY <1>3

\* The number __rwsem_do_wake counts: that many waiters at the front of the
\* queue are readers, and it is 0 only if the front one is not.
LEMMA FrontReadersFacts ==
    ASSUME NEW q \in Seq(Task)
    PROVE  /\ FrontReaders(q) \in 0..Len(q)
           /\ \A i \in 1..FrontReaders(q) : kind[q[i]] = "r"
           /\ q # <<>> /\ kind[Head(q)] = "r" => FrontReaders(q) > 0
<1> DEFINE S == {i \in 1..Len(q) : \A j \in 1..i : kind[q[j]] = "r"}
<1>0. Len(q) \in Nat /\ DOMAIN q = 1..Len(q)
  BY LenProperties
<1>1. FrontReaders(q) = Cardinality(S)
  BY <1>0 DEF FrontReaders
<1>2. \E n \in 0..Len(q) : S = 1..n
  <2>1. CASE S = 1..Len(q)
    BY <1>0, <2>1
  <2>2. CASE S # 1..Len(q)
    <3> DEFINE I == (1..Len(q)) \ S
    <3>1. I \subseteq Nat /\ I # {}
      BY <1>0, <2>2
    <3> HIDE DEF I
    <3>2. PICK m \in I : \A j \in I : m <= j
      BY <3>1, LeastNat
    <3>3. m \in 1..Len(q) /\ m \notin S /\ m \in Nat
      BY <3>1, <3>2 DEF I
    <3>4. S \subseteq 1..(m - 1)
      <4> SUFFICES ASSUME NEW i \in S PROVE i \in 1..(m - 1)
        OBVIOUS
      <4>1. i \in 1..Len(q) /\ \A j \in 1..i : kind[q[j]] = "r"
        OBVIOUS
      <4>2. CASE m <= i
        <5>1. \A j \in 1..m : j \in 1..i
          BY <1>0, <3>3, <4>1, <4>2
        <5> QED
          BY <3>3, <4>1, <5>1
      <4>3. CASE ~(m <= i)
        BY <1>0, <3>3, <4>1, <4>3
      <4> QED
        BY <4>2, <4>3
    <3>5. 1..(m - 1) \subseteq S
      <4> SUFFICES ASSUME NEW i \in 1..(m - 1) PROVE i \in S
        OBVIOUS
      <4>1. i \in 1..Len(q) /\ ~(m <= i)
        BY <1>0, <3>3
      <4>2. i \notin I
        BY <3>2, <4>1
      <4> QED
        BY <4>1, <4>2 DEF I
    <3>6. m - 1 \in 0..Len(q)
      BY <1>0, <3>3
    <3> QED
      BY <3>4, <3>5, <3>6
  <2> QED
    BY <2>1, <2>2
<1>3. PICK n \in 0..Len(q) : S = 1..n
  BY <1>2
<1>4. Cardinality(1..n) = n
  BY <1>0, <1>3, FS_Interval
<1>5. FrontReaders(q) = n
  BY <1>1, <1>3, <1>4
<1>6. \A i \in 1..n : kind[q[i]] = "r"
  BY <1>0, <1>3
<1>7. ASSUME q # <<>>, kind[Head(q)] = "r" PROVE n > 0
  <2>1. Len(q) > 0 /\ Head(q) = q[1]
    BY <1>7, <1>0, EmptySeq
  <2>2. 1 \in S
    BY <1>0, <1>7, <2>1
  <2>3. 1 \in 1..n
    BY <1>3, <2>2
  <2> QED
    BY <1>0, <2>3
<1> QED
  BY <1>5, <1>6, <1>7

-----------------------------------------------------------------------------
(* The inductive invariant *)

\* sem->wait_lock is held by at most one task; the queue is not empty while
\* somebody works on it, loop counts the readers still to be woken, and nobody
\* becomes a writer between the 0 -> 1 attempt that succeeded and the scan.
LockHeld ==
    /\ \A t, u \in Task : pc[t] \in InDoWake /\ pc[u] \in InDoWake => t = u
    /\ \A t \in Task : pc[t] \in InDoWake => wait_list # <<>>
    /\ \A t \in Task : pc[t] = "grant" => loop > 0
    /\ loop > 0 => \E t \in Task : pc[t] = "grant"
    /\ \A t \in Task : pc[t] = "scan" => Writers = {} /\ kind[Head(wait_list)] = "r"

\* A task is in the queue at most once.
Distinct == \A i, j \in DOMAIN wait_list : wait_list[i] = wait_list[j] => i = j

IInv == TypeOK /\ Accounting /\ Exclusion /\ QueueAlive /\ LockHeld /\ Distinct

\* The two halves of count.
ActiveHalf ==
    Cardinality(Readers) + Cardinality(Failing("r")) + Cardinality(Trying) + loop
    + Cardinality(Writers) + Cardinality(Failing("w"))
WaitingHalf ==
    Cardinality(Writers) + Cardinality(Failing("w")) + (Len(wait_list) - loop)

\* The counted sets are sets of tasks, and their sizes are numbers.
LEMMA Sizes ==
    /\ Readers \in SUBSET Task /\ Cardinality(Readers) \in Nat
    /\ Writers \in SUBSET Task /\ Cardinality(Writers) \in Nat
    /\ Failing("r") \in SUBSET Task /\ Cardinality(Failing("r")) \in Nat
    /\ Failing("w") \in SUBSET Task /\ Cardinality(Failing("w")) \in Nat
    /\ Trying \in SUBSET Task /\ Cardinality(Trying) \in Nat
<1>1. /\ Readers \in SUBSET Task /\ Writers \in SUBSET Task /\ Trying \in SUBSET Task
      /\ Failing("r") \in SUBSET Task /\ Failing("w") \in SUBSET Task
  BY DEF Readers, Writers, Failing, Trying
<1> QED
  BY <1>1, CardUpdate

\* The accounting equation, by halves.
LEMMA Balance ==
    loop \in Nat /\ Len(wait_list) \in Nat =>
        (Accounting <=> count = ActiveHalf - 65536 * WaitingHalf)
<1> SUFFICES ASSUME loop \in Nat, Len(wait_list) \in Nat
             PROVE  Accounting <=> count = ActiveHalf - 65536 * WaitingHalf
  OBVIOUS
<1> DEFINE r == Cardinality(Readers)
           w == Cardinality(Writers)
           fr == Cardinality(Failing("r"))
           fw == Cardinality(Failing("w"))
           y == Cardinality(Trying)
           n == Len(wait_list)
<1>1. /\ r \in Nat /\ w \in Nat /\ fr \in Nat /\ fw \in Nat /\ y \in Nat
      /\ n \in Nat /\ loop \in Nat
  BY Sizes
<1>2. ActiveHalf = r + fr + y + loop + w + fw /\ WaitingHalf = w + fw + (n - loop)
  BY DEF ActiveHalf, WaitingHalf
<1>3. RWSEM_ACTIVE_WRITE_BIAS = -65535 /\ RWSEM_WAITING_BIAS = -65536
  BY DEF RWSEM_ACTIVE_WRITE_BIAS, RWSEM_WAITING_BIAS, RWSEM_ACTIVE_BIAS
<1>4. Accounting <=> count = r + fr + y + loop + RWSEM_ACTIVE_WRITE_BIAS * (w + fw)
                                 + RWSEM_WAITING_BIAS * (n - loop)
  BY DEF Accounting
<1> HIDE DEF r, w, fr, fw, y, n
<1> QED
  BY <1>1, <1>2, <1>3, <1>4

\* The same equation for the next state.
LEMMA BalanceNext ==
    (loop \in Nat /\ Len(wait_list) \in Nat)' =>
        (Accounting' <=> count' = ActiveHalf' - 65536 * WaitingHalf')
<1>1. (loop \in Nat /\ Len(wait_list) \in Nat =>
        (Accounting <=> count = ActiveHalf - 65536 * WaitingHalf))'
  BY Balance, PTL
<1> QED
  BY <1>1

\* How much the counted sets, the queue and loop grow in a step.
Shift(r, w, fr, fw, y, n, l) ==
    /\ Cardinality(Readers') = Cardinality(Readers) + r
    /\ Cardinality(Writers') = Cardinality(Writers) + w
    /\ Cardinality(Failing("r")') = Cardinality(Failing("r")) + fr
    /\ Cardinality(Failing("w")') = Cardinality(Failing("w")) + fw
    /\ Cardinality(Trying') = Cardinality(Trying) + y
    /\ Len(wait_list') = Len(wait_list) + n
    /\ loop' = loop + l

\* The step keeps the accounting equation if it changes count by as much as
\* the two halves.
LEMMA Recount ==
    ASSUME IInv, NEW r \in Int, NEW w \in Int, NEW fr \in Int, NEW fw \in Int,
           NEW y \in Int, NEW n \in Int, NEW l \in Int, Shift(r, w, fr, fw, y, n, l),
           loop' \in Nat, Len(wait_list') \in Nat,
           count' = count + (r + fr + y + l + w + fw) - 65536 * (w + fw + (n - l))
    PROVE  Accounting'
<1> DEFINE cr == Cardinality(Readers)
           cw == Cardinality(Writers)
           cfr == Cardinality(Failing("r"))
           cfw == Cardinality(Failing("w"))
           cy == Cardinality(Trying)
           cn == Len(wait_list)
<1>1. TypeOK /\ Accounting
  BY DEF IInv
<1>2. /\ cr \in Nat /\ cw \in Nat /\ cfr \in Nat /\ cfw \in Nat /\ cy \in Nat
      /\ cn \in Nat /\ loop \in Nat /\ count \in Int
  <2>1. cn \in Nat /\ loop \in Nat /\ count \in Int
    BY <1>1, LenProperties DEF TypeOK
  <2> QED
    BY <2>1, Sizes
<1>3. /\ ActiveHalf = cr + cfr + cy + loop + cw + cfw
      /\ WaitingHalf = cw + cfw + (cn - loop)
  BY DEF ActiveHalf, WaitingHalf
<1>4. /\ ActiveHalf' = (cr + r) + (cfr + fr) + (cy + y) + (loop + l) + (cw + w) + (cfw + fw)
      /\ WaitingHalf' = (cw + w) + (cfw + fw) + ((cn + n) - (loop + l))
  <2>1. /\ ActiveHalf' = Cardinality(Readers') + Cardinality(Failing("r")')
                + Cardinality(Trying') + loop' + Cardinality(Writers')
                + Cardinality(Failing("w")')
        /\ WaitingHalf' = Cardinality(Writers') + Cardinality(Failing("w")')
                + (Len(wait_list') - loop')
    BY DEF ActiveHalf, WaitingHalf
  <2> QED
    BY <2>1 DEF Shift
<1>5. count = ActiveHalf - 65536 * WaitingHalf
  BY <1>1, <1>2, Balance
<1> HIDE DEF cr, cw, cfr, cfw, cy, cn
<1>6. count' = ActiveHalf' - 65536 * WaitingHalf'
  BY <1>2, <1>3, <1>4, <1>5
<1> QED
  BY <1>6, BalanceNext

\* The active half does not overflow, because a task is active in one role
\* only: count can be read back.
LEMMA Decode ==
    ASSUME IInv
    PROVE  /\ ActiveHalf \in Nat /\ WaitingHalf \in Nat
           /\ ActiveHalf < 65535
           /\ count = ActiveHalf - 65536 * WaitingHalf
           /\ Active(count) = ActiveHalf
           /\ ActiveHalf = 0 =>
                 Readers = {} /\ Writers = {} /\ Trying = {} /\ loop = 0
           /\ WaitingHalf = 0 => Writers = {}
<1>0. TypeOK /\ Accounting /\ QueueAlive /\ LockHeld
  BY DEF IInv
<1>1. /\ loop \in Nat /\ Len(wait_list) \in Nat /\ loop <= Len(wait_list)
      /\ count \in Int
  <2>1. Len(wait_list) \in Nat
    BY <1>0, LenProperties DEF TypeOK
  <2> QED
    BY <1>0, <2>1 DEF TypeOK
<1>2. Queued \in SUBSET Task
  BY <1>0, QueueRange DEF TypeOK, Queued
<1>3. /\ Readers \cap Writers = {}
      /\ (Readers \cup Writers) \cap Failing("r") = {}
      /\ (Readers \cup Writers \cup Failing("r")) \cap Failing("w") = {}
      /\ (Readers \cup Writers \cup Failing("r") \cup Failing("w")) \cap Queued = {}
  BY <1>0, Zenon DEF Readers, Writers, Failing, QueueAlive, InDoWake
<1>4. Cardinality(Readers) + Cardinality(Writers) + Cardinality(Failing("r"))
        + Cardinality(Failing("w")) + Cardinality(Queued) < 32768
  <2> DEFINE A == Readers \cup Writers
             B == A \cup Failing("r")
             C == B \cup Failing("w")
             D == C \cup Queued
  <2>1. A \in SUBSET Task /\ Cardinality(A) = Cardinality(Readers) + Cardinality(Writers)
    BY <1>3, Sizes, CardDisjoint
  <2>2. A \cap Failing("r") = {} /\ B \cap Failing("w") = {} /\ C \cap Queued = {}
    BY <1>3
  <2> HIDE DEF A
  <2>3. B \in SUBSET Task /\ Cardinality(B) = Cardinality(A) + Cardinality(Failing("r"))
    BY <2>1, <2>2, Sizes, CardDisjoint
  <2> HIDE DEF B
  <2>4. C \in SUBSET Task /\ Cardinality(C) = Cardinality(B) + Cardinality(Failing("w"))
    BY <2>2, <2>3, Sizes, CardDisjoint
  <2> HIDE DEF C
  <2>5. D \in SUBSET Task /\ Cardinality(D) = Cardinality(C) + Cardinality(Queued)
    BY <2>2, <2>4, <1>2, CardDisjoint
  <2> HIDE DEF D
  <2>6. Cardinality(D) < 32768
    BY <2>5, CardBound
  <2> QED
    BY <2>1, <2>3, <2>4, <2>5, <2>6
<1>5. Cardinality(Trying) <= 1
  <2>1. CASE Trying = {}
    BY <2>1, FS_EmptySet
  <2>2. CASE Trying # {}
    <3>1. PICK t \in Task : t \in Trying
      BY <2>2 DEF Trying
    <3>2. Trying = {t}
      BY <1>0, <3>1 DEF Trying, LockHeld, InDoWake
    <3>3. Cardinality(Trying) = 1
      <4>1. Cardinality({t}) = 1
        BY FS_Singleton
      <4> QED
        BY <3>2, <4>1
    <3> QED
      BY <3>3
  <2> QED
    BY <2>1, <2>2
<1>6. Cardinality(Queued) = Len(wait_list)
  BY <1>0 DEF QueueAlive
<1>7. ActiveHalf \in Nat /\ WaitingHalf \in Nat /\ ActiveHalf < 65535
  <2> DEFINE r == Cardinality(Readers)
             w == Cardinality(Writers)
             fr == Cardinality(Failing("r"))
             fw == Cardinality(Failing("w"))
             y == Cardinality(Trying)
             n == Len(wait_list)
  <2>1. /\ r \in Nat /\ w \in Nat /\ fr \in Nat /\ fw \in Nat /\ y \in Nat
        /\ n \in Nat /\ loop \in Nat /\ loop <= n /\ y <= 1
        /\ r + w + fr + fw + n < 32768
    BY <1>1, <1>4, <1>5, <1>6, Sizes
  <2>2. ActiveHalf = r + fr + y + loop + w + fw /\ WaitingHalf = w + fw + (n - loop)
    BY DEF ActiveHalf, WaitingHalf
  <2> HIDE DEF r, w, fr, fw, y, n
  <2> QED
    BY <2>1, <2>2
<1>8. count = ActiveHalf - 65536 * WaitingHalf
  BY <1>0, <1>1, Balance
<1>9. Active(count) = ActiveHalf
  <2>1. ActiveHalf < 65536
    BY <1>7
  <2> QED
    BY <1>1, <1>7, <1>8, <2>1, Halves
<1>10. ASSUME ActiveHalf = 0
       PROVE  Readers = {} /\ Writers = {} /\ Trying = {} /\ loop = 0
  <2>1. /\ Cardinality(Readers) = 0 /\ Cardinality(Writers) = 0
        /\ Cardinality(Trying) = 0 /\ loop = 0
    BY <1>1, <1>10, Sizes DEF ActiveHalf
  <2> QED
    BY <2>1, Sizes, CardZero
<1>11. ASSUME WaitingHalf = 0 PROVE Writers = {}
  <2>1. Cardinality(Writers) = 0
    BY <1>1, <1>11, Sizes DEF WaitingHalf
  <2> QED
    BY <2>1, Sizes, CardZero
<1> QED
  BY <1>7, <1>8, <1>9, <1>10, <1>11

-----------------------------------------------------------------------------
(* Fast paths *)

\* A step of the program is a step of the read/write lock or leaves it alone.
Mapped == Abstract!LNext \/ (Readers' = Readers /\ Writers' = Writers)

Bit(b) == IF b THEN 1 ELSE 0

\* What a fast path that moves t to p, for the lock k, does to the invariant.
FastMoved(t, p, k) ==
    /\ TypeOK' /\ QueueAlive' /\ LockHeld' /\ Distinct'
    /\ Readers' = IF p \in {"read", "dwake"} THEN Readers \cup {t} ELSE Readers \ {t}
    /\ Writers' = IF p = "write" THEN Writers \cup {t} ELSE Writers \ {t}
    /\ t \in Readers <=> pc[t] = "read"
    /\ t \in Writers <=> pc[t] = "write"
    /\ Shift(Bit(p \in {"read", "dwake"}) - Bit(pc[t] = "read"),
             Bit(p = "write") - Bit(pc[t] = "write"),
             Bit(p = "fail" /\ k = "r"), Bit(p = "fail" /\ k = "w"), 0, 0, 0)

\* The shape of a fast path that moves t to p, for the lock k.
FastStep(t, p, k) ==
    /\ pc[t] \in {"idle", "read", "write"} /\ p \in PC \ InDoWake /\ k \in {"r", "w"}
    /\ pc' = [pc EXCEPT ![t] = p]
    /\ kind' = [kind EXCEPT ![t] = k]
    /\ UNCHANGED <<wait_list, granted, loop, ret>>
    /\ count' \in Int
    /\ Trying # {} => p # "write"

\* A fast path moves a task that is neither queued nor granted, outside
\* wait_lock: all it can disturb is count and the sets the task is counted in.
LEMMA FastPath ==
    ASSUME IInv, NEW t \in Task, NEW p, NEW k, FastStep(t, p, k)
    PROVE  FastMoved(t, p, k)
<1> USE DEF FastStep
<1>0. TypeOK /\ QueueAlive /\ LockHeld /\ Distinct
  BY DEF IInv
<1>1. /\ pc \in [Task -> PC] /\ kind \in [Task -> {"r", "w"}]
      /\ wait_list \in Seq(Task) /\ loop \in 0..Len(wait_list) /\ Len(wait_list) \in Nat
      /\ granted \subseteq Task
  BY <1>0, LenProperties DEF TypeOK
<1>2. t \notin Queued /\ t \notin granted
  BY <1>0 DEF QueueAlive, InDoWake
<1>3. /\ \A u \in Task : u # t => pc'[u] = pc[u] /\ kind'[u] = kind[u]
      /\ pc'[t] = p /\ kind'[t] = k
      /\ wait_list' = wait_list /\ granted' = granted /\ loop' = loop /\ ret' = ret
  BY <1>1
<1>4. Queued' = Queued /\ \A u \in Queued \cup granted : u # t /\ u \in Task
  BY <1>1, <1>2, <1>3, QueueRange DEF Queued
<1>5. TypeOK'
  BY <1>0, <1>3 DEF TypeOK
<1>6. QueueAlive'
  <2>1. /\ Cardinality(Queued') = Len(wait_list')
        /\ Queued' \cap granted' = {}
    BY <1>0, <1>3, <1>4 DEF QueueAlive
  <2>2. \A u \in Queued' \cup granted' :
            pc'[u] = "wait" \/ (pc'[u] \in InDoWake /\ ret'[u] = "wait")
    BY <1>0, <1>3, <1>4 DEF QueueAlive
  <2>3. \A i \in 1..loop' : kind'[wait_list'[i]] = "r"
    <3> SUFFICES ASSUME NEW i \in 1..loop PROVE kind'[wait_list[i]] = "r"
      BY <1>3
    <3>1. i \in 1..Len(wait_list) /\ wait_list[i] \in Task
      BY <1>1, ElementOfSeq
    <3>2. wait_list[i] \in Queued
      BY <1>1, <3>1, QueueRange DEF Queued
    <3> QED
      BY <1>0, <1>3, <1>4, <3>2 DEF QueueAlive
  <2> QED
    BY <2>1, <2>2, <2>3 DEF QueueAlive
<1>7. /\ Readers' = IF p \in {"read", "dwake"} THEN Readers \cup {t} ELSE Readers \ {t}
      /\ t \in Readers <=> pc[t] = "read"
  <2>1. \A u \in Task : u # t => (u \in Readers' <=> u \in Readers)
    BY <1>3 DEF Readers
  <2>2. t \in Readers' <=> p \in {"read", "dwake"}
    BY <1>2, <1>3 DEF Readers
  <2>3. t \in Readers <=> pc[t] = "read"
    BY <1>2 DEF Readers, InDoWake
  <2>4. Readers \in SUBSET Task /\ Readers' \in SUBSET Task
    BY DEF Readers
  <2> QED
    BY <2>1, <2>2, <2>3, <2>4
<1>8. /\ Writers' = IF p = "write" THEN Writers \cup {t} ELSE Writers \ {t}
      /\ t \in Writers <=> pc[t] = "write"
  BY <1>2, <1>3 DEF Writers
<1>9. /\ Failing("r")' = IF p = "fail" /\ k = "r" THEN Failing("r") \cup {t}
                                                 ELSE Failing("r")
      /\ Failing("w")' = IF p = "fail" /\ k = "w" THEN Failing("w") \cup {t}
                                                 ELSE Failing("w")
      /\ t \notin Failing("r") \cup Failing("w")
  BY <1>3 DEF Failing
<1>10. Trying' = Trying
  BY <1>3 DEF Trying, InDoWake
<1>11. LockHeld'
  <2>1. \A u \in Task : /\ pc'[u] \in InDoWake => pc[u] \in InDoWake /\ pc'[u] = pc[u]
                        /\ pc[u] \in InDoWake => pc'[u] = pc[u]
    BY <1>3 DEF InDoWake
  <2>2. ASSUME NEW u \in Task, pc'[u] = "scan"
        PROVE  Writers' = {} /\ kind'[Head(wait_list')] = "r"
    <3>1. pc[u] = "scan"
      BY <2>1, <2>2 DEF InDoWake
    <3>2. Writers = {} /\ kind[Head(wait_list)] = "r" /\ wait_list # <<>>
      BY <1>0, <3>1 DEF LockHeld, InDoWake
    <3>3. u \in Trying
      BY <3>1 DEF Trying
    <3>4. Head(wait_list) \in Queued
      BY <1>0, <1>1, <3>2, TailFacts DEF Distinct, Queued
    <3> QED
      BY <1>3, <1>4, <1>8, <3>2, <3>3, <3>4
  <2>3. \A u, v \in Task : pc'[u] \in InDoWake /\ pc'[v] \in InDoWake => u = v
    BY <1>0, <2>1 DEF LockHeld
  <2>4. \A u \in Task : pc'[u] \in InDoWake => wait_list' # <<>>
    BY <1>0, <1>3, <2>1 DEF LockHeld
  <2>5. \A u \in Task : pc'[u] = "grant" => loop' > 0
    BY <1>0, <1>3, <2>1 DEF LockHeld, InDoWake
  <2>6. loop' > 0 => \E u \in Task : pc'[u] = "grant"
    BY <1>0, <1>3, <2>1 DEF LockHeld, InDoWake
  <2> QED
    BY <2>2, <2>3, <2>4, <2>5, <2>6 DEF LockHeld
<1>12. Distinct'
  BY <1>0, <1>3 DEF Distinct
<1>13. Shift(Bit(p \in {"read", "dwake"}) - Bit(pc[t] = "read"),
             Bit(p = "write") - Bit(pc[t] = "write"),
             Bit(p = "fail" /\ k = "r"), Bit(p = "fail" /\ k = "w"), 0, 0, 0)
  <2>1. Cardinality(Readers') = Cardinality(Readers)
            + (Bit(p \in {"read", "dwake"}) - Bit(pc[t] = "read"))
    <3>1. /\ Cardinality(Readers) \in Nat
          /\ Cardinality(Readers \cup {t}) = IF t \in Readers THEN Cardinality(Readers)
                                              ELSE Cardinality(Readers) + 1
          /\ Cardinality(Readers \ {t}) = IF t \in Readers THEN Cardinality(Readers) - 1
                                           ELSE Cardinality(Readers)
      BY Sizes, CardUpdate
    <3>2. Cardinality(Readers') = IF p \in {"read", "dwake"} THEN Cardinality(Readers \cup {t})
                                        ELSE Cardinality(Readers \ {t})
      BY <1>7
    <3> QED
      BY <3>1, <3>2, <1>7 DEF Bit
  <2>2. Cardinality(Writers') = Cardinality(Writers)
            + (Bit(p = "write") - Bit(pc[t] = "write"))
    <3>1. /\ Cardinality(Writers) \in Nat
          /\ Cardinality(Writers \cup {t}) = IF t \in Writers THEN Cardinality(Writers)
                                              ELSE Cardinality(Writers) + 1
          /\ Cardinality(Writers \ {t}) = IF t \in Writers THEN Cardinality(Writers) - 1
                                           ELSE Cardinality(Writers)
      BY Sizes, CardUpdate
    <3>2. Cardinality(Writers') = IF p = "write" THEN Cardinality(Writers \cup {t})
                                        ELSE Cardinality(Writers \ {t})
      BY <1>8
    <3> QED
      BY <3>1, <3>2, <1>8 DEF Bit
  <2>3. Cardinality(Failing("r")') = Cardinality(Failing("r")) + Bit(p = "fail" /\ k = "r")
    BY <1>9, Sizes, CardUpdate DEF Bit
  <2>4. Cardinality(Failing("w")') = Cardinality(Failing("w")) + Bit(p = "fail" /\ k = "w")
    BY <1>9, Sizes, CardUpdate DEF Bit
  <2>5. /\ Cardinality(Trying') = Cardinality(Trying) + 0
        /\ Len(wait_list') = Len(wait_list) + 0 /\ loop' = loop + 0
    BY <1>1, <1>3, <1>10, Sizes
  <2> QED
    BY <2>1, <2>2, <2>3, <2>4, <2>5 DEF Shift
<1> QED
  BY <1>5, <1>6, <1>7, <1>8, <1>11, <1>12, <1>13 DEF FastMoved

\* A reader's fast path: count ends up negative and it goes to the slow path,
\* or nobody has or wants the write lock.
LEMMA RequestRead ==
    ASSUME IInv, NEW t \in Task, DownRead(t) \/ DownReadTrylock(t)
    PROVE  IInv' /\ Mapped
<1>0. TypeOK /\ Exclusion
  BY DEF IInv
<1>1. /\ pc[t] = "idle" /\ count' = count + 1
      /\ kind' = [kind EXCEPT ![t] = "r"]
      /\ UNCHANGED <<wait_list, granted, loop, ret>>
      /\ \/ pc' = [pc EXCEPT ![t] = "fail"]
         \/ count' >= 0 /\ pc' = [pc EXCEPT ![t] = "read"]
  <2>1. count \in Int
    BY <1>0 DEF TypeOK
  <2> QED
    BY <2>1 DEF DownRead, DownReadTrylock, Goto, RWSEM_ACTIVE_BIAS
<1>2. /\ count \in Int /\ count' \in Int /\ loop \in Nat /\ loop' = loop /\ loop' \in Nat
      /\ Len(wait_list) \in Nat /\ Len(wait_list') \in Nat
  BY <1>0, <1>1, LenProperties DEF TypeOK
<1>3. CASE pc' = [pc EXCEPT ![t] = "fail"]
  <2>1. FastMoved(t, "fail", "r")
    <3>1. FastStep(t, "fail", "r")
      BY <1>1, <1>2, <1>3 DEF FastStep, PC, InDoWake
    <3> QED
      BY <3>1, FastPath
  <2>2. /\ TypeOK' /\ QueueAlive' /\ LockHeld' /\ Distinct'
        /\ Readers' = Readers /\ Writers' = Writers
        /\ Shift(0, 0, 1, 0, 0, 0, 0)
    BY <1>1, <2>1 DEF FastMoved, Bit, Shift
  <2>3. Accounting'
    BY <1>1, <1>2, <2>2, Recount
  <2>4. Exclusion'
    BY <1>0, <1>2, <2>2 DEF Exclusion
  <2> QED
    BY <2>2, <2>3, <2>4 DEF IInv, Mapped
<1>4. CASE count' >= 0 /\ pc' = [pc EXCEPT ![t] = "read"]
  <2>1. FastMoved(t, "read", "r")
    <3>1. FastStep(t, "read", "r")
      BY <1>1, <1>2, <1>4 DEF FastStep, PC, InDoWake
    <3> QED
      BY <3>1, FastPath
  <2>2. /\ TypeOK' /\ QueueAlive' /\ LockHeld' /\ Distinct'
        /\ Readers' = Readers \cup {t} /\ t \notin Readers /\ Writers' = Writers
        /\ Shift(1, 0, 0, 0, 0, 0, 0)
    BY <1>1, <2>1 DEF FastMoved, Bit, Shift
  <2>3. Accounting'
    BY <1>1, <1>2, <2>2, Recount
  <2>4. Writers = {}
    <3>1. /\ ActiveHalf \in Nat /\ WaitingHalf \in Nat /\ ActiveHalf < 65535
          /\ count = ActiveHalf - 65536 * WaitingHalf
          /\ WaitingHalf = 0 => Writers = {}
      BY Decode
    <3> QED
      BY <1>1, <1>4, <3>1
  <2>5. Exclusion'
    BY <2>2, <2>4 DEF Exclusion
  <2>6. Abstract!AcquireRead(t)
    BY <2>2, <2>4 DEF Abstract!AcquireRead
  <2> QED
    BY <2>2, <2>3, <2>5, <2>6 DEF IInv, Mapped, Abstract!LNext
<1> QED
  BY <1>1, <1>3, <1>4

\* A writer's fast path: count was not 0 and it goes to the slow path, or
\* nobody is active or waiting.
LEMMA RequestWrite ==
    ASSUME IInv, NEW t \in Task, DownWrite(t) \/ DownWriteTrylock(t)
    PROVE  IInv' /\ Mapped
<1>0. TypeOK /\ Exclusion
  BY DEF IInv
<1>1. /\ pc[t] = "idle" /\ count' = count - 65535
      /\ kind' = [kind EXCEPT ![t] = "w"]
      /\ UNCHANGED <<wait_list, granted, loop, ret>>
      /\ \/ pc' = [pc EXCEPT ![t] = "fail"]
         \/ count = 0 /\ pc' = [pc EXCEPT ![t] = "write"]
  <2>1. count \in Int
    BY <1>0 DEF TypeOK
  <2> QED
    BY <2>1 DEF DownWrite, DownWriteTrylock, Goto, RWSEM_ACTIVE_BIAS,
                RWSEM_WAITING_BIAS, RWSEM_ACTIVE_WRITE_BIAS
<1>2. /\ count \in Int /\ count' \in Int /\ loop \in Nat /\ loop' = loop /\ loop' \in Nat
      /\ Len(wait_list) \in Nat /\ Len(wait_list') \in Nat
  BY <1>0, <1>1, LenProperties DEF TypeOK
<1>3. CASE pc' = [pc EXCEPT ![t] = "fail"]
  <2>1. FastMoved(t, "fail", "w")
    <3>1. FastStep(t, "fail", "w")
      BY <1>1, <1>2, <1>3 DEF FastStep, PC, InDoWake
    <3> QED
      BY <3>1, FastPath
  <2>2. /\ TypeOK' /\ QueueAlive' /\ LockHeld' /\ Distinct'
        /\ Readers' = Readers /\ Writers' = Writers
        /\ Shift(0, 0, 0, 1, 0, 0, 0)
    BY <1>1, <2>1 DEF FastMoved, Bit, Shift
  <2>3. Accounting'
    BY <1>1, <1>2, <2>2, Recount
  <2>4. Exclusion'
    BY <1>0, <1>2, <2>2 DEF Exclusion
  <2> QED
    BY <2>2, <2>3, <2>4 DEF IInv, Mapped
<1>4. CASE count = 0 /\ pc' = [pc EXCEPT ![t] = "write"]
  <2>0. Readers = {} /\ Writers = {} /\ Trying = {} /\ loop = 0
    <3>1. /\ ActiveHalf \in Nat /\ WaitingHalf \in Nat /\ ActiveHalf < 65535
          /\ count = ActiveHalf - 65536 * WaitingHalf
          /\ ActiveHalf = 0 => Readers = {} /\ Writers = {} /\ Trying = {} /\ loop = 0
      BY Decode
    <3>2. ActiveHalf = 0
      BY <1>4, <3>1
    <3> QED
      BY <3>1, <3>2
  <2>1. FastMoved(t, "write", "w")
    <3>1. FastStep(t, "write", "w")
      BY <1>1, <1>2, <1>4, <2>0 DEF FastStep, PC, InDoWake
    <3> QED
      BY <3>1, FastPath
  <2>2. /\ TypeOK' /\ QueueAlive' /\ LockHeld' /\ Distinct'
        /\ Readers' = Readers /\ Writers' = {t}
        /\ Shift(0, 1, 0, 0, 0, 0, 0)
    BY <1>1, <2>0, <2>1 DEF FastMoved, Bit, Shift
  <2>3. Accounting'
    BY <1>1, <1>2, <2>2, Recount
  <2>4. Exclusion'
    <3>1. Cardinality({t}) = 1
      BY FS_Singleton
    <3> QED
      BY <1>2, <2>0, <2>2, <3>1 DEF Exclusion
  <2>5. Abstract!AcquireWrite(t)
    BY <2>0, <2>2 DEF Abstract!AcquireWrite
  <2> QED
    BY <2>2, <2>3, <2>4, <2>5 DEF IInv, Mapped, Abstract!LNext
<1> QED
  BY <1>1, <1>3, <1>4

\* The lock has at most one writer: when it goes, none is left.
LEMMA LastWriter ==
    ASSUME IInv, NEW t \in Writers
    PROVE  Writers \ {t} = {} /\ Readers = {} /\ loop = 0
<1> DEFINE W == Writers \ {t}
<1>1. Cardinality(Writers) = 1 /\ Readers = {} /\ loop = 0
  BY DEF IInv, Exclusion
<1>2. Writers \in SUBSET Task /\ W \in SUBSET Task
  BY Sizes
<1>3. Cardinality(W) = 1 - 1
  BY <1>1, <1>2, CardUpdate
<1> HIDE DEF W
<1>4. W = {}
  BY <1>2, <1>3, CardZero
<1> QED
  BY <1>1, <1>4 DEF W

\* A reader releases the lock; the new count decides only who is to be woken.
LEMMA ReleaseRead ==
    ASSUME IInv, NEW t \in Task, UpRead(t)
    PROVE  IInv' /\ Mapped
<1>0. TypeOK /\ Exclusion
  BY DEF IInv
<1>1. /\ pc[t] = "read" /\ count' = count - 1
      /\ UNCHANGED <<wait_list, granted, loop, kind, ret>>
      /\ pc' = [pc EXCEPT ![t] = "wake"] \/ pc' = [pc EXCEPT ![t] = "idle"]
  BY DEF UpRead, Goto, RWSEM_ACTIVE_BIAS
<1>2. /\ count \in Int /\ count' \in Int /\ loop \in Nat /\ loop' = loop /\ loop' \in Nat
      /\ Len(wait_list) \in Nat /\ Len(wait_list') \in Nat
      /\ kind[t] \in {"r", "w"} /\ kind' = [kind EXCEPT ![t] = kind[t]]
  BY <1>0, <1>1, LenProperties DEF TypeOK
<1>3. FastMoved(t, "wake", kind[t]) \/ FastMoved(t, "idle", kind[t])
  <2>2. ASSUME pc' = [pc EXCEPT ![t] = "wake"] PROVE FastMoved(t, "wake", kind[t])
    <3>1. "wake" \in PC \ InDoWake /\ "wake" # "write"
      BY DEF PC, InDoWake
    <3>2. FastStep(t, "wake", kind[t])
      BY <1>1, <1>2, <2>2, <3>1, Zenon DEF FastStep
    <3> QED
      BY <3>2, FastPath
  <2>3. ASSUME pc' = [pc EXCEPT ![t] = "idle"] PROVE FastMoved(t, "idle", kind[t])
    <3>1. "idle" \in PC \ InDoWake /\ "idle" # "write"
      BY DEF PC, InDoWake
    <3>2. FastStep(t, "idle", kind[t])
      BY <1>1, <1>2, <2>3, <3>1, Zenon DEF FastStep
    <3> QED
      BY <3>2, FastPath
  <2> QED
    BY <1>1, <2>2, <2>3
<1>4. /\ TypeOK' /\ QueueAlive' /\ LockHeld' /\ Distinct'
      /\ Readers' = Readers \ {t} /\ t \in Readers
      /\ Writers' = Writers /\ t \notin Writers
      /\ Shift(-1, 0, 0, 0, 0, 0, 0)
  BY <1>1, <1>3 DEF FastMoved, Bit, Shift
<1>5. Accounting'
  <2>0. PICK m \in Int : m = -1
    OBVIOUS
  <2>1. count' = count + (m + 0 + 0 + 0 + 0 + 0) - 65536 * (0 + 0 + (0 - 0))
    BY <1>1, <1>2, <2>0
  <2>2. Shift(m, 0, 0, 0, 0, 0, 0)
    BY <1>4, <2>0
  <2>3. count \in Int /\ loop' \in Nat /\ Len(wait_list') \in Nat
    BY <1>2
  <2> QED
    BY <2>1, <2>2, <2>3, Recount
<1>6. Exclusion'
  BY <1>0, <1>2, <1>4 DEF Exclusion
<1>7. Abstract!Release(t)
  BY <1>4 DEF Abstract!Release
<1> QED
  BY <1>4, <1>5, <1>6, <1>7 DEF IInv, Mapped, Abstract!LNext

\* The writer releases the lock.
LEMMA ReleaseWrite ==
    ASSUME IInv, NEW t \in Task, UpWrite(t)
    PROVE  IInv' /\ Mapped
<1>0. TypeOK /\ Exclusion
  BY DEF IInv
<1>c. count \in Int /\ count' = count + 65535
  <2>1. count \in Int /\ RWSEM_ACTIVE_WRITE_BIAS = -65535
    BY <1>0 DEF TypeOK, RWSEM_ACTIVE_BIAS, RWSEM_WAITING_BIAS, RWSEM_ACTIVE_WRITE_BIAS
  <2>2. count' = count - RWSEM_ACTIVE_WRITE_BIAS
    BY DEF UpWrite
  <2>3. count' = count + 65535
    BY <2>1, <2>2
  <2> QED
    BY <2>1, <2>3
<1>1. /\ pc[t] = "write"
      /\ UNCHANGED <<wait_list, granted, loop, kind, ret>>
      /\ pc' = [pc EXCEPT ![t] = "wake"] \/ pc' = [pc EXCEPT ![t] = "idle"]
  BY DEF UpWrite, Goto
<1>2. /\ count \in Int /\ count' \in Int /\ loop \in Nat /\ loop' = loop /\ loop' \in Nat
      /\ Len(wait_list) \in Nat /\ Len(wait_list') \in Nat
      /\ kind[t] \in {"r", "w"} /\ kind' = [kind EXCEPT ![t] = kind[t]]
  BY <1>0, <1>c, <1>1, LenProperties DEF TypeOK
<1>3. FastMoved(t, "wake", kind[t]) \/ FastMoved(t, "idle", kind[t])
  <2>2. ASSUME pc' = [pc EXCEPT ![t] = "wake"] PROVE FastMoved(t, "wake", kind[t])
    <3>1. "wake" \in PC \ InDoWake /\ "wake" # "write"
      BY DEF PC, InDoWake
    <3>2. FastStep(t, "wake", kind[t])
      BY <1>1, <1>2, <2>2, <3>1, Zenon DEF FastStep
    <3> QED
      BY <3>2, FastPath
  <2>3. ASSUME pc' = [pc EXCEPT ![t] = "idle"] PROVE FastMoved(t, "idle", kind[t])
    <3>1. "idle" \in PC \ InDoWake /\ "idle" # "write"
      BY DEF PC, InDoWake
    <3>2. FastStep(t, "idle", kind[t])
      BY <1>1, <1>2, <2>3, <3>1, Zenon DEF FastStep
    <3> QED
      BY <3>2, FastPath
  <2> QED
    BY <1>1, <2>2, <2>3
<1>4. /\ TypeOK' /\ QueueAlive' /\ LockHeld' /\ Distinct'
      /\ Readers' = Readers /\ t \notin Readers
      /\ Writers' = Writers \ {t} /\ t \in Writers
      /\ Shift(0, -1, 0, 0, 0, 0, 0)
  BY <1>1, <1>3 DEF FastMoved, Bit, Shift
<1>5. Accounting'
  <2>0. PICK m \in Int : m = -1
    OBVIOUS
  <2>1. count' = count + (0 + 0 + 0 + 0 + m + 0) - 65536 * (m + 0 + (0 - 0))
    BY <1>c, <2>0
  <2>2. Shift(0, m, 0, 0, 0, 0, 0)
    BY <1>4, <2>0
  <2>3. count \in Int /\ loop' \in Nat /\ Len(wait_list') \in Nat
    BY <1>2
  <2> QED
    BY <2>1, <2>2, <2>3, Recount
<1>6. Exclusion'
  BY <1>4, LastWriter DEF Exclusion
<1>7. Abstract!Release(t)
  BY <1>4 DEF Abstract!Release
<1> QED
  BY <1>4, <1>5, <1>6, <1>7 DEF IInv, Mapped, Abstract!LNext

\* The writer becomes a reader without letting another writer in.
LEMMA DowngradeStep ==
    ASSUME IInv, NEW t \in Task, DowngradeWrite(t)
    PROVE  IInv' /\ Mapped
<1>0. TypeOK /\ Exclusion
  BY DEF IInv
<1>1. /\ pc[t] = "write" /\ count' = count + 65536
      /\ UNCHANGED <<wait_list, granted, loop, ret>>
      /\ kind' = [kind EXCEPT ![t] = "r"]
      /\ pc' = [pc EXCEPT ![t] = "dwake"] \/ pc' = [pc EXCEPT ![t] = "read"]
  <2>1. count \in Int /\ RWSEM_WAITING_BIAS = -65536
    BY <1>0 DEF TypeOK, RWSEM_WAITING_BIAS
  <2>2. count' = count - RWSEM_WAITING_BIAS
    BY DEF DowngradeWrite
  <2>3. count' = count + 65536
    BY <2>1, <2>2
  <2>4. /\ pc[t] = "write" /\ UNCHANGED <<wait_list, granted, loop, ret>>
        /\ kind' = [kind EXCEPT ![t] = "r"]
        /\ pc' = [pc EXCEPT ![t] = "dwake"] \/ pc' = [pc EXCEPT ![t] = "read"]
    BY DEF DowngradeWrite, Goto
  <2> QED
    BY <2>3, <2>4
<1>2. /\ count \in Int /\ count' \in Int /\ loop \in Nat /\ loop' = loop /\ loop' \in Nat
      /\ Len(wait_list) \in Nat /\ Len(wait_list') \in Nat
  BY <1>0, <1>1, LenProperties DEF TypeOK
<1>3. FastMoved(t, "dwake", "r") \/ FastMoved(t, "read", "r")
  <2>2. ASSUME pc' = [pc EXCEPT ![t] = "dwake"] PROVE FastMoved(t, "dwake", "r")
    <3>1. FastStep(t, "dwake", "r")
      BY <1>1, <1>2, <2>2 DEF FastStep, PC, InDoWake
    <3> QED
      BY <3>1, FastPath
  <2>3. ASSUME pc' = [pc EXCEPT ![t] = "read"] PROVE FastMoved(t, "read", "r")
    <3>1. FastStep(t, "read", "r")
      BY <1>1, <1>2, <2>3 DEF FastStep, PC, InDoWake
    <3> QED
      BY <3>1, FastPath
  <2> QED
    BY <1>1, <2>2, <2>3
<1>4. /\ TypeOK' /\ QueueAlive' /\ LockHeld' /\ Distinct'
      /\ Readers' = Readers \cup {t}
      /\ Writers' = Writers \ {t} /\ t \in Writers
      /\ Shift(1, -1, 0, 0, 0, 0, 0)
  BY <1>1, <1>3 DEF FastMoved, Bit, Shift
<1>5. Accounting'
  BY <1>1, <1>2, <1>4, Recount
<1>6. Exclusion'
  BY <1>4, LastWriter DEF Exclusion
<1>7. Abstract!Downgrade(t)
  BY <1>4 DEF Abstract!Downgrade
<1> QED
  BY <1>4, <1>5, <1>6, <1>7 DEF IInv, Mapped, Abstract!LNext

-----------------------------------------------------------------------------
(* Contended paths *)

\* The shape of a step inside wait_lock that moves neither the queue nor the
\* lock: t, which holds wait_lock or finds it free, goes to p.
LockedStep(t, p, l) ==
    /\ p \in PC \ {"fail", "write"} /\ pc[t] \in PC \ {"fail", "write"}
    /\ pc' = [pc EXCEPT ![t] = p]
    /\ UNCHANGED <<wait_list, granted, kind>>
    /\ ret' \in [Task -> {"idle", "wait", "read"}]
    /\ \A u \in Task : u # t => ret'[u] = ret[u]
    /\ t \in Queued \cup granted => p = "wait" \/ (p \in InDoWake /\ ret'[t] = "wait")
    /\ t \in Readers' <=> t \in Readers
    /\ count' \in Int
    /\ loop' \in 0..Len(wait_list) /\ loop' = loop + l
    /\ \A i \in 1..loop' : kind[wait_list[i]] = "r"
    /\ pc[t] \in InDoWake \/ LockFree
    /\ p \in InDoWake => wait_list # <<>>
    /\ loop' > 0 <=> p = "grant"
    /\ loop' > 0 => Writers = {}
    /\ p = "scan" => Writers = {} /\ kind[Head(wait_list)] = "r"

\* What such a step does to the invariant.
LockedMoved(t, p, l) ==
    /\ TypeOK' /\ Exclusion' /\ QueueAlive' /\ LockHeld' /\ Distinct'
    /\ Readers' = Readers /\ Writers' = Writers
    /\ Shift(0, 0, 0, 0,
             Bit(p \in {"undo", "scan"}) - Bit(pc[t] \in {"undo", "scan"}), 0, l)

\* It keeps everything but the accounting equation, which depends on count.
LEMMA Locked ==
    ASSUME IInv, NEW t \in Task, NEW p, NEW l, LockedStep(t, p, l)
    PROVE  LockedMoved(t, p, l)
<1>a. /\ p \in PC \ {"fail", "write"} /\ pc[t] \in PC \ {"fail", "write"}
      /\ \A u \in Task : u # t => ret'[u] = ret[u]
      /\ t \in Queued \cup granted => p = "wait" \/ (p \in InDoWake /\ ret'[t] = "wait")
  BY DEF LockedStep
<1>b. t \in Readers' <=> t \in Readers
  BY DEF LockedStep
<1>c. /\ ret' \in [Task -> {"idle", "wait", "read"}]
      /\ count' \in Int
      /\ loop' \in 0..Len(wait_list)
      /\ \A i \in 1..loop' : kind[wait_list[i]] = "r"
  BY DEF LockedStep
<1>d. /\ pc[t] \in InDoWake \/ LockFree
      /\ p \in InDoWake => wait_list # <<>>
      /\ loop' > 0 <=> p = "grant"
      /\ loop' > 0 => Writers = {}
      /\ p = "scan" => Writers = {} /\ kind[Head(wait_list)] = "r"
  BY DEF LockedStep
<1>0. TypeOK /\ Exclusion /\ QueueAlive /\ LockHeld /\ Distinct
  BY DEF IInv
<1>1. /\ pc \in [Task -> PC] /\ wait_list \in Seq(Task) /\ granted \subseteq Task
      /\ Len(wait_list) \in Nat /\ loop \in Nat /\ loop' \in Nat
  BY <1>0, <1>c, LenProperties DEF TypeOK
<1>2. /\ \A u \in Task : u # t => pc'[u] = pc[u]
      /\ pc'[t] = p
      /\ wait_list' = wait_list /\ granted' = granted /\ kind' = kind
      /\ Queued' = Queued
  BY <1>1 DEF LockedStep, Queued
<1>3. Queued \in SUBSET Task
  BY <1>1, QueueRange DEF Queued
<1>4. TypeOK'
  BY <1>0, <1>1, <1>a, <1>c DEF TypeOK, LockedStep
<1>5. QueueAlive'
  <2>1. \A u \in Queued' \cup granted' :
            pc'[u] = "wait" \/ (pc'[u] \in InDoWake /\ ret'[u] = "wait")
    <3> SUFFICES ASSUME NEW u \in Queued \cup granted
                 PROVE  pc'[u] = "wait" \/ (pc'[u] \in InDoWake /\ ret'[u] = "wait")
      BY <1>2
    <3>1. CASE u = t
      BY <1>2, <1>a, <3>1
    <3>2. CASE u # t
      <4>1. u \in Task /\ pc'[u] = pc[u] /\ ret'[u] = ret[u]
        BY <1>1, <1>2, <1>3, <1>a, <3>2
      <4> QED
        BY <1>0, <4>1 DEF QueueAlive
    <3> QED
      BY <3>1, <3>2
  <2> QED
    BY <1>0, <1>2, <1>c, <2>1 DEF QueueAlive
<1>6. Readers' = Readers
  <2>1. \A u \in Task : u # t => (u \in Readers' <=> u \in Readers)
    BY <1>2, <1>a DEF Readers
  <2>2. Readers \in SUBSET Task /\ Readers' \in SUBSET Task
    BY DEF Readers
  <2> QED
    BY <2>1, <2>2, <1>b
<1>7. Writers' = Writers
  BY <1>2, <1>a DEF Writers
<1>8. \A u \in Task : u # t => pc[u] \notin InDoWake
  BY <1>0, <1>d DEF LockHeld, LockFree
<1>9. LockHeld'
  <2>1. \A u \in Task : pc'[u] \in InDoWake => u = t
    BY <1>2, <1>8
  <2>2. "grant" \in InDoWake /\ "scan" \in InDoWake
    BY DEF InDoWake
  <2>3. \A u \in Task : pc'[u] = "grant" => loop' > 0
    BY <1>2, <1>d, <2>1, <2>2
  <2>4. loop' > 0 => \E u \in Task : pc'[u] = "grant"
    BY <1>2, <1>d
  <2>5. \A u \in Task : pc'[u] = "scan" => Writers' = {} /\ kind'[Head(wait_list')] = "r"
    BY <1>2, <1>7, <1>d, <2>1, <2>2
  <2>6. \A u \in Task : pc'[u] \in InDoWake => wait_list' # <<>>
    BY <1>2, <1>d, <2>1
  <2> QED
    BY <2>1, <2>3, <2>4, <2>5, <2>6 DEF LockHeld
<1>10. Distinct'
  BY <1>0, <1>2 DEF Distinct
<1>11. Exclusion'
  <2>1. loop' > 0 \/ loop' = 0
    BY <1>1
  <2> QED
    BY <1>0, <1>6, <1>7, <1>d, <2>1 DEF Exclusion
<1>12. Failing("r")' = Failing("r") /\ Failing("w")' = Failing("w")
  BY <1>2, <1>a DEF Failing
<1>13. /\ Trying' = IF p \in {"undo", "scan"} THEN Trying \cup {t} ELSE Trying \ {t}
       /\ t \in Trying <=> pc[t] \in {"undo", "scan"}
  BY <1>2 DEF Trying
<1>14. Cardinality(Trying') = Cardinality(Trying)
            + (Bit(p \in {"undo", "scan"}) - Bit(pc[t] \in {"undo", "scan"}))
  <2>1. /\ Cardinality(Trying) \in Nat
        /\ Cardinality(Trying \cup {t}) = IF t \in Trying THEN Cardinality(Trying)
                                          ELSE Cardinality(Trying) + 1
        /\ Cardinality(Trying \ {t}) = IF t \in Trying THEN Cardinality(Trying) - 1
                                       ELSE Cardinality(Trying)
    BY Sizes, CardUpdate
  <2>2. Cardinality(Trying') = IF p \in {"undo", "scan"} THEN Cardinality(Trying \cup {t})
                                                       ELSE Cardinality(Trying \ {t})
    BY <1>13
  <2>3. t \in Trying <=> pc[t] \in {"undo", "scan"}
    BY <1>13
  <2>4. CASE p \in {"undo", "scan"}
    BY <2>1, <2>2, <2>3, <2>4 DEF Bit
  <2>5. CASE p \notin {"undo", "scan"}
    BY <2>1, <2>2, <2>3, <2>5 DEF Bit
  <2> QED
    BY <2>4, <2>5
<1>15. Shift(0, 0, 0, 0,
             Bit(p \in {"undo", "scan"}) - Bit(pc[t] \in {"undo", "scan"}), 0, l)
  <2>1. /\ Cardinality(Readers') = Cardinality(Readers) + 0
        /\ Cardinality(Writers') = Cardinality(Writers) + 0
        /\ Cardinality(Failing("r")') = Cardinality(Failing("r")) + 0
        /\ Cardinality(Failing("w")') = Cardinality(Failing("w")) + 0
    BY <1>6, <1>7, <1>12, Sizes
  <2>2. Len(wait_list') = Len(wait_list) + 0
    BY <1>1, <1>2
  <2>3. loop' = loop + l
    BY DEF LockedStep
  <2> QED
    BY <1>14, <2>1, <2>2, <2>3 DEF Shift
<1> QED
  BY <1>4, <1>5, <1>6, <1>7, <1>9, <1>10, <1>11, <1>15 DEF LockedMoved

\* Facts about a task at a program counter.
LEMMA Place ==
    ASSUME IInv, NEW t \in Task
    PROVE  /\ t \in Queued \cup granted =>
                 pc[t] = "wait" \/ (pc[t] \in InDoWake /\ ret[t] = "wait")
           /\ pc[t] \in InDoWake \ {"grant"} => loop = 0
           /\ LockFree => loop = 0
           /\ pc[t] \in InDoWake => wait_list # <<>>
           /\ ret[t] \in {"idle", "wait", "read"} /\ kind[t] \in {"r", "w"}
           /\ pc \in [Task -> PC] /\ ret \in [Task -> {"idle", "wait", "read"}]
           /\ kind \in [Task -> {"r", "w"}] /\ granted \subseteq Task
           /\ count \in Int /\ loop \in Nat /\ Len(wait_list) \in Nat
           /\ wait_list \in Seq(Task) /\ loop <= Len(wait_list)
           /\ Queued \in SUBSET Task
<1>0. TypeOK /\ QueueAlive /\ LockHeld
  BY DEF IInv
<1>1. /\ wait_list \in Seq(Task) /\ Len(wait_list) \in Nat
      /\ loop \in Nat /\ loop <= Len(wait_list)
  BY <1>0, LenProperties DEF TypeOK
<1>2. Queued \in SUBSET Task
  BY <1>1, QueueRange DEF Queued
<1>3. t \in Queued \cup granted =>
          pc[t] = "wait" \/ (pc[t] \in InDoWake /\ ret[t] = "wait")
  BY <1>0 DEF QueueAlive
<1>4. pc[t] \in InDoWake => wait_list # <<>>
  BY <1>0 DEF LockHeld
<1>5. ASSUME loop # 0 PROVE ~LockFree /\ pc[t] \notin InDoWake \ {"grant"}
  <2>1. loop > 0
    BY <1>1, <1>5
  <2>2. PICK u \in Task : pc[u] = "grant"
    BY <1>0, <2>1 DEF LockHeld
  <2> QED
    BY <1>0, <2>2 DEF LockHeld, LockFree, InDoWake
<1>6. /\ ret[t] \in {"idle", "wait", "read"} /\ kind[t] \in {"r", "w"}
      /\ pc \in [Task -> PC] /\ ret \in [Task -> {"idle", "wait", "read"}]
      /\ kind \in [Task -> {"r", "w"}] /\ granted \subseteq Task
      /\ count \in Int
  BY <1>0 DEF TypeOK
<1> QED
  BY <1>1, <1>2, <1>3, <1>4, <1>5, <1>6

\* rwsem_wake takes wait_lock and looks for waiters.
LEMMA RwsemWakeStep ==
    ASSUME IInv, NEW t \in Task, RwsemWake(t)
    PROVE  IInv' /\ Mapped
<1>1. /\ pc[t] = "wake" /\ LockFree
      /\ ret' = [ret EXCEPT ![t] = "idle"]
      /\ UNCHANGED <<count, wait_list, granted, loop, kind>>
      /\ \/ pc' = [pc EXCEPT ![t] = "idle"]
         \/ pc' = [pc EXCEPT ![t] = "try"] /\ wait_list # <<>>
  BY DEF RwsemWake, Goto
<1>2. t \notin Queued /\ t \notin granted /\ loop = 0 /\ ret' \in [Task -> {"idle", "wait", "read"}]
      /\ ret'[t] = "idle" /\ \A u \in Task : u # t => ret'[u] = ret[u]
  BY <1>1, Place DEF InDoWake
<1>3. /\ count \in Int /\ count' \in Int /\ loop' = loop + 0 /\ loop' \in 0..Len(wait_list)
      /\ ~(loop' > 0) /\ \A i \in 1..loop' : kind[wait_list[i]] = "r"
      /\ Len(wait_list) \in Nat /\ wait_list' = wait_list /\ count' = count /\ loop' \in Nat
  BY <1>1, <1>2, Place
<1>4. ASSUME NEW p \in {"idle", "try"}, pc' = [pc EXCEPT ![t] = p], p = "try" => wait_list # <<>>
      PROVE  LockedStep(t, p, 0)
  <2>1. p \in PC \ {"fail", "write"} /\ pc[t] \in PC \ {"fail", "write"}
        /\ (p \in InDoWake => p = "try") /\ p # "grant" /\ p # "scan"
    BY <1>1, <1>4 DEF PC, InDoWake
  <2>2. t \notin Readers /\ t \notin Readers'
    <3>1. pc'[t] = p /\ granted' = granted
      BY <1>1, <1>4, Place
    <3> QED
      BY <1>1, <1>2, <3>1 DEF Readers, InDoWake
  <2> QED
    BY <1>1, <1>2, <1>3, <1>4, <2>1, <2>2 DEF LockedStep
<1>5. LockedMoved(t, "idle", 0) \/ LockedMoved(t, "try", 0)
  <2>1. CASE pc' = [pc EXCEPT ![t] = "idle"]
    <3>1. LockedStep(t, "idle", 0)
      BY <1>4, <2>1
    <3> QED
      BY <3>1, Locked
  <2>2. CASE pc' = [pc EXCEPT ![t] = "try"] /\ wait_list # <<>>
    <3>1. LockedStep(t, "try", 0)
      BY <1>4, <2>2
    <3> QED
      BY <3>1, Locked
  <2> QED
    BY <1>1, <2>1, <2>2
<1>6. /\ TypeOK' /\ Exclusion' /\ QueueAlive' /\ LockHeld' /\ Distinct'
      /\ Readers' = Readers /\ Writers' = Writers
      /\ Shift(0, 0, 0, 0, 0, 0, 0)
  BY <1>1, <1>5 DEF LockedMoved, Bit
<1>7. Accounting'
  BY <1>3, <1>6, Recount
<1> QED
  BY <1>6, <1>7 DEF IInv, Mapped

\* undo takes the failed attempt back; the task keeps the lock it may own.
LEMMA UndoStep ==
    ASSUME IInv, NEW t \in Task, UndoWake(t)
    PROVE  IInv' /\ Mapped
<1>1. /\ pc[t] = "undo" /\ count' = count - 1
      /\ UNCHANGED <<wait_list, granted, loop, kind, ret>>
      /\ pc' = [pc EXCEPT ![t] = ret[t]] \/ pc' = [pc EXCEPT ![t] = "try"]
  BY DEF UndoWake, Goto, RWSEM_ACTIVE_BIAS
<1>2. /\ t \in Queued \cup granted => ret[t] = "wait"
      /\ loop = 0 /\ wait_list # <<>> /\ ret[t] \in {"idle", "wait", "read"}
      /\ ret' \in [Task -> {"idle", "wait", "read"}] /\ ret' = ret
  BY <1>1, Place DEF InDoWake
<1>3. /\ count \in Int /\ count' \in Int /\ loop' = loop + 0 /\ loop' \in 0..Len(wait_list)
      /\ ~(loop' > 0) /\ \A i \in 1..loop' : kind[wait_list[i]] = "r"
  BY <1>1, <1>2, Place
<1>4. ASSUME NEW p \in {ret[t], "try"}, pc' = [pc EXCEPT ![t] = p]
      PROVE  LockedStep(t, p, 0)
  <2>1. p \in PC \ {"fail", "write"} /\ pc[t] \in PC \ {"fail", "write"}
        /\ (p \in InDoWake => p = "try") /\ p # "grant" /\ p # "scan"
        /\ pc[t] \in InDoWake
    BY <1>1, <1>2, <1>4 DEF PC, InDoWake
  <2>2. t \in Readers' <=> t \in Readers
    <3>1. pc'[t] = p /\ granted' = granted /\ kind' = kind /\ ret' = ret
      BY <1>1, <1>4, Place
    <3> QED
      BY <1>1, <1>2, <1>4, <3>1 DEF Readers, InDoWake
  <2>3. t \in Queued \cup granted => p = "wait" \/ (p \in InDoWake /\ ret'[t] = "wait")
    BY <1>2, <1>4 DEF InDoWake
  <2> QED
    BY <1>1, <1>2, <1>3, <1>4, <2>1, <2>2, <2>3 DEF LockedStep
<1>5. LockedMoved(t, ret[t], 0) \/ LockedMoved(t, "try", 0)
  <2>1. CASE pc' = [pc EXCEPT ![t] = ret[t]]
    <3>1. LockedStep(t, ret[t], 0)
      BY <1>4, <2>1
    <3> QED
      BY <3>1, Locked
  <2>2. CASE pc' = [pc EXCEPT ![t] = "try"]
    <3>1. LockedStep(t, "try", 0)
      BY <1>4, <2>2
    <3> QED
      BY <3>1, Locked
  <2> QED
    BY <1>1, <2>1, <2>2
<1>6. /\ TypeOK' /\ Exclusion' /\ QueueAlive' /\ LockHeld' /\ Distinct'
      /\ Readers' = Readers /\ Writers' = Writers
      /\ Shift(0, 0, 0, 0, -1, 0, 0)
  <2>1. pc[t] = "undo" /\ ret[t] \in {"idle", "wait", "read"}
    BY <1>1, <1>2
  <2> QED
    BY <2>1, <1>5 DEF LockedMoved, Bit, Shift
<1>7. Accounting'
  <2>0. PICK m \in Int : m = -1
    OBVIOUS
  <2>1. count' = count + (0 + 0 + m + 0 + 0 + 0) - 65536 * (0 + 0 + (0 - 0))
    BY <1>1, <1>3, <2>0
  <2>2. Shift(0, 0, 0, 0, m, 0, 0)
    BY <1>6, <2>0
  <2>3. count \in Int /\ loop' \in Nat /\ Len(wait_list') \in Nat
    BY <1>1, <1>2, Place
  <2> QED
    BY <2>1, <2>2, <2>3, Recount
<1> QED
  BY <1>6, <1>7 DEF IInv, Mapped

\* try_again does not find the lock idle, or it does and the front waiter is a
\* reader: the increment is taken back or used by a later step.
LEMMA TryAgainStep ==
    ASSUME IInv, NEW t \in Task, pc[t] = "try", count' = count + 1,
           UNCHANGED <<wait_list, granted, loop, kind, ret>>,
           \/ pc' = [pc EXCEPT ![t] = "undo"]
           \/ /\ pc' = [pc EXCEPT ![t] = "scan"]
              /\ Active(count) = 0 /\ kind[Head(wait_list)] = "r"
    PROVE  IInv' /\ Mapped
<1>2. /\ t \in Queued \cup granted => ret[t] = "wait"
      /\ loop = 0 /\ wait_list # <<>> /\ ret[t] \in {"idle", "wait", "read"}
      /\ ret' \in [Task -> {"idle", "wait", "read"}] /\ ret' = ret
  BY Place DEF InDoWake
<1>3. /\ count \in Int /\ count' \in Int /\ loop' = loop + 0 /\ loop' \in 0..Len(wait_list)
      /\ ~(loop' > 0) /\ \A i \in 1..loop' : kind[wait_list[i]] = "r"
  BY <1>2, Place
<1>4. ASSUME NEW p \in {"undo", "scan"}, pc' = [pc EXCEPT ![t] = p],
             p = "scan" => Writers = {} /\ kind[Head(wait_list)] = "r"
      PROVE  LockedStep(t, p, 0)
  <2>1. p \in PC \ {"fail", "write"} /\ pc[t] \in PC \ {"fail", "write"}
        /\ p \in InDoWake /\ p # "grant" /\ pc[t] \in InDoWake
    BY <1>4 DEF PC, InDoWake
  <2>2. t \in Readers' <=> t \in Readers
    <3>1. pc'[t] = p /\ granted' = granted /\ kind' = kind /\ ret' = ret
      BY <1>4, Place
    <3> QED
      BY <1>2, <2>1, <3>1 DEF Readers, InDoWake
  <2>3. t \in Queued \cup granted => p = "wait" \/ (p \in InDoWake /\ ret'[t] = "wait")
    BY <1>2, <2>1
  <2> QED
    BY <1>2, <1>3, <1>4, <2>1, <2>2, <2>3 DEF LockedStep
<1>5. LockedMoved(t, "undo", 0) \/ LockedMoved(t, "scan", 0)
  <2>1. CASE pc' = [pc EXCEPT ![t] = "undo"]
    <3>1. LockedStep(t, "undo", 0)
      BY <1>4, <2>1
    <3> QED
      BY <3>1, Locked
  <2>2. CASE /\ pc' = [pc EXCEPT ![t] = "scan"]
             /\ Active(count) = 0 /\ kind[Head(wait_list)] = "r"
    <3>1. Writers = {}
      BY <2>2, Decode
    <3>2. LockedStep(t, "scan", 0)
      BY <1>4, <2>2, <3>1
    <3> QED
      BY <3>2, Locked
  <2> QED
    BY <2>1, <2>2
<1>6. /\ TypeOK' /\ Exclusion' /\ QueueAlive' /\ LockHeld' /\ Distinct'
      /\ Readers' = Readers /\ Writers' = Writers
      /\ Shift(0, 0, 0, 0, 1, 0, 0)
  <2>1. pc[t] = "try"
    OBVIOUS
  <2> QED
    BY <2>1, <1>5 DEF LockedMoved, Bit, Shift
<1>7. Accounting'
  <2>1. count' = count + (0 + 0 + 1 + 0 + 0 + 0) - 65536 * (0 + 0 + (0 - 0))
    BY <1>3
  <2>3. count \in Int /\ loop' \in Nat /\ Len(wait_list') \in Nat
    BY <1>2, Place
  <2> QED
    BY <1>6, <2>1, <2>3, Recount
<1> QED
  BY <1>6, <1>7 DEF IInv, Mapped

\* readers_only makes the n front readers active in one addition; done is the
\* increment that try_again has already made for one of them.
LEMMA ReadersOnlyStep ==
    ASSUME IInv, NEW t \in Task, NEW done \in {0, 1}, ReadersOnly(t, done),
           UNCHANGED <<wait_list, granted, kind>>,
           \/ pc[t] = "scan" /\ done = 1 /\ ret' = ret
           \/ /\ pc[t] = "dwake" /\ LockFree /\ done = 0
              /\ ret' = [ret EXCEPT ![t] = "read"]
              /\ FrontReaders(wait_list) > 0
    PROVE  IInv' /\ Mapped
<1> DEFINE n == FrontReaders(wait_list)
<1>1. /\ count' = count + n * (RWSEM_ACTIVE_BIAS - RWSEM_WAITING_BIAS) - done
      /\ loop' = n /\ pc' = [pc EXCEPT ![t] = "grant"]
  BY DEF ReadersOnly, Goto
<1>2. /\ n \in 0..Len(wait_list) /\ \A i \in 1..n : kind[wait_list[i]] = "r"
      /\ wait_list # <<>> /\ kind[Head(wait_list)] = "r" => n > 0
  BY FrontReadersFacts, Place
<1>3. n > 0 /\ Writers = {} /\ loop = 0
  <2>1. CASE pc[t] = "scan"
    <3>1. Writers = {} /\ kind[Head(wait_list)] = "r"
      BY <2>1 DEF IInv, LockHeld
    <3>2. wait_list # <<>> /\ loop = 0
      BY <2>1, Place DEF InDoWake
    <3> QED
      BY <1>2, <3>1, <3>2
  <2>2. CASE pc[t] = "dwake" /\ LockFree /\ n > 0
    <3>1. t \in Readers
      BY <2>2 DEF Readers
    <3>2. Writers = {}
      BY <3>1 DEF IInv, Exclusion
    <3> QED
      BY <2>2, <3>2, Place
  <2> QED
    BY <2>1, <2>2
<1> HIDE DEF n
<1>4. n \in Nat /\ Len(wait_list) \in Nat /\ n <= Len(wait_list) /\ count \in Int
  BY <1>2, Place
<1>5. count' = count + n * 65537 - done
  <2>1. RWSEM_ACTIVE_BIAS - RWSEM_WAITING_BIAS = 65537
    BY DEF RWSEM_ACTIVE_BIAS, RWSEM_WAITING_BIAS
  <2> QED
    BY <1>1, <2>1
<1>6. /\ count' \in Int /\ loop' \in 0..Len(wait_list) /\ loop' = loop + n /\ loop' > 0
      /\ loop' \in Nat
  BY <1>1, <1>3, <1>4, <1>5
<1>7. LockedStep(t, "grant", n)
  <2>1. /\ "grant" \in PC \ {"fail", "write"} /\ pc[t] \in PC \ {"fail", "write"}
        /\ "grant" \in InDoWake /\ (pc[t] \in InDoWake \/ LockFree)
    BY DEF PC, InDoWake
  <2>2. /\ ret' \in [Task -> {"idle", "wait", "read"}]
        /\ \A u \in Task : u # t => ret'[u] = ret[u]
        /\ pc[t] = "scan" => ret'[t] = ret[t]
        /\ pc[t] = "dwake" => ret'[t] = "read"
    BY Place
  <2>3. pc'[t] = "grant" /\ granted' = granted /\ kind' = kind
    BY <1>1, Place
  <2>4. t \in Readers' <=> t \in Readers
    BY <2>1, <2>2, <2>3 DEF Readers, InDoWake
  <2>5. t \in Queued \cup granted => ret'[t] = "wait"
    BY <2>2, Place DEF InDoWake
  <2>6. wait_list # <<>>
    <3>1. Len(wait_list) > 0
      BY <1>3, <1>4
    <3> QED
      BY <3>1
  <2>7. \A i \in 1..loop' : kind[wait_list[i]] = "r"
    BY <1>1, <1>2
  <2>8. "grant" # "scan" /\ "grant" # "wait" /\ pc' = [pc EXCEPT ![t] = "grant"]
    BY <1>1
  <2> QED
    BY <1>3, <1>6, <2>1, <2>2, <2>4, <2>5, <2>6, <2>7, <2>8 DEF LockedStep
<1>8. LockedMoved(t, "grant", n)
  BY <1>7, Locked
<1>9. PICK m \in Int : m = -done
  OBVIOUS
<1>10. /\ TypeOK' /\ Exclusion' /\ QueueAlive' /\ LockHeld' /\ Distinct'
       /\ Readers' = Readers /\ Writers' = Writers
  BY <1>8 DEF LockedMoved
<1>11. Shift(0, 0, 0, 0, m, 0, n)
  <2>1. Shift(0, 0, 0, 0, Bit("grant" \in {"undo", "scan"}) - Bit(pc[t] \in {"undo", "scan"}), 0, n)
    BY <1>8 DEF LockedMoved
  <2>2. Bit("grant" \in {"undo", "scan"}) - Bit(pc[t] \in {"undo", "scan"}) = m
    BY <1>9 DEF Bit
  <2> QED
    BY <2>1, <2>2
<1>12. Accounting'
  <2>1. count' = count + (0 + 0 + m + n + 0 + 0) - 65536 * (0 + 0 + (0 - n))
    <3>1. n * 65537 = n + 65536 * n
      BY <1>4
    <3> QED
      BY <1>4, <1>5, <1>9, <3>1
  <2>2. count \in Int /\ loop' \in Nat /\ Len(wait_list') \in Nat /\ n \in Int
    BY <1>4, <1>6
  <2> QED
    BY <1>11, <2>1, <2>2, Recount
<1> QED
  BY <1>10, <1>12 DEF IInv, Mapped

\* The shape of a step that takes the front waiter off the queue and gives it
\* the lock; the waking task t goes on to p.
Dequeues(t, p, l) ==
    /\ pc[t] \in {"try", "grant"}
    /\ granted' = granted \cup {Head(wait_list)}
    /\ wait_list' = Tail(wait_list)
    /\ UNCHANGED <<kind, ret>>
    /\ pc' = [pc EXCEPT ![t] = p]
    /\ p = ret[t] \/ p = "grant"
    /\ count' \in Int
    /\ l \in {0, 1} /\ loop' = loop - l
    /\ loop' \in Nat
    /\ p = "grant" <=> loop' > 0
    /\ pc[t] = "grant" <=> l = 1
    /\ loop > 0 <=> l = 1

\* What such a step does to everything but the counted sets.
Dequeued(t) ==
    /\ TypeOK' /\ QueueAlive' /\ LockHeld' /\ Distinct'
    /\ Head(wait_list) \in Task
    /\ Head(wait_list) \in Queued /\ Head(wait_list) \notin granted
    /\ loop > 0 => kind[Head(wait_list)] = "r"
    /\ wait_list # <<>> /\ Len(wait_list') = Len(wait_list) - 1

\* The rest of the queue, the granted tasks and the waking task are in order.
LEMMA DequeueStep ==
    ASSUME IInv, NEW t \in Task, NEW p, NEW l, Dequeues(t, p, l)
    PROVE  Dequeued(t)
<1> DEFINE h == Head(wait_list)
<1>0. TypeOK /\ QueueAlive /\ LockHeld /\ Distinct
  BY DEF IInv
<1>b. /\ granted' = granted \cup {h} /\ wait_list' = Tail(wait_list)
      /\ kind' = kind /\ ret' = ret
      /\ p = "grant" <=> loop' > 0
  BY DEF Dequeues
<1>c. count' \in Int /\ l \in {0, 1} /\ loop' = loop - l /\ loop' \in Nat
      /\ (pc[t] = "grant" <=> l = 1) /\ (loop > 0 <=> l = 1)
  BY DEF Dequeues
<1>d. pc[t] \in {"try", "grant"} /\ (p = ret[t] \/ p = "grant")
  BY DEF Dequeues
<1>1. /\ pc \in [Task -> PC] /\ wait_list \in Seq(Task) /\ granted \subseteq Task
      /\ Len(wait_list) \in Nat /\ loop \in Nat /\ loop <= Len(wait_list)
      /\ ret[t] \in {"idle", "wait", "read"}
      /\ wait_list # <<>>
  BY <1>d, Place DEF InDoWake
<1>2. /\ Tail(wait_list) \in Seq(Task)
      /\ Len(Tail(wait_list)) = Len(wait_list) - 1
      /\ \A i \in 1..Len(Tail(wait_list)) : Tail(wait_list)[i] = wait_list[i + 1]
      /\ h \in Queued /\ h = wait_list[1] /\ Len(wait_list) > 0
      /\ Range(Tail(wait_list)) = Queued \ {h}
      /\ \A i, j \in DOMAIN Tail(wait_list) : Tail(wait_list)[i] = Tail(wait_list)[j] => i = j
  BY <1>0, <1>1, TailFacts DEF Distinct, Queued
<1>3. Queued \in SUBSET Task /\ Queued' = Queued \ {h} /\ h \in Task
  BY <1>1, <1>2, <1>b, QueueRange DEF Queued
<1>4. h \notin granted
  BY <1>0, <1>2 DEF QueueAlive
<1>5. /\ \A u \in Task : u # t => pc'[u] = pc[u]
      /\ pc'[t] = p
  BY <1>1 DEF Dequeues
<1>6. p \in PC /\ (p \in InDoWake => p = "grant") /\ p # "scan"
  BY <1>1, <1>d DEF PC, InDoWake
<1>7. Len(wait_list') = Len(wait_list) - 1 /\ loop' \in 0..Len(wait_list')
  <2>1. Len(wait_list') = Len(wait_list) - 1
    BY <1>2, <1>b
  <2>2. loop' <= Len(wait_list) - 1
    <3>1. CASE l = 1
      BY <1>1, <1>c, <3>1
    <3>2. CASE l = 0
      <4>1. loop = 0
        BY <1>1, <1>c, <3>2
      <4> QED
        BY <1>1, <1>2, <1>c, <3>2, <4>1
    <3> QED
      BY <1>c, <3>1, <3>2
  <2> QED
    BY <1>1, <1>c, <2>1, <2>2
<1>8. TypeOK'
  <2>1. pc' \in [Task -> PC]
    BY <1>1, <1>6 DEF Dequeues
  <2> QED
    BY <1>0, <1>2, <1>3, <1>7, <1>b, <1>c, <2>1 DEF TypeOK
<1>9. QueueAlive'
  <2>1. Cardinality(Queued') = Len(wait_list')
    <3>1. Cardinality(Queued \ {h}) = Cardinality(Queued) - 1
      BY <1>2, <1>3, CardUpdate
    <3>2. Cardinality(Queued) = Len(wait_list)
      BY <1>0 DEF QueueAlive
    <3> QED
      BY <1>3, <1>7, <3>1, <3>2
  <2>2. Queued' \cap granted' = {}
    BY <1>0, <1>3, <1>b DEF QueueAlive
  <2>3. ASSUME NEW u \in Queued' \cup granted'
        PROVE  pc'[u] = "wait" \/ (pc'[u] \in InDoWake /\ ret'[u] = "wait")
    <3>1. u \in Queued \cup granted /\ u \in Task
      BY <1>1, <1>2, <1>3, <1>b
    <3>2. pc[u] = "wait" \/ (pc[u] \in InDoWake /\ ret[u] = "wait")
      BY <1>0, <3>1 DEF QueueAlive
    <3>3. CASE u # t
      BY <1>5, <1>b, <3>1, <3>2, <3>3
    <3>4. CASE u = t
      <4>1. ret[t] = "wait" /\ "grant" \in InDoWake
        BY <1>d, <3>2, <3>4 DEF InDoWake
      <4> QED
        BY <1>5, <1>b, <1>d, <3>4, <4>1
    <3> QED
      BY <3>3, <3>4
  <2>4. \A i \in 1..loop' : kind'[wait_list'[i]] = "r"
    <3> SUFFICES ASSUME NEW i \in 1..loop' PROVE kind[wait_list'[i]] = "r"
      BY <1>b
    <3>1. i \in 1..Len(Tail(wait_list)) /\ i + 1 \in 1..loop
      <4>1. l = 1
        BY <1>1, <1>c
      <4> QED
        BY <1>1, <1>2, <1>7, <1>b, <1>c, <4>1
    <3> QED
      BY <1>0, <1>2, <1>b, <3>1 DEF QueueAlive
  <2> QED
    BY <2>1, <2>2, <2>3, <2>4 DEF QueueAlive
<1>10. LockHeld'
  <2>0. \A u \in Task : u # t => pc[u] \notin InDoWake
    BY <1>0, <1>d DEF LockHeld, InDoWake
  <2>1. \A u \in Task : pc'[u] \in InDoWake => u = t /\ pc'[u] = "grant"
    BY <1>5, <1>6, <2>0
  <2>2. "grant" \in InDoWake /\ "scan" \in InDoWake /\ "scan" # "grant"
    BY DEF InDoWake
  <2>3. \A u \in Task : pc'[u] = "grant" => loop' > 0
    BY <1>5, <1>b, <2>1, <2>2
  <2>4. loop' > 0 => \E u \in Task : pc'[u] = "grant"
    BY <1>5, <1>b
  <2>5. \A u \in Task : pc'[u] # "scan"
    BY <2>1, <2>2
  <2>6. \A u \in Task : pc'[u] \in InDoWake => wait_list' # <<>>
    <3>1. loop' > 0 => Len(wait_list') > 0
      BY <1>1, <1>7, <1>c
    <3>2. Len(wait_list') > 0 => wait_list' # <<>>
      BY EmptySeq
    <3> QED
      BY <2>1, <2>3, <3>1, <3>2
  <2> QED
    BY <2>1, <2>3, <2>4, <2>5, <2>6 DEF LockHeld
<1>11. Distinct'
  BY <1>2, <1>b DEF Distinct
<1>12. loop > 0 => kind[h] = "r"
  <2>1. loop > 0 => 1 \in 1..loop
    BY <1>1
  <2> QED
    BY <1>0, <1>2, <2>1 DEF QueueAlive
<1> QED
  BY <1>1, <1>2, <1>3, <1>4, <1>7, <1>8, <1>9, <1>10, <1>11, <1>12 DEF Dequeued

\* try_again finds the lock idle and a writer at the front, which gets it.
LEMMA WakeWriterStep ==
    ASSUME IInv, NEW t \in Task, TryWake(t),
           Active(count) = 0, kind[Head(wait_list)] = "w"
    PROVE  IInv' /\ Mapped
<1> DEFINE h == Head(wait_list)
<1>0. /\ pc[t] = "try" /\ count' = count + 1
      /\ granted' = granted \cup {h} /\ wait_list' = Tail(wait_list)
      /\ pc' = [pc EXCEPT ![t] = ret[t]]
      /\ loop' = loop /\ kind' = kind /\ ret' = ret
  BY DEF TryWake, Goto, RWSEM_ACTIVE_BIAS
<1>1. Readers = {} /\ Writers = {} /\ Trying = {} /\ loop = 0
  BY Decode
<1>2. /\ count \in Int /\ count' \in Int /\ loop' = loop - 0 /\ loop' \in Nat
      /\ ret[t] \in {"idle", "wait", "read"} /\ pc \in [Task -> PC]
  BY <1>0, <1>1, Place
<1>3. Dequeues(t, ret[t], 0)
  BY <1>0, <1>1, <1>2 DEF Dequeues
<1>4. /\ TypeOK' /\ QueueAlive' /\ LockHeld' /\ Distinct'
      /\ h \in Task /\ Len(wait_list') = Len(wait_list) - 1
  BY <1>3, DequeueStep DEF Dequeued
<1>5. /\ \A u \in Task : u # t => pc'[u] = pc[u]
      /\ pc'[t] = ret[t] /\ kind' = kind /\ ret' = ret /\ granted' = granted \cup {h}
      /\ kind[h] = "w" /\ pc[t] = "try"
  BY <1>0, <1>2
<1>6. Readers' = {}
  <2>1. \A u \in Task : u \notin Readers
    BY <1>1
  <2>2. ASSUME NEW u \in Task PROVE u \notin Readers'
    BY <1>2, <1>5, <2>1 DEF Readers, InDoWake
  <2> QED
    BY <2>2 DEF Readers
<1>7. Writers' = {h}
  <2>1. \A u \in Task : u \notin Writers
    BY <1>1
  <2>2. ASSUME NEW u \in Task PROVE u \in Writers' <=> u = h
    BY <1>2, <1>4, <1>5, <2>1 DEF Writers
  <2>3. Writers' \in SUBSET Task
    BY DEF Writers
  <2> QED
    BY <1>4, <2>2, <2>3
<1>8. Failing("r")' = Failing("r") /\ Failing("w")' = Failing("w") /\ Trying' = Trying
  BY <1>2, <1>5 DEF Failing, Trying
<1>9. Cardinality({h}) = 1 /\ Cardinality({}) = 0
  BY FS_Singleton, FS_EmptySet
<1>10. Exclusion'
  BY <1>1, <1>6, <1>7, <1>9, <1>2 DEF Exclusion
<1>11. Accounting'
  <2>0. PICK m \in Int : m = -1
    OBVIOUS
  <2>1. count' = count + (0 + 0 + 0 + 0 + 1 + 0) - 65536 * (1 + 0 + (m - 0))
    BY <1>0, <1>2, <2>0
  <2>2. count \in Int /\ loop' \in Nat /\ Len(wait_list) \in Nat /\ Len(wait_list') \in Nat
    BY <1>2, <1>4, Place, LenProperties DEF TypeOK
  <2>3. Len(wait_list') = Len(wait_list) + m /\ loop' = loop + 0
    BY <1>1, <1>2, <1>4, <2>0, <2>2
  <2>4. /\ Cardinality(Readers') = Cardinality(Readers) + 0
        /\ Cardinality(Writers') = Cardinality(Writers) + 1
        /\ Cardinality(Failing("r")') = Cardinality(Failing("r")) + 0
        /\ Cardinality(Failing("w")') = Cardinality(Failing("w")) + 0
        /\ Cardinality(Trying') = Cardinality(Trying) + 0
    <3>1. Cardinality(Readers') = Cardinality(Readers) + 0
      BY <1>1, <1>6, <1>9
    <3>2. Cardinality(Writers') = Cardinality(Writers) + 1
      BY <1>1, <1>7, <1>9
    <3>3. /\ Cardinality(Failing("r")') = Cardinality(Failing("r")) + 0
          /\ Cardinality(Failing("w")') = Cardinality(Failing("w")) + 0
          /\ Cardinality(Trying') = Cardinality(Trying) + 0
      BY <1>8, Sizes
    <3> QED
      BY <3>1, <3>2, <3>3
  <2>5. Shift(0, 1, 0, 0, 0, m, 0)
    BY <2>3, <2>4 DEF Shift
  <2> QED
    BY <2>1, <2>2, <2>5, Recount
<1>12. Abstract!AcquireWrite(h)
  BY <1>1, <1>6, <1>7 DEF Abstract!AcquireWrite
<1> QED
  BY <1>4, <1>10, <1>11, <1>12 DEF IInv, Mapped, Abstract!LNext

\* One turn of the wakeup loop: the front waiter is a reader that readers_only
\* has made active, and now owns the lock.
LEMMA GrantReaderStep ==
    ASSUME IInv, NEW t \in Task, GrantReader(t)
    PROVE  IInv' /\ Mapped
<1> DEFINE h == Head(wait_list)
           p == IF loop = 1 THEN ret[t] ELSE "grant"
<1>1. /\ pc[t] = "grant" /\ loop' = loop - 1 /\ count' = count
      /\ granted' = granted \cup {h} /\ wait_list' = Tail(wait_list)
      /\ kind' = kind /\ ret' = ret
      /\ pc' = [pc EXCEPT ![t] = p]
  BY DEF GrantReader, Goto
<1>2. /\ count \in Int /\ loop \in Nat /\ ret[t] \in {"idle", "wait", "read"}
      /\ pc \in [Task -> PC] /\ loop > 0
  <2>1. loop > 0
    BY <1>1 DEF IInv, LockHeld
  <2> QED
    BY <2>1, Place
<1>3. /\ p = ret[t] \/ p = "grant"
      /\ p = "grant" <=> loop - 1 > 0
      /\ loop - 1 \in Nat
  BY <1>2
<1> HIDE DEF p
<1>4. Dequeues(t, p, 1)
  BY <1>1, <1>2, <1>3 DEF Dequeues
<1>5. /\ TypeOK' /\ QueueAlive' /\ LockHeld' /\ Distinct'
      /\ h \in Task /\ h \in Queued /\ h \notin granted /\ kind[h] = "r"
      /\ Len(wait_list') = Len(wait_list) - 1
  BY <1>2, <1>4, DequeueStep DEF Dequeued
<1>6. Writers = {}
  BY <1>2 DEF IInv, Exclusion
<1>7. /\ \A u \in Task : u # t => pc'[u] = pc[u]
      /\ pc'[t] = p
  BY <1>1, <1>2
<1>8. h \notin Readers
  <2>1. pc[h] = "wait" \/ (pc[h] \in InDoWake /\ ret[h] = "wait")
    BY <1>5, Place
  <2> QED
    BY <1>5, <2>1 DEF Readers, InDoWake
<1>9. Readers' = Readers \cup {h}
  <2>1. ASSUME NEW u \in Task, u # t PROVE u \in Readers' <=> u \in Readers \/ u = h
    BY <1>1, <1>5, <1>7, <2>1 DEF Readers
  <2>2. t \in Readers' <=> t \in Readers \/ t = h
    BY <1>1, <1>2, <1>3, <1>5, <1>7 DEF Readers, InDoWake
  <2>3. Readers' \in SUBSET Task /\ Readers \in SUBSET Task
    BY DEF Readers
  <2> QED
    BY <1>5, <2>1, <2>2, <2>3
<1>10. Writers' = Writers
  BY <1>1, <1>2, <1>3, <1>5, <1>7 DEF Writers
<1>11. Failing("r")' = Failing("r") /\ Failing("w")' = Failing("w") /\ Trying' = Trying
  BY <1>1, <1>2, <1>3, <1>7 DEF Failing, Trying
<1>12. Exclusion'
  BY <1>6, <1>10 DEF Exclusion
<1>13. Accounting'
  <2>0. PICK m \in Int : m = -1
    OBVIOUS
  <2>1. count' = count + (1 + 0 + 0 + m + 0 + 0) - 65536 * (0 + 0 + (m - m))
    BY <1>1, <1>2, <2>0
  <2>2. count \in Int /\ loop' \in Nat /\ Len(wait_list) \in Nat /\ Len(wait_list') \in Nat
    BY <1>1, <1>3, <1>5, Place, LenProperties DEF TypeOK
  <2>3. Len(wait_list') = Len(wait_list) + m
    BY <1>5, <2>0, <2>2
  <2>4. loop' = loop + m
    BY <1>1, <1>2, <2>0
  <2>5. Cardinality(Readers') = Cardinality(Readers) + 1
    BY <1>8, <1>9, Sizes, CardUpdate
  <2>6. /\ Cardinality(Writers') = Cardinality(Writers) + 0
        /\ Cardinality(Failing("r")') = Cardinality(Failing("r")) + 0
        /\ Cardinality(Failing("w")') = Cardinality(Failing("w")) + 0
        /\ Cardinality(Trying') = Cardinality(Trying) + 0
    BY <1>10, <1>11, Sizes
  <2>7. Shift(1, 0, 0, 0, 0, m, m)
    BY <2>3, <2>4, <2>5, <2>6 DEF Shift
  <2> QED
    BY <2>1, <2>2, <2>7, Recount
<1>14. Abstract!AcquireRead(h)
  BY <1>6, <1>8, <1>9, <1>10 DEF Abstract!AcquireRead
<1> QED
  BY <1>5, <1>12, <1>13, <1>14 DEF IInv, Mapped, Abstract!LNext

\* A waiter finds that it was given the lock: it owned it already.
LEMMA GrantedStep ==
    ASSUME IInv, NEW t \in Task, Granted(t)
    PROVE  IInv' /\ Mapped
<1> DEFINE p == IF kind[t] = "r" THEN "read" ELSE "write"
<1>0. TypeOK /\ Exclusion /\ QueueAlive /\ LockHeld /\ Distinct
  BY DEF IInv
<1>1. /\ pc[t] = "wait" /\ t \in granted /\ granted' = granted \ {t}
      /\ pc' = [pc EXCEPT ![t] = p]
      /\ count' = count /\ wait_list' = wait_list /\ loop' = loop
      /\ kind' = kind /\ ret' = ret
  BY DEF Granted, Goto
<1>2. /\ pc \in [Task -> PC] /\ kind[t] \in {"r", "w"} /\ granted \subseteq Task
      /\ count \in Int /\ loop \in Nat /\ Len(wait_list) \in Nat /\ Queued \in SUBSET Task
  BY Place
<1>3. /\ kind[t] = "r" => p = "read"
      /\ kind[t] = "w" => p = "write"
      /\ p \in {"read", "write"} /\ p \in PC
  BY <1>2 DEF PC
<1> HIDE DEF p
<1>4. /\ \A u \in Task : u # t => pc'[u] = pc[u]
      /\ pc'[t] = p /\ Queued' = Queued /\ t \notin Queued
  BY <1>0, <1>1, <1>2 DEF Queued, QueueAlive
<1>5. TypeOK'
  BY <1>0, <1>1, <1>3 DEF TypeOK
<1>6. Readers' = Readers /\ Writers' = Writers
  <2>1. ASSUME NEW u \in Task
        PROVE  (u \in Readers' <=> u \in Readers) /\ (u \in Writers' <=> u \in Writers)
    BY <1>1, <1>2, <1>3, <1>4 DEF Readers, Writers, InDoWake
  <2>2. /\ Readers' \in SUBSET Task /\ Readers \in SUBSET Task
        /\ Writers' \in SUBSET Task /\ Writers \in SUBSET Task
    BY DEF Readers, Writers
  <2> QED
    BY <2>1, <2>2
<1>7. Failing("r")' = Failing("r") /\ Failing("w")' = Failing("w") /\ Trying' = Trying
  BY <1>1, <1>3, <1>4 DEF Failing, Trying
<1>8. QueueAlive'
  <2>1. \A u \in Queued' \cup granted' :
            pc'[u] = "wait" \/ (pc'[u] \in InDoWake /\ ret'[u] = "wait")
    <3> SUFFICES ASSUME NEW u \in Queued' \cup granted'
                 PROVE  pc'[u] = "wait" \/ (pc'[u] \in InDoWake /\ ret'[u] = "wait")
      OBVIOUS
    <3>1. u \in Queued \cup granted /\ u # t /\ u \in Task
      BY <1>1, <1>2, <1>4
    <3> QED
      BY <1>0, <1>1, <1>4, <3>1 DEF QueueAlive
  <2> QED
    BY <1>0, <1>1, <1>4, <2>1 DEF QueueAlive
<1>9. LockHeld'
  <2>1. \A u \in Task : /\ pc'[u] \in InDoWake => pc[u] \in InDoWake /\ pc'[u] = pc[u]
                        /\ pc[u] \in InDoWake => pc'[u] = pc[u]
    BY <1>1, <1>3, <1>4 DEF InDoWake
  <2>2. "grant" \in InDoWake /\ "scan" \in InDoWake
    BY DEF InDoWake
  <2> QED
    BY <1>0, <1>1, <1>6, <2>1, <2>2 DEF LockHeld
<1>10. Distinct'
  BY <1>0, <1>1 DEF Distinct
<1>11. Exclusion'
  BY <1>0, <1>1, <1>6 DEF Exclusion
<1>12. Accounting'
  <2>1. count' = count + (0 + 0 + 0 + 0 + 0 + 0) - 65536 * (0 + 0 + (0 - 0))
    BY <1>1, <1>2
  <2>2. count \in Int /\ loop' \in Nat /\ Len(wait_list') \in Nat
    BY <1>1, <1>2
  <2>3. Shift(0, 0, 0, 0, 0, 0, 0)
    BY <1>1, <1>2, <1>6, <1>7, Sizes DEF Shift
  <2> QED
    BY <2>1, <2>2, <2>3, Recount
<1> QED
  BY <1>5, <1>6, <1>8, <1>9, <1>10, <1>11, <1>12 DEF IInv, Mapped

\* A task joins the end of the queue and corrects what its fast path added.
LEMMA DownFailedStep ==
    ASSUME IInv, NEW t \in Task, DownFailed(t)
    PROVE  IInv' /\ Mapped
<1> DEFINE p == IF Active(count') = 0 THEN "try" ELSE "wait"
<1>0. TypeOK /\ Exclusion /\ QueueAlive /\ LockHeld /\ Distinct
  BY DEF IInv
<1>1. /\ pc[t] = "fail" /\ LockFree /\ wait_list' = Append(wait_list, t)
      /\ pc' = [pc EXCEPT ![t] = p] /\ ret' = [ret EXCEPT ![t] = "wait"]
      /\ granted' = granted /\ loop' = loop /\ kind' = kind
  BY DEF DownFailed, Goto
<1>2. /\ kind[t] = "r" => count' = count - 65537
      /\ kind[t] # "r" => count' = count - 1
  <2>1. count' = count + Adjustment(t)
    BY DEF DownFailed
  <2>2. count \in Int
    BY Place
  <2> QED
    BY <2>1, <2>2 DEF Adjustment, RWSEM_ACTIVE_BIAS, RWSEM_WAITING_BIAS
<1>3. /\ p \in {"try", "wait"} /\ p \in PC /\ p \notin {"scan", "grant", "undo", "fail"}
      /\ p \in InDoWake => p = "try"
      /\ p = "wait" \/ p \in InDoWake
  BY DEF PC, InDoWake
<1> HIDE DEF p
<1>4. /\ pc \in [Task -> PC] /\ ret \in [Task -> {"idle", "wait", "read"}]
      /\ kind[t] \in {"r", "w"} /\ granted \subseteq Task /\ loop = 0
      /\ count \in Int /\ Len(wait_list) \in Nat /\ wait_list \in Seq(Task)
      /\ Queued \in SUBSET Task
  BY <1>1, Place
<1>5. t \notin Queued /\ t \notin granted
  BY <1>1, Place DEF InDoWake
<1>6. /\ wait_list' \in Seq(Task) /\ Len(wait_list') = Len(wait_list) + 1
      /\ \A i \in 1..Len(wait_list) : wait_list'[i] = wait_list[i]
      /\ wait_list'[Len(wait_list) + 1] = t
      /\ Queued' = Queued \cup {t}
  BY <1>1, <1>4, AppendFacts DEF Queued
<1>7. /\ \A u \in Task : u # t => pc'[u] = pc[u] /\ ret'[u] = ret[u]
      /\ pc'[t] = p /\ ret'[t] = "wait"
  BY <1>1, <1>4
<1>8. TypeOK'
  <2>1. count' \in Int
    BY <1>2, <1>4
  <2>2. loop' \in 0..Len(wait_list')
    BY <1>1, <1>4, <1>6
  <2>3. pc' \in [Task -> PC] /\ ret' \in [Task -> {"idle", "wait", "read"}]
    BY <1>1, <1>3, <1>4
  <2> QED
    BY <1>0, <1>1, <1>6, <2>1, <2>2, <2>3 DEF TypeOK
<1>9. Readers' = Readers /\ Writers' = Writers
  <2>1. ASSUME NEW u \in Task
        PROVE  (u \in Readers' <=> u \in Readers) /\ (u \in Writers' <=> u \in Writers)
    BY <1>1, <1>3, <1>5, <1>7 DEF Readers, Writers, InDoWake
  <2>2. /\ Readers' \in SUBSET Task /\ Readers \in SUBSET Task
        /\ Writers' \in SUBSET Task /\ Writers \in SUBSET Task
    BY DEF Readers, Writers
  <2> QED
    BY <2>1, <2>2
<1>10. Trying' = Trying
  BY <1>1, <1>3, <1>7 DEF Trying
<1>11. QueueAlive'
  <2>1. Cardinality(Queued') = Len(wait_list')
    BY <1>0, <1>4, <1>5, <1>6, CardUpdate DEF QueueAlive
  <2>2. Queued' \cap granted' = {}
    BY <1>0, <1>1, <1>5, <1>6 DEF QueueAlive
  <2>3. \A u \in Queued' \cup granted' :
            pc'[u] = "wait" \/ (pc'[u] \in InDoWake /\ ret'[u] = "wait")
    <3> SUFFICES ASSUME NEW u \in Queued' \cup granted'
                 PROVE  pc'[u] = "wait" \/ (pc'[u] \in InDoWake /\ ret'[u] = "wait")
      OBVIOUS
    <3>1. CASE u = t
      BY <1>3, <1>7, <3>1
    <3>2. CASE u # t
      <4>1. u \in Queued \cup granted /\ u \in Task
        BY <1>1, <1>4, <1>6, <3>2
      <4> QED
        BY <1>0, <1>7, <3>2, <4>1 DEF QueueAlive
    <3> QED
      BY <3>1, <3>2
  <2>4. \A i \in 1..loop' : kind'[wait_list'[i]] = "r"
    BY <1>1, <1>4
  <2> QED
    BY <2>1, <2>2, <2>3, <2>4 DEF QueueAlive
<1>12. LockHeld'
  <2>1. \A u \in Task : pc'[u] \in InDoWake => u = t /\ pc'[u] = "try"
    BY <1>1, <1>3, <1>7 DEF LockFree
  <2>2. "grant" \in InDoWake /\ "scan" \in InDoWake
    BY DEF InDoWake
  <2>3. wait_list' # <<>>
    BY <1>4, <1>6, EmptySeq
  <2>4. ~(loop' > 0)
    BY <1>1, <1>4
  <2> QED
    BY <2>1, <2>2, <2>3, <2>4 DEF LockHeld
<1>13. Distinct'
  <2>1. DOMAIN wait_list = 1..Len(wait_list) /\ DOMAIN wait_list' = 1..(Len(wait_list) + 1)
    BY <1>4, <1>6, LenProperties
  <2>2. \A i \in 1..Len(wait_list) : wait_list[i] # t
    BY <1>4, <1>5, QueueRange DEF Queued
  <2>3. \A i \in 1..(Len(wait_list) + 1) : i \in 1..Len(wait_list) \/ i = Len(wait_list) + 1
    BY <1>4
  <2> QED
    BY <1>0, <1>6, <2>1, <2>2, <2>3 DEF Distinct
<1>14. Exclusion'
  BY <1>0, <1>1, <1>9 DEF Exclusion
<1>15. /\ count \in Int /\ loop' \in Nat /\ Len(wait_list') \in Nat /\ loop' = loop + 0
       /\ Cardinality(Readers') = Cardinality(Readers) + 0
       /\ Cardinality(Writers') = Cardinality(Writers) + 0
       /\ Cardinality(Trying') = Cardinality(Trying) + 0
  BY <1>1, <1>4, <1>6, <1>9, <1>10, Sizes
<1>16. Accounting'
  <2>0. PICK m \in Int : m = -1
    OBVIOUS
  <2>1. CASE kind[t] = "r"
    <3>1. /\ Failing("r")' = Failing("r") \ {t} /\ t \in Failing("r")
          /\ Failing("w")' = Failing("w")
      BY <1>1, <1>3, <1>7, <2>1 DEF Failing
    <3>2. Cardinality(Failing("r")') = Cardinality(Failing("r")) + m
      BY <2>0, <3>1, Sizes, CardUpdate
    <3>3. Cardinality(Failing("w")') = Cardinality(Failing("w")) + 0
      BY <3>1, Sizes
    <3>4. Shift(0, 0, m, 0, 0, 1, 0)
      BY <1>6, <1>15, <3>2, <3>3 DEF Shift
    <3>5. count' = count + (0 + m + 0 + 0 + 0 + 0) - 65536 * (0 + 0 + (1 - 0))
      BY <1>2, <1>4, <2>0, <2>1
    <3> QED
      BY <1>15, <3>4, <3>5, Recount
  <2>2. CASE kind[t] = "w"
    <3>1. /\ Failing("w")' = Failing("w") \ {t} /\ t \in Failing("w")
          /\ Failing("r")' = Failing("r")
      BY <1>1, <1>3, <1>7, <2>2 DEF Failing
    <3>2. Cardinality(Failing("w")') = Cardinality(Failing("w")) + m
      BY <2>0, <3>1, Sizes, CardUpdate
    <3>3. Cardinality(Failing("r")') = Cardinality(Failing("r")) + 0
      BY <3>1, Sizes
    <3>4. Shift(0, 0, 0, m, 0, 1, 0)
      BY <1>6, <1>15, <3>2, <3>3 DEF Shift
    <3>5. count' = count + (0 + 0 + 0 + 0 + 0 + m) - 65536 * (0 + m + (1 - 0))
      BY <1>2, <1>4, <2>0, <2>2
    <3> QED
      BY <1>15, <3>4, <3>5, Recount
  <2> QED
    BY <1>4, <2>1, <2>2
<1> QED
  BY <1>8, <1>9, <1>11, <1>12, <1>13, <1>14, <1>16 DEF IInv, Mapped

\* rwsem_downgrade_wake: the former writer keeps the lock as a reader and makes
\* the readers at the front active.
LEMMA DowngradeWakeStep ==
    ASSUME IInv, NEW t \in Task, DowngradeWake(t)
    PROVE  IInv' /\ Mapped
<1>1. /\ pc[t] = "dwake" /\ LockFree /\ ret' = [ret EXCEPT ![t] = "read"]
      /\ UNCHANGED <<wait_list, granted, kind>>
  BY DEF DowngradeWake
<1>2. CASE FrontReaders(wait_list) > 0 /\ ReadersOnly(t, 0)
  BY <1>1, <1>2, ReadersOnlyStep
<1>3. CASE Goto(t, "read") /\ UNCHANGED <<count, loop>>
  <2>1. /\ pc' = [pc EXCEPT ![t] = "read"] /\ count' = count /\ loop' = loop
        /\ wait_list' = wait_list /\ granted' = granted /\ kind' = kind
    BY <1>1, <1>3 DEF Goto
  <2>2. /\ t \notin Queued /\ t \notin granted /\ loop = 0
        /\ ret' \in [Task -> {"idle", "wait", "read"}]
        /\ \A u \in Task : u # t => ret'[u] = ret[u]
    BY <1>1, Place DEF InDoWake
  <2>3. /\ count \in Int /\ count' \in Int /\ loop' = loop + 0 /\ loop' \in 0..Len(wait_list)
        /\ ~(loop' > 0) /\ \A i \in 1..loop' : kind[wait_list[i]] = "r"
        /\ Len(wait_list') \in Nat /\ loop' \in Nat
    BY <2>1, <2>2, Place
  <2>4. /\ "read" \in PC \ {"fail", "write"} /\ pc[t] \in PC \ {"fail", "write"}
        /\ "read" \notin InDoWake /\ "read" # "grant" /\ "read" # "scan"
    BY <1>1 DEF PC, InDoWake
  <2>5. t \in Readers /\ t \in Readers'
    <3>1. pc'[t] = "read"
      BY <2>1, Place
    <3> QED
      BY <1>1, <3>1 DEF Readers
  <2>6. LockedStep(t, "read", 0)
    BY <1>1, <2>1, <2>2, <2>3, <2>4, <2>5 DEF LockedStep
  <2>7. LockedMoved(t, "read", 0)
    BY <2>6, Locked
  <2>8. /\ TypeOK' /\ Exclusion' /\ QueueAlive' /\ LockHeld' /\ Distinct'
        /\ Readers' = Readers /\ Writers' = Writers
        /\ Shift(0, 0, 0, 0, 0, 0, 0)
    BY <1>1, <2>7 DEF LockedMoved, Bit
  <2>9. count' = count + (0 + 0 + 0 + 0 + 0 + 0) - 65536 * (0 + 0 + (0 - 0))
    BY <2>1, <2>3
  <2>10. Accounting'
    BY <2>3, <2>8, <2>9, Recount
  <2> QED
    BY <2>8, <2>10 DEF IInv, Mapped
<1> QED
  BY <1>2, <1>3 DEF DowngradeWake

\* Every outcome of the attempt at try_again.
LEMMA TryWakeStep ==
    ASSUME IInv, NEW t \in Task, TryWake(t)
    PROVE  IInv' /\ Mapped
<1>1. CASE Active(count) = 0 /\ kind[Head(wait_list)] = "w"
  BY <1>1, WakeWriterStep
<1>2. CASE ~(Active(count) = 0 /\ kind[Head(wait_list)] = "w")
  BY <1>2, TryAgainStep DEF TryWake, Goto, RWSEM_ACTIVE_BIAS
<1> QED
  BY <1>1, <1>2

\* readers_only after a successful attempt.
LEMMA ScanReadersStep ==
    ASSUME IInv, NEW t \in Task, ScanReaders(t)
    PROVE  IInv' /\ Mapped
<1>1. /\ pc[t] = "scan" /\ ReadersOnly(t, 1) /\ ret' = ret
      /\ UNCHANGED <<wait_list, granted, kind>>
  BY DEF ScanReaders, RWSEM_ACTIVE_BIAS
<1> QED
  BY <1>1, ReadersOnlyStep

-----------------------------------------------------------------------------
(* Every step *)

\* The invariant holds initially, when nobody owns the lock.
LEMMA InitIInv == Init => IInv /\ Abstract!LInit
<1> SUFFICES ASSUME Init PROVE IInv /\ Abstract!LInit
  OBVIOUS
<1>1. /\ count = 0 /\ wait_list = <<>> /\ granted = {} /\ loop = 0
      /\ kind = [u \in Task |-> "r"] /\ ret = [u \in Task |-> "idle"]
      /\ pc = [u \in Task |-> "idle"]
  BY DEF Init
<1>2. wait_list \in Seq(Task) /\ Len(wait_list) = 0 /\ DOMAIN wait_list = {}
  BY <1>1, EmptySeq
<1>3. TypeOK
  BY <1>1, <1>2 DEF TypeOK, PC
<1>4. Readers = {} /\ Writers = {} /\ Trying = {} /\ Failing("r") = {} /\ Failing("w") = {}
  BY <1>1 DEF Readers, Writers, Trying, Failing, InDoWake
<1>5. Cardinality({}) = 0
  BY FS_EmptySet
<1>6. Accounting
  <2>1. ActiveHalf = 0 /\ WaitingHalf = 0
    <3>1. loop = 0 /\ Len(wait_list) = 0
      BY <1>1, <1>2
    <3>2. /\ Cardinality(Readers) = 0 /\ Cardinality(Writers) = 0 /\ Cardinality(Trying) = 0
          /\ Cardinality(Failing("r")) = 0 /\ Cardinality(Failing("w")) = 0
      BY <1>4, <1>5, Zenon
    <3> QED
      BY <3>1, <3>2 DEF ActiveHalf, WaitingHalf
  <2>2. count = 0 /\ loop \in Nat /\ Len(wait_list) \in Nat
    BY <1>1, <1>2
  <2>3. count = ActiveHalf - 65536 * WaitingHalf
    BY <2>1, <2>2
  <2> QED
    BY <2>2, <2>3, Balance
<1>7. Queued = {}
  BY <1>2 DEF Queued, Range
<1>8. QueueAlive
  <2>1. Cardinality(Queued) = Len(wait_list)
    BY <1>2, <1>5, <1>7
  <2>2. \A i \in 1..loop : kind[wait_list[i]] = "r"
    BY <1>1
  <2> QED
    BY <1>1, <1>7, <2>1, <2>2 DEF QueueAlive
<1>9. LockHeld
  BY <1>1 DEF LockHeld, InDoWake
<1>10. Distinct
  BY <1>2 DEF Distinct
<1>11. Exclusion
  BY <1>4 DEF Exclusion
<1> QED
  BY <1>3, <1>4, <1>6, <1>8, <1>9, <1>10, <1>11 DEF IInv, Abstract!LInit

\* Every step of every task keeps the invariant and is a step of the abstract
\* lock, or changes nobody's ownership.
LEMMA NextIInv == IInv /\ Next => IInv' /\ Mapped
<1> SUFFICES ASSUME IInv, NEW t \in Task,
                    Request(t) \/ DowngradeWrite(t) \/ Locking(t) \/ Running(t)
             PROVE  IInv' /\ Mapped
  BY DEF Next
<1>1. CASE Request(t)
  BY <1>1, RequestRead, RequestWrite DEF Request
<1>2. CASE DowngradeWrite(t)
  BY <1>2, DowngradeStep
<1>3. CASE Locking(t)
  BY <1>3, DownFailedStep, RwsemWakeStep, DowngradeWakeStep DEF Locking
<1>4. CASE Running(t)
  BY <1>4, ReleaseRead, ReleaseWrite, GrantedStep, TryWakeStep, UndoStep,
     ScanReadersStep, GrantReaderStep DEF Running
<1> QED
  BY <1>1, <1>2, <1>3, <1>4

\* A step that changes nothing.
LEMMA StutterIInv == IInv /\ UNCHANGED vars => IInv' /\ Mapped
<1> SUFFICES ASSUME IInv, UNCHANGED vars PROVE IInv' /\ Mapped
  OBVIOUS
<1>1. /\ count' = count /\ wait_list' = wait_list /\ granted' = granted /\ loop' = loop
      /\ kind' = kind /\ ret' = ret /\ pc' = pc
  BY DEF vars
<1>2. Readers' = Readers /\ Writers' = Writers
  BY <1>1 DEF Readers, Writers
<1>3. /\ Queued' = Queued /\ Trying' = Trying
      /\ Failing("r")' = Failing("r") /\ Failing("w")' = Failing("w")
  BY <1>1 DEF Queued, Trying, Failing
<1>4. TypeOK' /\ QueueAlive' /\ Distinct'
  BY <1>1, <1>3 DEF IInv, TypeOK, QueueAlive, Distinct
<1>5. Accounting' /\ Exclusion' /\ LockHeld'
  BY <1>1, <1>2, <1>3 DEF IInv, Accounting, Exclusion, LockHeld
<1> QED
  BY <1>2, <1>4, <1>5 DEF IInv, Mapped

\* IInv is an inductive invariant.
THEOREM Inductive == Spec => []IInv
<1>1. Init => IInv
  BY InitIInv
<1>2. IInv /\ [Next]_vars => IInv'
  BY NextIInv, StutterIInv
<1> QED
  BY <1>1, <1>2, PTL DEF Spec

\* Every variable of the semaphore keeps its type, for every number of tasks;
\* in particular loop never exceeds the queue it counts in.
THEOREM TypeCorrect == Spec => []TypeOK
<1>1. IInv => TypeOK
  BY DEF IInv
<1> QED
  BY <1>1, Inductive, PTL

\* The value of sem->count is the sum of what every owner, waiter and failed
\* fast path contributed, at every instruction that touches it.
THEOREM AccountingHolds == Spec => []Accounting
<1>1. IInv => Accounting
  BY DEF IInv
<1> QED
  BY <1>1, Inductive, PTL

\* A writer never shares the lock.
THEOREM ExclusionHolds == Spec => []Exclusion
<1>1. IInv => Exclusion
  BY DEF IInv
<1> QED
  BY <1>1, Inductive, PTL

\* A queue entry never outlives the stack frame that holds it.
THEOREM QueueAliveHolds == Spec => []QueueAlive
<1>1. IInv => QueueAlive
  BY DEF IInv
<1> QED
  BY <1>1, Inductive, PTL

\* i386's counter and lib/rwsem.c implement the abstract read/write lock: every
\* instruction is an acquisition, a release, a downgrade or invisible.
THEOREM Refinement == Spec => ImplementsRwLock
<1>1. Init => Abstract!LInit
  BY InitIInv
<1>2. IInv /\ [Next]_vars => [Abstract!LNext]_(Abstract!lvars)
  BY NextIInv, StutterIInv DEF Mapped, Abstract!lvars
<1> QED
  BY <1>1, <1>2, Inductive, PTL DEF Spec, ImplementsRwLock, Abstract!LSpec
==============================================================================
