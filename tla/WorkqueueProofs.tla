-------------------------- MODULE WorkqueueProofs --------------------------
(***************************************************************************)
(* The workqueue, for every number of CPUs, works and flushers, with works *)
(* that flush their own queue and with CPUs going down and coming up: its  *)
(* types, that hotplug strands no work (HotInv), that no wakeup is lost    *)
(* (LockInv, FlushesWait, WorkersSleep), and that the pending bit of a     *)
(* work always has exactly one owner (OwnInv).                             *)
(***************************************************************************)
EXTENDS Workqueue, FiniteSetTheorems, SequenceTheorems, WellFoundedInduction, TLAPS

(* Numbers, sequences and records *)

\* A non-empty set of CPU numbers has a least one, and Min picks it.
LEMMA MinInSet ==
    ASSUME NEW S \in SUBSET CPU, S # {}
    PROVE  Min(S) \in S
<1> DEFINE Less == OpToRel(<, Nat)
<1>1. S \subseteq Nat
  BY CpuAssumption
<1>2. Less = {p \in Nat \X Nat : p[1] < p[2]}
  BY Zenon DEF OpToRel
<1>3. PICK m \in S : \A k \in S : ~(<<k, m>> \in Less)
  BY <1>1, WFMin, NatLessThanWellFounded
<1>4. \A k \in S : <<k, m>> \in Less <=> k < m
  BY <1>1, <1>2
<1> HIDE DEF Less
<1>5. \A k \in S : m <= k
  <2> SUFFICES ASSUME NEW k \in S PROVE m <= k
    OBVIOUS
  <2>1. ~(k < m) /\ m \in Nat /\ k \in Nat
    BY <1>1, <1>3, <1>4
  <2> QED
    BY <2>1
<1> QED
  BY <1>5 DEF Min

\* The sequence counters stay within their width.
LEMMA IncType ==
    /\ 0 \in 0..SeqRange-1
    /\ \A n \in 0..SeqRange-1 : Inc(n) \in 0..SeqRange-1
<1>1. Cardinality(Work) \in Nat /\ Cardinality(SelfFlush) \in Nat
  BY WorkAssumption, FS_Subset, FS_CardinalityType
<1>2. SeqRange \in Nat /\ SeqRange > 0
  BY <1>1, SeqAssumption
<1>3. \A m \in Int : m % SeqRange \in 0..SeqRange-1
  BY <1>2
<1>4. 0 \in 0..SeqRange-1
  BY <1>2
<1>5. \A n \in 0..SeqRange-1 : n + 1 \in Int
  OBVIOUS
<1> QED
  BY <1>3, <1>4, <1>5 DEF Inc

\* Everything but the last element.
LEMMA FrontFacts ==
    ASSUME NEW S, NEW s \in Seq(S), s # <<>>
    PROVE  /\ Len(s) \in Nat /\ Len(s) > 0 /\ Len(s) \in DOMAIN s /\ Last(s) = s[Len(s)]
           /\ Last(s) \in S
           /\ Front(s) \in Seq(S) /\ Len(Front(s)) = Len(s) - 1
           /\ \A i \in 1..Len(s) - 1 : Front(s)[i] = s[i]
<1>1. Len(s) \in Nat /\ Len(s) > 0 /\ DOMAIN s = 1..Len(s)
  BY EmptySeq
<1> QED
  BY <1>1 DEF Front, Last

\* The last element replaced ...
LEMMA SetLast ==
    ASSUME NEW S, NEW s \in Seq(S), s # <<>>, NEW f \in S
    PROVE  /\ Front(s) \o <<f>> \in Seq(S)
           /\ Len(Front(s) \o <<f>>) = Len(s) /\ DOMAIN (Front(s) \o <<f>>) = DOMAIN s
           /\ (Front(s) \o <<f>>)[Len(s)] = f
           /\ \A i \in DOMAIN s : i # Len(s) => (Front(s) \o <<f>>)[i] = s[i]
<1> DEFINE a == Front(s)
           b == <<f>>
           r == Front(s) \o <<f>>
<1>1. /\ Len(s) \in Nat /\ Len(s) > 0 /\ a \in Seq(S) /\ Len(a) = Len(s) - 1
      /\ \A i \in 1..Len(s) - 1 : a[i] = s[i]
  BY FrontFacts
<1>2. b \in Seq(S) /\ Len(b) = 1 /\ b[1] = f
  OBVIOUS
<1>3. r = a \o b
  OBVIOUS
<1>0. a \in Seq(S) /\ b \in Seq(S)
  BY <1>1, <1>2
<1> HIDE DEF a, b, r
<1>4. /\ r \in Seq(S) /\ Len(r) = Len(a) + Len(b)
      /\ \A i \in 1..Len(a) : r[i] = a[i]
      /\ \A i \in 1..Len(b) : r[Len(a) + i] = b[i]
  <2>1. Len(a) \in Nat /\ Len(b) \in Nat
    BY <1>0
  <2> QED
    BY <1>0, <1>3, <2>1
<1>5. r[Len(s)] = f
  <2>1. 1 \in 1..Len(b) /\ Len(a) + 1 = Len(s)
    BY <1>1, <1>2
  <2> QED
    BY <1>2, <1>4, <2>1
<1>6. DOMAIN s = 1..Len(s) /\ DOMAIN r = 1..Len(r) /\ Len(r) = Len(s)
  BY <1>1, <1>2, <1>4
<1>7. \A i \in DOMAIN s : i # Len(s) => r[i] = s[i]
  BY <1>1, <1>4, <1>6
<1>8. r \in Seq(S) /\ Len(r) = Len(s) /\ DOMAIN r = DOMAIN s
  BY <1>4, <1>6
<1> QED
  BY <1>5, <1>7, <1>8 DEF r

\* ... and one more put behind it.
PushedOn(r, s, f, g) ==
    /\ Len(r) = Len(s) + 1 /\ r[Len(s)] = f /\ r[Len(s) + 1] = g
    /\ \A i \in DOMAIN s : i # Len(s) => r[i] = s[i]

LEMMA PushLast ==
    ASSUME NEW S, NEW s \in Seq(S), s # <<>>, NEW f \in S, NEW g \in S
    PROVE  /\ Front(s) \o <<f, g>> \in Seq(S)
           /\ PushedOn(Front(s) \o <<f, g>>, s, f, g)
<1> DEFINE a == Front(s)
           b == <<f, g>>
           r == Front(s) \o <<f, g>>
<1>1. /\ Len(s) \in Nat /\ Len(s) > 0 /\ a \in Seq(S) /\ Len(a) = Len(s) - 1
      /\ \A i \in 1..Len(s) - 1 : a[i] = s[i]
  BY FrontFacts
<1>2. b \in Seq(S) /\ Len(b) = 2 /\ b[1] = f /\ b[2] = g
  OBVIOUS
<1>3. r = a \o b
  OBVIOUS
<1>0. a \in Seq(S) /\ b \in Seq(S)
  BY <1>1, <1>2
<1> HIDE DEF a, b, r
<1>4. /\ r \in Seq(S) /\ Len(r) = Len(a) + Len(b)
      /\ \A i \in 1..Len(a) : r[i] = a[i]
      /\ \A i \in 1..Len(b) : r[Len(a) + i] = b[i]
  <2>1. Len(a) \in Nat /\ Len(b) \in Nat
    BY <1>0
  <2> QED
    BY <1>0, <1>3, <2>1
<1>5. r[Len(s)] = f /\ r[Len(s) + 1] = g
  <2>1. 1 \in 1..Len(b) /\ Len(a) + 1 = Len(s) /\ 2 \in 1..Len(b) /\ Len(a) + 2 = Len(s) + 1
    BY <1>1, <1>2
  <2> QED
    BY <1>2, <1>4, <2>1
<1>6. DOMAIN s = 1..Len(s) /\ Len(r) = Len(s) + 1
  BY <1>1, <1>2, <1>4
<1>7. \A i \in DOMAIN s : i # Len(s) => r[i] = s[i]
  BY <1>1, <1>4, <1>6
<1> QED
  BY <1>4, <1>5, <1>6, <1>7 DEF r, PushedOn

\* The queue without its first entry.
LEMMA TailFacts ==
    ASSUME NEW S, NEW s \in Seq(S), s # <<>>
    PROVE  /\ Head(s) \in S /\ Head(s) = s[1] /\ Len(s) \in Nat /\ Len(s) > 0
           /\ Tail(s) \in Seq(S) /\ Len(Tail(s)) = Len(s) - 1
           /\ \A i \in 1..Len(s) - 1 : Tail(s)[i] = s[i + 1]
<1>1. Len(s) \in Nat /\ Len(s) > 0 /\ DOMAIN s = 1..Len(s)
  BY EmptySeq
<1> QED
  BY <1>1

\* A function on 1..n is a sequence.
LEMMA IsSeq ==
    ASSUME NEW S, NEW n \in Nat, NEW g \in [1..n -> S]
    PROVE  g \in Seq(S) /\ Len(g) = n
  OBVIOUS

\* Frames: what a change of one field leaves alone.
LEMMA FrameFacts ==
    ASSUME NEW f \in Frame
    PROVE  /\ f.work \in Work /\ f.owed \in SUBSET Flusher /\ f.taken \in BOOLEAN
           /\ f.fl \in FlushCall
           /\ \A r \in FlushCall :
                 /\ [f EXCEPT !.fl = r] \in Frame /\ [f EXCEPT !.fl = r].fl = r
                 /\ [f EXCEPT !.fl = r].work = f.work /\ [f EXCEPT !.fl = r].taken = f.taken
                 /\ [f EXCEPT !.fl = r].owed = f.owed
           /\ /\ [f EXCEPT !.taken = FALSE] \in Frame /\ [f EXCEPT !.taken = FALSE].fl = f.fl
              /\ [f EXCEPT !.taken = FALSE].work = f.work /\ ~[f EXCEPT !.taken = FALSE].taken
              /\ [f EXCEPT !.taken = FALSE].owed = f.owed
  BY DEF Frame

LEMMA FlushFacts ==
    ASSUME NEW r \in FlushCall
    PROVE  /\ r.stage \in FlushStages /\ r.todo \in SUBSET CPU /\ r.needed \in 0..SeqRange-1
           /\ \A x \in FlushStages :
                 /\ [r EXCEPT !.stage = x] \in FlushCall
                 /\ [r EXCEPT !.stage = x].stage = x
                 /\ [r EXCEPT !.stage = x].todo = r.todo
                 /\ [r EXCEPT !.stage = x].needed = r.needed
           /\ \A S \in SUBSET CPU :
                 /\ [r EXCEPT !.todo = S] \in FlushCall
                 /\ [r EXCEPT !.todo = S].stage = r.stage
                 /\ [r EXCEPT !.todo = S].todo = S
           /\ \A n \in 0..SeqRange-1 :
                 /\ [r EXCEPT !.needed = n] \in FlushCall
                 /\ [r EXCEPT !.needed = n].stage = r.stage
                 /\ [r EXCEPT !.needed = n].todo = r.todo
                 /\ [r EXCEPT !.needed = n].needed = n
           /\ \A x \in FlushStages, S \in SUBSET CPU :
                 /\ [r EXCEPT !.stage = x, !.todo = S] \in FlushCall
                 /\ [r EXCEPT !.stage = x, !.todo = S].stage = x
                 /\ [r EXCEPT !.stage = x, !.todo = S].todo = S
  BY DEF FlushCall

LEMMA TakenFacts ==
    ASSUME NEW e \in Entry
    PROVE  /\ Taken(e) \in Frame /\ Taken(e).work = e.work /\ Taken(e).taken
           /\ Taken(e).owed = e.owed
           /\ Taken(e).fl = NoFlush /\ NoFlush \in FlushCall /\ NoFlush.stage = "none"
<1>1. NoFlush \in FlushCall /\ NoFlush.stage = "none"
  BY IncType DEF NoFlush, FlushCall, FlushStages
<1> QED
  BY <1>1 DEF Taken, Frame, Entry

-----------------------------------------------------------------------------
(* Stacks *)

Stacks == [CPU -> Seq(Frame)]

\* wake_up(&cwq->work_done) changes the stage of flush calls and nothing else.
LEMMA WakeCallFacts ==
    ASSUME NEW r \in FlushCall, NEW c
    PROVE  /\ WakeCall(r, c) \in FlushCall
           /\ WakeCall(r, c).todo = r.todo /\ WakeCall(r, c).needed = r.needed
           /\ r.stage = "wait" /\ Min(r.todo) = c => WakeCall(r, c).stage = "woken"
           /\ ~(r.stage = "wait" /\ Min(r.todo) = c) => WakeCall(r, c) = r
<1>1. "woken" \in FlushStages
  BY DEF FlushStages
<1> QED
  BY <1>1, FlushFacts DEF WakeCall

\* r: the stacks s after wake_up(&cwq->work_done) of CPU c; frame i of CPU d ...
WokenFrame(r, s, c, d, i) ==
    /\ i \in DOMAIN r[d]
    /\ r[d][i].work = s[d][i].work /\ r[d][i].taken = s[d][i].taken
    /\ r[d][i].owed = s[d][i].owed /\ r[d][i].fl = WakeCall(s[d][i].fl, c)

\* ... and the whole stack of CPU d.
WokenOther(r, s, c, d) ==
    /\ DOMAIN r[d] = DOMAIN s[d] /\ Len(r[d]) = Len(s[d])
    /\ \A i \in DOMAIN s[d] : WokenFrame(r, s, c, d, i)

LEMMA WakeStacksFacts ==
    ASSUME NEW s \in Stacks, NEW c, NEW r, r = WakeStacks(s, c)
    PROVE  r \in Stacks /\ \A d \in CPU : WokenOther(r, s, c, d)
<1>1. ASSUME NEW d \in CPU
      PROVE  /\ r[d] \in Seq(Frame) /\ Len(r[d]) = Len(s[d]) /\ DOMAIN r[d] = DOMAIN s[d]
             /\ \A i \in DOMAIN s[d] :
                   /\ r[d][i].work = s[d][i].work /\ r[d][i].taken = s[d][i].taken
                   /\ r[d][i].owed = s[d][i].owed /\ r[d][i].fl = WakeCall(s[d][i].fl, c)
  <2> DEFINE q == s[d]
             g == [i \in DOMAIN s[d] |-> [s[d][i] EXCEPT !.fl = WakeCall(s[d][i].fl, c)]]
  <2>1. q \in Seq(Frame) /\ Len(q) \in Nat /\ DOMAIN q = 1..Len(q)
    BY DEF Stacks
  <2>2. r[d] = g
    BY Zenon DEF WakeStacks
  <2>3. ASSUME NEW i \in DOMAIN q
        PROVE  /\ g[i] \in Frame /\ g[i].work = q[i].work /\ g[i].taken = q[i].taken
               /\ g[i].owed = q[i].owed /\ g[i].fl = WakeCall(q[i].fl, c)
    <3>1. q[i] \in Frame
      BY <2>1, <2>3
    <3>2. WakeCall(q[i].fl, c) \in FlushCall
      BY <3>1, FrameFacts, WakeCallFacts
    <3>3. g[i] = [q[i] EXCEPT !.fl = WakeCall(q[i].fl, c)]
      BY <2>3
    <3> QED
      BY <3>1, <3>2, <3>3, FrameFacts
  <2> HIDE DEF g, q
  <2>4. g \in [1..Len(q) -> Frame]
    <3>1. DOMAIN g = DOMAIN q /\ g = [i \in DOMAIN q |-> g[i]]
      BY DEF g, q
    <3> QED
      BY <2>1, <2>3, <3>1
  <2>5. g \in Seq(Frame) /\ Len(g) = Len(q)
    BY <2>1, <2>4, IsSeq
  <2>6. DOMAIN g = DOMAIN q
    BY <2>1, <2>4
  <2> QED
    BY <2>2, <2>3, <2>5, <2>6 DEF q
<1>2. r = [d \in CPU |-> r[d]]
  BY Zenon DEF WakeStacks
<1>3. r \in Stacks
  BY <1>1, <1>2 DEF Stacks
<1>4. ASSUME NEW d \in CPU PROVE WokenOther(r, s, c, d)
  BY <1>1 DEF WokenOther, WokenFrame
<1> QED
  BY <1>3, <1>4

\* What it says of one CPU depends on the stack of that CPU only.
LEMMA WokenSameStack ==
    ASSUME NEW r, NEW s, NEW S, NEW c, NEW d, S[d] = s[d], WokenOther(r, S, c, d)
    PROVE  WokenOther(r, s, c, d)
  BY Zenon DEF WokenOther, WokenFrame

\* The history variable of a flush changes nothing but owed.
LEMMA OweFrames ==
    ASSUME NEW f \in Flusher, NEW s \in Seq(Frame), NEW r, r = Owe(f, s)
    PROVE  /\ r \in Seq(Frame) /\ Len(r) = Len(s) /\ DOMAIN r = DOMAIN s
           /\ \A i \in DOMAIN s : /\ r[i].work = s[i].work /\ r[i].taken = s[i].taken
                                  /\ r[i].fl = s[i].fl /\ r[i].owed = s[i].owed \cup {f}
<1>1. Len(s) \in Nat /\ DOMAIN s = 1..Len(s)
  OBVIOUS
<1>2. r = [i \in DOMAIN s |-> [s[i] EXCEPT !.owed = s[i].owed \cup {f}]]
  BY Zenon DEF Owe
<1>3. ASSUME NEW i \in DOMAIN s
      PROVE  /\ r[i] \in Frame /\ r[i].work = s[i].work /\ r[i].taken = s[i].taken
             /\ r[i].fl = s[i].fl /\ r[i].owed = s[i].owed \cup {f}
  <2>1. s[i] \in Frame
    BY <1>1, <1>3
  <2>2. s[i].owed \cup {f} \in SUBSET Flusher
    BY <2>1, FrameFacts
  <2>3. r[i] = [s[i] EXCEPT !.owed = s[i].owed \cup {f}]
    BY <1>2, <1>3
  <2> QED
    BY <2>1, <2>2, <2>3 DEF Frame
<1>4. r \in [1..Len(s) -> Frame]
  <2>1. r = [i \in DOMAIN s |-> r[i]]
    BY <1>2
  <2> QED
    BY <1>1, <1>3, <2>1
<1>5. r \in Seq(Frame) /\ Len(r) = Len(s)
  BY <1>1, <1>4, IsSeq
<1>6. DOMAIN r = DOMAIN s
  BY <1>1, <1>4
<1> QED
  BY <1>3, <1>5, <1>6

LEMMA OweEntries ==
    ASSUME NEW f \in Flusher, NEW s \in Seq(Entry), NEW r, r = Owe(f, s)
    PROVE  /\ r \in Seq(Entry) /\ Len(r) = Len(s) /\ DOMAIN r = DOMAIN s
           /\ \A i \in DOMAIN s : r[i].work = s[i].work /\ r[i].owed = s[i].owed \cup {f}
<1>1. Len(s) \in Nat /\ DOMAIN s = 1..Len(s)
  OBVIOUS
<1>2. r = [i \in DOMAIN s |-> [s[i] EXCEPT !.owed = s[i].owed \cup {f}]]
  BY Zenon DEF Owe
<1>3. ASSUME NEW i \in DOMAIN s
      PROVE  r[i] \in Entry /\ r[i].work = s[i].work /\ r[i].owed = s[i].owed \cup {f}
  <2>1. s[i] \in Entry
    BY <1>1, <1>3
  <2>2. r[i] = [s[i] EXCEPT !.owed = s[i].owed \cup {f}]
    BY <1>2, <1>3
  <2> QED
    BY <2>1, <2>2 DEF Entry
<1>4. r \in [1..Len(s) -> Entry]
  <2>1. r = [i \in DOMAIN s |-> r[i]]
    BY <1>2
  <2> QED
    BY <1>1, <1>3, <2>1
<1>5. r \in Seq(Entry) /\ Len(r) = Len(s)
  BY <1>1, <1>4, IsSeq
<1>6. DOMAIN r = DOMAIN s
  BY <1>1, <1>4
<1> QED
  BY <1>3, <1>5, <1>6

-----------------------------------------------------------------------------
(* What the actions do to the stacks *)

\* The innermost frame.
LEMMA TopFacts ==
    ASSUME TypeOK, NEW c \in CPU, Running(c)
    PROVE  /\ stack[c] \in Seq(Frame) /\ stack[c] # <<>>
           /\ Len(stack[c]) \in Nat /\ Len(stack[c]) > 0
           /\ Len(stack[c]) \in DOMAIN stack[c] /\ DOMAIN stack[c] = 1..Len(stack[c])
           /\ Top(c) = stack[c][Len(stack[c])] /\ Top(c) \in Frame
<1>1. stack[c] \in Seq(Frame) /\ stack[c] # <<>>
  BY DEF TypeOK, Running
<1> QED
  BY <1>1, FrontFacts DEF Top

\* The innermost frame is replaced by g.
NewTop(c, g) ==
    /\ stack' \in Stacks
    /\ Len(stack'[c]) = Len(stack[c]) /\ DOMAIN stack'[c] = DOMAIN stack[c]
    /\ stack'[c][Len(stack[c])] = g
    /\ \A i \in DOMAIN stack[c] : i # Len(stack[c]) => stack'[c][i] = stack[c][i]
    /\ \A d \in CPU : d # c => stack'[d] = stack[d]

LEMMA SetTop ==
    ASSUME TypeOK, NEW c \in CPU, Running(c), NEW g \in Frame,
           stack' = [stack EXCEPT ![c] = Front(stack[c]) \o <<g>>]
    PROVE  NewTop(c, g)
<1> DEFINE r == Front(stack[c]) \o <<g>>
<1>1. stack[c] \in Seq(Frame) /\ stack[c] # <<>> /\ stack \in [CPU -> Seq(Frame)]
  BY TopFacts DEF TypeOK
<1>2. /\ r \in Seq(Frame) /\ Len(r) = Len(stack[c]) /\ DOMAIN r = DOMAIN stack[c]
      /\ r[Len(stack[c])] = g
      /\ \A i \in DOMAIN stack[c] : i # Len(stack[c]) => r[i] = stack[c][i]
  BY <1>1, SetLast
<1>3. stack' = [stack EXCEPT ![c] = r]
  OBVIOUS
<1> HIDE DEF r
<1>4. stack'[c] = r /\ (\A d \in CPU : d # c => stack'[d] = stack[d]) /\ stack' \in Stacks
  BY <1>1, <1>2, <1>3 DEF Stacks
<1> QED
  BY <1>2, <1>4 DEF NewTop

\* The flush call of the worker of c becomes r; a Flusher's is in flush.
LEMMA SetFlushFacts ==
    ASSUME TypeOK, NEW t \in Flusher \cup CPU, NEW r \in FlushCall, SetFlush(t, r),
           t \in CPU => Running(t)
    PROVE  /\ t \in CPU => /\ flush' = flush
                           /\ \E g \in Frame : /\ NewTop(t, g) /\ g.fl = r
                                               /\ g.work = Top(t).work /\ g.taken = Top(t).taken
                                               /\ g.owed = Top(t).owed
           /\ t \notin CPU => stack' = stack /\ flush' = [flush EXCEPT ![t] = r]
<1>1. ASSUME t \in CPU
      PROVE  /\ flush' = flush
             /\ \E g \in Frame : /\ NewTop(t, g) /\ g.fl = r
                                 /\ g.work = Top(t).work /\ g.taken = Top(t).taken
                                 /\ g.owed = Top(t).owed
  <2>1. PICK g \in Frame : g = [Top(t) EXCEPT !.fl = r]
    BY <1>1, TopFacts, FrameFacts
  <2>2. g.fl = r /\ g.work = Top(t).work /\ g.taken = Top(t).taken /\ g.owed = Top(t).owed
    BY <1>1, <2>1, TopFacts, FrameFacts
  <2>3. flush' = flush /\ stack' = [stack EXCEPT ![t] = Front(stack[t]) \o <<g>>]
    BY <1>1, <2>1 DEF SetFlush
  <2> QED
    BY <1>1, <2>2, <2>3, SetTop
<1>2. t \notin CPU => stack' = stack /\ flush' = [flush EXCEPT ![t] = r]
  BY DEF SetFlush
<1> QED
  BY <1>1, <1>2

\* The flush call of a thread.
LEMMA FlushOfFacts ==
    ASSUME TypeOK, NEW t \in Flusher \cup CPU
    PROVE  /\ FlushOf(t) \in FlushCall
           /\ FlushOf(t).stage # "none" /\ t \in CPU => Running(t) /\ FlushOf(t) = Top(t).fl
           /\ t \notin CPU => t \in Flusher /\ FlushOf(t) = flush[t]
<1>1. NoFlush \in FlushCall /\ NoFlush.stage = "none"
  BY IncType DEF NoFlush, FlushCall, FlushStages
<1>2. CASE t \in CPU /\ Running(t)
  BY <1>2, TopFacts, FrameFacts DEF FlushOf
<1>3. CASE t \in CPU /\ ~Running(t)
  BY <1>1, <1>3 DEF FlushOf
<1>4. CASE t \notin CPU
  BY <1>4 DEF FlushOf, TypeOK
<1> QED
  BY <1>2, <1>3, <1>4

\* A frame that has run its queue by hand goes on with the next CPU.
LEMMA BackFromSelf ==
    ASSUME NEW f \in Frame, NEW c,
           NEW g, g = [f EXCEPT !.fl.stage = "loop", !.fl.todo = @ \ {c}]
    PROVE  /\ g \in Frame /\ g.work = f.work /\ g.taken = f.taken
           /\ g.fl \in FlushCall /\ g.fl.stage = "loop"
  BY DEF Frame, FlushCall, FlushStages

\* The stack of the CPU c itself, if it was q.
WokenOwn(r, q, c) ==
    /\ DOMAIN r[c] = DOMAIN q /\ Len(r[c]) = Len(q)
    /\ \A i \in DOMAIN q : /\ r[c][i].work = q[i].work /\ r[c][i].taken = q[i].taken
                           /\ r[c][i].owed = q[i].owed /\ r[c][i].fl = WakeCall(q[i].fl, c)

LEMMA WokenOwnStack ==
    ASSUME NEW r, NEW S, NEW c, NEW q, S[c] = q, WokenOther(r, S, c, c)
    PROVE  WokenOwn(r, q, c)
  BY Zenon DEF WokenOther, WokenFrame, WokenOwn

LEMMA WakeAfter ==
    ASSUME NEW s \in Stacks, NEW c \in CPU, NEW q \in Seq(Frame),
           NEW r, r = WakeStacks([s EXCEPT ![c] = q], c)
    PROVE  r \in Stacks /\ WokenOwn(r, q, c) /\ \A d \in CPU : d # c => WokenOther(r, s, c, d)
<1>1. PICK S \in Stacks : S = [s EXCEPT ![c] = q]
  BY DEF Stacks
<1>2. S[c] = q /\ \A d \in CPU : d # c => S[d] = s[d]
  BY <1>1 DEF Stacks
<1>3. r = WakeStacks(S, c)
  BY <1>1
<1>4. r \in Stacks /\ \A d \in CPU : WokenOther(r, S, c, d)
  BY <1>3, WakeStacksFacts
<1>5. WokenOwn(r, q, c)
  BY Zenon, <1>2, <1>4, WokenOwnStack
<1>6. \A d \in CPU : d # c => WokenOther(r, s, c, d)
  BY Zenon, <1>2, <1>4, WokenSameStack
<1> QED
  BY <1>4, <1>5, <1>6

\* A frame of q that was there before is woken like the others.
LEMMA WokenSame ==
    ASSUME NEW r, NEW s, NEW c, NEW q, NEW i \in DOMAIN q,
           WokenOwn(r, q, c), q[i] = s[c][i]
    PROVE  WokenFrame(r, s, c, c, i)
  BY DEF WokenOwn, WokenFrame

\* One more frame.
LEMMA PushFacts ==
    ASSUME NEW S, NEW s \in Seq(S), NEW g \in S
    PROVE  /\ Append(s, g) \in Seq(S) /\ Len(Append(s, g)) = Len(s) + 1
           /\ Len(s) \in Nat /\ DOMAIN Append(s, g) = 1..Len(s) + 1
           /\ Append(s, g)[Len(s) + 1] = g
           /\ \A i \in 1..Len(s) : Append(s, g)[i] = s[i]
  OBVIOUS

\* A function of c has returned: the last frame is gone, or stands for the next work
\* of the queue; a frame below that had run the queue by hand goes on with its flush.
NextTaken(c, n) ==
    /\ list[c] # <<>> /\ list' = [list EXCEPT ![c] = Tail(list[c])] /\ pc' = pc
    /\ Len(stack'[c]) = n
    /\ stack'[c][n].work = Head(list[c]).work /\ stack'[c][n].taken
    /\ stack'[c][n].owed = Head(list[c]).owed /\ stack'[c][n].fl.stage = "none"
    /\ n > 1 => WokenFrame(stack', stack, c, c, n - 1)

LoopEnds(c, n) ==
    /\ list[c] = <<>> /\ list' = list /\ Len(stack'[c]) = n - 1
    /\ n > 1 => /\ stack'[c][n-1].work = stack[c][n-1].work
                /\ stack'[c][n-1].taken = stack[c][n-1].taken
                /\ stack'[c][n-1].fl.stage = "loop"
                /\ pc' = pc
    /\ n = 1 => stack'[c] = <<>> /\ pc' = [pc EXCEPT ![c] = "set"]

Finished(c, n) ==
    /\ stack' \in Stacks
    /\ \A d \in CPU : d # c => WokenOther(stack', stack, c, d)
    /\ \A i \in 1..n-2 : WokenFrame(stack', stack, c, c, i)
    /\ NextTaken(c, n) \/ LoopEnds(c, n)

LEMMA FinishFacts ==
    ASSUME TypeOK, NEW c \in CPU, FinishWork(c), NEW n, n = Len(stack[c])
    PROVE  n \in Nat /\ n > 0 /\ Finished(c, n)
<1> DEFINE s == Front(stack[c])
<1>1. /\ stack[c] \in Seq(Frame) /\ stack[c] # <<>> /\ stack \in Stacks
      /\ n \in Nat /\ n > 0 /\ DOMAIN stack[c] = 1..n /\ list[c] \in Seq(Entry)
  BY TopFacts DEF FinishWork, Returned, TypeOK, Stacks
<1>2. s \in Seq(Frame) /\ Len(s) = n - 1 /\ \A i \in 1..n-1 : s[i] = stack[c][i]
  BY <1>1, FrontFacts
<1>3. NextOrReturn(c, s)
  BY DEF FinishWork
<1> HIDE DEF s
<1>4. ASSUME NEW q \in Seq(Frame), stack' = WakeStacks([stack EXCEPT ![c] = q], c)
      PROVE  /\ stack' \in Stacks /\ WokenOwn(stack', q, c)
             /\ \A d \in CPU : d # c => WokenOther(stack', stack, c, d)
  BY <1>1, <1>4, WakeAfter
<1>6. CASE list[c] # <<>>
  <2>0. Head(list[c]) \in Entry
    BY <1>1, <1>6, TailFacts
  <2>1. PICK g \in Frame : /\ g = Taken(Head(list[c])) /\ g.work = Head(list[c]).work
                           /\ g.taken /\ g.owed = Head(list[c]).owed /\ g.fl = NoFlush
    BY <2>0, TakenFacts
  <2>2. PICK q : q = Append(s, g)
    OBVIOUS
  <2>3. /\ q \in Seq(Frame) /\ Len(q) = Len(s) + 1 /\ DOMAIN q = 1..Len(s) + 1
        /\ q[Len(s) + 1] = g /\ \A i \in 1..Len(s) : q[i] = s[i]
    BY <1>2, <2>2, PushFacts
  <2>4. /\ Len(q) = n /\ DOMAIN q = 1..n /\ q[n] = g
        /\ \A i \in 1..n-1 : i \in DOMAIN q /\ q[i] = stack[c][i]
    BY <1>1, <1>2, <2>3
  <2>5. /\ list' = [list EXCEPT ![c] = Tail(list[c])] /\ pc' = pc
        /\ stack' = WakeStacks([stack EXCEPT ![c] = q], c)
    BY <1>3, <1>6, <2>1, <2>2 DEF NextOrReturn
  <2>6. /\ stack' \in Stacks /\ WokenOwn(stack', q, c)
        /\ \A d \in CPU : d # c => WokenOther(stack', stack, c, d)
    BY <1>4, <2>3, <2>5
  <2>7. \A i \in 1..n-1 : WokenFrame(stack', stack, c, c, i)
    BY <2>4, <2>6, WokenSame
  <2>8. n \in DOMAIN q /\ \A i \in 1..n-2 : i \in 1..n-1
    BY <1>1, <2>4
  <2>9. n > 1 => n - 1 \in 1..n-1
    BY <1>1
  <2>10. /\ stack'[c][n].work = g.work /\ stack'[c][n].taken
         /\ stack'[c][n].owed = g.owed
         /\ stack'[c][n].fl = WakeCall(NoFlush, c) /\ Len(stack'[c]) = n
    BY <2>1, <2>4, <2>6, <2>8 DEF WokenOwn
  <2>11. WakeCall(NoFlush, c).stage = "none"
    BY DEF WakeCall, NoFlush
  <2>12. NextTaken(c, n)
    BY <1>6, <2>1, <2>5, <2>7, <2>9, <2>10, <2>11 DEF NextTaken
  <2> QED
    BY <1>1, <2>6, <2>7, <2>8, <2>12 DEF Finished
<1>7. CASE list[c] = <<>> /\ s = <<>>
  <2>1. n = 1 /\ <<>> \in Seq(Frame)
    BY <1>1, <1>2, <1>7
  <2>2. /\ stack' = WakeStacks([stack EXCEPT ![c] = <<>>], c) /\ list' = list
        /\ pc' = [pc EXCEPT ![c] = "set"]
    BY <1>3, <1>7 DEF NextOrReturn
  <2>3. /\ stack' \in Stacks /\ WokenOwn(stack', <<>>, c)
        /\ \A d \in CPU : d # c => WokenOther(stack', stack, c, d)
    BY <1>4, <2>1, <2>2
  <2>4. Len(stack'[c]) = 0
    BY <2>3 DEF WokenOwn
  <2>5. stack'[c] = <<>>
    BY <2>3, <2>4, EmptySeq DEF Stacks
  <2>6. LoopEnds(c, n)
    BY <1>7, <2>1, <2>2, <2>4, <2>5 DEF LoopEnds
  <2> QED
    BY <1>1, <2>1, <2>3, <2>6 DEF Finished
<1>5. n \in Nat
  BY <1>1
<1>8. CASE list[c] = <<>> /\ s # <<>>
  <2>1. /\ n > 1 /\ Last(s) = s[n-1] /\ Last(s) \in Frame /\ DOMAIN s = 1..n-1
        /\ Last(s) = stack[c][n-1]
    BY <1>1, <1>2, <1>8, FrontFacts
  <2>2. PICK g : g = [Last(s) EXCEPT !.fl.stage = "loop", !.fl.todo = @ \ {c}]
    OBVIOUS
  <2>3. /\ g \in Frame /\ g.work = Last(s).work /\ g.taken = Last(s).taken
        /\ g.fl \in FlushCall /\ g.fl.stage = "loop"
    BY <2>1, <2>2, BackFromSelf
  <2>4. PICK q : q = Front(s) \o <<g>>
    OBVIOUS
  <2>5. /\ q \in Seq(Frame) /\ Len(q) = Len(s) /\ DOMAIN q = DOMAIN s /\ q[Len(s)] = g
        /\ \A i \in DOMAIN s : i # Len(s) => q[i] = s[i]
    BY <1>2, <1>8, <2>3, <2>4, SetLast
  <2>6. /\ Len(q) = n - 1 /\ DOMAIN q = 1..n-1 /\ q[n-1] = g
        /\ \A i \in 1..n-2 : i \in DOMAIN q /\ q[i] = stack[c][i]
    <3>1. Len(s) = n - 1 /\ DOMAIN s = 1..n-1
      BY <1>2, <2>1
    <3>2. \A i \in 1..n-2 : i \in 1..n-1 /\ i # n-1
      BY <1>5
    <3>3. \A i \in 1..n-2 : i \in DOMAIN q /\ q[i] = stack[c][i]
      BY <1>2, <2>5, <3>1, <3>2
    <3> QED
      BY <2>5, <3>1, <3>3
  <2>7. stack' = WakeStacks([stack EXCEPT ![c] = q], c) /\ list' = list /\ pc' = pc
    BY <1>3, <1>8, <2>2, <2>4 DEF NextOrReturn
  <2>8. /\ stack' \in Stacks /\ WokenOwn(stack', q, c)
        /\ \A d \in CPU : d # c => WokenOther(stack', stack, c, d)
    BY <1>4, <2>5, <2>7
  <2>9. \A i \in 1..n-2 : WokenFrame(stack', stack, c, c, i)
    BY <2>6, <2>8, WokenSame
  <2>10. n - 1 \in DOMAIN q
    BY <1>1, <2>1, <2>6
  <2>11. /\ stack'[c][n-1].work = g.work /\ stack'[c][n-1].taken = g.taken
         /\ stack'[c][n-1].fl = WakeCall(g.fl, c) /\ Len(stack'[c]) = n - 1
    BY <2>6, <2>8, <2>10 DEF WokenOwn
  <2>12. WakeCall(g.fl, c).stage = "loop"
    BY <2>3 DEF WakeCall
  <2>13. n # 1
    <3>1. n > 1
      BY <2>1
    <3>2. \A m \in Nat : m > 1 => m # 1
      OBVIOUS
    <3> QED
      BY Zenon, <1>5, <3>1, <3>2
  <2>14. LoopEnds(c, n)
    BY <1>8, <2>1, <2>3, <2>7, <2>11, <2>12, <2>13 DEF LoopEnds
  <2> QED
    BY <1>1, <2>8, <2>9, <2>14 DEF Finished
<1> QED
  BY <1>6, <1>7, <1>8

\* The worker of c starts to run its queue by hand, in a flush of its own.
Pushed(c, n) ==
    /\ stack' \in Stacks
    /\ Len(stack'[c]) = n + 1
    /\ stack'[c][n].work = stack[c][n].work /\ stack'[c][n].taken = stack[c][n].taken
    /\ stack'[c][n].fl.stage = "self"
    /\ stack'[c][n+1].work = Head(list[c]).work /\ stack'[c][n+1].taken
    /\ stack'[c][n+1].owed = Head(list[c]).owed /\ stack'[c][n+1].fl.stage = "none"
    /\ \A i \in 1..n-1 : stack'[c][i] = stack[c][i]
    /\ \A d \in CPU : d # c => stack'[d] = stack[d]
    /\ list' = [list EXCEPT ![c] = Tail(list[c])] /\ flush' = flush

LEMMA PushSelf ==
    ASSUME TypeOK, NEW c \in CPU, FlushSelf(c), list[c] # <<>>, NEW n, n = Len(stack[c])
    PROVE  n \in Nat /\ n > 0 /\ Pushed(c, n)
<1>1. Running(c)
  BY FlushOfFacts DEF FlushSelf
<1>2. /\ stack[c] \in Seq(Frame) /\ stack[c] # <<>> /\ n \in Nat /\ n > 0
      /\ DOMAIN stack[c] = 1..n /\ Top(c) = stack[c][n] /\ Top(c) \in Frame
  BY <1>1, TopFacts
<1>3. stack \in [CPU -> Seq(Frame)] /\ list[c] \in Seq(Entry)
  BY DEF TypeOK
<1>4. Head(list[c]) \in Entry
  BY <1>3, TailFacts
<1>5. PICK f : f = [Top(c) EXCEPT !.fl.stage = "self"]
  OBVIOUS
<1>6. f \in Frame /\ f.work = Top(c).work /\ f.taken = Top(c).taken /\ f.fl.stage = "self"
  BY <1>2, <1>5 DEF Frame, FlushCall, FlushStages
<1>7. PICK g : g = Taken(Head(list[c]))
  OBVIOUS
<1>8. /\ g \in Frame /\ g.work = Head(list[c]).work /\ g.taken /\ g.fl.stage = "none"
      /\ g.owed = Head(list[c]).owed
  BY <1>4, <1>7, TakenFacts
<1> DEFINE r == Front(stack[c]) \o <<f, g>>
<1>9. r \in Seq(Frame) /\ PushedOn(r, stack[c], f, g)
  BY <1>2, <1>6, <1>8, PushLast
<1>11. /\ stack' = [stack EXCEPT ![c] = r] /\ flush' = flush
       /\ list' = [list EXCEPT ![c] = Tail(list[c])]
  BY <1>5, <1>7 DEF FlushSelf
<1> HIDE DEF r
<1>10. /\ r \in Seq(Frame) /\ Len(r) = n + 1 /\ r[n] = f /\ r[n + 1] = g
       /\ \A i \in DOMAIN stack[c] : i # n => r[i] = stack[c][i]
  BY <1>9 DEF PushedOn
<1>12. /\ stack'[c] = r /\ (\A d \in CPU : d # c => stack'[d] = stack[d])
       /\ stack' \in Stacks
  BY <1>3, <1>10, <1>11 DEF Stacks
<1>13. \A i \in 1..n-1 : i \in 1..n /\ i # n
  BY <1>2
<1>14. \A i \in 1..n-1 : r[i] = stack[c][i]
  BY <1>2, <1>10, <1>13
<1>15. stack'[c][n] = f /\ stack'[c][n+1] = g /\ Len(stack'[c]) = n + 1
  BY <1>10, <1>12
<1>16. f.work = stack[c][n].work /\ f.taken = stack[c][n].taken
  BY <1>2, <1>6
<1>17. \A i \in 1..n-1 : stack'[c][i] = stack[c][i]
  BY <1>12, <1>14
<1>18. Pushed(c, n)
  BY <1>6, <1>8, <1>11, <1>12, <1>15, <1>16, <1>17 DEF Pushed
<1> QED
  BY <1>2, <1>18

\* worker_thread enters run_workqueue.
First(c) ==
    /\ stack' \in Stacks
    /\ Len(stack'[c]) = 1
    /\ stack'[c][1].work = Head(list[c]).work /\ stack'[c][1].taken
    /\ stack'[c][1].owed = Head(list[c]).owed /\ stack'[c][1].fl.stage = "none"
    /\ \A d \in CPU : d # c => stack'[d] = stack[d]
    /\ list' = [list EXCEPT ![c] = Tail(list[c])]

LEMMA FirstFacts ==
    ASSUME TypeOK, NEW c \in CPU, WorkerResume(c), list[c] # <<>>
    PROVE  First(c)
<1>1. stack \in [CPU -> Seq(Frame)] /\ list[c] \in Seq(Entry)
  BY DEF TypeOK
<1>2. PICK g : g = Taken(Head(list[c]))
  OBVIOUS
<1>3. /\ g \in Frame /\ g.work = Head(list[c]).work /\ g.taken /\ g.fl.stage = "none"
      /\ g.owed = Head(list[c]).owed
  BY <1>1, <1>2, TailFacts, TakenFacts
<1>4. stack' = [stack EXCEPT ![c] = <<g>>] /\ list' = [list EXCEPT ![c] = Tail(list[c])]
  BY <1>2 DEF WorkerResume
<1>9. <<g>> \in Seq(Frame) /\ Len(<<g>>) = 1 /\ <<g>>[1] = g
  BY <1>3
<1>5. PICK q \in Seq(Frame) : q = <<g>> /\ Len(q) = 1 /\ q[1] = g
  BY Zenon, <1>9
<1>6. stack' = [stack EXCEPT ![c] = q]
  BY <1>4, <1>5
<1>7. /\ stack'[c] = q /\ (\A d \in CPU : d # c => stack'[d] = stack[d])
      /\ stack' \in Stacks
  BY <1>1, <1>5, <1>6 DEF Stacks
<1>8. Len(stack'[c]) = 1 /\ stack'[c][1] = g
  BY <1>5, <1>7
<1> QED
  BY <1>3, <1>4, <1>7, <1>8 DEF First

\* The history variable of a flush: every queue and every stack keeps its works.
SameFrames(r, s) ==
    /\ DOMAIN r = DOMAIN s /\ Len(r) = Len(s)
    /\ \A i \in DOMAIN s : r[i].work = s[i].work /\ r[i].taken = s[i].taken /\ r[i].fl = s[i].fl

SameEntries(r, s) ==
    DOMAIN r = DOMAIN s /\ Len(r) = Len(s) /\ \A i \in DOMAIN s : r[i].work = s[i].work

LEMMA OweFacts ==
    ASSUME TypeOK, NEW f \in Flusher, OweAll(f)
    PROVE  /\ stack' \in Stacks /\ list' \in [CPU -> Seq(Entry)]
           /\ \A c \in CPU : SameFrames(stack'[c], stack[c]) /\ SameEntries(list'[c], list[c])
<1>1. ASSUME NEW c \in CPU
      PROVE  /\ stack'[c] \in Seq(Frame) /\ SameFrames(stack'[c], stack[c])
             /\ list'[c] \in Seq(Entry) /\ SameEntries(list'[c], list[c])
  <2>1. stack[c] \in Seq(Frame) /\ list[c] \in Seq(Entry)
    BY DEF TypeOK
  <2>2. stack'[c] = Owe(f, stack[c]) /\ list'[c] = Owe(f, list[c])
    BY Zenon DEF OweAll
  <2>3. stack'[c] \in Seq(Frame) /\ SameFrames(stack'[c], stack[c])
    BY <2>1, <2>2, OweFrames DEF SameFrames
  <2>4. list'[c] \in Seq(Entry) /\ SameEntries(list'[c], list[c])
    BY <2>1, <2>2, OweEntries DEF SameEntries
  <2> QED
    BY <2>3, <2>4
<1>2. stack' = [c \in CPU |-> stack'[c]] /\ list' = [c \in CPU |-> list'[c]]
  BY Zenon DEF OweAll
<1>3. stack' \in Stacks /\ list' \in [CPU -> Seq(Entry)]
  BY <1>1, <1>2 DEF Stacks
<1> QED
  BY <1>1, <1>3

\* What flush_cpu_workqueue leaves in the flush call r of thread t.
Resting(x, r) ==
    \/ x.stage = "wait" /\ x.todo = r.todo /\ Behind(x.needed, Min(x.todo))
    \/ x.stage = "loop"

LEMMA FlushWaitFacts ==
    ASSUME NEW t, NEW r \in FlushCall, FlushWait(t, r)
    PROVE  \E x \in FlushCall : SetFlush(t, x) /\ Resting(x, r)
<1>1. "wait" \in FlushStages /\ "loop" \in FlushStages
  BY DEF FlushStages
<1>2. CASE Behind(r.needed, Min(r.todo))
  <2>1. PICK x : x = [r EXCEPT !.stage = "wait"]
    OBVIOUS
  <2>2. x \in FlushCall /\ x.stage = "wait" /\ x.todo = r.todo /\ x.needed = r.needed
    BY <1>1, <2>1 DEF FlushCall
  <2>3. SetFlush(t, x)
    BY <1>2, <2>1 DEF FlushWait
  <2>4. Resting(x, r)
    BY <1>2, <2>2 DEF Resting
  <2> QED
    BY <2>2, <2>3, <2>4
<1>3. CASE ~Behind(r.needed, Min(r.todo))
  <2>1. PICK x : x = [r EXCEPT !.stage = "loop", !.todo = r.todo \ {Min(r.todo)}]
    OBVIOUS
  <2>2. r.todo \ {Min(r.todo)} \in SUBSET CPU
    BY FlushFacts
  <2>3. x \in FlushCall /\ x.stage = "loop"
    BY <1>1, <2>1, <2>2 DEF FlushCall
  <2>4. SetFlush(t, x)
    BY <1>3, <2>1 DEF FlushWait
  <2>5. Resting(x, r)
    BY <2>3 DEF Resting
  <2> QED
    BY <2>3, <2>4, <2>5
<1> QED
  BY <1>2, <1>3

\* Every step of a flush by thread t replaces its flush call.
LEMMA FlushCpuFacts ==
    ASSUME TypeOK, NEW t \in Flusher \cup CPU, FlushCpu(t)
    PROVE  \E x \in FlushCall : /\ SetFlush(t, x) /\ Resting(x, FlushOf(t))
                                /\ FlushOf(t).todo # {} /\ FlushOf(t).stage = "loop"
<1>1. FlushOf(t) \in FlushCall /\ FlushOf(t).todo # {} /\ FlushOf(t).stage = "loop"
  BY FlushOfFacts DEF FlushCpu
<1>2. PICK r : r = [FlushOf(t) EXCEPT !.needed = Sample(Min(FlushOf(t).todo))]
  OBVIOUS
<1>3. Min(FlushOf(t).todo) \in CPU
  BY <1>1, MinInSet, FlushFacts
<1>4. Sample(Min(FlushOf(t).todo)) \in 0..SeqRange-1
  BY <1>3 DEF Sample, TypeOK
<1>5. r \in FlushCall /\ r.todo = FlushOf(t).todo
  BY <1>1, <1>2, <1>4, FlushFacts
<1>6. FlushWait(t, r)
  BY <1>2 DEF FlushCpu
<1>7. PICK x \in FlushCall : SetFlush(t, x) /\ Resting(x, r)
  BY <1>5, <1>6, FlushWaitFacts
<1>8. Resting(x, FlushOf(t))
  BY <1>5, <1>7 DEF Resting
<1> QED
  BY <1>1, <1>7, <1>8

LEMMA FlushRetryFacts ==
    ASSUME TypeOK, NEW t \in Flusher \cup CPU, FlushRetry(t)
    PROVE  \E x \in FlushCall : /\ SetFlush(t, x) /\ Resting(x, FlushOf(t))
                                /\ FlushOf(t).stage = "woken"
<1>1. FlushOf(t) \in FlushCall /\ FlushWait(t, FlushOf(t)) /\ FlushOf(t).stage = "woken"
  BY FlushOfFacts DEF FlushRetry
<1> QED
  BY <1>1, FlushWaitFacts

LEMMA FlushReturnFacts ==
    ASSUME TypeOK, NEW t \in Flusher \cup CPU, FlushReturn(t)
    PROVE  \E x \in FlushCall : /\ SetFlush(t, x) /\ x.stage \in {"none", "done"}
                                /\ FlushOf(t).stage = "loop"
<1>1. NoFlush \in FlushCall /\ NoFlush.stage = "none"
  BY IncType DEF NoFlush, FlushCall, FlushStages
<1>2. [NoFlush EXCEPT !.stage = "done"] \in FlushCall
  BY <1>1, FlushFacts DEF FlushStages
<1>3. [NoFlush EXCEPT !.stage = "done"].stage = "done"
  BY <1>1, FlushFacts DEF FlushStages
<1>4. FlushOf(t).stage = "loop"
  BY DEF FlushReturn
<1>5. CASE t \in CPU
  BY <1>2, <1>3, <1>4, <1>5 DEF FlushReturn
<1>6. CASE t \notin CPU
  BY <1>1, <1>4, <1>6 DEF FlushReturn
<1> QED
  BY <1>5, <1>6

\* lock_cpu_hotplug by a worker, and by a Flusher.
LEMMA FlushLockFacts ==
    ASSUME TypeOK, NEW t \in Flusher \cup CPU, FlushLock(t)
    PROVE  \E x \in FlushCall :
              /\ x.stage = "loop" /\ FlushOf(t).stage = "lock"
              /\ t \in CPU => SetFlush(t, x) /\ list' = list
              /\ t \notin CPU => t \in Flusher /\ flush' = [flush EXCEPT ![t] = x] /\ OweAll(t)
<1>1. PICK x : x = [stage |-> "loop", todo |-> online, needed |-> 0]
  OBVIOUS
<1>2. x \in FlushCall /\ x.stage = "loop"
  BY <1>1, IncType DEF FlushCall, FlushStages, TypeOK
<1>3. t \in CPU => t \notin Flusher
  BY ThreadAssumption
<1>4. t \in CPU => SetFlush(t, x) /\ list' = list
  BY <1>1, <1>3 DEF FlushLock
<1>5. t \notin CPU => t \in Flusher /\ flush' = [flush EXCEPT ![t] = x] /\ OweAll(t)
  BY <1>1 DEF FlushLock
<1> QED
  BY <1>2, <1>4, <1>5 DEF FlushLock

\* FlushSelf with nothing queued.
LEMMA FlushSelfEmpty ==
    ASSUME TypeOK, NEW c \in CPU, FlushSelf(c), list[c] = <<>>
    PROVE  \E x \in FlushCall : SetFlush(c, x) /\ x.stage = "loop" /\ FlushOf(c).stage = "loop"
<1>1. FlushOf(c) \in FlushCall /\ FlushOf(c).stage = "loop"
  BY FlushOfFacts DEF FlushSelf
<1>2. PICK x : x = [FlushOf(c) EXCEPT !.todo = FlushOf(c).todo \ {c}]
  OBVIOUS
<1>3. FlushOf(c).todo \ {c} \in SUBSET CPU
  BY <1>1, FlushFacts
<1>4. x \in FlushCall /\ x.stage = "loop"
  BY <1>1, <1>2, <1>3, FlushFacts
<1>5. SetFlush(c, x)
  BY <1>2 DEF FlushSelf
<1> QED
  BY <1>1, <1>4, <1>5

-----------------------------------------------------------------------------
(* Type correctness *)

LEMMA TypeInit == Init => TypeOK
<1> SUFFICES ASSUME Init PROVE TypeOK
  OBVIOUS
<1>1. Min(CPU) \in CPU
  BY CpuAssumption, MinInSet
<1>2. NoFlush \in FlushCall
  BY IncType DEF NoFlush, FlushCall, FlushStages
<1>3. <<>> \in Seq(Entry) /\ <<>> \in Seq(Frame)
  OBVIOUS
<1>4. /\ list = [c \in CPU |-> <<>>] /\ stack = [c \in CPU |-> <<>>]
      /\ flush = [f \in Flusher |-> NoFlush]
  BY DEF Init
<1>5. list \in [CPU -> Seq(Entry)] /\ stack \in [CPU -> Seq(Frame)]
  BY <1>3, <1>4
<1>6. flush \in [Flusher -> FlushCall]
  BY <1>2, <1>4
<1>7. insert \in [CPU -> 0..SeqRange-1] /\ remove \in [CPU -> 0..SeqRange-1]
  BY IncType DEF Init
<1>8. /\ pc \in [CPU -> WorkerPC] /\ tstate \in [CPU -> {"RUNNING", "INTERRUPTIBLE"}]
      /\ stop \in [CPU -> BOOLEAN] /\ pending \in [Work -> BOOLEAN]
  BY DEF Init, WorkerPC
<1>9. hp \in [stage : HpStages, cpu : CPU, on : CPU]
  BY <1>1 DEF Init, HpStages
<1>10. /\ online \in SUBSET CPU /\ claims \in SUBSET Claim
       /\ lock \in Flusher \cup CPU \cup {Hotplugger, Nobody}
  BY DEF Init
<1> QED
  BY <1>5, <1>6, <1>7, <1>8, <1>9, <1>10 DEF TypeOK

\* Queue operations on the list of c.
LEMMA ListTypes ==
    ASSUME TypeOK, NEW c \in CPU
    PROVE  /\ \A e \in Entry : [list EXCEPT ![c] = Append(list[c], e)] \in [CPU -> Seq(Entry)]
           /\ list[c] # <<>> =>
                 /\ Head(list[c]) \in Entry
                 /\ [list EXCEPT ![c] = Tail(list[c])] \in [CPU -> Seq(Entry)]
           /\ [list EXCEPT ![c] = <<>>] \in [CPU -> Seq(Entry)]
           /\ [insert EXCEPT ![c] = Inc(insert[c])] \in [CPU -> 0..SeqRange-1]
           /\ [remove EXCEPT ![c] = Inc(remove[c])] \in [CPU -> 0..SeqRange-1]
           /\ [insert EXCEPT ![c] = 0] \in [CPU -> 0..SeqRange-1]
           /\ [remove EXCEPT ![c] = 0] \in [CPU -> 0..SeqRange-1]
<1>1. list \in [CPU -> Seq(Entry)] /\ list[c] \in Seq(Entry)
  BY DEF TypeOK
<1>2. \A e \in Entry : Append(list[c], e) \in Seq(Entry)
  BY <1>1
<1>3. \A s \in Seq(Entry) : [list EXCEPT ![c] = s] \in [CPU -> Seq(Entry)]
  BY <1>1
<1>4. list[c] # <<>> => Head(list[c]) \in Entry /\ Tail(list[c]) \in Seq(Entry)
  BY <1>1, TailFacts
<1>5. <<>> \in Seq(Entry)
  OBVIOUS
<1>6. \A n \in 0..SeqRange-1 : /\ [insert EXCEPT ![c] = n] \in [CPU -> 0..SeqRange-1]
                               /\ [remove EXCEPT ![c] = n] \in [CPU -> 0..SeqRange-1]
  BY DEF TypeOK
<1>7. insert[c] \in 0..SeqRange-1 /\ remove[c] \in 0..SeqRange-1
  BY DEF TypeOK
<1>8. /\ 0 \in 0..SeqRange-1
      /\ Inc(insert[c]) \in 0..SeqRange-1 /\ Inc(remove[c]) \in 0..SeqRange-1
  BY <1>7, IncType
<1> QED
  BY <1>2, <1>3, <1>4, <1>5, <1>6, <1>8

\* Queueing, timers and cancelling.
LEMMA TypeQueue ==
    ASSUME TypeOK, NEW w \in Work, NEW c \in CPU,
           \/ QueueWork(w, c) \/ QueueDelayedWork(w, c) \/ DelayedWorkTimer(w, c)
           \/ CancelDelayedWork(w, c) \/ CancelClear(w, c) \/ DoQueueWork(w, c)
    PROVE  TypeOK'
<1>1. \A k \in {"queue", "timer", "cancel"} : <<w, k, c>> \in Claim
  BY DEF Claim
<1>2. claims \in SUBSET Claim /\ pending \in [Work -> BOOLEAN]
  BY DEF TypeOK
<1>3. CASE QueueWork(w, c)
  BY <1>1, <1>2, <1>3 DEF QueueWork, TypeOK
<1>4. CASE QueueDelayedWork(w, c)
  BY <1>1, <1>2, <1>4 DEF QueueDelayedWork, TypeOK
<1>5. CASE DelayedWorkTimer(w, c)
  BY <1>1, <1>2, <1>5 DEF DelayedWorkTimer, TypeOK
<1>6. CASE CancelDelayedWork(w, c)
  BY <1>1, <1>2, <1>6 DEF CancelDelayedWork, TypeOK
<1>7. CASE CancelClear(w, c)
  BY <1>1, <1>2, <1>7 DEF CancelClear, TypeOK
<1>8. CASE DoQueueWork(w, c)
  <2>1. PICK e \in Entry : e = [work |-> w, owed |-> {}]
    BY DEF Entry
  <2>2. /\ list' = [list EXCEPT ![c] = Append(list[c], e)]
        /\ insert' = [insert EXCEPT ![c] = Inc(insert[c])]
    BY <1>8, <2>1 DEF DoQueueWork, AddTail
  <2>3. list' \in [CPU -> Seq(Entry)] /\ insert' \in [CPU -> 0..SeqRange-1]
    BY <2>2, ListTypes
  <2>4. tstate' \in [CPU -> {"RUNNING", "INTERRUPTIBLE"}]
    BY <1>8 DEF DoQueueWork, WakeWorker, TypeOK
  <2>5. claims' \in SUBSET Claim
    BY <1>8, <1>2 DEF DoQueueWork
  <2> QED
    BY <1>8, <2>3, <2>4, <2>5 DEF DoQueueWork, TypeOK
<1> QED
  BY <1>3, <1>4, <1>5, <1>6, <1>7, <1>8

\* A step that replaces the flush call of t by x.
LEMMA TypeSetFlush ==
    ASSUME TypeOK, NEW t \in Flusher \cup CPU, NEW x \in FlushCall, SetFlush(t, x),
           t \in CPU => Running(t)
    PROVE  stack' \in Stacks /\ flush' \in [Flusher -> FlushCall]
<1>1. stack \in Stacks /\ flush \in [Flusher -> FlushCall]
  BY DEF TypeOK, Stacks
<1>2. CASE t \in CPU
  <2>1. flush' = flush /\ \E g \in Frame : NewTop(t, g)
    BY <1>2, SetFlushFacts
  <2> QED
    BY <1>1, <2>1 DEF NewTop
<1>3. CASE t \notin CPU
  <2>1. stack' = stack /\ flush' = [flush EXCEPT ![t] = x]
    BY <1>3, SetFlushFacts
  <2> QED
    BY <1>1, <2>1
<1> QED
  BY <1>2, <1>3

\* worker_thread and run_workqueue.
LEMMA TypeWorker ==
    ASSUME TypeOK, NEW c \in CPU, Worker(c)
    PROVE  TypeOK'
<1>1. /\ pc \in [CPU -> WorkerPC] /\ tstate \in [CPU -> {"RUNNING", "INTERRUPTIBLE"}]
      /\ stack \in Stacks /\ list \in [CPU -> Seq(Entry)]
  BY DEF TypeOK, Stacks
<1>2. CASE WorkerSet(c)
  BY <1>2 DEF WorkerSet, TypeOK, WorkerPC
<1>3. CASE WorkerTest(c)
  BY <1>3 DEF WorkerTest, TypeOK, WorkerPC
<1>4. CASE WorkerCheck(c)
  BY <1>4 DEF WorkerCheck, TypeOK, WorkerPC
<1>5. CASE WorkerWakes(c)
  BY <1>5 DEF WorkerWakes, TypeOK, WorkerPC
<1>6. CASE WorkerResume(c)
  <2>1. CASE list[c] = <<>>
    BY <1>6, <2>1 DEF WorkerResume, TypeOK, WorkerPC
  <2>2. CASE list[c] # <<>>
    <3>1. stack' \in Stacks /\ list' = [list EXCEPT ![c] = Tail(list[c])]
      BY <1>6, <2>2, FirstFacts DEF First
    <3>2. list' \in [CPU -> Seq(Entry)]
      BY <2>2, <3>1, ListTypes
    <3>3. pc' \in [CPU -> WorkerPC]
      BY <1>1, <1>6 DEF WorkerResume, WorkerPC
    <3> QED
      BY <1>6, <3>1, <3>2, <3>3 DEF WorkerResume, TypeOK, Stacks
  <2> QED
    BY <2>1, <2>2
<1>7. CASE ClearPending(c)
  <2>1. Running(c) /\ Top(c) \in Frame
    BY <1>7, TopFacts DEF ClearPending
  <2>2. PICK g : g = [Top(c) EXCEPT !.taken = FALSE]
    OBVIOUS
  <2>3. g \in Frame
    BY <2>1, <2>2, FrameFacts
  <2>4. stack' = [stack EXCEPT ![c] = Front(stack[c]) \o <<g>>]
    BY <1>7, <2>2 DEF ClearPending
  <2>5. stack' \in Stacks
    BY <2>1, <2>3, <2>4, SetTop DEF NewTop
  <2>6. pending' \in [Work -> BOOLEAN]
    BY <1>7 DEF ClearPending, TypeOK
  <2> QED
    BY <1>7, <2>5, <2>6 DEF ClearPending, TypeOK, Stacks
<1>8. CASE CallFlush(c)
  <2>1. Running(c) /\ Top(c) \in Frame
    BY <1>8, TopFacts DEF CallFlush
  <2>2. PICK g : g = [Top(c) EXCEPT !.fl.stage = "lock"]
    OBVIOUS
  <2>3. g \in Frame
    BY <2>1, <2>2 DEF Frame, FlushCall, FlushStages
  <2>4. stack' = [stack EXCEPT ![c] = Front(stack[c]) \o <<g>>]
    BY <1>8, <2>2 DEF CallFlush
  <2>5. stack' \in Stacks
    BY <2>1, <2>3, <2>4, SetTop DEF NewTop
  <2> QED
    BY <1>8, <2>5 DEF CallFlush, TypeOK, Stacks
<1>9. CASE FinishWork(c)
  <2>1. PICK n : n = Len(stack[c])
    OBVIOUS
  <2>2. Finished(c, n)
    BY <1>9, <2>1, FinishFacts
  <2>3. stack' \in Stacks
    BY <2>2 DEF Finished
  <2>4. list' \in [CPU -> Seq(Entry)]
    <3>1. \/ list[c] # <<>> /\ list' = [list EXCEPT ![c] = Tail(list[c])]
          \/ list' = list
      BY <2>2 DEF Finished, NextTaken, LoopEnds
    <3>2. list[c] # <<>> => [list EXCEPT ![c] = Tail(list[c])] \in [CPU -> Seq(Entry)]
      BY ListTypes
    <3> QED
      BY Zenon, <1>1, <3>1, <3>2
  <2>5. pc' = pc \/ pc' = [pc EXCEPT ![c] = "set"]
    BY <1>9 DEF FinishWork, NextOrReturn
  <2>6. pc' \in [CPU -> WorkerPC]
    BY <1>1, <2>5 DEF WorkerPC
  <2>7. remove' \in [CPU -> 0..SeqRange-1]
    BY <1>9, ListTypes DEF FinishWork
  <2>8. flush' = [f \in Flusher |-> WakeCall(flush[f], c)]
    BY <1>9 DEF FinishWork, WakeFlushers
  <2>9. \A f \in Flusher : WakeCall(flush[f], c) \in FlushCall
    BY WakeCallFacts DEF TypeOK
  <2>10. flush' \in [Flusher -> FlushCall]
    BY <2>8, <2>9
  <2> QED
    BY <1>9, <2>3, <2>4, <2>6, <2>7, <2>10 DEF FinishWork, TypeOK, Stacks
<1>10. CASE FlushSelf(c)
  <2>1. CASE list[c] = <<>>
    <3>1. PICK x \in FlushCall : SetFlush(c, x) /\ FlushOf(c).stage = "loop"
      BY <1>10, <2>1, FlushSelfEmpty
    <3>2. Running(c)
      BY <3>1, FlushOfFacts
    <3>3. stack' \in Stacks /\ flush' \in [Flusher -> FlushCall]
      BY <3>1, <3>2, TypeSetFlush
    <3> QED
      BY <1>10, <2>1, <3>3 DEF FlushSelf, TypeOK, Stacks
  <2>2. CASE list[c] # <<>>
    <3>1. PICK n : n = Len(stack[c])
      OBVIOUS
    <3>2. Pushed(c, n)
      BY <1>10, <2>2, <3>1, PushSelf
    <3>3. stack' \in Stacks /\ list' \in [CPU -> Seq(Entry)] /\ flush' = flush
      BY <2>2, <3>2, ListTypes DEF Pushed
    <3> QED
      BY <1>10, <3>3 DEF FlushSelf, TypeOK, Stacks
  <2> QED
    BY <2>1, <2>2
<1> QED
  BY <1>2, <1>3, <1>4, <1>5, <1>6, <1>7, <1>8, <1>9, <1>10 DEF Worker

\* flush_workqueue.
LEMMA TypeFlush ==
    ASSUME TypeOK, NEW t \in Flusher \cup CPU, Flush(t)
    PROVE  TypeOK'
<1>1. FlushOf(t).stage # "none" => (t \in CPU => Running(t))
  BY FlushOfFacts
<1>2. ASSUME NEW x \in FlushCall, SetFlush(t, x), FlushOf(t).stage # "none"
      PROVE  stack' \in [CPU -> Seq(Frame)] /\ flush' \in [Flusher -> FlushCall]
  BY <1>1, <1>2, TypeSetFlush DEF Stacks
<1>3. CASE FlushLock(t)
  <2>1. PICK x \in FlushCall :
              /\ FlushOf(t).stage = "lock"
              /\ t \in CPU => SetFlush(t, x) /\ list' = list
              /\ t \notin CPU => t \in Flusher /\ flush' = [flush EXCEPT ![t] = x] /\ OweAll(t)
    BY <1>3, FlushLockFacts
  <2>2. lock' \in Flusher \cup CPU \cup {Hotplugger, Nobody}
    BY <1>3 DEF FlushLock, TypeOK
  <2>3. CASE t \in CPU
    <3>1. stack' \in [CPU -> Seq(Frame)] /\ flush' \in [Flusher -> FlushCall]
      BY <1>2, <2>1, <2>3
    <3> QED
      BY <1>3, <2>1, <2>2, <2>3, <3>1 DEF FlushLock, TypeOK
  <2>4. CASE t \notin CPU
    <3>1. stack' \in [CPU -> Seq(Frame)] /\ list' \in [CPU -> Seq(Entry)]
      BY <2>1, <2>4, OweFacts DEF Stacks
    <3>2. flush' \in [Flusher -> FlushCall]
      BY <2>1, <2>4 DEF TypeOK
    <3> QED
      BY <1>3, <2>2, <3>1, <3>2 DEF FlushLock, TypeOK
  <2> QED
    BY <2>3, <2>4
<1>4. CASE FlushCpu(t)
  <2>1. PICK x \in FlushCall : SetFlush(t, x) /\ FlushOf(t).stage = "loop"
    BY <1>4, FlushCpuFacts
  <2> QED
    BY <1>2, <1>4, <2>1 DEF FlushCpu, TypeOK
<1>5. CASE FlushRetry(t)
  <2>1. PICK x \in FlushCall : SetFlush(t, x) /\ FlushOf(t).stage = "woken"
    BY <1>5, FlushRetryFacts
  <2> QED
    BY <1>2, <1>5, <2>1 DEF FlushRetry, TypeOK
<1>6. CASE FlushReturn(t)
  <2>1. PICK x \in FlushCall : SetFlush(t, x) /\ FlushOf(t).stage = "loop"
    BY <1>6, FlushReturnFacts
  <2> QED
    BY <1>2, <1>6, <2>1 DEF FlushReturn, TypeOK
<1> QED
  BY <1>3, <1>4, <1>5, <1>6 DEF Flush

\* workqueue_cpu_callback.
LEMMA TypeHotplug ==
    ASSUME TypeOK, HotplugStep
    PROVE  TypeOK'
<1>1. hp.cpu \in CPU /\ hp.on \in CPU /\ hp \in [stage : HpStages, cpu : CPU, on : CPU]
  BY DEF TypeOK
<1>2. \A x \in HpStages : [hp EXCEPT !.stage = x] \in [stage : HpStages, cpu : CPU, on : CPU]
  BY <1>1
<1>3. /\ "stopping" \in HpStages /\ "takeover" \in HpStages /\ "idle" \in HpStages
      /\ "online" \in HpStages /\ "cancel" \in HpStages
  BY DEF HpStages
<1>4. CASE CpuDead
  BY <1>2, <1>3, <1>4 DEF CpuDead, KthreadStop, TypeOK, WorkerPC
<1>5. CASE CpuStopped
  BY <1>2, <1>3, <1>5 DEF CpuStopped, TypeOK
<1>6. CASE TakeOverOne
  <2>1. Head(list[hp.cpu]) \in Entry
    BY <1>1, <1>6, ListTypes DEF TakeOverOne
  <2>2. list[hp.cpu] \in Seq(Entry) /\ Tail(list[hp.cpu]) \in Seq(Entry)
    BY <1>1, <1>6, TailFacts DEF TakeOverOne, TypeOK
  <2>3. PICK m \in [CPU -> Seq(Entry)] :
           m = [list EXCEPT ![hp.on] = Append(list[hp.on], Head(list[hp.cpu]))]
    BY <1>1, <2>1, ListTypes
  <2>4. list' = [m EXCEPT ![hp.cpu] = Tail(list[hp.cpu])]
    BY <1>6, <2>3 DEF TakeOverOne
  <2>7. list' \in [CPU -> Seq(Entry)]
    BY <2>2, <2>3, <2>4
  <2>8. insert' \in [CPU -> 0..SeqRange-1]
    BY <1>1, <1>6, ListTypes DEF TakeOverOne
  <2>9. tstate' \in [CPU -> {"RUNNING", "INTERRUPTIBLE"}]
    BY <1>6 DEF TakeOverOne, WakeWorker, TypeOK
  <2> QED
    BY <1>6, <2>7, <2>8, <2>9 DEF TakeOverOne, TypeOK
<1>7. CASE TakeOverDone
  BY <1>2, <1>3, <1>7 DEF TakeOverDone, TypeOK
<1>8. CASE CpuUp
  BY <1>1, <1>2, <1>3, <1>8 DEF CpuUp, TypeOK
<1>9. CASE CpuOnline
  BY <1>2, <1>3, <1>9 DEF CpuOnline, TypeOK, WorkerPC
<1>10. CASE CpuUpCanceled
  BY <1>2, <1>3, <1>10 DEF CpuUpCanceled, TypeOK, WorkerPC
<1> QED
  BY <1>4, <1>5, <1>6, <1>7, <1>8, <1>9, <1>10 DEF HotplugStep

LEMMA TypeNext == TypeOK /\ [Next]_vars => TypeOK'
<1> SUFFICES ASSUME TypeOK, [Next]_vars PROVE TypeOK'
  OBVIOUS
<1>1. ASSUME NEW f \in Flusher, FlushStart(f) PROVE TypeOK'
  <2>1. flush[f] \in FlushCall /\ flush \in [Flusher -> FlushCall] /\ "lock" \in FlushStages
    BY DEF TypeOK, FlushStages
  <2>2. PICK r \in FlushCall : r = [flush[f] EXCEPT !.stage = "lock"]
    BY <2>1 DEF FlushCall
  <2>3. flush' = [flush EXCEPT ![f] = r]
    BY <1>1, <2>1, <2>2 DEF FlushStart
  <2>4. flush' \in [Flusher -> FlushCall]
    BY <2>1, <2>3
  <2> QED
    BY <1>1, <2>4 DEF FlushStart, TypeOK
<1>2. ASSUME NEW c \in CPU, NEW d \in CPU, CpuDown(c, d) PROVE TypeOK'
  <2>1. claims' \in SUBSET Claim
    <3>1. ASSUME NEW k \in claims
          PROVE  <<k[1], k[2], IF k[2] = "timer" /\ k[3] = c THEN d ELSE k[3]>> \in Claim
      BY DEF TypeOK, Claim
    <3>2. claims' = {<<k[1], k[2], IF k[2] = "timer" /\ k[3] = c THEN d ELSE k[3]>> : k \in claims}
      BY <1>2 DEF CpuDown
    <3> QED
      BY <3>1, <3>2
  <2>2. hp' \in [stage : HpStages, cpu : CPU, on : CPU]
    BY <1>2 DEF CpuDown, HpStages
  <2>3. online' \in SUBSET CPU /\ lock' \in Flusher \cup CPU \cup {Hotplugger, Nobody}
    BY <1>2 DEF CpuDown, TypeOK
  <2> QED
    BY <1>2, <2>1, <2>2, <2>3 DEF CpuDown, TypeOK
<1>3. ASSUME NEW c \in CPU, CpuUpPrepare(c) PROVE TypeOK'
  <2>1. /\ list' \in [CPU -> Seq(Entry)] /\ insert' \in [CPU -> 0..SeqRange-1]
        /\ remove' \in [CPU -> 0..SeqRange-1]
    BY <1>3, ListTypes DEF CpuUpPrepare
  <2>2. hp' \in [stage : HpStages, cpu : CPU, on : CPU] /\ pc' \in [CPU -> WorkerPC]
    BY <1>3 DEF CpuUpPrepare, HpStages, WorkerPC, TypeOK
  <2> QED
    BY <1>3, <2>1, <2>2 DEF CpuUpPrepare, TypeOK
<1>4. CASE UNCHANGED vars
  BY <1>4 DEF vars, TypeOK
<1> QED
  BY <1>1, <1>2, <1>3, <1>4, TypeQueue, TypeWorker, TypeFlush, TypeHotplug DEF Next

\* Every variable of the workqueue keeps to its type, whatever happens: no counter
\* leaves its width and no operation meets a thread it cannot describe.
THEOREM TypeCorrect == Spec => []TypeOK
<1> QED
  BY TypeInit, TypeNext, PTL DEF Spec

-----------------------------------------------------------------------------
(* Who holds cpucontrol *)

\* The flush call r is between lock_cpu_hotplug and unlock_cpu_hotplug.
Holds(r) == r.stage \in {"loop", "wait", "woken", "self"}

\* Only the innermost flush of a worker does anything; those below it wait for the
\* run_workqueue they have called.
NestedIn(c) == \A i \in DOMAIN stack[c] : i # Len(stack[c]) => stack[c][i].fl.stage = "self"
Nested == \A c \in CPU : NestedIn(c)

\* A flush between the two calls holds cpucontrol, and a worker holds it once.
HeldBy(c) ==
    \A i \in DOMAIN stack[c] :
        Holds(stack[c][i].fl) =>
            /\ lock = c
            /\ \A j \in DOMAIN stack[c] : Holds(stack[c][j].fl) => j = i
LockHeld ==
    Hotplug => /\ \A f \in Flusher : Holds(flush[f]) => lock = f
               /\ \A c \in CPU : HeldBy(c)

\* So does a CPU hotplug operation in progress.
HpLock == hp.stage # "idle" => Hotplug /\ lock = Hotplugger

LockInv == Nested /\ LockHeld /\ HpLock

\* A step after which only those hold cpucontrol that held it before.
KeptBy(c) ==
    \A i \in DOMAIN stack'[c] :
        Holds(stack'[c][i].fl) => i \in DOMAIN stack[c] /\ Holds(stack[c][i].fl)
KeptAll ==
    /\ \A f \in Flusher : Holds(flush'[f]) => Holds(flush[f])
    /\ \A c \in CPU : KeptBy(c)

LEMMA KeptSame ==
    ASSUME stack' = stack, flush' = flush
    PROVE  KeptAll /\ (Nested => Nested')
  BY DEF KeptAll, KeptBy, Nested, NestedIn

LEMMA HeldKept ==
    ASSUME LockHeld, KeptAll, lock' = lock
    PROVE  LockHeld'
<1> SUFFICES ASSUME Hotplug
             PROVE  (\A f \in Flusher : Holds(flush'[f]) => lock = f) /\ \A c \in CPU : HeldBy(c)'
  BY DEF LockHeld, Holds
<1>1. ASSUME NEW c \in CPU PROVE HeldBy(c)'
  <2>1. HeldBy(c) /\ KeptBy(c)
    BY DEF LockHeld, KeptAll
  <2> QED
    BY <2>1 DEF HeldBy, KeptBy, Holds
<1>2. \A f \in Flusher : Holds(flush'[f]) => lock = f
  BY DEF LockHeld, KeptAll
<1> QED
  BY <1>1, <1>2

\* Nobody holds it who is not in the lock.
LEMMA NotHeld ==
    ASSUME LockHeld, Hotplug, lock \notin Flusher \cup CPU
    PROVE  /\ \A f \in Flusher : ~Holds(flush[f])
           /\ \A c \in CPU : \A i \in DOMAIN stack[c] : ~Holds(stack[c][i].fl)
  BY DEF LockHeld, HeldBy

LEMMA HeldFree ==
    ASSUME LockHeld, KeptAll, Hotplug => lock \notin Flusher \cup CPU
    PROVE  LockHeld'
<1> SUFFICES ASSUME Hotplug
             PROVE  (\A f \in Flusher : ~Holds(flush'[f])) /\ \A c \in CPU : HeldBy(c)'
  BY DEF LockHeld, Holds
<1>1. /\ \A f \in Flusher : ~Holds(flush[f])
      /\ \A c \in CPU : \A i \in DOMAIN stack[c] : ~Holds(stack[c][i].fl)
  BY NotHeld
<1>2. ASSUME NEW c \in CPU PROVE HeldBy(c)'
  <2>1. \A i \in DOMAIN stack'[c] : ~Holds(stack'[c][i].fl)
    BY <1>1 DEF KeptAll, KeptBy
  <2> QED
    BY <2>1 DEF HeldBy, Holds
<1>3. \A f \in Flusher : ~Holds(flush'[f])
  BY <1>1 DEF KeptAll
<1> QED
  BY <1>2, <1>3

\* The innermost frame of c is replaced.
LEMMA KeptNewTop ==
    ASSUME TypeOK, NEW c \in CPU, Running(c), NEW g \in Frame, NewTop(c, g), flush' = flush,
           Holds(g.fl) => Holds(Top(c).fl)
    PROVE  KeptAll
<1>1. Len(stack[c]) \in DOMAIN stack[c] /\ Top(c) = stack[c][Len(stack[c])]
  BY TopFacts
<1>2. KeptBy(c)
  <2> SUFFICES ASSUME NEW i \in DOMAIN stack'[c], Holds(stack'[c][i].fl)
               PROVE  i \in DOMAIN stack[c] /\ Holds(stack[c][i].fl)
    BY DEF KeptBy
  <2>1. i \in DOMAIN stack[c]
    BY DEF NewTop
  <2>2. CASE i = Len(stack[c])
    BY <1>1, <2>1, <2>2 DEF NewTop
  <2>3. CASE i # Len(stack[c])
    BY <2>1, <2>3 DEF NewTop
  <2> QED
    BY <2>2, <2>3
<1>3. \A d \in CPU : d # c => KeptBy(d)
  BY DEF NewTop, KeptBy
<1> QED
  BY <1>2, <1>3 DEF KeptAll

LEMMA NestNewTop ==
    ASSUME Nested, NEW c \in CPU, NEW g, NewTop(c, g)
    PROVE  Nested'
<1>1. NestedIn(c)'
  BY DEF Nested, NestedIn, NewTop
<1>2. \A d \in CPU : d # c => NestedIn(d)'
  BY DEF Nested, NestedIn, NewTop
<1> QED
  BY <1>1, <1>2 DEF Nested

\* A wakeup does not change who holds it.
LEMMA WakeHolds ==
    ASSUME NEW r \in FlushCall, NEW c
    PROVE  /\ Holds(WakeCall(r, c)) <=> Holds(r)
           /\ r.stage = "self" => WakeCall(r, c).stage = "self"
<1>1. CASE r.stage = "wait" /\ Min(r.todo) = c
  <2>1. WakeCall(r, c).stage = "woken"
    BY <1>1, WakeCallFacts
  <2> QED
    BY <1>1, <2>1 DEF Holds
<1>2. CASE ~(r.stage = "wait" /\ Min(r.todo) = c)
  BY <1>2 DEF WakeCall
<1> QED
  BY <1>1, <1>2

\* The frames of a stack are frames.
LEMMA FrameType ==
    ASSUME TypeOK, NEW d \in CPU
    PROVE  /\ Len(stack[d]) \in Nat /\ DOMAIN stack[d] = 1..Len(stack[d])
           /\ \A i \in DOMAIN stack[d] : stack[d][i] \in Frame /\ stack[d][i].fl \in FlushCall
<1>1. stack[d] \in Seq(Frame)
  BY DEF TypeOK
<1>2. Len(stack[d]) \in Nat /\ DOMAIN stack[d] = 1..Len(stack[d])
  BY <1>1
<1>3. \A i \in DOMAIN stack[d] : stack[d][i] \in Frame
  BY <1>1, <1>2
<1>4. \A i \in DOMAIN stack[d] : stack[d][i].fl \in FlushCall
  BY <1>3, FrameFacts
<1> QED
  BY <1>2, <1>3, <1>4

LEMMA StackShape ==
    ASSUME stack' \in Stacks, NEW c \in CPU
    PROVE  Len(stack'[c]) \in Nat /\ DOMAIN stack'[c] = 1..Len(stack'[c])
<1>1. stack'[c] \in Seq(Frame)
  BY DEF Stacks
<1> QED
  BY <1>1

\* A function of c has returned.
LEMMA KeptFinish ==
    ASSUME TypeOK, Nested, NEW c \in CPU, FinishWork(c)
    PROVE  KeptAll /\ Nested'
<1>1. PICK n : n = Len(stack[c])
  OBVIOUS
<1>2. n \in Nat /\ n > 0 /\ Finished(c, n)
  BY <1>1, FinishFacts
<1>3. /\ stack' \in Stacks
      /\ \A d \in CPU : d # c => WokenOther(stack', stack, c, d)
      /\ \A i \in 1..n-2 : WokenFrame(stack', stack, c, c, i)
      /\ NextTaken(c, n) \/ LoopEnds(c, n)
  BY <1>2 DEF Finished
<1>4. DOMAIN stack[c] = 1..n
  BY <1>1, FrameType
<1>5. Len(stack'[c]) \in Nat /\ DOMAIN stack'[c] = 1..Len(stack'[c])
  BY <1>3, StackShape
<1>6. ASSUME NEW d \in CPU, NEW i \in DOMAIN stack[d], WokenFrame(stack', stack, c, d, i)
      PROVE  /\ Holds(stack'[d][i].fl) <=> Holds(stack[d][i].fl)
             /\ stack[d][i].fl.stage = "self" => stack'[d][i].fl.stage = "self"
  <2>1. stack[d][i].fl \in FlushCall
    BY FrameType
  <2>2. stack'[d][i].fl = WakeCall(stack[d][i].fl, c)
    BY <1>6 DEF WokenFrame
  <2> QED
    BY <2>1, <2>2, WakeHolds
<1>7. ASSUME NEW d \in CPU, d # c PROVE KeptBy(d) /\ NestedIn(d)'
  <2>1. /\ DOMAIN stack'[d] = DOMAIN stack[d] /\ Len(stack'[d]) = Len(stack[d])
        /\ \A i \in DOMAIN stack[d] : WokenFrame(stack', stack, c, d, i)
    BY <1>3, <1>7 DEF WokenOther
  <2>2. \A i \in DOMAIN stack[d] : /\ Holds(stack'[d][i].fl) <=> Holds(stack[d][i].fl)
                                   /\ stack[d][i].fl.stage = "self" => stack'[d][i].fl.stage = "self"
    BY <1>6, <2>1
  <2>3. KeptBy(d)
    BY <2>1, <2>2 DEF KeptBy
  <2>4. NestedIn(d)'
    BY <2>1, <2>2 DEF Nested, NestedIn
  <2> QED
    BY <2>3, <2>4
<1>8. \A i \in 1..n-1 : i \in DOMAIN stack[c] /\ stack[c][i].fl.stage = "self"
  <2>1. \A i \in 1..n-1 : i \in 1..n /\ i # n
    BY <1>2
  <2>2. \A i \in DOMAIN stack[c] : i # n => stack[c][i].fl.stage = "self"
    BY <1>1 DEF Nested, NestedIn
  <2> QED
    BY <1>4, <2>1, <2>2
<1>9. \A i \in 1..n-2 : i \in 1..n-1 /\ stack'[c][i].fl.stage = "self"
  <2>1. \A i \in 1..n-2 : i \in 1..n-1
    BY <1>2
  <2> QED
    BY <1>3, <1>6, <1>8, <2>1
<1>10. KeptBy(c) /\ NestedIn(c)'
  <2>1. CASE NextTaken(c, n)
    <3>1. /\ Len(stack'[c]) = n /\ stack'[c][n].fl.stage = "none"
          /\ n > 1 => WokenFrame(stack', stack, c, c, n - 1)
      BY <2>1 DEF NextTaken
    <3>2. n > 1 => n - 1 \in 1..n-1
      BY <1>2
    <3>3. n > 1 => stack'[c][n-1].fl.stage = "self"
      BY <1>6, <1>8, <3>1, <3>2
    <3>4. \A i \in 1..n : i = n \/ (n > 1 /\ i = n - 1) \/ i \in 1..n-2
      BY <1>2
    <3>5. DOMAIN stack'[c] = 1..n
      BY <1>5, <3>1
    <3>6. \A i \in DOMAIN stack'[c] : i # n => stack'[c][i].fl.stage = "self"
      BY <1>9, <3>3, <3>4, <3>5
    <3>7. \A i \in 1..n : i # n => i \in 1..n-1
      BY <1>2
    <3>8. KeptBy(c)
      <4> SUFFICES ASSUME NEW i \in DOMAIN stack'[c], Holds(stack'[c][i].fl)
                   PROVE  i \in DOMAIN stack[c] /\ Holds(stack[c][i].fl)
        BY DEF KeptBy
      <4>1. i # n
        BY <3>1 DEF Holds
      <4>2. i \in 1..n-1
        BY <3>5, <3>7, <4>1
      <4> QED
        BY <1>8, <4>2 DEF Holds
    <3>9. NestedIn(c)'
      BY <3>1, <3>6 DEF NestedIn
    <3> QED
      BY <3>8, <3>9
  <2>2. CASE LoopEnds(c, n)
    <3>1. Len(stack'[c]) = n - 1
      BY <2>2 DEF LoopEnds
    <3>2. DOMAIN stack'[c] = 1..n-1
      BY <1>5, <3>1
    <3>3. KeptBy(c)
      BY <1>8, <3>2 DEF KeptBy, Holds
    <3>4. \A i \in 1..n-1 : i # n-1 => i \in 1..n-2
      BY <1>2
    <3>5. NestedIn(c)'
      BY <1>9, <3>1, <3>2, <3>4 DEF NestedIn
    <3> QED
      BY <3>3, <3>5
  <2> QED
    BY <1>3, <2>1, <2>2
<1>11. \A f \in Flusher : Holds(flush'[f]) => Holds(flush[f])
  <2> SUFFICES ASSUME NEW f \in Flusher PROVE Holds(flush'[f]) => Holds(flush[f])
    OBVIOUS
  <2>1. flush[f] \in FlushCall
    BY DEF TypeOK
  <2>2. flush'[f] = WakeCall(flush[f], c)
    BY DEF FinishWork, WakeFlushers
  <2> QED
    BY <2>1, <2>2, WakeHolds
<1>12. KeptAll
  BY <1>7, <1>10, <1>11 DEF KeptAll
<1>13. Nested'
  BY <1>7, <1>10 DEF Nested
<1> QED
  BY <1>12, <1>13

\* The queue is run by hand.
LEMMA KeptPush ==
    ASSUME TypeOK, Nested, NEW c \in CPU, FlushSelf(c), list[c] # <<>>
    PROVE  KeptAll /\ Nested'
<1>1. PICK n : n = Len(stack[c])
  OBVIOUS
<1>2. n \in Nat /\ n > 0 /\ Pushed(c, n)
  BY <1>1, PushSelf
<1>3. /\ stack' \in Stacks /\ Len(stack'[c]) = n + 1 /\ stack'[c][n].fl.stage = "self"
      /\ stack'[c][n+1].fl.stage = "none" /\ \A i \in 1..n-1 : stack'[c][i] = stack[c][i]
      /\ \A d \in CPU : d # c => stack'[d] = stack[d]
      /\ flush' = flush
  BY <1>2 DEF Pushed
<1>4. DOMAIN stack[c] = 1..n
  BY <1>1, FrameType
<1>5. DOMAIN stack'[c] = 1..n+1
  BY <1>3, StackShape
<1>6. stack[c][n].fl.stage = "loop"
  <2>1. Running(c) /\ FlushOf(c) = Top(c).fl /\ FlushOf(c).stage = "loop"
    BY FlushOfFacts DEF FlushSelf
  <2>2. Top(c) = stack[c][n]
    BY <1>1, <2>1, TopFacts
  <2> QED
    BY <2>1, <2>2
<1>7. \A i \in 1..n+1 : i = n+1 \/ i = n \/ i \in 1..n-1
  BY <1>2
<1>8. n \in 1..n /\ \A i \in 1..n-1 : i \in 1..n /\ i # n
  BY <1>2
<1>9. \A i \in 1..n-1 : stack[c][i].fl.stage = "self"
  BY <1>1, <1>4, <1>8 DEF Nested, NestedIn
<1>10. KeptBy(c)
  <2> SUFFICES ASSUME NEW i \in DOMAIN stack'[c], Holds(stack'[c][i].fl)
               PROVE  i \in DOMAIN stack[c] /\ Holds(stack[c][i].fl)
    BY DEF KeptBy
  <2>1. i # n+1
    BY <1>3 DEF Holds
  <2>2. CASE i = n
    BY <1>4, <1>6, <1>8, <2>2 DEF Holds
  <2>3. CASE i \in 1..n-1
    BY <1>4, <1>8, <1>9, <2>3 DEF Holds
  <2> QED
    BY <1>5, <1>7, <2>1, <2>2, <2>3
<1>11. NestedIn(c)'
  BY <1>3, <1>5, <1>7, <1>9 DEF NestedIn
<1>12. \A d \in CPU : d # c => KeptBy(d) /\ NestedIn(d)'
  BY <1>3 DEF KeptBy, Nested, NestedIn
<1>13. KeptAll
  BY <1>3, <1>10, <1>12 DEF KeptAll
<1>14. Nested'
  BY <1>11, <1>12 DEF Nested
<1> QED
  BY <1>13, <1>14

\* worker_thread enters run_workqueue.
LEMMA KeptFirst ==
    ASSUME TypeOK, Nested, NEW c \in CPU, WorkerResume(c)
    PROVE  KeptAll /\ Nested'
<1>1. CASE list[c] = <<>>
  <2>1. stack' = stack /\ flush' = flush
    BY <1>1 DEF WorkerResume
  <2> QED
    BY <2>1, KeptSame
<1>2. CASE list[c] # <<>>
  <2>1. /\ stack' \in Stacks /\ Len(stack'[c]) = 1 /\ stack'[c][1].fl.stage = "none"
        /\ \A d \in CPU : d # c => stack'[d] = stack[d]
    BY <1>2, FirstFacts DEF First
  <2>2. flush' = flush
    BY DEF WorkerResume
  <2>3. \A i \in DOMAIN stack'[c] : i = 1
    BY <2>1, StackShape
  <2>4. KeptBy(c) /\ NestedIn(c)'
    BY <2>1, <2>3 DEF KeptBy, NestedIn, Holds
  <2>5. \A d \in CPU : d # c => KeptBy(d) /\ NestedIn(d)'
    BY <2>1 DEF KeptBy, Nested, NestedIn
  <2> QED
    BY <2>2, <2>4, <2>5 DEF KeptAll, Nested
<1> QED
  BY <1>1, <1>2

\* The steps of a worker leave cpucontrol alone.
LEMMA LockWorker ==
    ASSUME TypeOK, LockInv, NEW c \in CPU, Worker(c)
    PROVE  LockInv'
<1>1. Nested /\ LockHeld /\ HpLock
  BY DEF LockInv
<1>2. lock' = lock /\ hp' = hp
  BY DEF Worker, WorkerSet, WorkerTest, WorkerCheck, WorkerWakes, WorkerResume, ClearPending,
         CallFlush, FinishWork, FlushSelf
<1>3. KeptAll /\ Nested'
  <2>1. CASE WorkerSet(c) \/ WorkerTest(c) \/ WorkerCheck(c) \/ WorkerWakes(c)
    <3>1. stack' = stack /\ flush' = flush
      BY <2>1 DEF WorkerSet, WorkerTest, WorkerCheck, WorkerWakes
    <3> QED
      BY <1>1, <3>1, KeptSame
  <2>2. CASE WorkerResume(c)
    BY <1>1, <2>2, KeptFirst
  <2>3. CASE ClearPending(c)
    <3>1. Running(c) /\ Top(c) \in Frame
      BY <2>3, TopFacts DEF ClearPending
    <3>2. PICK g : g = [Top(c) EXCEPT !.taken = FALSE]
      OBVIOUS
    <3>3. g \in Frame /\ g.fl = Top(c).fl
      BY <3>1, <3>2, FrameFacts
    <3>4. stack' = [stack EXCEPT ![c] = Front(stack[c]) \o <<g>>] /\ flush' = flush
      BY <2>3, <3>2 DEF ClearPending
    <3>5. NewTop(c, g)
      BY <3>1, <3>3, <3>4, SetTop
    <3> QED
      BY <1>1, <3>1, <3>3, <3>4, <3>5, KeptNewTop, NestNewTop
  <2>4. CASE CallFlush(c)
    <3>1. Running(c) /\ Top(c) \in Frame
      BY <2>4, TopFacts DEF CallFlush
    <3>2. PICK g : g = [Top(c) EXCEPT !.fl.stage = "lock"]
      OBVIOUS
    <3>3. g \in Frame /\ g.fl.stage = "lock"
      BY <3>1, <3>2 DEF Frame, FlushCall, FlushStages
    <3>4. stack' = [stack EXCEPT ![c] = Front(stack[c]) \o <<g>>] /\ flush' = flush
      BY <2>4, <3>2 DEF CallFlush
    <3>5. NewTop(c, g)
      BY <3>1, <3>3, <3>4, SetTop
    <3>6. ~Holds(g.fl)
      BY <3>3 DEF Holds
    <3> QED
      BY <1>1, <3>1, <3>3, <3>4, <3>5, <3>6, KeptNewTop, NestNewTop
  <2>5. CASE FinishWork(c)
    BY <1>1, <2>5, KeptFinish
  <2>6. CASE FlushSelf(c) /\ list[c] # <<>>
    BY <1>1, <2>6, KeptPush
  <2>7. CASE FlushSelf(c) /\ list[c] = <<>>
    <3>1. PICK x \in FlushCall : SetFlush(c, x) /\ FlushOf(c).stage = "loop"
      BY <2>7, FlushSelfEmpty
    <3>2. Running(c) /\ FlushOf(c) = Top(c).fl
      BY <3>1, FlushOfFacts
    <3>3. flush' = flush /\ \E g \in Frame : NewTop(c, g) /\ g.fl = x
      BY <3>1, <3>2, SetFlushFacts
    <3>4. Holds(Top(c).fl)
      BY <3>1, <3>2 DEF Holds
    <3> QED
      BY <1>1, <3>2, <3>3, <3>4, KeptNewTop, NestNewTop
  <2> QED
    BY <2>1, <2>2, <2>3, <2>4, <2>5, <2>6, <2>7 DEF Worker
<1>4. LockHeld'
  BY <1>1, <1>2, <1>3, HeldKept
<1>5. HpLock'
  BY <1>1, <1>2 DEF HpLock
<1> QED
  BY <1>3, <1>4, <1>5 DEF LockInv

\* The flush call of thread t becomes x: at the two ends of the loop over the CPUs, and
\* in between.
LEMMA KeptSetFlush ==
    ASSUME TypeOK, Nested, NEW t \in Flusher \cup CPU, NEW x \in FlushCall, SetFlush(t, x),
           FlushOf(t).stage # "none", Holds(x) => Holds(FlushOf(t))
    PROVE  KeptAll /\ Nested'
<1>1. CASE t \in CPU
  <2>1. Running(t) /\ FlushOf(t) = Top(t).fl
    BY <1>1, FlushOfFacts
  <2>2. flush' = flush /\ \E g \in Frame : NewTop(t, g) /\ g.fl = x
    BY <1>1, <2>1, SetFlushFacts
  <2> QED
    BY <1>1, <2>1, <2>2, KeptNewTop, NestNewTop
<1>2. CASE t \notin CPU
  <2>1. stack' = stack /\ flush' = [flush EXCEPT ![t] = x] /\ FlushOf(t) = flush[t]
    BY <1>2, FlushOfFacts, SetFlushFacts
  <2>2. \A f \in Flusher : Holds(flush'[f]) => Holds(flush[f])
    <3> SUFFICES ASSUME NEW f \in Flusher, Holds(flush'[f]) PROVE Holds(flush[f])
      OBVIOUS
    <3>1. flush'[f] = IF f = t THEN x ELSE flush[f]
      BY <2>1 DEF TypeOK
    <3> QED
      BY <2>1, <3>1
  <2>3. \A c \in CPU : KeptBy(c) /\ NestedIn(c)'
    BY <2>1 DEF KeptBy, Nested, NestedIn
  <2> QED
    BY <2>2, <2>3 DEF KeptAll, Nested
<1> QED
  BY <1>1, <1>2

\* The thread inside a flush, and nobody else, is in the lock.
LEMMA HolderFacts ==
    ASSUME TypeOK, LockHeld, Hotplug, NEW t \in Flusher \cup CPU, Holds(FlushOf(t))
    PROVE  /\ lock = t
           /\ \A f \in Flusher : f # t => ~Holds(flush[f])
           /\ \A c \in CPU : \A i \in DOMAIN stack[c] :
                 c # t \/ i # Len(stack[c]) => ~Holds(stack[c][i].fl)
<1>1. /\ \A f \in Flusher : Holds(flush[f]) => lock = f
      /\ \A c \in CPU : HeldBy(c)
  BY DEF LockHeld
<1>2. FlushOf(t).stage # "none"
  BY DEF Holds
<1>3. CASE t \in CPU
  <2>1. Running(t) /\ FlushOf(t) = Top(t).fl
    BY <1>2, <1>3, FlushOfFacts
  <2>2. PICK n : n = Len(stack[t])
    OBVIOUS
  <2>3. n \in DOMAIN stack[t] /\ Top(t) = stack[t][n]
    BY <1>3, <2>1, <2>2, TopFacts
  <2>4. Holds(stack[t][n].fl)
    BY <2>1, <2>3
  <2>5. HeldBy(t)
    BY <1>1, <1>3
  <2>6. lock = t /\ \A j \in DOMAIN stack[t] : Holds(stack[t][j].fl) => j = n
    BY <2>3, <2>4, <2>5 DEF HeldBy
  <2>7. \A f \in Flusher : f # t => ~Holds(flush[f])
    BY <1>1, <2>6
  <2>8. \A c \in CPU : c # t => \A i \in DOMAIN stack[c] : ~Holds(stack[c][i].fl)
    BY <1>1, <2>6 DEF HeldBy
  <2> QED
    BY <2>2, <2>6, <2>7, <2>8
<1>4. CASE t \notin CPU
  <2>1. t \in Flusher /\ Holds(flush[t])
    BY <1>4, FlushOfFacts
  <2>2. lock = t
    BY <1>1, <2>1
  <2>3. \A c \in CPU : c # t
    BY <1>4
  <2>4. \A c \in CPU : \A i \in DOMAIN stack[c] : ~Holds(stack[c][i].fl)
    BY <1>1, <2>2, <2>3 DEF HeldBy
  <2> QED
    BY <1>1, <2>2, <2>4
<1> QED
  BY <1>3, <1>4

\* lock_cpu_hotplug.
LEMMA LockTaken ==
    ASSUME TypeOK, LockInv, NEW t \in Flusher \cup CPU, FlushLock(t)
    PROVE  LockInv'
<1>1. Nested /\ LockHeld /\ HpLock
  BY DEF LockInv
<1>2. lock = Nobody /\ lock' = (IF Hotplug THEN t ELSE lock) /\ hp' = hp
  BY DEF FlushLock
<1>3. HpLock'
  BY <1>1, <1>2, ThreadAssumption DEF HpLock
<1>4. Hotplug => /\ \A f \in Flusher : ~Holds(flush[f])
                 /\ \A c \in CPU : \A i \in DOMAIN stack[c] : ~Holds(stack[c][i].fl)
  BY <1>1, <1>2, NotHeld, ThreadAssumption
<1>5. PICK x \in FlushCall :
              /\ FlushOf(t).stage = "lock"
              /\ t \in CPU => SetFlush(t, x) /\ list' = list
              /\ t \notin CPU => t \in Flusher /\ flush' = [flush EXCEPT ![t] = x] /\ OweAll(t)
  BY FlushLockFacts
<1>6. CASE t \in CPU
  <2>1. Running(t)
    BY <1>5, <1>6, FlushOfFacts
  <2>2. flush' = flush /\ \E g \in Frame : NewTop(t, g)
    BY <1>5, <1>6, <2>1, SetFlushFacts
  <2>3. PICK g \in Frame : NewTop(t, g)
    BY <2>2
  <2>4. Nested'
    BY <1>1, <1>6, <2>3, NestNewTop
  <2>5. ASSUME Hotplug PROVE LockHeld'
    <3>1. \A c \in CPU : c # t => HeldBy(c)'
      BY <1>4, <2>3, <2>5 DEF NewTop, HeldBy
    <3>2. \A i \in DOMAIN stack'[t] : Holds(stack'[t][i].fl) => i = Len(stack[t])
      BY <1>4, <1>6, <2>3, <2>5 DEF NewTop
    <3>3. HeldBy(t)'
      BY <1>2, <2>5, <3>2 DEF HeldBy, Holds
    <3>4. \A f \in Flusher : ~Holds(flush'[f])
      BY <1>4, <2>2, <2>5
    <3> QED
      BY <3>1, <3>3, <3>4 DEF LockHeld, Holds
  <2>6. LockHeld'
    BY <2>5 DEF LockHeld
  <2> QED
    BY <1>3, <2>4, <2>6 DEF LockInv
<1>7. CASE t \notin CPU
  <2>1. t \in Flusher /\ flush' = [flush EXCEPT ![t] = x] /\ OweAll(t)
    BY <1>5, <1>7
  <2>2. \A c \in CPU : SameFrames(stack'[c], stack[c])
    BY <2>1, OweFacts
  <2>3. Nested'
    BY <1>1, <2>2 DEF Nested, NestedIn, SameFrames
  <2>4. ASSUME Hotplug PROVE LockHeld'
    <3>1. \A c \in CPU : \A i \in DOMAIN stack'[c] : ~Holds(stack'[c][i].fl)
      BY <1>4, <2>2, <2>4 DEF SameFrames
    <3>2. \A c \in CPU : HeldBy(c)'
      BY <3>1 DEF HeldBy, Holds
    <3>3. \A f \in Flusher : Holds(flush'[f]) => f = t
      <4> SUFFICES ASSUME NEW f \in Flusher, f # t PROVE ~Holds(flush'[f])
        OBVIOUS
      <4>1. flush'[f] = flush[f]
        BY <2>1 DEF TypeOK
      <4> QED
        BY <1>4, <2>4, <4>1
    <3> QED
      BY <1>2, <2>4, <3>2, <3>3 DEF LockHeld, Holds
  <2>5. LockHeld'
    BY <2>4 DEF LockHeld
  <2> QED
    BY <1>3, <2>3, <2>5 DEF LockInv
<1> QED
  BY <1>6, <1>7

\* unlock_cpu_hotplug.
LEMMA LockReleased ==
    ASSUME TypeOK, LockInv, NEW t \in Flusher \cup CPU, FlushReturn(t)
    PROVE  LockInv'
<1>1. Nested /\ LockHeld /\ HpLock
  BY DEF LockInv
<1>2. lock' = Nobody /\ hp' = hp
  BY DEF FlushReturn
<1>3. PICK x \in FlushCall : /\ SetFlush(t, x) /\ x.stage \in {"none", "done"}
                             /\ FlushOf(t).stage = "loop"
  BY FlushReturnFacts
<1>4. Holds(FlushOf(t)) /\ ~Holds(x)
  BY <1>3 DEF Holds
<1>5. Hotplug => lock = t
  BY <1>1, <1>4, HolderFacts
<1>6. HpLock'
  BY <1>1, <1>2, <1>5, ThreadAssumption DEF HpLock
<1>7. KeptAll /\ Nested'
  BY <1>1, <1>3, <1>4, KeptSetFlush
<1>8. ASSUME Hotplug PROVE LockHeld'
  <2>1. /\ \A f \in Flusher : f # t => ~Holds(flush[f])
        /\ \A c \in CPU : \A i \in DOMAIN stack[c] :
              c # t \/ i # Len(stack[c]) => ~Holds(stack[c][i].fl)
    BY <1>1, <1>4, <1>8, HolderFacts
  <2>2. CASE t \in CPU
    <3>1. Running(t)
      BY <1>3, <2>2, FlushOfFacts
    <3>2. flush' = flush /\ \E g \in Frame : NewTop(t, g) /\ g.fl = x
      BY <1>3, <2>2, <3>1, SetFlushFacts
    <3>3. PICK g \in Frame : NewTop(t, g) /\ g.fl = x
      BY <3>2
    <3>4. \A i \in DOMAIN stack'[t] : ~Holds(stack'[t][i].fl)
      <4> SUFFICES ASSUME NEW i \in DOMAIN stack'[t] PROVE ~Holds(stack'[t][i].fl)
        OBVIOUS
      <4>1. CASE i = Len(stack[t])
        BY <1>4, <3>3, <4>1 DEF NewTop
      <4>2. CASE i # Len(stack[t])
        BY <2>1, <2>2, <3>3, <4>2 DEF NewTop
      <4> QED
        BY <4>1, <4>2
    <3>5. \A c \in CPU : c # t => \A i \in DOMAIN stack'[c] : ~Holds(stack'[c][i].fl)
      BY <2>1, <3>3 DEF NewTop
    <3>6. \A c \in CPU : HeldBy(c)'
      BY <3>4, <3>5 DEF HeldBy, Holds
    <3>7. t \notin Flusher
      BY <2>2, ThreadAssumption
    <3>8. \A f \in Flusher : ~Holds(flush'[f])
      BY <2>1, <3>2, <3>7
    <3> QED
      BY <3>6, <3>8 DEF LockHeld, Holds
  <2>3. CASE t \notin CPU
    <3>1. stack' = stack /\ flush' = [flush EXCEPT ![t] = x]
      BY <1>3, <2>3, SetFlushFacts
    <3>2. \A c \in CPU : c # t
      BY <2>3
    <3>3. \A c \in CPU : HeldBy(c)'
      BY <2>1, <3>1, <3>2 DEF HeldBy, Holds
    <3>4. \A f \in Flusher : ~Holds(flush'[f])
      <4> SUFFICES ASSUME NEW f \in Flusher PROVE ~Holds(flush'[f])
        OBVIOUS
      <4>1. flush'[f] = IF f = t THEN x ELSE flush[f]
        BY <3>1 DEF TypeOK
      <4> QED
        BY <1>4, <2>1, <4>1
    <3> QED
      BY <3>3, <3>4 DEF LockHeld, Holds
  <2> QED
    BY <2>2, <2>3
<1>9. LockHeld'
  BY <1>8 DEF LockHeld
<1> QED
  BY <1>6, <1>7, <1>9 DEF LockInv

LEMMA LockFlush ==
    ASSUME TypeOK, LockInv, NEW t \in Flusher \cup CPU, Flush(t)
    PROVE  LockInv'
<1>1. Nested /\ LockHeld /\ HpLock
  BY DEF LockInv
<1>2. CASE FlushCpu(t) \/ FlushRetry(t)
  <2>1. PICK x \in FlushCall : SetFlush(t, x) /\ FlushOf(t).stage \in {"loop", "woken"}
    BY <1>2, FlushCpuFacts, FlushRetryFacts
  <2>2. Holds(FlushOf(t)) /\ FlushOf(t).stage # "none"
    BY <2>1 DEF Holds
  <2>3. KeptAll /\ Nested'
    BY <1>1, <2>1, <2>2, KeptSetFlush
  <2>4. lock' = lock /\ hp' = hp
    BY <1>2 DEF FlushCpu, FlushRetry
  <2>5. LockHeld'
    BY <1>1, <2>3, <2>4, HeldKept
  <2> QED
    BY <1>1, <2>3, <2>4, <2>5 DEF LockInv, HpLock
<1> QED
  BY <1>2, LockTaken, LockReleased DEF Flush

\* A hotplug operation starts and ends with the lock in nobody else's hands.
LEMMA LockHotplug ==
    ASSUME TypeOK, LockInv,
           \/ HotplugStep \/ \E c \in CPU : CpuUpPrepare(c) \/ \E d \in CPU : CpuDown(c, d)
    PROVE  LockInv'
<1>1. Nested /\ LockHeld /\ HpLock
  BY DEF LockInv
<1>2. stack' = stack /\ flush' = flush
  BY DEF HotplugStep, CpuUpPrepare, CpuDown, CpuDead, CpuStopped, TakeOverOne, TakeOverDone,
         CpuUp, CpuOnline, CpuUpCanceled
<1>3. KeptAll /\ Nested'
  BY <1>1, <1>2, KeptSame
<1>4. Hotplug => lock \notin Flusher \cup CPU
  <2>1. lock = Nobody \/ hp.stage # "idle"
    BY DEF HotplugStep, CpuUpPrepare, CpuDown, CpuDead, CpuStopped, TakeOverOne, TakeOverDone,
           CpuUp, CpuOnline, CpuUpCanceled
  <2> QED
    BY <1>1, <2>1, ThreadAssumption DEF HpLock
<1>5. LockHeld'
  BY <1>1, <1>3, <1>4, HeldFree
<1>6. hp.stage \in HpStages /\ hp \in [stage : HpStages, cpu : CPU, on : CPU]
  BY DEF TypeOK
<1>7. HpLock'
  BY <1>1, <1>6 DEF HpLock, HotplugStep, CpuUpPrepare, CpuDown, CpuDead, CpuStopped, TakeOverOne,
                    TakeOverDone, CpuUp, CpuOnline, CpuUpCanceled
<1> QED
  BY <1>3, <1>5, <1>7 DEF LockInv

LEMMA LockInit == Init => LockInv
<1> SUFFICES ASSUME Init PROVE LockInv
  OBVIOUS
<1>1. \A c \in CPU : stack[c] = <<>>
  BY DEF Init
<1>2. \A c \in CPU : DOMAIN stack[c] = {}
  BY <1>1
<1>3. \A f \in Flusher : flush[f].stage = "none"
  BY DEF Init, NoFlush
<1> QED
  BY <1>2, <1>3 DEF Init, LockInv, Nested, NestedIn, LockHeld, HeldBy, HpLock, Holds

LEMMA LockNext == TypeOK /\ LockInv /\ [Next]_vars => LockInv'
<1> SUFFICES ASSUME TypeOK, LockInv, [Next]_vars PROVE LockInv'
  OBVIOUS
<1>1. Nested /\ LockHeld /\ HpLock
  BY DEF LockInv
<1>2. ASSUME stack' = stack, flush' = flush, lock' = lock, hp' = hp PROVE LockInv'
  BY <1>1, <1>2, KeptSame, HeldKept DEF LockInv, HpLock
<1>3. ASSUME NEW w \in Work, NEW c \in CPU,
             \/ QueueWork(w, c) \/ QueueDelayedWork(w, c) \/ DelayedWorkTimer(w, c)
             \/ CancelDelayedWork(w, c) \/ CancelClear(w, c) \/ DoQueueWork(w, c)
      PROVE  LockInv'
  BY <1>2, <1>3 DEF QueueWork, QueueDelayedWork, DelayedWorkTimer, CancelDelayedWork,
                    CancelClear, DoQueueWork
<1>4. ASSUME NEW f \in Flusher, FlushStart(f) PROVE LockInv'
  <2>1. /\ stack' = stack /\ lock' = lock /\ hp' = hp
        /\ flush' = [flush EXCEPT ![f] = [flush[f] EXCEPT !.stage = "lock"]]
    BY <1>4 DEF FlushStart
  <2>2. flush[f] \in FlushCall /\ flush \in [Flusher -> FlushCall]
    BY DEF TypeOK
  <2>3. \A g \in Flusher : Holds(flush'[g]) => Holds(flush[g])
    <3> SUFFICES ASSUME NEW g \in Flusher, Holds(flush'[g]) PROVE Holds(flush[g])
      OBVIOUS
    <3>1. CASE g # f
      BY <2>1, <2>2, <3>1
    <3>2. flush'[f].stage = "lock"
      BY <2>1, <2>2 DEF FlushCall
    <3> QED
      BY <3>1, <3>2 DEF Holds
  <2>4. \A c \in CPU : KeptBy(c) /\ NestedIn(c)'
    BY <1>1, <2>1 DEF KeptBy, Nested, NestedIn
  <2>5. KeptAll /\ Nested'
    BY <2>3, <2>4 DEF KeptAll, Nested
  <2> QED
    BY <1>1, <2>1, <2>5, HeldKept DEF LockInv, HpLock
<1>5. CASE UNCHANGED vars
  BY <1>2, <1>5 DEF vars
<1> QED
  BY <1>3, <1>4, <1>5, LockWorker, LockFlush, LockHotplug DEF Next

-----------------------------------------------------------------------------
(* CPU hotplug *)

\* The CPU of the hotplug operation in progress.
Handled(c) == hp.stage # "idle" /\ hp.cpu = c

\* The thread and the queue of CPU c, outside such an operation.
WorkerOf(c) ==
    /\ pc[c] # "run" => stack[c] = <<>>
    /\ stop[c] => hp.stage = "stopping" /\ hp.cpu = c
    /\ c \in online /\ ~Handled(c) => pc[c] \notin {"none", "created"}
    /\ c \notin online /\ ~Handled(c) => pc[c] = "none" /\ list[c] = <<>>

\* The stages of an operation.
HpCpu ==
    /\ hp.stage = "online" => hp.cpu \in online /\ pc[hp.cpu] = "created"
    /\ hp.stage \in {"prepared", "cancel"} =>
          hp.cpu \notin online /\ pc[hp.cpu] = "created" /\ list[hp.cpu] = <<>>
    /\ hp.stage \in {"dead", "stopping", "takeover"} =>
          hp.cpu \notin online /\ hp.on \in online /\ pc[hp.cpu] # "created"
    /\ hp.stage = "dead" => pc[hp.cpu] # "none"
    /\ hp.stage = "takeover" => pc[hp.cpu] = "none"

\* Work is only being queued for CPUs that are there.
ClaimsOnline ==
    \A w \in Work, c \in CPU : \A k \in {"queue", "timer"} : <<w, k, c>> \in claims => c \in online

HotInv == (\A c \in CPU : WorkerOf(c)) /\ HpCpu /\ ClaimsOnline

LEMMA EmptyStack ==
    ASSUME TypeOK, NEW d \in CPU
    PROVE  /\ stack[d] = <<>> <=> Len(stack[d]) = 0
           /\ stack' \in Stacks => (stack'[d] = <<>> <=> Len(stack'[d]) = 0)
<1>1. stack[d] \in Seq(Frame) /\ (stack' \in Stacks => stack'[d] \in Seq(Frame))
  BY DEF TypeOK, Stacks
<1> QED
  BY <1>1, EmptySeq

\* A step of the worker of c.
LEMMA WorkerStep ==
    ASSUME TypeOK, NEW c \in CPU, WorkerOf(c), Worker(c)
    PROVE  /\ pc[c] \notin {"none", "created"} /\ pc'[c] # "created"
           /\ pc'[c] = "none" => stop[c]
           /\ pc'[c] # "run" => stack'[c] = <<>>
           /\ \A d \in CPU : d # c => /\ pc'[d] = pc[d] /\ list'[d] = list[d]
                                      /\ stack[d] = <<>> => stack'[d] = <<>>
           /\ online' = online /\ stop' = stop /\ hp' = hp /\ claims' = claims
<1> DEFINE Others == \A d \in CPU : d # c => /\ pc'[d] = pc[d] /\ list'[d] = list[d]
                                             /\ stack[d] = <<>> => stack'[d] = <<>>
           Same == online' = online /\ stop' = stop /\ hp' = hp /\ claims' = claims
           Own == /\ pc[c] \notin {"none", "created"} /\ pc'[c] # "created"
                  /\ pc'[c] = "none" => stop[c]
                  /\ pc'[c] # "run" => stack'[c] = <<>>
<1>1. pc \in [CPU -> WorkerPC] /\ list \in [CPU -> Seq(Entry)]
  BY DEF TypeOK
<1>2. pc[c] # "run" => stack[c] = <<>>
  BY DEF WorkerOf
<1>3. Same
  BY DEF Worker, WorkerSet, WorkerTest, WorkerCheck, WorkerWakes, WorkerResume, ClearPending,
         CallFlush, FinishWork, FlushSelf
<1>4. CASE WorkerSet(c) \/ WorkerTest(c) \/ WorkerCheck(c) \/ WorkerWakes(c)
  <2>1. Others
    BY <1>1, <1>4 DEF WorkerSet, WorkerTest, WorkerCheck, WorkerWakes
  <2>2. Own
    BY <1>1, <1>2, <1>4 DEF WorkerSet, WorkerTest, WorkerCheck, WorkerWakes
  <2> QED
    BY <1>3, <2>1, <2>2
<1>5. CASE WorkerResume(c)
  <2>1. CASE list[c] = <<>>
    BY <1>1, <1>2, <1>3, <1>5, <2>1 DEF WorkerResume
  <2>2. CASE list[c] # <<>>
    <3>1. /\ list' = [list EXCEPT ![c] = Tail(list[c])]
          /\ \A d \in CPU : d # c => stack'[d] = stack[d]
      BY <1>5, <2>2, FirstFacts DEF First
    <3>2. pc[c] = "resume" /\ pc' = [pc EXCEPT ![c] = "run"]
      BY <1>5, <2>2 DEF WorkerResume
    <3> QED
      BY <1>1, <1>3, <3>1, <3>2
  <2> QED
    BY <2>1, <2>2
<1>6. CASE ClearPending(c) \/ CallFlush(c)
  <2>1. Running(c) /\ pc' = pc /\ list' = list /\ stack \in [CPU -> Seq(Frame)]
    BY <1>6 DEF ClearPending, CallFlush, TypeOK
  <2>2. \A d \in CPU : d # c => stack'[d] = stack[d]
    BY <1>6, <2>1 DEF ClearPending, CallFlush
  <2>3. pc[c] = "run"
    BY <1>2, <2>1 DEF Running
  <2> QED
    BY <1>3, <2>1, <2>2, <2>3
<1>7. CASE FinishWork(c)
  <2>1. PICK n : n = Len(stack[c])
    OBVIOUS
  <2>2. n \in Nat /\ n > 0 /\ Finished(c, n)
    BY <1>7, <2>1, FinishFacts
  <2>3. pc[c] = "run"
    BY <1>2, <1>7 DEF FinishWork, Returned, Running
  <2>4. stack' \in Stacks
    BY <2>2 DEF Finished
  <2>5. \A d \in CPU : d # c => Len(stack'[d]) = Len(stack[d])
    BY <2>2 DEF Finished, WokenOther
  <2>6. \A d \in CPU : d # c => (stack[d] = <<>> => stack'[d] = <<>>)
    BY <2>4, <2>5, EmptyStack
  <2>7. pc' = pc \/ (pc' = [pc EXCEPT ![c] = "set"] /\ stack'[c] = <<>>)
    <3>1. n = 1 \/ n > 1
      BY <2>2
    <3> QED
      BY <2>2, <3>1 DEF Finished, NextTaken, LoopEnds
  <2>8. \A d \in CPU : d # c => list'[d] = list[d]
    BY <1>1, <2>2 DEF Finished, NextTaken, LoopEnds
  <2>9. Own
    BY <1>1, <2>3, <2>7
  <2>10. \A d \in CPU : d # c => pc'[d] = pc[d]
    BY <1>1, <2>7
  <2> QED
    BY <1>3, <2>6, <2>8, <2>9, <2>10
<1>8. CASE FlushSelf(c)
  <2>1. Running(c) /\ pc' = pc
    BY <1>8, FlushOfFacts DEF FlushSelf
  <2>2. pc[c] = "run"
    BY <1>2, <2>1 DEF Running
  <2>3. CASE list[c] # <<>>
    <3>1. PICK n : Pushed(c, n)
      BY <1>8, <2>3, PushSelf
    <3>2. Others
      BY <1>1, <2>1, <3>1 DEF Pushed
    <3> QED
      BY <1>3, <2>1, <2>2, <3>2
  <2>4. CASE list[c] = <<>>
    <3>1. PICK x \in FlushCall : SetFlush(c, x)
      BY <1>8, <2>4, FlushSelfEmpty
    <3>2. \E g \in Frame : NewTop(c, g)
      BY <2>1, <3>1, SetFlushFacts
    <3>3. list' = list
      BY <1>8, <2>4 DEF FlushSelf
    <3>4. Others
      BY <2>1, <3>2, <3>3 DEF NewTop
    <3> QED
      BY <1>3, <2>1, <2>2, <3>4
  <2> QED
    BY <2>3, <2>4
<1> QED
  BY <1>4, <1>5, <1>6, <1>7, <1>8 DEF Worker

LEMMA HotWorker ==
    ASSUME TypeOK, HotInv, NEW c \in CPU, Worker(c)
    PROVE  HotInv'
<1>1. (\A d \in CPU : WorkerOf(d)) /\ HpCpu /\ ClaimsOnline
  BY DEF HotInv
<1>2. /\ pc[c] \notin {"none", "created"} /\ pc'[c] # "created"
      /\ pc'[c] = "none" => stop[c]
      /\ pc'[c] # "run" => stack'[c] = <<>>
      /\ \A d \in CPU : d # c => /\ pc'[d] = pc[d] /\ list'[d] = list[d]
                                 /\ stack[d] = <<>> => stack'[d] = <<>>
      /\ online' = online /\ stop' = stop /\ hp' = hp /\ claims' = claims
  BY <1>1, WorkerStep
<1>3. \A d \in CPU : d # c => WorkerOf(d)'
  BY <1>1, <1>2 DEF WorkerOf, Handled
<1>4. WorkerOf(c)'
  BY <1>1, <1>2 DEF WorkerOf, Handled
<1>5. HpCpu'
  <2>1. hp.cpu \in CPU /\ WorkerOf(c)
    BY <1>1 DEF TypeOK
  <2>2. CASE hp.cpu = c
    BY <1>1, <1>2, <2>1, <2>2 DEF HpCpu, WorkerOf
  <2>3. CASE hp.cpu # c
    BY <1>1, <1>2, <2>1, <2>3 DEF HpCpu
  <2> QED
    BY <2>2, <2>3
<1>6. ClaimsOnline'
  BY <1>1, <1>2 DEF ClaimsOnline
<1> QED
  BY <1>3, <1>4, <1>5, <1>6 DEF HotInv

\* A step that leaves the threads and the map alone, and queues nothing for a CPU that
\* is not in it.
LEMMA HotSame ==
    ASSUME TypeOK, HotInv, ClaimsOnline',
           pc' = pc, online' = online, stop' = stop, hp' = hp,
           \A c \in CPU : /\ stack[c] = <<>> => stack'[c] = <<>>
                          /\ c \notin online /\ list[c] = <<>> => list'[c] = <<>>
    PROVE  HotInv'
<1>1. (\A d \in CPU : WorkerOf(d)) /\ HpCpu
  BY DEF HotInv
<1>2. \A d \in CPU : WorkerOf(d)'
  BY <1>1 DEF WorkerOf, Handled
<1>3. HpCpu'
  BY <1>1 DEF HpCpu, TypeOK
<1> QED
  BY <1>2, <1>3 DEF HotInv

LEMMA HotQueue ==
    ASSUME TypeOK, HotInv, NEW w \in Work, NEW c \in CPU,
           \/ QueueWork(w, c) \/ QueueDelayedWork(w, c) \/ DelayedWorkTimer(w, c)
           \/ CancelDelayedWork(w, c) \/ CancelClear(w, c) \/ DoQueueWork(w, c)
    PROVE  HotInv'
<1>1. ClaimsOnline /\ list \in [CPU -> Seq(Entry)]
  BY DEF HotInv, TypeOK
<1>2. pc' = pc /\ online' = online /\ stop' = stop /\ hp' = hp /\ stack' = stack
  BY DEF QueueWork, QueueDelayedWork, DelayedWorkTimer, CancelDelayedWork, CancelClear, DoQueueWork
<1>3. ClaimsOnline'
  <2> SUFFICES ASSUME NEW v \in Work, NEW d \in CPU, NEW k \in {"queue", "timer"},
                      <<v, k, d>> \in claims'
               PROVE  d \in online
    BY <1>2 DEF ClaimsOnline
  <2>1. CASE QueueWork(w, c) \/ QueueDelayedWork(w, c)
    <3>1. c \in online
      BY <2>1 DEF QueueWork, QueueDelayedWork
    <3>2. claims' = claims \cup {<<w, "queue", c>>} \/ claims' = claims \cup {<<w, "timer", c>>}
      BY <2>1 DEF QueueWork, QueueDelayedWork
    <3>3. <<v, k, d>> \in claims \/ d = c
      BY <3>2
    <3> QED
      BY <1>1, <3>1, <3>3 DEF ClaimsOnline
  <2>2. CASE DelayedWorkTimer(w, c)
    BY <1>1, <2>2 DEF DelayedWorkTimer, ClaimsOnline
  <2>3. CASE CancelDelayedWork(w, c)
    BY <1>1, <2>3 DEF CancelDelayedWork, ClaimsOnline
  <2>4. CASE CancelClear(w, c) \/ DoQueueWork(w, c)
    BY <1>1, <2>4 DEF CancelClear, DoQueueWork, ClaimsOnline
  <2> QED
    BY <2>1, <2>2, <2>3, <2>4
<1>4. \A d \in CPU : d \notin online => list'[d] = list[d]
  <2>1. CASE DoQueueWork(w, c)
    <3>1. c \in online
      BY <1>1, <2>1 DEF DoQueueWork, ClaimsOnline
    <3> QED
      BY <1>1, <2>1, <3>1 DEF DoQueueWork, AddTail
  <2>2. CASE ~DoQueueWork(w, c)
    BY <2>2 DEF QueueWork, QueueDelayedWork, DelayedWorkTimer, CancelDelayedWork, CancelClear
  <2> QED
    BY <2>1, <2>2
<1> QED
  BY <1>2, <1>3, <1>4, HotSame

LEMMA HotFlush ==
    ASSUME TypeOK, HotInv, NEW t \in Flusher \cup CPU, Flush(t)
    PROVE  HotInv'
<1>1. pc' = pc /\ online' = online /\ stop' = stop /\ hp' = hp /\ claims' = claims
  BY DEF Flush, FlushLock, FlushCpu, FlushRetry, FlushReturn
<1>2. ClaimsOnline'
  BY <1>1 DEF HotInv, ClaimsOnline
<1>3. ASSUME NEW x \in FlushCall, SetFlush(t, x), FlushOf(t).stage # "none"
      PROVE  \A c \in CPU : stack[c] = <<>> => stack'[c] = <<>>
  <2>1. t \in CPU => Running(t)
    BY <1>3, FlushOfFacts
  <2>2. CASE t \in CPU
    <3>1. PICK g \in Frame : NewTop(t, g)
      BY <1>3, <2>1, <2>2, SetFlushFacts
    <3>2. stack[t] # <<>>
      BY <2>1, <2>2 DEF Running
    <3> QED
      BY <3>1, <3>2 DEF NewTop
  <2>3. CASE t \notin CPU
    BY <1>3, <2>3 DEF SetFlush
  <2> QED
    BY <2>2, <2>3
<1>4. \A c \in CPU : /\ stack[c] = <<>> => stack'[c] = <<>>
                     /\ list[c] = <<>> => list'[c] = <<>>
  <2>1. CASE FlushLock(t)
    <3>1. PICK x \in FlushCall :
              /\ FlushOf(t).stage = "lock"
              /\ t \in CPU => SetFlush(t, x) /\ list' = list
              /\ t \notin CPU => t \in Flusher /\ OweAll(t)
      BY <2>1, FlushLockFacts
    <3>2. CASE t \in CPU
      BY <1>3, <3>1, <3>2
    <3>3. CASE t \notin CPU
      <4>1. /\ stack' \in Stacks /\ list' \in [CPU -> Seq(Entry)]
            /\ \A c \in CPU : Len(stack'[c]) = Len(stack[c]) /\ Len(list'[c]) = Len(list[c])
        BY <3>1, <3>3, OweFacts DEF SameFrames, SameEntries
      <4>2. \A c \in CPU : stack[c] = <<>> => stack'[c] = <<>>
        BY <4>1, EmptyStack
      <4>3. \A c \in CPU : list[c] \in Seq(Entry) /\ list'[c] \in Seq(Entry)
        BY <4>1 DEF TypeOK
      <4>4. \A c \in CPU : list[c] = <<>> => list'[c] = <<>>
        BY <4>1, <4>3, EmptySeq
      <4> QED
        BY <4>2, <4>4
    <3> QED
      BY <3>2, <3>3
  <2>2. CASE FlushCpu(t) \/ FlushRetry(t) \/ FlushReturn(t)
    <3>1. \E x \in FlushCall : SetFlush(t, x) /\ FlushOf(t).stage \in {"loop", "woken"}
      BY <2>2, FlushCpuFacts, FlushRetryFacts, FlushReturnFacts
    <3>2. list' = list
      BY <2>2 DEF FlushCpu, FlushRetry, FlushReturn
    <3> QED
      BY <1>3, <3>1, <3>2
  <2> QED
    BY <2>1, <2>2 DEF Flush
<1> QED
  BY <1>1, <1>2, <1>4, HotSame

\* cpu_down: no caller is inside queue_work on the CPU, and its timers move.
LEMMA HotDown ==
    ASSUME TypeOK, HotInv, NEW c \in CPU, NEW d \in CPU, CpuDown(c, d)
    PROVE  HotInv'
<1>1. (\A e \in CPU : WorkerOf(e)) /\ HpCpu /\ ClaimsOnline
  BY DEF HotInv
<1>2. /\ hp.stage = "idle" /\ c \in online /\ d \in online /\ d # c
      /\ online' = online \ {c} /\ hp' = [stage |-> "dead", cpu |-> c, on |-> d]
      /\ pc' = pc /\ stack' = stack /\ list' = list /\ stop' = stop
  BY DEF CpuDown
<1>3. hp'.stage = "dead" /\ hp'.cpu = c /\ hp'.on = d
  BY <1>2
<1>4. \A e \in CPU : WorkerOf(e)'
  BY <1>1, <1>2, <1>3 DEF WorkerOf, Handled
<1>5. HpCpu'
  BY <1>1, <1>2, <1>3 DEF HpCpu, WorkerOf, Handled
<1>6. ClaimsOnline'
  <2> SUFFICES ASSUME NEW v \in Work, NEW e \in CPU, NEW k \in {"queue", "timer"},
                      <<v, k, e>> \in claims'
               PROVE  e \in online'
    BY DEF ClaimsOnline
  <2>1. PICK m \in claims :
           <<v, k, e>> = <<m[1], m[2], IF m[2] = "timer" /\ m[3] = c THEN d ELSE m[3]>>
    BY DEF CpuDown
  <2>2. m \in Claim
    BY <2>1 DEF TypeOK
  <2>3. v = m[1] /\ k = m[2] /\ e = (IF k = "timer" /\ m[3] = c THEN d ELSE m[3])
    BY <2>1
  <2>4. m = <<v, k, m[3]>> /\ m[3] \in CPU
    BY <2>2, <2>3 DEF Claim
  <2>5. m[3] \in online
    BY <1>1, <2>1, <2>4 DEF ClaimsOnline
  <2>6. k = "queue" => m[3] # c
    BY <2>1, <2>4 DEF CpuDown
  <2> QED
    BY <1>2, <2>3, <2>5, <2>6
<1> QED
  BY <1>4, <1>5, <1>6 DEF HotInv

LEMMA HotPrepare ==
    ASSUME TypeOK, HotInv, NEW c \in CPU, CpuUpPrepare(c)
    PROVE  HotInv'
<1>1. (\A e \in CPU : WorkerOf(e)) /\ HpCpu /\ ClaimsOnline
  BY DEF HotInv
<1>2. /\ hp.stage = "idle" /\ c \notin online /\ online' = online /\ claims' = claims
      /\ hp' = [hp EXCEPT !.stage = "prepared", !.cpu = c]
      /\ pc' = [pc EXCEPT ![c] = "created"] /\ stack' = stack
      /\ list' = [list EXCEPT ![c] = <<>>] /\ stop' = stop
      /\ pc \in [CPU -> WorkerPC] /\ list \in [CPU -> Seq(Entry)]
  BY DEF CpuUpPrepare, TypeOK
<1>3. hp'.stage = "prepared" /\ hp'.cpu = c
  BY <1>2 DEF TypeOK
<1>4. \A e \in CPU : WorkerOf(e)'
  BY <1>1, <1>2, <1>3 DEF WorkerOf, Handled
<1>5. HpCpu'
  BY <1>2, <1>3 DEF HpCpu
<1>6. ClaimsOnline'
  BY <1>1, <1>2 DEF ClaimsOnline
<1> QED
  BY <1>4, <1>5, <1>6 DEF HotInv

LEMMA HotHotplug ==
    ASSUME TypeOK, HotInv, HotplugStep
    PROVE  HotInv'
<1>1. (\A e \in CPU : WorkerOf(e)) /\ HpCpu /\ ClaimsOnline
  BY DEF HotInv
<1>2. /\ hp.cpu \in CPU /\ hp.on \in CPU /\ hp \in [stage : HpStages, cpu : CPU, on : CPU]
      /\ pc \in [CPU -> WorkerPC] /\ list \in [CPU -> Seq(Entry)] /\ stop \in [CPU -> BOOLEAN]
  BY DEF TypeOK
<1>3. \A x : [hp EXCEPT !.stage = x].stage = x /\ [hp EXCEPT !.stage = x].cpu = hp.cpu
             /\ [hp EXCEPT !.stage = x].on = hp.on
  BY <1>2
<1>4. ASSUME NEW x, hp' = [hp EXCEPT !.stage = x]
      PROVE  hp'.stage = x /\ hp'.cpu = hp.cpu /\ hp'.on = hp.on
  BY <1>3, <1>4
<1>5. CASE CpuDead
  <2>1. hp'.stage = "stopping" /\ hp'.cpu = hp.cpu /\ hp'.on = hp.on /\ hp.stage = "dead"
    BY <1>4, <1>5 DEF CpuDead
  <2>2. /\ online' = online /\ claims' = claims /\ list' = list /\ stack' = stack
        /\ stop' = [stop EXCEPT ![hp.cpu] = TRUE] /\ pc[hp.cpu] # "created" /\ pc' = pc
    BY <1>1, <1>5, <2>1 DEF CpuDead, KthreadStop, HpCpu
  <2>3. \A e \in CPU : WorkerOf(e)'
    BY <1>1, <1>2, <2>1, <2>2 DEF WorkerOf, Handled
  <2>4. HpCpu' /\ ClaimsOnline'
    BY <1>1, <2>1, <2>2 DEF HpCpu, ClaimsOnline
  <2> QED
    BY <2>3, <2>4 DEF HotInv
<1>6. CASE CpuStopped
  <2>1. hp'.stage = "takeover" /\ hp'.cpu = hp.cpu /\ hp'.on = hp.on /\ hp.stage = "stopping"
    BY <1>4, <1>6 DEF CpuStopped
  <2>2. /\ online' = online /\ claims' = claims /\ list' = list /\ stack' = stack
        /\ stop' = [stop EXCEPT ![hp.cpu] = FALSE] /\ pc' = pc /\ pc[hp.cpu] = "none"
    BY <1>6 DEF CpuStopped, WorkerGone
  <2>3. \A e \in CPU : WorkerOf(e)'
    BY <1>1, <1>2, <2>1, <2>2 DEF WorkerOf, Handled
  <2>4. HpCpu' /\ ClaimsOnline'
    BY <1>1, <2>1, <2>2 DEF HpCpu, ClaimsOnline
  <2> QED
    BY <2>3, <2>4 DEF HotInv
<1>7. CASE TakeOverOne
  <2>1. /\ pc' = pc /\ online' = online /\ stop' = stop /\ hp' = hp /\ claims' = claims
        /\ stack' = stack /\ hp.stage = "takeover" /\ list[hp.cpu] # <<>>
    BY <1>7 DEF TakeOverOne
  <2>2. hp.on \in online
    BY <1>1, <2>1 DEF HpCpu
  <2>3. \A e \in CPU : e # hp.on /\ e # hp.cpu => list'[e] = list[e]
    BY <1>2, <1>7 DEF TakeOverOne
  <2>4. \A e \in CPU : e \notin online /\ list[e] = <<>> => list'[e] = <<>>
    BY <2>1, <2>2, <2>3
  <2>5. ClaimsOnline'
    BY <1>1, <2>1 DEF ClaimsOnline
  <2> QED
    BY <2>1, <2>4, <2>5, HotSame
<1>8. CASE TakeOverDone
  <2>1. hp'.stage = "idle" /\ hp.stage = "takeover" /\ list[hp.cpu] = <<>>
    BY <1>4, <1>8 DEF TakeOverDone
  <2>2. /\ online' = online /\ claims' = claims /\ list' = list /\ stack' = stack
        /\ stop' = stop /\ pc' = pc
    BY <1>8 DEF TakeOverDone
  <2>3. \A e \in CPU : WorkerOf(e)'
    BY <1>1, <2>1, <2>2 DEF WorkerOf, Handled, HpCpu
  <2>4. HpCpu' /\ ClaimsOnline'
    BY <1>1, <2>1, <2>2 DEF HpCpu, ClaimsOnline
  <2> QED
    BY <2>3, <2>4 DEF HotInv
<1>9. CASE CpuUp
  <2>1. /\ hp'.cpu = hp.cpu /\ hp.stage = "prepared"
        /\ \/ online' = online \cup {hp.cpu} /\ hp'.stage = "online"
           \/ online' = online /\ hp'.stage = "cancel"
    BY <1>4, <1>9 DEF CpuUp
  <2>2. /\ claims' = claims /\ list' = list /\ stack' = stack /\ stop' = stop /\ pc' = pc
    BY <1>9 DEF CpuUp
  <2>3. \A e \in CPU : WorkerOf(e)'
    BY <1>1, <2>1, <2>2 DEF WorkerOf, Handled
  <2>4. HpCpu'
    BY <1>1, <2>1, <2>2 DEF HpCpu
  <2>5. ClaimsOnline'
    BY <1>1, <2>1, <2>2 DEF ClaimsOnline
  <2> QED
    BY <2>3, <2>4, <2>5 DEF HotInv
<1>10. CASE CpuOnline
  <2>1. hp'.stage = "idle" /\ hp.stage = "online" /\ hp.cpu \in online
    BY <1>1, <1>4, <1>10 DEF CpuOnline, HpCpu
  <2>2. /\ online' = online /\ claims' = claims /\ list' = list /\ stack' = stack
        /\ stop' = stop /\ pc' = [pc EXCEPT ![hp.cpu] = "set"] /\ pc[hp.cpu] = "created"
    BY <1>10 DEF CpuOnline
  <2>3. \A e \in CPU : WorkerOf(e)'
    BY <1>1, <1>2, <2>1, <2>2 DEF WorkerOf, Handled
  <2>4. HpCpu' /\ ClaimsOnline'
    BY <1>1, <2>1, <2>2 DEF HpCpu, ClaimsOnline
  <2> QED
    BY <2>3, <2>4 DEF HotInv
<1>11. CASE CpuUpCanceled
  <2>1. /\ hp'.stage = "idle" /\ hp.stage = "cancel" /\ hp.cpu \notin online
        /\ list[hp.cpu] = <<>>
    BY <1>1, <1>4, <1>11 DEF CpuUpCanceled, HpCpu
  <2>2. /\ online' = online /\ claims' = claims /\ list' = list /\ stack' = stack
        /\ stop' = stop /\ pc' = [pc EXCEPT ![hp.cpu] = "none"] /\ pc[hp.cpu] = "created"
    BY <1>11 DEF CpuUpCanceled
  <2>3. \A e \in CPU : WorkerOf(e)'
    BY <1>1, <1>2, <2>1, <2>2 DEF WorkerOf, Handled
  <2>4. HpCpu' /\ ClaimsOnline'
    BY <1>1, <2>1, <2>2 DEF HpCpu, ClaimsOnline
  <2> QED
    BY <2>3, <2>4 DEF HotInv
<1> QED
  BY <1>5, <1>6, <1>7, <1>8, <1>9, <1>10, <1>11 DEF HotplugStep

LEMMA HotInit == Init => HotInv
  BY DEF Init, HotInv, WorkerOf, Handled, HpCpu, ClaimsOnline

LEMMA HotNext == TypeOK /\ HotInv /\ [Next]_vars => HotInv'
<1> SUFFICES ASSUME TypeOK, HotInv, [Next]_vars PROVE HotInv'
  OBVIOUS
<1>1. ASSUME NEW f \in Flusher, FlushStart(f) PROVE HotInv'
  <2>1. /\ pc' = pc /\ online' = online /\ stop' = stop /\ hp' = hp /\ claims' = claims
        /\ stack' = stack /\ list' = list
    BY <1>1 DEF FlushStart
  <2>2. ClaimsOnline'
    BY <2>1 DEF HotInv, ClaimsOnline
  <2> QED
    BY <2>1, <2>2, HotSame
<1>2. CASE UNCHANGED vars
  <2>1. /\ pc' = pc /\ online' = online /\ stop' = stop /\ hp' = hp /\ claims' = claims
        /\ stack' = stack /\ list' = list
    BY <1>2 DEF vars
  <2>2. ClaimsOnline'
    BY <2>1 DEF HotInv, ClaimsOnline
  <2> QED
    BY <2>1, <2>2, HotSame
<1> QED
  BY <1>1, <1>2, HotQueue, HotWorker, HotFlush, HotDown, HotPrepare, HotHotplug DEF Next

LEMMA HotStranded == TypeOK /\ HotInv => NothingStranded
<1> SUFFICES ASSUME TypeOK, HotInv, hp.stage = "idle", NEW c \in CPU
             PROVE  IF c \in online
                    THEN pc[c] # "none"
                    ELSE /\ pc[c] = "none" /\ list[c] = <<>> /\ stack[c] = <<>>
                         /\ \A k \in claims : k[2] # "cancel" => k[3] # c
  BY DEF NothingStranded
<1>1. WorkerOf(c) /\ ClaimsOnline
  BY DEF HotInv
<1>2. CASE c \in online
  BY <1>1, <1>2 DEF WorkerOf, Handled
<1>3. CASE c \notin online
  <2>1. pc[c] = "none" /\ list[c] = <<>> /\ stack[c] = <<>>
    BY <1>1, <1>3 DEF WorkerOf, Handled
  <2>2. ASSUME NEW k \in claims, k[2] # "cancel" PROVE k[3] # c
    <3>1. k \in Claim
      BY DEF TypeOK
    <3>2. /\ k[1] \in Work /\ k[2] \in {"queue", "timer"} /\ k[3] \in CPU
          /\ k = <<k[1], k[2], k[3]>>
      BY <2>2, <3>1 DEF Claim
    <3> QED
      BY <1>1, <1>3, <3>2 DEF ClaimsOnline
  <2> QED
    BY <1>3, <2>1, <2>2
<1> QED
  BY <1>2, <1>3

\* CPU hotplug loses no work and leaves no CPU without a worker: workqueue_cpu_callback
\* takes every work of the dead CPU over before cpu_down returns.
THEOREM NothingStrandedHolds == Spec => []NothingStranded
<1>1. TypeOK /\ HotInv /\ TypeOK' /\ [Next]_vars => HotInv'
  BY HotNext
<1> QED
  BY <1>1, TypeCorrect, HotInit, HotStranded, PTL DEF Spec

-----------------------------------------------------------------------------
(* Wakeups *)

\* The comparison of two sequence numbers in flush_cpu_workqueue.
Ahead(n, k) == LET d == (n - k) % SeqRange IN d > 0 /\ d < SeqRange \div 2

\* The flush call r, with the remove_sequence counters m: it waits for a CPU, and it
\* sleeps only while its sequence is not reached.
Waiting(r, m) ==
    /\ r.stage \in {"wait", "woken"} => r.todo # {}
    /\ r.stage = "wait" => Ahead(r.needed, m[Min(r.todo)])

WaitsIn(c) == \A i \in DOMAIN stack[c] : Waiting(stack[c][i].fl, remove)
FlushesWait == (\A f \in Flusher : Waiting(flush[f], remove)) /\ \A c \in CPU : WaitsIn(c)

\* The worker of c sleeps only beside an empty queue, and not when it has been told to stop.
Sleeps(c) ==
    /\ pc[c] \in {"check", "sleep"} /\ tstate[c] # "RUNNING" => ~stop[c]
    /\ pc[c] = "sleep" /\ tstate[c] # "RUNNING" => list[c] = <<>>
WorkersSleep == \A c \in CPU : Sleeps(c)

LEMMA BehindAhead == \A n, c : Behind(n, c) <=> Ahead(n, remove[c])
  BY DEF Behind, Ahead

LEMMA NotWaiting ==
    ASSUME NEW r, NEW m, r.stage \notin {"wait", "woken"}
    PROVE  Waiting(r, m)
  BY DEF Waiting

\* remove_sequence++ wakes whoever may have been waiting for it.
LEMMA WaitingWoken ==
    ASSUME NEW r \in FlushCall, NEW c \in CPU, NEW m, NEW k, Waiting(r, m),
           \A d \in CPU : d # c => k[d] = m[d]
    PROVE  Waiting(WakeCall(r, c), k)
<1>1. CASE r.stage = "wait" /\ Min(r.todo) = c
  <2>1. WakeCall(r, c).stage = "woken" /\ WakeCall(r, c).todo = r.todo
    BY <1>1, WakeCallFacts
  <2> QED
    BY <1>1, <2>1 DEF Waiting
<1>2. CASE ~(r.stage = "wait" /\ Min(r.todo) = c)
  <2>1. WakeCall(r, c) = r
    BY <1>2 DEF WakeCall
  <2>2. ASSUME r.stage = "wait" PROVE Ahead(r.needed, k[Min(r.todo)])
    <3>1. r.todo # {} /\ r.todo \in SUBSET CPU /\ Min(r.todo) # c
      BY <1>2, <2>2, FlushFacts DEF Waiting
    <3>2. Min(r.todo) \in CPU
      BY <3>1, MinInSet
    <3>3. k[Min(r.todo)] = m[Min(r.todo)]
      BY <3>1, <3>2
    <3> QED
      BY <2>2, <3>3 DEF Waiting
  <2>3. Waiting(r, k)
    BY <2>2 DEF Waiting
  <2> QED
    BY <2>1, <2>3
<1> QED
  BY <1>1, <1>2

\* The flush call of a thread is one of them.
LEMMA WaitingOf ==
    ASSUME TypeOK, FlushesWait, NEW t \in Flusher \cup CPU, FlushOf(t).stage # "none"
    PROVE  Waiting(FlushOf(t), remove)
<1>1. CASE t \in CPU
  <2>1. Running(t) /\ FlushOf(t) = Top(t).fl
    BY <1>1, FlushOfFacts
  <2>2. PICK n : n \in DOMAIN stack[t] /\ Top(t) = stack[t][n]
    BY <1>1, <2>1, TopFacts
  <2>3. WaitsIn(t)
    BY <1>1 DEF FlushesWait
  <2> QED
    BY <2>1, <2>2, <2>3 DEF WaitsIn
<1>2. CASE t \notin CPU
  BY <1>2, FlushOfFacts DEF FlushesWait
<1> QED
  BY <1>1, <1>2

\* The innermost frame of c is replaced.
LEMMA WaitNewTop ==
    ASSUME TypeOK, FlushesWait, NEW c \in CPU, NEW g \in Frame, NewTop(c, g),
           flush' = flush, remove' = remove, Waiting(g.fl, remove)
    PROVE  FlushesWait'
<1>1. ASSUME NEW i \in DOMAIN stack'[c] PROVE Waiting(stack'[c][i].fl, remove)
  <2>1. CASE i = Len(stack[c])
    BY <2>1 DEF NewTop
  <2>2. CASE i # Len(stack[c])
    <3>1. i \in DOMAIN stack[c] /\ stack'[c][i] = stack[c][i]
      BY <1>1, <2>2 DEF NewTop
    <3> QED
      BY <3>1 DEF FlushesWait, WaitsIn
  <2> QED
    BY <2>1, <2>2
<1>2. WaitsIn(c)'
  BY <1>1 DEF WaitsIn
<1>3. \A d \in CPU : d # c => WaitsIn(d)'
  BY DEF NewTop, FlushesWait, WaitsIn
<1> QED
  BY <1>2, <1>3 DEF FlushesWait

LEMMA WaitSetFlush ==
    ASSUME TypeOK, FlushesWait, NEW t \in Flusher \cup CPU, NEW x \in FlushCall, SetFlush(t, x),
           FlushOf(t).stage # "none", remove' = remove, Waiting(x, remove)
    PROVE  FlushesWait'
<1>1. CASE t \in CPU
  <2>1. Running(t)
    BY <1>1, FlushOfFacts
  <2>2. flush' = flush /\ \E g \in Frame : NewTop(t, g) /\ g.fl = x
    BY <1>1, <2>1, SetFlushFacts
  <2> QED
    BY <1>1, <2>2, WaitNewTop
<1>2. CASE t \notin CPU
  <2>1. stack' = stack /\ flush' = [flush EXCEPT ![t] = x]
    BY <1>2, SetFlushFacts
  <2>2. ASSUME NEW f \in Flusher PROVE Waiting(flush'[f], remove)
    <3>1. flush'[f] = x \/ flush'[f] = flush[f]
      BY <2>1 DEF TypeOK
    <3> QED
      BY <3>1 DEF FlushesWait
  <2>3. \A c \in CPU : WaitsIn(c)'
    BY <2>1 DEF FlushesWait, WaitsIn
  <2> QED
    BY <2>2, <2>3 DEF FlushesWait
<1> QED
  BY <1>1, <1>2

\* A function of c has returned.
LEMMA WaitFinish ==
    ASSUME TypeOK, FlushesWait, NEW c \in CPU, FinishWork(c)
    PROVE  FlushesWait'
<1>1. PICK n : n = Len(stack[c])
  OBVIOUS
<1>2. n \in Nat /\ n > 0 /\ Finished(c, n)
  BY <1>1, FinishFacts
<1>3. /\ stack' \in Stacks
      /\ \A d \in CPU : d # c => WokenOther(stack', stack, c, d)
      /\ \A i \in 1..n-2 : WokenFrame(stack', stack, c, c, i)
      /\ NextTaken(c, n) \/ LoopEnds(c, n)
  BY <1>2 DEF Finished
<1>4. DOMAIN stack[c] = 1..n
  BY <1>1, FrameType
<1>5. Len(stack'[c]) \in Nat /\ DOMAIN stack'[c] = 1..Len(stack'[c])
  BY <1>3, StackShape
<1>6. \A d \in CPU : d # c => remove'[d] = remove[d]
  BY DEF FinishWork, TypeOK
<1>7. ASSUME NEW r \in FlushCall, Waiting(r, remove) PROVE Waiting(WakeCall(r, c), remove')
  BY <1>6, <1>7, WaitingWoken
<1>8. ASSUME NEW d \in CPU, NEW i \in DOMAIN stack[d], WokenFrame(stack', stack, c, d, i)
      PROVE  Waiting(stack'[d][i].fl, remove')
  <2>1. stack[d][i].fl \in FlushCall /\ Waiting(stack[d][i].fl, remove)
    BY FrameType DEF FlushesWait, WaitsIn
  <2>2. stack'[d][i].fl = WakeCall(stack[d][i].fl, c)
    BY <1>8 DEF WokenFrame
  <2> QED
    BY <1>7, <2>1, <2>2
<1>9. \A d \in CPU : d # c => WaitsIn(d)'
  BY <1>3, <1>8 DEF WokenOther, WaitsIn
<1>10. ASSUME NEW i \in DOMAIN stack'[c] PROVE Waiting(stack'[c][i].fl, remove')
  <2>1. \A j \in 1..n-1 : j \in DOMAIN stack[c]
    BY <1>2, <1>4
  <2>2. \A j \in 1..n-2 : j \in 1..n-1
    BY <1>2
  <2>3. CASE i \in 1..n-2
    BY <1>3, <1>8, <2>1, <2>2, <2>3
  <2>4. CASE NextTaken(c, n) /\ i \notin 1..n-2
    <3>1. /\ Len(stack'[c]) = n /\ stack'[c][n].fl.stage = "none"
          /\ n > 1 => WokenFrame(stack', stack, c, c, n - 1)
      BY <2>4 DEF NextTaken
    <3>2. i \in 1..n
      BY <1>5, <3>1
    <3>3. i = n \/ (n > 1 /\ i = n-1 /\ n-1 \in 1..n-1)
      BY <1>2, <2>4, <3>2
    <3>4. CASE i = n
      BY <3>1, <3>4, NotWaiting
    <3> QED
      BY <1>8, <2>1, <3>1, <3>3, <3>4
  <2>5. CASE LoopEnds(c, n) /\ i \notin 1..n-2
    <3>1. /\ Len(stack'[c]) = n-1 /\ (n > 1 => stack'[c][n-1].fl.stage = "loop")
      BY <2>5 DEF LoopEnds
    <3>2. i \in 1..n-1
      BY <1>5, <3>1
    <3>3. n > 1 /\ i = n-1
      BY <1>2, <2>5, <3>2
    <3> QED
      BY <3>1, <3>3, NotWaiting
  <2> QED
    BY <1>3, <2>3, <2>4, <2>5
<1>11. WaitsIn(c)'
  BY <1>10 DEF WaitsIn
<1>12. ASSUME NEW f \in Flusher PROVE Waiting(flush'[f], remove')
  <2>1. flush[f] \in FlushCall /\ Waiting(flush[f], remove)
    BY DEF TypeOK, FlushesWait
  <2>2. flush'[f] = WakeCall(flush[f], c)
    BY DEF FinishWork, WakeFlushers
  <2> QED
    BY <1>7, <2>1, <2>2
<1> QED
  BY <1>9, <1>11, <1>12 DEF FlushesWait

LEMMA WaitWorker ==
    ASSUME TypeOK, FlushesWait, NEW c \in CPU, Worker(c)
    PROVE  FlushesWait'
<1>1. ASSUME stack' = stack, flush' = flush, remove' = remove PROVE FlushesWait'
  BY <1>1 DEF FlushesWait, WaitsIn
<1>2. CASE WorkerSet(c) \/ WorkerTest(c) \/ WorkerCheck(c) \/ WorkerWakes(c)
  BY <1>1, <1>2 DEF WorkerSet, WorkerTest, WorkerCheck, WorkerWakes
<1>3. CASE WorkerResume(c)
  <2>1. CASE list[c] = <<>>
    BY <1>1, <1>3, <2>1 DEF WorkerResume
  <2>2. CASE list[c] # <<>>
    <3>1. /\ stack' \in Stacks /\ Len(stack'[c]) = 1 /\ stack'[c][1].fl.stage = "none"
          /\ \A d \in CPU : d # c => stack'[d] = stack[d]
      BY <1>3, <2>2, FirstFacts DEF First
    <3>2. flush' = flush /\ remove' = remove
      BY <1>3 DEF WorkerResume
    <3>3. \A i \in DOMAIN stack'[c] : i = 1
      BY <3>1, StackShape
    <3>4. WaitsIn(c)'
      BY <3>1, <3>2, <3>3, NotWaiting DEF WaitsIn
    <3>5. \A d \in CPU : d # c => WaitsIn(d)'
      BY <3>1, <3>2 DEF FlushesWait, WaitsIn
    <3> QED
      BY <3>2, <3>4, <3>5 DEF FlushesWait
  <2> QED
    BY <2>1, <2>2
<1>4. CASE ClearPending(c)
  <2>1. Running(c) /\ Top(c) \in Frame
    BY <1>4, TopFacts DEF ClearPending
  <2>2. PICK g : g = [Top(c) EXCEPT !.taken = FALSE]
    OBVIOUS
  <2>3. g \in Frame /\ g.fl = Top(c).fl
    BY <2>1, <2>2, FrameFacts
  <2>4. /\ stack' = [stack EXCEPT ![c] = Front(stack[c]) \o <<g>>] /\ flush' = flush
        /\ remove' = remove
    BY <1>4, <2>2 DEF ClearPending
  <2>5. NewTop(c, g)
    BY <2>1, <2>3, <2>4, SetTop
  <2>6. PICK n : n \in DOMAIN stack[c] /\ Top(c) = stack[c][n]
    BY <2>1, TopFacts
  <2>7. Waiting(g.fl, remove)
    BY <2>3, <2>6 DEF FlushesWait, WaitsIn
  <2> QED
    BY <2>3, <2>4, <2>5, <2>7, WaitNewTop
<1>5. CASE CallFlush(c)
  <2>1. Running(c) /\ Top(c) \in Frame
    BY <1>5, TopFacts DEF CallFlush
  <2>2. PICK g : g = [Top(c) EXCEPT !.fl.stage = "lock"]
    OBVIOUS
  <2>3. g \in Frame /\ g.fl.stage = "lock"
    BY <2>1, <2>2 DEF Frame, FlushCall, FlushStages
  <2>4. /\ stack' = [stack EXCEPT ![c] = Front(stack[c]) \o <<g>>] /\ flush' = flush
        /\ remove' = remove
    BY <1>5, <2>2 DEF CallFlush
  <2>5. NewTop(c, g)
    BY <2>1, <2>3, <2>4, SetTop
  <2>6. Waiting(g.fl, remove)
    BY <2>3, NotWaiting
  <2> QED
    BY <2>3, <2>4, <2>5, <2>6, WaitNewTop
<1>6. CASE FinishWork(c)
  BY <1>6, WaitFinish
<1>7. CASE FlushSelf(c)
  <2>1. remove' = remove
    BY <1>7 DEF FlushSelf
  <2>2. CASE list[c] = <<>>
    <3>1. PICK x \in FlushCall : SetFlush(c, x) /\ x.stage = "loop" /\ FlushOf(c).stage = "loop"
      BY <1>7, <2>2, FlushSelfEmpty
    <3>2. Waiting(x, remove)
      BY <3>1, NotWaiting
    <3> QED
      BY <2>1, <3>1, <3>2, WaitSetFlush
  <2>3. CASE list[c] # <<>>
    <3>1. PICK n : n = Len(stack[c])
      OBVIOUS
    <3>2. n \in Nat /\ n > 0 /\ Pushed(c, n)
      BY <1>7, <2>3, <3>1, PushSelf
    <3>3. /\ stack' \in Stacks /\ Len(stack'[c]) = n + 1 /\ stack'[c][n].fl.stage = "self"
          /\ stack'[c][n+1].fl.stage = "none" /\ \A i \in 1..n-1 : stack'[c][i] = stack[c][i]
          /\ \A d \in CPU : d # c => stack'[d] = stack[d]
          /\ flush' = flush
      BY <3>2 DEF Pushed
    <3>4. DOMAIN stack[c] = 1..n
      BY <3>1, FrameType
    <3>5. DOMAIN stack'[c] = 1..n+1
      BY <3>3, StackShape
    <3>6. ASSUME NEW i \in DOMAIN stack'[c] PROVE Waiting(stack'[c][i].fl, remove)
      <4>1. i = n+1 \/ i = n \/ i \in 1..n-1
        BY <3>2, <3>5
      <4>2. \A j \in 1..n-1 : j \in 1..n
        BY <3>2
      <4>3. CASE i = n+1 \/ i = n
        BY <3>3, <4>3, NotWaiting
      <4>4. CASE i \in 1..n-1
        BY <3>3, <3>4, <4>2, <4>4 DEF FlushesWait, WaitsIn
      <4> QED
        BY <4>1, <4>3, <4>4
    <3>7. WaitsIn(c)'
      BY <2>1, <3>6 DEF WaitsIn
    <3>8. \A d \in CPU : d # c => WaitsIn(d)'
      BY <2>1, <3>3 DEF FlushesWait, WaitsIn
    <3> QED
      BY <2>1, <3>3, <3>7, <3>8 DEF FlushesWait
  <2> QED
    BY <2>2, <2>3
<1> QED
  BY <1>2, <1>3, <1>4, <1>5, <1>6, <1>7 DEF Worker

LEMMA WaitFlush ==
    ASSUME TypeOK, FlushesWait, NEW t \in Flusher \cup CPU, Flush(t)
    PROVE  FlushesWait'
<1>1. remove' = remove
  BY DEF Flush, FlushLock, FlushCpu, FlushRetry, FlushReturn
<1>2. ASSUME NEW x \in FlushCall, Resting(x, FlushOf(t)), FlushOf(t).todo # {}
      PROVE  Waiting(x, remove)
  BY <1>2, BehindAhead DEF Resting, Waiting
<1>3. CASE FlushCpu(t)
  <2>1. PICK x \in FlushCall : /\ SetFlush(t, x) /\ Resting(x, FlushOf(t))
                               /\ FlushOf(t).todo # {} /\ FlushOf(t).stage = "loop"
    BY <1>3, FlushCpuFacts
  <2>2. Waiting(x, remove)
    BY <1>2, <2>1
  <2> QED
    BY <1>1, <2>1, <2>2, WaitSetFlush
<1>4. CASE FlushRetry(t)
  <2>1. PICK x \in FlushCall : /\ SetFlush(t, x) /\ Resting(x, FlushOf(t))
                               /\ FlushOf(t).stage = "woken"
    BY <1>4, FlushRetryFacts
  <2>2. FlushOf(t).todo # {}
    BY <2>1, WaitingOf DEF Waiting
  <2>3. Waiting(x, remove)
    BY <1>2, <2>1, <2>2
  <2> QED
    BY <1>1, <2>1, <2>3, WaitSetFlush
<1>5. CASE FlushReturn(t)
  <2>1. PICK x \in FlushCall : /\ SetFlush(t, x) /\ x.stage \in {"none", "done"}
                               /\ FlushOf(t).stage = "loop"
    BY <1>5, FlushReturnFacts
  <2>2. Waiting(x, remove)
    BY <2>1, NotWaiting
  <2> QED
    BY <1>1, <2>1, <2>2, WaitSetFlush
<1>6. CASE FlushLock(t)
  <2>1. PICK x \in FlushCall :
              /\ x.stage = "loop" /\ FlushOf(t).stage = "lock"
              /\ t \in CPU => SetFlush(t, x) /\ list' = list
              /\ t \notin CPU => t \in Flusher /\ flush' = [flush EXCEPT ![t] = x] /\ OweAll(t)
    BY <1>6, FlushLockFacts
  <2>2. Waiting(x, remove)
    BY <2>1, NotWaiting
  <2>3. CASE t \in CPU
    BY <1>1, <2>1, <2>2, <2>3, WaitSetFlush
  <2>4. CASE t \notin CPU
    <3>1. \A c \in CPU : SameFrames(stack'[c], stack[c])
      BY <2>1, <2>4, OweFacts
    <3>2. ASSUME NEW f \in Flusher PROVE Waiting(flush'[f], remove)
      <4>1. flush'[f] = x \/ flush'[f] = flush[f]
        BY <2>1, <2>4 DEF TypeOK
      <4> QED
        BY <2>2, <4>1 DEF FlushesWait
    <3>3. \A c \in CPU : WaitsIn(c)'
      BY <1>1, <3>1 DEF FlushesWait, WaitsIn, SameFrames
    <3> QED
      BY <1>1, <3>2, <3>3 DEF FlushesWait
  <2> QED
    BY <2>3, <2>4
<1> QED
  BY <1>3, <1>4, <1>5, <1>6 DEF Flush

LEMMA WaitInit == Init => FlushesWait
<1> SUFFICES ASSUME Init PROVE FlushesWait
  OBVIOUS
<1>1. \A c \in CPU : stack[c] = <<>>
  BY DEF Init
<1>2. \A c \in CPU : DOMAIN stack[c] = {}
  BY <1>1
<1>3. \A f \in Flusher : flush[f].stage = "none"
  BY DEF Init, NoFlush
<1> QED
  BY <1>2, <1>3, NotWaiting DEF FlushesWait, WaitsIn

LEMMA WaitNext == TypeOK /\ LockInv /\ FlushesWait /\ [Next]_vars => FlushesWait'
<1> SUFFICES ASSUME TypeOK, LockInv, FlushesWait, [Next]_vars PROVE FlushesWait'
  OBVIOUS
<1>1. ASSUME stack' = stack, flush' = flush, remove' = remove PROVE FlushesWait'
  BY <1>1 DEF FlushesWait, WaitsIn
<1>2. ASSUME NEW w \in Work, NEW c \in CPU,
             \/ QueueWork(w, c) \/ QueueDelayedWork(w, c) \/ DelayedWorkTimer(w, c)
             \/ CancelDelayedWork(w, c) \/ CancelClear(w, c) \/ DoQueueWork(w, c)
      PROVE  FlushesWait'
  BY <1>1, <1>2 DEF QueueWork, QueueDelayedWork, DelayedWorkTimer, CancelDelayedWork,
                    CancelClear, DoQueueWork
<1>3. ASSUME NEW f \in Flusher, FlushStart(f) PROVE FlushesWait'
  <2>1. /\ stack' = stack /\ remove' = remove
        /\ flush' = [flush EXCEPT ![f] = [flush[f] EXCEPT !.stage = "lock"]]
    BY <1>3 DEF FlushStart
  <2>2. flush[f] \in FlushCall /\ flush \in [Flusher -> FlushCall]
    BY DEF TypeOK
  <2>3. ASSUME NEW g \in Flusher PROVE Waiting(flush'[g], remove)
    <3>1. flush'[f].stage = "lock"
      BY <2>1, <2>2 DEF FlushCall
    <3>2. CASE g = f
      BY <3>1, <3>2, NotWaiting
    <3>3. CASE g # f
      BY <2>1, <2>2, <3>3 DEF FlushesWait
    <3> QED
      BY <3>2, <3>3
  <2>4. \A c \in CPU : WaitsIn(c)'
    BY <2>1 DEF FlushesWait, WaitsIn
  <2> QED
    BY <2>1, <2>3, <2>4 DEF FlushesWait
<1>4. ASSUME NEW c \in CPU, NEW d \in CPU, CpuDown(c, d) PROVE FlushesWait'
  BY <1>1, <1>4 DEF CpuDown
<1>5. ASSUME NEW c \in CPU, CpuUpPrepare(c) PROVE FlushesWait'
  <2>1. Hotplug /\ lock \notin Flusher \cup CPU /\ stack' = stack /\ flush' = flush
    BY <1>5, ThreadAssumption DEF CpuUpPrepare
  <2>2. LockHeld
    BY DEF LockInv
  <2>3. /\ \A f \in Flusher : ~Holds(flush[f])
        /\ \A e \in CPU : \A i \in DOMAIN stack[e] : ~Holds(stack[e][i].fl)
    BY <2>1, <2>2, NotHeld
  <2>4. \A f \in Flusher : Waiting(flush[f], remove')
    BY <2>3, NotWaiting DEF Holds
  <2>5. \A e \in CPU : \A i \in DOMAIN stack[e] : Waiting(stack[e][i].fl, remove')
    BY <2>3, NotWaiting DEF Holds
  <2> QED
    BY <2>1, <2>4, <2>5 DEF FlushesWait, WaitsIn
<1>6. CASE HotplugStep
  BY <1>1, <1>6 DEF HotplugStep, CpuDead, CpuStopped, TakeOverOne, TakeOverDone,
                    CpuUp, CpuOnline, CpuUpCanceled
<1>7. CASE UNCHANGED vars
  BY <1>1, <1>7 DEF vars
<1> QED
  BY <1>2, <1>3, <1>4, <1>5, <1>6, <1>7, WaitWorker, WaitFlush DEF Next

\* worker_thread: the state is set before the list is looked at.
LEMMA SleepWorker ==
    ASSUME TypeOK, HotInv, WorkersSleep, NEW c \in CPU, Worker(c)
    PROVE  WorkersSleep'
<1>1. /\ pc \in [CPU -> WorkerPC] /\ tstate \in [CPU -> {"RUNNING", "INTERRUPTIBLE"}]
      /\ list \in [CPU -> Seq(Entry)] /\ stack \in [CPU -> Seq(Frame)] /\ Sleeps(c)
  BY DEF TypeOK, WorkersSleep
<1>2. WorkerOf(c)
  BY DEF HotInv
<1>3. /\ \A d \in CPU : d # c => pc'[d] = pc[d] /\ list'[d] = list[d]
      /\ stop' = stop
  BY <1>2, WorkerStep
<1>4. tstate' = tstate \/ \E x : tstate' = [tstate EXCEPT ![c] = x]
  BY DEF Worker, WorkerSet, WorkerTest, WorkerCheck, WorkerWakes, WorkerResume, ClearPending,
         CallFlush, FinishWork, FlushSelf
<1>5. \A d \in CPU : d # c => tstate'[d] = tstate[d]
  BY <1>1, <1>4
<1>6. \A d \in CPU : d # c => Sleeps(d)'
  BY <1>3, <1>5 DEF WorkersSleep, Sleeps
<1>7. Sleeps(c)'
  <2>1. CASE WorkerSet(c)
    BY <1>1, <2>1 DEF WorkerSet, Sleeps
  <2>2. CASE WorkerTest(c)
    BY <1>1, <2>2 DEF WorkerTest, Sleeps
  <2>3. CASE WorkerCheck(c)
    BY <1>1, <2>3 DEF WorkerCheck, Sleeps
  <2>4. CASE WorkerWakes(c)
    BY <1>1, <2>4 DEF WorkerWakes, Sleeps
  <2>5. CASE WorkerResume(c)
    BY <1>1, <2>5 DEF WorkerResume, Sleeps
  <2>6. CASE ClearPending(c) \/ CallFlush(c) \/ FinishWork(c) \/ FlushSelf(c)
    <3>1. Running(c)
      BY <2>6, FlushOfFacts DEF ClearPending, CallFlush, FinishWork, Returned, FlushSelf
    <3>2. pc[c] = "run"
      BY <1>2, <3>1 DEF WorkerOf, Running
    <3>3. pc' = pc \/ pc' = [pc EXCEPT ![c] = "set"]
      BY <2>6 DEF ClearPending, CallFlush, FinishWork, NextOrReturn, FlushSelf
    <3>4. pc'[c] \notin {"check", "sleep"}
      BY <1>1, <3>2, <3>3
    <3> QED
      BY <3>4 DEF Sleeps
  <2> QED
    BY <2>1, <2>2, <2>3, <2>4, <2>5, <2>6 DEF Worker
<1> QED
  BY <1>6, <1>7 DEF WorkersSleep

LEMMA SleepInit == Init => WorkersSleep
  BY DEF Init, WorkersSleep, Sleeps

LEMMA SleepNext == TypeOK /\ HotInv /\ WorkersSleep /\ [Next]_vars => WorkersSleep'
<1> SUFFICES ASSUME TypeOK, HotInv, WorkersSleep, [Next]_vars PROVE WorkersSleep'
  OBVIOUS
<1>1. /\ pc \in [CPU -> WorkerPC] /\ tstate \in [CPU -> {"RUNNING", "INTERRUPTIBLE"}]
      /\ list \in [CPU -> Seq(Entry)] /\ stop \in [CPU -> BOOLEAN]
      /\ hp.cpu \in CPU /\ hp.on \in CPU
  BY DEF TypeOK
<1>2. ASSUME pc' = pc, tstate' = tstate, stop' = stop,
             \A c \in CPU : list[c] = <<>> => list'[c] = <<>>
      PROVE  WorkersSleep'
  BY <1>2 DEF WorkersSleep, Sleeps
<1>3. ASSUME NEW w \in Work, NEW c \in CPU,
             \/ QueueWork(w, c) \/ QueueDelayedWork(w, c) \/ DelayedWorkTimer(w, c)
             \/ CancelDelayedWork(w, c) \/ CancelClear(w, c)
      PROVE  WorkersSleep'
  BY <1>2, <1>3 DEF QueueWork, QueueDelayedWork, DelayedWorkTimer, CancelDelayedWork, CancelClear
<1>4. ASSUME NEW w \in Work, NEW c \in CPU, DoQueueWork(w, c) PROVE WorkersSleep'
  <2>1. /\ pc' = pc /\ stop' = stop /\ (\A d \in CPU : d # c => list'[d] = list[d])
        /\ tstate' = IF OnMoreWork(c) THEN [tstate EXCEPT ![c] = "RUNNING"] ELSE tstate
    BY <1>1, <1>4 DEF DoQueueWork, AddTail, WakeWorker
  <2>2. \A d \in CPU : d # c => Sleeps(d)'
    BY <1>1, <2>1 DEF WorkersSleep, Sleeps
  <2>3. Sleeps(c)'
    BY <1>1, <2>1 DEF Sleeps, OnMoreWork
  <2> QED
    BY <2>2, <2>3 DEF WorkersSleep
<1>5. ASSUME NEW f \in Flusher, FlushStart(f) PROVE WorkersSleep'
  BY <1>2, <1>5 DEF FlushStart
<1>6. ASSUME NEW t \in Flusher \cup CPU, Flush(t) PROVE WorkersSleep'
  <2>1. pc' = pc /\ tstate' = tstate /\ stop' = stop
    BY <1>6 DEF Flush, FlushLock, FlushCpu, FlushRetry, FlushReturn
  <2>2. \A c \in CPU : list[c] = <<>> => list'[c] = <<>>
    <3>1. list' = list \/ (t \in Flusher /\ OweAll(t))
      BY <1>6 DEF Flush, FlushLock, FlushCpu, FlushRetry, FlushReturn
    <3>2. CASE t \in Flusher /\ OweAll(t)
      <4>1. /\ list' \in [CPU -> Seq(Entry)]
            /\ \A c \in CPU : Len(list'[c]) = Len(list[c])
        BY <3>2, OweFacts DEF SameEntries
      <4>2. \A c \in CPU : list[c] \in Seq(Entry) /\ list'[c] \in Seq(Entry)
        BY <1>1, <4>1
      <4> QED
        BY <4>1, <4>2, EmptySeq
    <3> QED
      BY <3>1, <3>2
  <2> QED
    BY <1>2, <2>1, <2>2
<1>7. ASSUME NEW c \in CPU, NEW d \in CPU, CpuDown(c, d) PROVE WorkersSleep'
  BY <1>2, <1>7 DEF CpuDown
<1>8. ASSUME NEW c \in CPU, CpuUpPrepare(c) PROVE WorkersSleep'
  <2>1. /\ pc' = [pc EXCEPT ![c] = "created"] /\ stop' = stop /\ tstate' = tstate
        /\ list' = [list EXCEPT ![c] = <<>>]
    BY <1>8 DEF CpuUpPrepare
  <2> QED
    BY <1>1, <2>1 DEF WorkersSleep, Sleeps
<1>9. CASE CpuDead
  <2>1. /\ stop' = [stop EXCEPT ![hp.cpu] = TRUE] /\ list' = list
        /\ tstate' = [tstate EXCEPT ![hp.cpu] = "RUNNING"]
        /\ pc' = IF pc[hp.cpu] = "created" THEN [pc EXCEPT ![hp.cpu] = "none"] ELSE pc
    BY <1>9 DEF CpuDead, KthreadStop
  <2>2. \A d \in CPU : d # hp.cpu => Sleeps(d)'
    BY <1>1, <2>1 DEF WorkersSleep, Sleeps
  <2>3. tstate'[hp.cpu] = "RUNNING"
    BY <1>1, <2>1
  <2>4. \A d \in CPU : d = hp.cpu => Sleeps(d)'
    BY <2>3 DEF Sleeps
  <2> QED
    BY <2>2, <2>4 DEF WorkersSleep
<1>10. CASE CpuStopped
  <2>1. stop' = [stop EXCEPT ![hp.cpu] = FALSE] /\ list' = list /\ tstate' = tstate /\ pc' = pc
    BY <1>10 DEF CpuStopped
  <2> QED
    BY <1>1, <2>1 DEF WorkersSleep, Sleeps
<1>11. CASE TakeOverOne
  <2>1. /\ pc' = pc /\ stop' = stop /\ hp.stage = "takeover"
        /\ \A d \in CPU : d # hp.on /\ d # hp.cpu => list'[d] = list[d]
        /\ tstate' = IF OnMoreWork(hp.on) THEN [tstate EXCEPT ![hp.on] = "RUNNING"] ELSE tstate
    BY <1>1, <1>11 DEF TakeOverOne, WakeWorker
  <2>2. pc[hp.cpu] = "none"
    BY <2>1 DEF HotInv, HpCpu
  <2>3. \A d \in CPU : d # hp.on /\ d # hp.cpu => Sleeps(d)'
    BY <1>1, <2>1 DEF WorkersSleep, Sleeps
  <2>4. \A d \in CPU : d = hp.cpu => Sleeps(d)'
    BY <2>1, <2>2 DEF Sleeps
  <2>5. pc[hp.on] \in {"check", "sleep"} => tstate'[hp.on] = "RUNNING"
    BY <1>1, <2>1 DEF OnMoreWork
  <2>6. \A d \in CPU : d = hp.on => Sleeps(d)'
    BY <2>1, <2>5 DEF Sleeps
  <2> QED
    BY <2>3, <2>4, <2>6 DEF WorkersSleep
<1>12. CASE TakeOverDone \/ CpuUp
  BY <1>2, <1>12 DEF TakeOverDone, CpuUp
<1>13. CASE CpuOnline \/ CpuUpCanceled
  <2>1. /\ list' = list /\ tstate' = tstate /\ stop' = stop
        /\ pc' = [pc EXCEPT ![hp.cpu] = "set"] \/ pc' = [pc EXCEPT ![hp.cpu] = "none"]
    BY <1>13 DEF CpuOnline, CpuUpCanceled
  <2> QED
    BY <1>1, <2>1 DEF WorkersSleep, Sleeps
<1>14. CASE UNCHANGED vars
  BY <1>2, <1>14 DEF vars
<1> QED
  BY <1>3, <1>4, <1>5, <1>6, <1>7, <1>8, <1>9, <1>10, <1>11, <1>12, <1>13, <1>14, SleepWorker
     DEF Next, HotplugStep

LEMMA WakeupFacts == TypeOK /\ WorkersSleep /\ FlushesWait => NoLostWakeup
<1> SUFFICES ASSUME TypeOK, WorkersSleep, FlushesWait PROVE NoLostWakeup
  OBVIOUS
<1>1. \A c \in CPU : pc[c] = "sleep" /\ tstate[c] # "RUNNING" => list[c] = <<>> /\ ~stop[c]
  BY DEF WorkersSleep, Sleeps
<1>2. ASSUME NEW t \in Flusher \cup CPU, FlushOf(t).stage = "wait"
      PROVE  Behind(FlushOf(t).needed, Min(FlushOf(t).todo))
  BY <1>2, WaitingOf, BehindAhead DEF Waiting
<1> QED
  BY <1>1, <1>2 DEF NoLostWakeup

\* No wakeup is lost: the order of set_current_state, the test of the list and schedule()
\* in worker_thread, and of remove_sequence++ and wake_up in run_workqueue, never leave a
\* worker asleep beside a queue, nor a flush asleep whose sequence has been reached.
THEOREM NoLostWakeupHolds == Spec => []NoLostWakeup
<1> QED
  BY TypeCorrect, HotInit, HotNext, LockInit, LockNext, WaitInit, WaitNext, SleepInit, SleepNext,
     WakeupFacts, PTL DEF Spec

-----------------------------------------------------------------------------
(* Who owns a work whose pending bit is set *)

Lists == [CPU -> Seq(Entry)]
Kinds == {"queue", "timer", "cancel"}

\* Work w is at position i of the queue of CPU c, in the queues l; it has been taken by
\* frame i of c, in the stacks s.
OnQueue(l, w, c, i) == i \in DOMAIN l[c] /\ l[c][i].work = w
IsTaken(s, w, c, i) == i \in DOMAIN s[c] /\ s[c][i].work = w /\ s[c][i].taken

\* No party of a kind has the work ...
NoClaim(m, w) == \A k \in Kinds, c \in CPU : <<w, k, c>> \notin m
NoQueue(l, w) == \A c \in CPU, i \in Nat : ~OnQueue(l, w, c, i)
NoTaken(s, w) == \A c \in CPU, i \in Nat : ~IsTaken(s, w, c, i)

\* ... or exactly one has it, at one place.
ClaimAt(m, w, k, c) == \A x \in Kinds, d \in CPU : <<w, x, d>> \in m <=> x = k /\ d = c
QueueAt(l, w, c, i) == \A d \in CPU, j \in Nat : OnQueue(l, w, d, j) <=> d = c /\ j = i
TakenAt(s, w, c, i) == \A d \in CPU, j \in Nat : IsTaken(s, w, d, j) <=> d = c /\ j = i
OneClaim(m, w) == \E k \in Kinds, c \in CPU : ClaimAt(m, w, k, c)
OneQueue(l, w) == \E c \in CPU, i \in Nat : QueueAt(l, w, c, i)
OneTaken(s, w) == \E c \in CPU, i \in Nat : TakenAt(s, w, c, i)

\* The bit is clear and nobody has the work, or it is set and one party has it.
Owned(w) ==
    \/ ~pending[w] /\ NoClaim(claims, w) /\ NoQueue(list, w) /\ NoTaken(stack, w)
    \/ pending[w] /\ OneClaim(claims, w) /\ NoQueue(list, w) /\ NoTaken(stack, w)
    \/ pending[w] /\ NoClaim(claims, w) /\ OneQueue(list, w) /\ NoTaken(stack, w)
    \/ pending[w] /\ NoClaim(claims, w) /\ NoQueue(list, w) /\ OneTaken(stack, w)

OwnInv == \A w \in Work : Owned(w)

\* A kind of party is left as it is, for work w.
SameClaim(m, n, w) == (NoClaim(m, w) => NoClaim(n, w)) /\ (OneClaim(m, w) => OneClaim(n, w))
SameQueue(l, m, w) == (NoQueue(l, w) => NoQueue(m, w)) /\ (OneQueue(l, w) => OneQueue(m, w))
SameTaken(s, r, w) == (NoTaken(s, w) => NoTaken(r, w)) /\ (OneTaken(s, w) => OneTaken(r, w))

LEMMA SameRefl == \A m, w : SameClaim(m, m, w) /\ SameQueue(m, m, w) /\ SameTaken(m, m, w)
  BY DEF SameClaim, SameQueue, SameTaken

LEMMA OwnedKept ==
    ASSUME NEW w \in Work, Owned(w), pending'[w] = pending[w],
           SameClaim(claims, claims', w), SameQueue(list, list', w), SameTaken(stack, stack', w)
    PROVE  Owned(w)'
  BY DEF Owned, SameClaim, SameQueue, SameTaken

\* Conditions under which a kind is left as it is.
LEMMA ClaimKept ==
    ASSUME NEW m, NEW n, NEW w,
           \A k \in Kinds, c \in CPU : <<w, k, c>> \in n <=> <<w, k, c>> \in m
    PROVE  SameClaim(m, n, w)
  BY DEF SameClaim, NoClaim, OneClaim, ClaimAt

LEMMA QueueKept ==
    ASSUME NEW l, NEW m, NEW w,
           \A c \in CPU, i \in Nat : OnQueue(m, w, c, i) <=> OnQueue(l, w, c, i)
    PROVE  SameQueue(l, m, w)
  BY DEF SameQueue, NoQueue, OneQueue, QueueAt

LEMMA TakenKept ==
    ASSUME NEW s, NEW r, NEW w,
           \A c \in CPU, i \in Nat : IsTaken(r, w, c, i) <=> IsTaken(s, w, c, i)
    PROVE  SameTaken(s, r, w)
  BY DEF SameTaken, NoTaken, OneTaken, TakenAt

\* A party that has the work is the only one.
LEMMA OnlyClaim ==
    ASSUME NEW w, Owned(w), NEW k \in Kinds, NEW c \in CPU, <<w, k, c>> \in claims
    PROVE  pending[w] /\ ClaimAt(claims, w, k, c) /\ NoQueue(list, w) /\ NoTaken(stack, w)
<1>1. ~NoClaim(claims, w)
  BY DEF NoClaim
<1>2. pending[w] /\ OneClaim(claims, w) /\ NoQueue(list, w) /\ NoTaken(stack, w)
  BY <1>1 DEF Owned
<1>3. PICK x \in Kinds, d \in CPU : ClaimAt(claims, w, x, d)
  BY <1>2 DEF OneClaim
<1>4. x = k /\ d = c
  BY <1>3 DEF ClaimAt
<1> QED
  BY <1>2, <1>3, <1>4

LEMMA OnlyQueue ==
    ASSUME NEW w, Owned(w), NEW c \in CPU, NEW i \in Nat, OnQueue(list, w, c, i)
    PROVE  pending[w] /\ NoClaim(claims, w) /\ QueueAt(list, w, c, i) /\ NoTaken(stack, w)
<1>1. ~NoQueue(list, w)
  BY DEF NoQueue
<1>2. pending[w] /\ NoClaim(claims, w) /\ OneQueue(list, w) /\ NoTaken(stack, w)
  BY <1>1 DEF Owned
<1>3. PICK d \in CPU, j \in Nat : QueueAt(list, w, d, j)
  BY <1>2 DEF OneQueue
<1>4. d = c /\ j = i
  BY <1>3 DEF QueueAt
<1> QED
  BY <1>2, <1>3, <1>4

LEMMA OnlyTaken ==
    ASSUME NEW w, Owned(w), NEW c \in CPU, NEW i \in Nat, IsTaken(stack, w, c, i)
    PROVE  pending[w] /\ NoClaim(claims, w) /\ NoQueue(list, w) /\ TakenAt(stack, w, c, i)
<1>1. ~NoTaken(stack, w)
  BY DEF NoTaken
<1>2. pending[w] /\ NoClaim(claims, w) /\ NoQueue(list, w) /\ OneTaken(stack, w)
  BY <1>1 DEF Owned
<1>3. PICK d \in CPU, j \in Nat : TakenAt(stack, w, d, j)
  BY <1>2 DEF OneTaken
<1>4. d = c /\ j = i
  BY <1>3 DEF TakenAt
<1> QED
  BY <1>2, <1>3, <1>4

\* list_add_tail puts the work of e, and no other, on the queue of c.
LEMMA AppendQ ==
    ASSUME NEW l \in Lists, NEW c \in CPU, NEW e \in Entry,
           NEW m, m = [l EXCEPT ![c] = Append(l[c], e)]
    PROVE  /\ m \in Lists
           /\ \A u : u # e.work => SameQueue(l, m, u)
           /\ NoQueue(l, e.work) => OneQueue(m, e.work)
<1>1. l[c] \in Seq(Entry)
  BY DEF Lists
<1>2. PICK n \in Nat : n = Len(l[c]) /\ DOMAIN l[c] = 1..n
  BY <1>1
<1>3. PICK q : q = Append(l[c], e)
  OBVIOUS
<1>4. /\ q \in Seq(Entry) /\ DOMAIN q = 1..n + 1 /\ q[n + 1] = e
      /\ \A i \in 1..n : q[i] = l[c][i]
  BY <1>1, <1>2, <1>3, PushFacts
<1>5. m = [l EXCEPT ![c] = q]
  BY <1>3
<1>6. m \in Lists /\ m[c] = q /\ \A d \in CPU : d # c => m[d] = l[d]
  BY <1>4, <1>5 DEF Lists
<1>7. ASSUME NEW u, NEW d \in CPU, NEW i \in Nat, ~(d = c /\ i = n + 1)
      PROVE  OnQueue(m, u, d, i) <=> OnQueue(l, u, d, i)
  <2>1. CASE d # c
    BY <1>6, <2>1 DEF OnQueue
  <2>2. CASE d = c
    <3>1. i \in 1..n + 1 <=> i \in 1..n
      BY <1>7, <2>2
    <3> QED
      BY <1>2, <1>4, <1>6, <2>2, <3>1 DEF OnQueue
  <2> QED
    BY <2>1, <2>2
<1>8. n + 1 \in Nat /\ n + 1 \in 1..n + 1 /\ n + 1 \notin 1..n
  OBVIOUS
<1>9. \A u : ~OnQueue(l, u, c, n + 1) /\ (OnQueue(m, u, c, n + 1) <=> e.work = u)
  BY <1>2, <1>4, <1>6, <1>8 DEF OnQueue
<1>10. ASSUME NEW u, u # e.work PROVE SameQueue(l, m, u)
  <2>1. \A d \in CPU, i \in Nat : OnQueue(m, u, d, i) <=> OnQueue(l, u, d, i)
    BY <1>7, <1>9, <1>10
  <2> QED
    BY <2>1, QueueKept
<1>11. ASSUME NoQueue(l, e.work) PROVE OneQueue(m, e.work)
  <2>1. PICK k \in Nat : k = n + 1
    BY <1>8
  <2>2. \A d \in CPU, i \in Nat : OnQueue(m, e.work, d, i) <=> d = c /\ i = k
    BY <1>7, <1>9, <1>11, <2>1 DEF NoQueue
  <2> QED
    BY <2>2 DEF OneQueue, QueueAt
<1> QED
  BY <1>6, <1>10, <1>11

\* The first entry leaves the queue of c: the other works stay in the queues.
LEMMA TailQ ==
    ASSUME NEW l \in Lists, NEW c \in CPU, l[c] # <<>>,
           NEW m, m = [l EXCEPT ![c] = Tail(l[c])]
    PROVE  /\ m \in Lists
           /\ \A u : ~OnQueue(l, u, c, 1) => SameQueue(l, m, u)
           /\ \A u : QueueAt(l, u, c, 1) => NoQueue(m, u)
           /\ OnQueue(l, Head(l[c]).work, c, 1)
           /\ \A u : OnQueue(l, u, c, 1) => u = Head(l[c]).work
<1>1. l[c] \in Seq(Entry)
  BY DEF Lists
<1>2. PICK n \in Nat : n > 0 /\ n = Len(l[c]) /\ DOMAIN l[c] = 1..n /\ Head(l[c]) = l[c][1]
  BY <1>1, TailFacts
<1>3. PICK q : q = Tail(l[c])
  OBVIOUS
<1>4. q \in Seq(Entry) /\ DOMAIN q = 1..n - 1 /\ \A i \in 1..n - 1 : q[i] = l[c][i + 1]
  <2>1. q \in Seq(Entry) /\ Len(q) = n - 1 /\ \A i \in 1..n - 1 : q[i] = l[c][i + 1]
    BY <1>1, <1>2, <1>3, TailFacts
  <2>2. DOMAIN q = 1..Len(q)
    BY <2>1
  <2> QED
    BY <2>1, <2>2
<1>5. m = [l EXCEPT ![c] = q]
  BY <1>3
<1>6. m \in Lists /\ m[c] = q /\ \A d \in CPU : d # c => m[d] = l[d]
  BY <1>4, <1>5 DEF Lists
<1>7. ASSUME NEW u, NEW i \in Nat, OnQueue(m, u, c, i)
      PROVE  i # 0 /\ i + 1 \in Nat /\ OnQueue(l, u, c, i + 1)
  <2>1. i \in 1..n - 1 /\ q[i].work = u
    BY <1>4, <1>6, <1>7 DEF OnQueue
  <2>2. i + 1 \in 1..n /\ i # 0 /\ l[c][i + 1].work = u
    BY <1>2, <1>4, <2>1
  <2> QED
    BY <1>2, <2>2 DEF OnQueue
<1>8. ASSUME NEW u, NEW i \in Nat, OnQueue(l, u, c, i), i # 1
      PROVE  i - 1 \in Nat /\ OnQueue(m, u, c, i - 1)
  <2>1. i \in 1..n /\ l[c][i].work = u
    BY <1>2, <1>8 DEF OnQueue
  <2>2. i - 1 \in 1..n - 1 /\ (i - 1) + 1 = i
    BY <1>2, <1>8, <2>1
  <2>3. q[i - 1].work = u
    BY <1>4, <2>1, <2>2
  <2> QED
    BY <1>4, <1>6, <2>2, <2>3 DEF OnQueue
<1>9. \A u : \A d \in CPU, i \in Nat : d # c => (OnQueue(m, u, d, i) <=> OnQueue(l, u, d, i))
  BY <1>6 DEF OnQueue
<1>10. ASSUME NEW u, ~OnQueue(l, u, c, 1) PROVE SameQueue(l, m, u)
  <2>1. NoQueue(l, u) => NoQueue(m, u)
    BY <1>7, <1>9 DEF NoQueue
  <2>2. ASSUME OneQueue(l, u) PROVE OneQueue(m, u)
    <3>1. PICK e \in CPU, k \in Nat :
             \A d \in CPU, j \in Nat : OnQueue(l, u, d, j) <=> d = e /\ j = k
      BY <2>2 DEF OneQueue, QueueAt
    <3>2. CASE e = c
      <4>1. OnQueue(l, u, c, k) /\ k # 1
        BY <1>10, <3>1, <3>2
      <4>2. PICK h \in Nat : h = k - 1
        BY <1>8, <4>1
      <4>3. OnQueue(m, u, c, h)
        BY <1>8, <4>1, <4>2
      <4>4. ASSUME NEW d \in CPU, NEW j \in Nat, OnQueue(m, u, d, j)
            PROVE  d = c /\ j = h
        <5>1. d = c
          BY <1>9, <3>1, <3>2, <4>4
        <5>2. j + 1 \in Nat /\ OnQueue(l, u, c, j + 1)
          BY <1>7, <4>4, <5>1
        <5>3. j + 1 = k
          BY <3>1, <5>2
        <5> QED
          BY <4>2, <5>1, <5>3
      <4>5. QueueAt(m, u, c, h)
        BY <4>3, <4>4 DEF QueueAt
      <4> QED
        BY <4>5 DEF OneQueue
    <3>3. CASE e # c
      <4>1. \A j \in Nat : ~OnQueue(m, u, c, j)
        BY <1>7, <3>1, <3>3
      <4>2. QueueAt(m, u, e, k)
        BY <1>9, <3>1, <3>3, <4>1 DEF QueueAt
      <4> QED
        BY <4>2 DEF OneQueue
    <3> QED
      BY <3>2, <3>3
  <2> QED
    BY <2>1, <2>2 DEF SameQueue
<1>11. ASSUME NEW u, QueueAt(l, u, c, 1) PROVE NoQueue(m, u)
  <2> SUFFICES ASSUME NEW d \in CPU, NEW j \in Nat, OnQueue(m, u, d, j) PROVE FALSE
    BY DEF NoQueue
  <2>1. d = c
    BY <1>9, <1>11 DEF QueueAt
  <2>2. j # 0 /\ j + 1 \in Nat /\ OnQueue(l, u, c, j + 1)
    BY <1>7, <2>1
  <2>3. j + 1 = 1
    BY <1>11, <2>2 DEF QueueAt
  <2> QED
    BY <2>2, <2>3
<1>12. \A u : OnQueue(l, u, c, 1) <=> Head(l[c]).work = u
  BY <1>2 DEF OnQueue
<1> QED
  BY <1>6, <1>10, <1>11, <1>12

\* The frames of the stacks r and s agree on what is taken, but for frame k of c.
TakenElsewhere(r, s, c, k) ==
    \A u : \A d \in CPU, i \in Nat :
        ~(d = c /\ i = k) => (IsTaken(r, u, d, i) <=> IsTaken(s, u, d, i))

\* A frame that has taken w comes, or goes.
LEMMA TakenComes ==
    ASSUME NEW r, NEW s, NEW c \in CPU, NEW k \in Nat, NEW w, TakenElsewhere(r, s, c, k),
           \A u : ~IsTaken(s, u, c, k), \A u : IsTaken(r, u, c, k) <=> u = w
    PROVE  (\A u : u # w => SameTaken(s, r, u)) /\ (NoTaken(s, w) => OneTaken(r, w))
<1>1. ASSUME NEW u, u # w PROVE SameTaken(s, r, u)
  <2>1. \A d \in CPU, i \in Nat : IsTaken(r, u, d, i) <=> IsTaken(s, u, d, i)
    BY <1>1 DEF TakenElsewhere
  <2> QED
    BY <2>1, TakenKept
<1>2. ASSUME NoTaken(s, w) PROVE OneTaken(r, w)
  <2>1. TakenAt(r, w, c, k)
    BY <1>2 DEF TakenElsewhere, NoTaken, TakenAt
  <2> QED
    BY <2>1 DEF OneTaken
<1> QED
  BY <1>1, <1>2

LEMMA TakenGoes ==
    ASSUME NEW r, NEW s, NEW c \in CPU, NEW k \in Nat, NEW w, TakenElsewhere(r, s, c, k),
           \A u : ~IsTaken(r, u, c, k), \A u : IsTaken(s, u, c, k) => u = w
    PROVE  (\A u : u # w => SameTaken(s, r, u)) /\ (TakenAt(s, w, c, k) => NoTaken(r, w))
<1>1. ASSUME NEW u, u # w PROVE SameTaken(s, r, u)
  <2>1. \A d \in CPU, i \in Nat : IsTaken(r, u, d, i) <=> IsTaken(s, u, d, i)
    BY <1>1 DEF TakenElsewhere
  <2> QED
    BY <2>1, TakenKept
<1>2. ASSUME TakenAt(s, w, c, k) PROVE NoTaken(r, w)
  BY <1>2 DEF TakenElsewhere, NoTaken, TakenAt
<1> QED
  BY <1>1, <1>2

\* run_workqueue takes the first work of the queue of c into a new frame, frame k.
TookHead(c, k) ==
    /\ list[c] # <<>> /\ list' = [list EXCEPT ![c] = Tail(list[c])]
    /\ claims' = claims /\ pending' = pending
    /\ TakenElsewhere(stack', stack, c, k)
    /\ \A u : ~IsTaken(stack, u, c, k)
    /\ \A u : IsTaken(stack', u, c, k) <=> u = Head(list[c]).work

LEMMA OwnTake ==
    ASSUME TypeOK, OwnInv, NEW c \in CPU, NEW k \in Nat, TookHead(c, k)
    PROVE  OwnInv'
<1>0. PICK w : w = Head(list[c]).work
  OBVIOUS
<1>1. list \in Lists
  BY DEF TypeOK, Lists
<1>2. /\ \A u : ~OnQueue(list, u, c, 1) => SameQueue(list, list', u)
      /\ \A u : QueueAt(list, u, c, 1) => NoQueue(list', u)
      /\ OnQueue(list, w, c, 1) /\ \A u : OnQueue(list, u, c, 1) => u = w
  BY <1>0, <1>1, TailQ DEF TookHead
<1>3. (\A u : u # w => SameTaken(stack, stack', u)) /\ (NoTaken(stack, w) => OneTaken(stack', w))
  BY <1>0, TakenComes DEF TookHead
<1>4. claims' = claims /\ pending' = pending
  BY DEF TookHead
<1>5. ASSUME NEW u \in Work PROVE Owned(u)'
  <2>1. Owned(u)
    BY DEF OwnInv
  <2>2. CASE u # w
    <3>1. SameQueue(list, list', u) /\ SameTaken(stack, stack', u)
      BY <1>2, <1>3, <2>2
    <3>2. SameClaim(claims, claims', u) /\ pending'[u] = pending[u]
      BY <1>4, SameRefl
    <3> QED
      BY <2>1, <3>1, <3>2, OwnedKept
  <2>3. CASE u = w
    <3>1. pending[u] /\ NoClaim(claims, u) /\ QueueAt(list, u, c, 1) /\ NoTaken(stack, u)
      BY <1>2, <2>1, <2>3, OnlyQueue
    <3>2. NoQueue(list', u) /\ OneTaken(stack', u)
      BY <1>2, <1>3, <2>3, <3>1
    <3>3. pending'[u] /\ NoClaim(claims', u)
      BY <1>4, <3>1
    <3> QED
      BY <3>2, <3>3 DEF Owned
  <2> QED
    BY <2>2, <2>3
<1> QED
  BY <1>5 DEF OwnInv

\* Nothing that owns a work is touched.
LEMMA OwnSame ==
    ASSUME OwnInv, claims' = claims, pending' = pending,
           \A u \in Work : SameQueue(list, list', u) /\ SameTaken(stack, stack', u)
    PROVE  OwnInv'
<1>1. ASSUME NEW u \in Work PROVE Owned(u)'
  <2>1. SameClaim(claims, claims', u) /\ pending'[u] = pending[u]
    BY SameRefl
  <2> QED
    BY <2>1, OwnedKept DEF OwnInv
<1> QED
  BY <1>1 DEF OwnInv

\* A flush call changes nothing of that.
LEMMA TakenNewTop ==
    ASSUME TypeOK, NEW c \in CPU, Running(c), NEW g, NewTop(c, g), g.work = Top(c).work,
           g.taken = Top(c).taken
    PROVE  \A u : SameTaken(stack, stack', u)
<1>1. \A u : \A d \in CPU, i \in Nat : IsTaken(stack', u, d, i) <=> IsTaken(stack, u, d, i)
  BY TopFacts DEF NewTop, IsTaken
<1> QED
  BY <1>1, TakenKept

LEMMA OwnSetFlush ==
    ASSUME TypeOK, OwnInv, NEW t \in Flusher \cup CPU, NEW r \in FlushCall, SetFlush(t, r),
           t \in CPU => Running(t), claims' = claims, pending' = pending, list' = list
    PROVE  OwnInv'
<1>1. \A u : SameQueue(list, list', u)
  BY SameRefl
<1>2. CASE t \in CPU
  <2>1. PICK g \in Frame : NewTop(t, g) /\ g.work = Top(t).work /\ g.taken = Top(t).taken
    BY <1>2, SetFlushFacts
  <2>2. \A u : SameTaken(stack, stack', u)
    BY <1>2, <2>1, TakenNewTop
  <2> QED
    BY <1>1, <2>2, OwnSame
<1>3. CASE t \notin CPU
  <2>1. stack' = stack
    BY <1>3, SetFlushFacts
  <2>2. \A u : SameTaken(stack, stack', u)
    BY <2>1, SameRefl
  <2> QED
    BY <1>1, <2>2, OwnSame
<1> QED
  BY <1>2, <1>3

\* Nor does a wakeup.
LEMMA WokenTaken ==
    ASSUME NEW r, NEW s, NEW c, NEW d, NEW i, i \in DOMAIN s[d], WokenFrame(r, s, c, d, i)
    PROVE  \A u : IsTaken(r, u, d, i) <=> IsTaken(s, u, d, i)
  BY DEF WokenFrame, IsTaken

LEMMA WokenTakenAll ==
    ASSUME NEW r, NEW s, NEW c, NEW d, WokenOther(r, s, c, d)
    PROVE  \A u : \A i \in Nat : IsTaken(r, u, d, i) <=> IsTaken(s, u, d, i)
  BY DEF WokenOther, WokenFrame, IsTaken

\* A function has returned: the next work is taken into its frame, or the frame goes.
LEMMA TookFinish ==
    ASSUME TypeOK, NEW c \in CPU, FinishWork(c), NEW n, n = Len(stack[c])
    PROVE  /\ claims' = claims /\ pending' = pending
           /\ NextTaken(c, n) => TookHead(c, n)
           /\ LoopEnds(c, n) => \A u : SameTaken(stack, stack', u)
<1>1. n = Len(stack[c])
  OBVIOUS
<1>2. n \in Nat /\ n > 0 /\ Finished(c, n)
  BY <1>1, FinishFacts
<1>3. Running(c) /\ ~Top(c).taken /\ claims' = claims /\ pending' = pending
  BY DEF FinishWork, Returned
<1>4. DOMAIN stack[c] = 1..n /\ Top(c) = stack[c][n]
  BY <1>1, <1>3, TopFacts
<1>5. \A u : ~IsTaken(stack, u, c, n)
  BY <1>3, <1>4 DEF IsTaken
<1>6. PICK h : h = Len(stack'[c])
  OBVIOUS
<1>7. DOMAIN stack'[c] = 1..h /\ h \in Nat
  BY <1>2, <1>6, StackShape DEF Finished
<1>8. \A u : \A d \in CPU, i \in Nat : d # c => (IsTaken(stack', u, d, i) <=> IsTaken(stack, u, d, i))
  BY <1>2, WokenTakenAll DEF Finished
<1>9. \A i \in 1..n-2 : i \in 1..n /\ i \in Nat
  BY <1>2
<1>10. \A u : \A i \in 1..n-2 : IsTaken(stack', u, c, i) <=> IsTaken(stack, u, c, i)
  BY <1>2, <1>4, <1>9, WokenTaken DEF Finished
<1>11. n > 1 => n - 1 \in 1..n
  BY <1>2
<1>12. ASSUME NextTaken(c, n) PROVE TookHead(c, n)
  <2>1. h = n
    BY <1>6, <1>12 DEF NextTaken
  <2>2. n > 1 => \A u : IsTaken(stack', u, c, n-1) <=> IsTaken(stack, u, c, n-1)
    BY <1>4, <1>11, <1>12, WokenTaken DEF NextTaken
  <2>3. ASSUME NEW u, NEW i \in Nat, i # n
        PROVE  IsTaken(stack', u, c, i) <=> IsTaken(stack, u, c, i)
    <3>1. i \in 1..n-2 \/ (n > 1 /\ i = n - 1) \/ i \notin 1..n
      BY <1>2, <2>3
    <3>2. CASE i \notin 1..n
      BY <1>4, <1>7, <2>1, <3>2 DEF IsTaken
    <3> QED
      BY <1>10, <2>2, <3>1, <3>2
  <2>4. TakenElsewhere(stack', stack, c, n)
    BY <1>8, <2>3 DEF TakenElsewhere
  <2>5. n \in DOMAIN stack'[c]
    BY <1>2, <1>7, <2>1
  <2>6. \A u : IsTaken(stack', u, c, n) <=> u = Head(list[c]).work
    BY <1>12, <2>5 DEF NextTaken, IsTaken
  <2> QED
    BY <1>3, <1>5, <1>12, <2>4, <2>6 DEF TookHead, NextTaken
<1>13. ASSUME LoopEnds(c, n) PROVE \A u : SameTaken(stack, stack', u)
  <2>1. h = n - 1
    BY <1>6, <1>13 DEF LoopEnds
  <2>2. n > 1 => n - 1 \in DOMAIN stack'[c] /\ n - 1 \in DOMAIN stack[c]
    BY <1>2, <1>4, <1>7, <2>1
  <2>3. n > 1 => \A u : IsTaken(stack', u, c, n-1) <=> IsTaken(stack, u, c, n-1)
    BY <1>13, <2>2 DEF LoopEnds, IsTaken
  <2>4. n \notin 1..h
    BY <1>2, <2>1
  <2>5. \A u : ~IsTaken(stack', u, c, n)
    BY <1>7, <2>4 DEF IsTaken
  <2>6. ASSUME NEW u, NEW i \in Nat
        PROVE  IsTaken(stack', u, c, i) <=> IsTaken(stack, u, c, i)
    <3>1. i \in 1..n-2 \/ (n > 1 /\ i = n - 1) \/ i = n \/ (i \notin 1..n /\ i \notin 1..h)
      BY <1>2, <2>1
    <3>2. CASE i \notin 1..n /\ i \notin 1..h
      BY <1>4, <1>7, <3>2 DEF IsTaken
    <3> QED
      BY <1>5, <1>10, <2>3, <2>5, <3>1, <3>2
  <2> QED
    BY <1>8, <2>6, TakenKept
<1> QED
  BY <1>3, <1>12, <1>13

LEMMA OwnFinish ==
    ASSUME TypeOK, OwnInv, NEW c \in CPU, FinishWork(c)
    PROVE  OwnInv'
<1>1. PICK n : n = Len(stack[c])
  OBVIOUS
<1>2. n \in Nat /\ Finished(c, n)
  BY <1>1, FinishFacts
<1>3. CASE NextTaken(c, n)
  BY <1>1, <1>2, <1>3, TookFinish, OwnTake
<1>4. CASE LoopEnds(c, n)
  <2>1. \A u : SameQueue(list, list', u)
    BY <1>4, SameRefl DEF LoopEnds
  <2> QED
    BY <1>1, <1>4, <2>1, TookFinish, OwnSame
<1> QED
  BY <1>2, <1>3, <1>4 DEF Finished

\* The worker starts to run its queue, from worker_thread or by hand.
LEMMA TookFirst ==
    ASSUME TypeOK, NEW c \in CPU, WorkerOf(c), WorkerResume(c), list[c] # <<>>
    PROVE  TookHead(c, 1)
<1>1. First(c) /\ stack[c] = <<>> /\ claims' = claims /\ pending' = pending
  BY FirstFacts DEF WorkerOf, WorkerResume
<1>2. Len(stack'[c]) = 1 /\ DOMAIN stack'[c] = 1..Len(stack'[c]) /\ DOMAIN stack[c] = {}
  BY <1>1, StackShape DEF First
<1>3. DOMAIN stack'[c] = 1..1
  BY <1>2
<1>4. \A u : \A i \in Nat : ~IsTaken(stack, u, c, i) /\ (i # 1 => ~IsTaken(stack', u, c, i))
  BY <1>2, <1>3 DEF IsTaken
<1>5. \A u : IsTaken(stack', u, c, 1) <=> u = Head(list[c]).work
  BY <1>1, <1>3 DEF IsTaken, First
<1>6. \A u : \A d \in CPU, i \in Nat : d # c => (IsTaken(stack', u, d, i) <=> IsTaken(stack, u, d, i))
  BY <1>1 DEF IsTaken, First
<1>7. TakenElsewhere(stack', stack, c, 1)
  BY <1>4, <1>6 DEF TakenElsewhere
<1>8. 1 \in Nat
  OBVIOUS
<1> QED
  BY <1>1, <1>4, <1>5, <1>7, <1>8 DEF TookHead, First

LEMMA TookPush ==
    ASSUME TypeOK, NEW c \in CPU, FlushSelf(c), list[c] # <<>>, NEW n, n = Len(stack[c])
    PROVE  n + 1 \in Nat /\ TookHead(c, n + 1)
<1>1. n = Len(stack[c])
  OBVIOUS
<1>2. n \in Nat /\ n > 0 /\ Pushed(c, n)
  BY <1>1, PushSelf
<1>3. claims' = claims /\ pending' = pending /\ DOMAIN stack[c] = 1..n
  BY <1>1, FrameType DEF FlushSelf
<1>4. DOMAIN stack'[c] = 1..n+1
  <2>1. Len(stack'[c]) = n + 1 /\ DOMAIN stack'[c] = 1..Len(stack'[c])
    BY <1>2, StackShape DEF Pushed
  <2> QED
    BY <2>1
<1>5. PICK k \in Nat : k = n + 1
  BY <1>2
<1>6. k \notin 1..n /\ k \in 1..n+1 /\ n \in 1..n /\ n \in 1..n+1
  BY <1>2, <1>5
<1>7. \A u : ~IsTaken(stack, u, c, k)
  BY <1>3, <1>6 DEF IsTaken
<1>8. stack'[c][k].work = Head(list[c]).work /\ stack'[c][k].taken
  BY <1>2, <1>5 DEF Pushed
<1>9. \A u : IsTaken(stack', u, c, k) <=> u = Head(list[c]).work
  BY <1>4, <1>6, <1>8 DEF IsTaken
<1>10. \A u : \A d \in CPU, i \in Nat : d # c => (IsTaken(stack', u, d, i) <=> IsTaken(stack, u, d, i))
  BY <1>2 DEF IsTaken, Pushed
<1>11. ASSUME NEW u, NEW i \in Nat, i # k
       PROVE  IsTaken(stack', u, c, i) <=> IsTaken(stack, u, c, i)
  <2>1. \/ i \in 1..n-1 /\ i \in 1..n /\ i \in 1..n+1
        \/ i = n \/ (i \notin 1..n /\ i \notin 1..n+1)
    BY <1>2, <1>5, <1>11
  <2>2. CASE i \in 1..n-1 /\ i \in 1..n /\ i \in 1..n+1
    BY <1>2, <1>3, <1>4, <2>2 DEF IsTaken, Pushed
  <2>3. CASE i = n
    BY <1>2, <1>3, <1>4, <1>6, <2>3 DEF IsTaken, Pushed
  <2>4. CASE i \notin 1..n /\ i \notin 1..n+1
    BY <1>3, <1>4, <2>4 DEF IsTaken
  <2> QED
    BY <2>1, <2>2, <2>3, <2>4
<1>12. TakenElsewhere(stack', stack, c, k)
  BY <1>10, <1>11 DEF TakenElsewhere
<1>13. TookHead(c, k)
  BY <1>2, <1>3, <1>7, <1>9, <1>12 DEF TookHead, Pushed
<1> QED
  BY <1>5, <1>13

\* clear_bit by the worker that has taken the work.
LEMMA OwnClear ==
    ASSUME TypeOK, OwnInv, NEW c \in CPU, ClearPending(c)
    PROVE  OwnInv'
<1>1. Running(c) /\ Top(c).taken
  BY DEF ClearPending
<1>2. PICK n \in Nat : n = Len(stack[c]) /\ n \in DOMAIN stack[c] /\ Top(c) = stack[c][n]
  BY <1>1, TopFacts
<1>3. PICK w : w = Top(c).work
  OBVIOUS
<1>4. Top(c) \in Frame
  BY <1>1, TopFacts
<1>5. PICK g : g = [Top(c) EXCEPT !.taken = FALSE]
  OBVIOUS
<1>6. g \in Frame /\ ~g.taken
  BY <1>4, <1>5 DEF Frame
<1>7. stack' = [stack EXCEPT ![c] = Front(stack[c]) \o <<g>>]
  BY <1>5 DEF ClearPending
<1>8. NewTop(c, g)
  BY <1>1, <1>6, <1>7, SetTop
<1>9. w \in Work /\ pending' = [pending EXCEPT ![w] = FALSE] /\ claims' = claims /\ list' = list
  BY <1>3, <1>4, FrameFacts DEF ClearPending
<1>10. TakenElsewhere(stack', stack, c, n)
  BY <1>2, <1>8 DEF NewTop, TakenElsewhere, IsTaken
<1>11. (\A u : ~IsTaken(stack', u, c, n)) /\ (\A u : IsTaken(stack, u, c, n) => u = w)
  BY <1>2, <1>3, <1>6, <1>8 DEF NewTop, IsTaken
<1>12. /\ \A u : u # w => SameTaken(stack, stack', u)
       /\ TakenAt(stack, w, c, n) => NoTaken(stack', w)
  BY <1>10, <1>11, TakenGoes
<1>13. IsTaken(stack, w, c, n)
  BY <1>1, <1>2, <1>3 DEF IsTaken
<1>14. ASSUME NEW u \in Work PROVE Owned(u)'
  <2>1. Owned(u)
    BY DEF OwnInv
  <2>2. CASE u # w
    <3>1. pending'[u] = pending[u]
      BY <1>9, <2>2 DEF TypeOK
    <3>2. SameClaim(claims, claims', u) /\ SameQueue(list, list', u) /\ SameTaken(stack, stack', u)
      BY <1>9, <1>12, <2>2, SameRefl
    <3> QED
      BY <2>1, <3>1, <3>2, OwnedKept
  <2>3. CASE u = w
    <3>1. NoClaim(claims, u) /\ NoQueue(list, u) /\ TakenAt(stack, u, c, n)
      BY <1>13, <2>1, <2>3, OnlyTaken
    <3>2. NoClaim(claims', u) /\ NoQueue(list', u) /\ NoTaken(stack', u)
      BY <1>9, <1>12, <2>3, <3>1
    <3>3. ~pending'[u]
      BY <1>9, <2>3 DEF TypeOK
    <3> QED
      BY <3>2, <3>3 DEF Owned
  <2> QED
    BY <2>2, <2>3
<1> QED
  BY <1>14 DEF OwnInv

LEMMA OwnWorker ==
    ASSUME TypeOK, OwnInv, NEW c \in CPU, WorkerOf(c), Worker(c)
    PROVE  OwnInv'
<1>1. CASE /\ claims' = claims /\ pending' = pending /\ list' = list /\ stack' = stack
  BY <1>1, SameRefl, OwnSame
<1>2. CASE WorkerSet(c) \/ WorkerTest(c) \/ WorkerCheck(c) \/ WorkerWakes(c)
  BY <1>1, <1>2 DEF WorkerSet, WorkerTest, WorkerCheck, WorkerWakes
<1>3. CASE WorkerResume(c)
  <2>1. CASE list[c] = <<>>
    BY <1>1, <1>3, <2>1 DEF WorkerResume
  <2> QED
    BY <1>3, <2>1, TookFirst, OwnTake
<1>4. CASE CallFlush(c)
  <2>1. Running(c) /\ claims' = claims /\ pending' = pending /\ list' = list
    BY <1>4 DEF CallFlush
  <2>2. Top(c) \in Frame
    BY <2>1, TopFacts
  <2>3. PICK g : g = [Top(c) EXCEPT !.fl.stage = "lock"]
    OBVIOUS
  <2>4. g \in Frame /\ g.work = Top(c).work /\ g.taken = Top(c).taken
    BY <2>2, <2>3 DEF Frame, FlushCall, FlushStages
  <2>5. stack' = [stack EXCEPT ![c] = Front(stack[c]) \o <<g>>]
    BY <1>4, <2>3 DEF CallFlush
  <2>6. \A u : SameTaken(stack, stack', u)
    BY <2>1, <2>4, <2>5, SetTop, TakenNewTop
  <2> QED
    BY <2>1, <2>6, SameRefl, OwnSame
<1>5. CASE FlushSelf(c)
  <2>1. CASE list[c] = <<>>
    <3>1. PICK x \in FlushCall : SetFlush(c, x) /\ FlushOf(c).stage = "loop"
      BY <1>5, <2>1, FlushSelfEmpty
    <3>2. Running(c)
      BY <3>1, FlushOfFacts
    <3>3. claims' = claims /\ pending' = pending /\ list' = list
      BY <1>5, <2>1 DEF FlushSelf
    <3> QED
      BY <3>1, <3>2, <3>3, OwnSetFlush
  <2>2. CASE list[c] # <<>>
    BY <1>5, <2>2, TookPush, OwnTake
  <2> QED
    BY <2>1, <2>2
<1> QED
  BY <1>2, <1>3, <1>4, <1>5, OwnClear, OwnFinish DEF Worker

\* The history variable does not move works.
LEMMA OwnOwe ==
    ASSUME TypeOK, OwnInv, NEW f \in Flusher, OweAll(f), claims' = claims, pending' = pending
    PROVE  OwnInv'
<1>1. \A d \in CPU : SameFrames(stack'[d], stack[d]) /\ SameEntries(list'[d], list[d])
  BY OweFacts
<1>2. \A u : \A d \in CPU, i \in Nat : IsTaken(stack', u, d, i) <=> IsTaken(stack, u, d, i)
  BY <1>1 DEF SameFrames, IsTaken
<1>3. \A u : \A d \in CPU, i \in Nat : OnQueue(list', u, d, i) <=> OnQueue(list, u, d, i)
  BY <1>1 DEF SameEntries, OnQueue
<1>4. \A u : SameQueue(list, list', u) /\ SameTaken(stack, stack', u)
  BY <1>2, <1>3, QueueKept, TakenKept
<1> QED
  BY <1>4, OwnSame

LEMMA OwnFlush ==
    ASSUME TypeOK, OwnInv, NEW t \in Flusher \cup CPU, Flush(t)
    PROVE  OwnInv'
<1>1. claims' = claims /\ pending' = pending
  BY DEF Flush, FlushLock, FlushCpu, FlushRetry, FlushReturn
<1>2. FlushOf(t).stage # "none"
  BY DEF Flush, FlushLock, FlushCpu, FlushRetry, FlushReturn
<1>3. t \in CPU => Running(t)
  BY <1>2, FlushOfFacts
<1>4. CASE FlushLock(t)
  <2>1. PICK x \in FlushCall : /\ t \in CPU => SetFlush(t, x) /\ list' = list
                               /\ t \notin CPU => t \in Flusher /\ OweAll(t)
    BY <1>4, FlushLockFacts
  <2>2. CASE t \in CPU
    BY <1>1, <1>3, <2>1, <2>2, OwnSetFlush
  <2>3. CASE t \notin CPU
    BY <1>1, <2>1, <2>3, OwnOwe
  <2> QED
    BY <2>2, <2>3
<1>5. CASE FlushCpu(t) \/ FlushRetry(t) \/ FlushReturn(t)
  <2>1. \E x \in FlushCall : SetFlush(t, x)
    BY <1>5, FlushCpuFacts, FlushRetryFacts, FlushReturnFacts
  <2>2. list' = list
    BY <1>5 DEF FlushCpu, FlushRetry, FlushReturn
  <2> QED
    BY <1>1, <1>3, <2>1, <2>2, OwnSetFlush
<1> QED
  BY <1>4, <1>5 DEF Flush

\* A claim on w is made, changes its kind, or is given up; the other works keep theirs.
LEMMA ClaimMade ==
    ASSUME NEW m, NEW n, NEW w, NEW k \in Kinds, NEW c \in CPU, n = m \cup {<<w, k, c>>}
    PROVE  (\A u : u # w => SameClaim(m, n, u)) /\ (NoClaim(m, w) => OneClaim(n, w))
<1>1. \A u : u # w => SameClaim(m, n, u)
  <2> SUFFICES ASSUME NEW u, u # w PROVE SameClaim(m, n, u)
    OBVIOUS
  <2>1. \A x \in Kinds, d \in CPU : <<u, x, d>> \in n <=> <<u, x, d>> \in m
    OBVIOUS
  <2> QED
    BY <2>1, ClaimKept
<1>2. ASSUME NoClaim(m, w) PROVE OneClaim(n, w)
  <2>1. ClaimAt(n, w, k, c)
    BY <1>2 DEF NoClaim, ClaimAt
  <2> QED
    BY <2>1 DEF OneClaim
<1> QED
  BY <1>1, <1>2

LEMMA ClaimDropped ==
    ASSUME NEW m, NEW n, NEW w, NEW k \in Kinds, NEW c \in CPU, n = m \ {<<w, k, c>>}
    PROVE  (\A u : u # w => SameClaim(m, n, u)) /\ (ClaimAt(m, w, k, c) => NoClaim(n, w))
<1>1. \A u : u # w => SameClaim(m, n, u)
  <2> SUFFICES ASSUME NEW u, u # w PROVE SameClaim(m, n, u)
    OBVIOUS
  <2>1. \A x \in Kinds, d \in CPU : <<u, x, d>> \in n <=> <<u, x, d>> \in m
    OBVIOUS
  <2> QED
    BY <2>1, ClaimKept
<1>2. ASSUME ClaimAt(m, w, k, c) PROVE NoClaim(n, w)
  BY <1>2 DEF NoClaim, ClaimAt
<1> QED
  BY <1>1, <1>2

LEMMA ClaimTurned ==
    ASSUME NEW m, NEW n, NEW w, NEW k \in Kinds, NEW x \in Kinds, NEW c \in CPU,
           n = (m \ {<<w, k, c>>}) \cup {<<w, x, c>>}
    PROVE  (\A u : u # w => SameClaim(m, n, u)) /\ (ClaimAt(m, w, k, c) => OneClaim(n, w))
<1>1. PICK h : h = m \ {<<w, k, c>>}
  OBVIOUS
<1>2. n = h \cup {<<w, x, c>>}
  BY <1>1
<1>3. (\A u : u # w => SameClaim(m, h, u)) /\ (ClaimAt(m, w, k, c) => NoClaim(h, w))
  BY <1>1, ClaimDropped
<1>4. (\A u : u # w => SameClaim(h, n, u)) /\ (NoClaim(h, w) => OneClaim(n, w))
  BY <1>2, ClaimMade
<1> QED
  BY <1>3, <1>4 DEF SameClaim

\* The pending bit and the claims of w change, nothing else.
LEMMA OwnOther ==
    ASSUME TypeOK, OwnInv, NEW w \in Work, \A u \in Work : u # w => pending'[u] = pending[u],
           \A u : u # w => SameClaim(claims, claims', u),
           \A u : u # w => SameQueue(list, list', u),
           stack' = stack, Owned(w)'
    PROVE  OwnInv'
<1>1. ASSUME NEW u \in Work, u # w PROVE Owned(u)'
  <2>1. Owned(u) /\ pending'[u] = pending[u] /\ SameClaim(claims, claims', u)
        /\ SameQueue(list, list', u) /\ SameTaken(stack, stack', u)
    BY <1>1, SameRefl DEF OwnInv
  <2> QED
    BY <2>1, OwnedKept
<1> QED
  BY <1>1 DEF OwnInv

LEMMA OwnQueue ==
    ASSUME TypeOK, OwnInv, NEW w \in Work, NEW c \in CPU,
           \/ QueueWork(w, c) \/ QueueDelayedWork(w, c) \/ DelayedWorkTimer(w, c)
           \/ CancelDelayedWork(w, c) \/ CancelClear(w, c) \/ DoQueueWork(w, c)
    PROVE  OwnInv'
<1>1. Owned(w)
  BY DEF OwnInv
<1>2. "queue" \in Kinds /\ "timer" \in Kinds /\ "cancel" \in Kinds
  BY DEF Kinds
<1>3. CASE QueueWork(w, c) \/ QueueDelayedWork(w, c)
  <2>1. PICK k \in Kinds : claims' = claims \cup {<<w, k, c>>}
    BY <1>2, <1>3 DEF QueueWork, QueueDelayedWork
  <2>2. /\ ~pending[w] /\ pending' = [pending EXCEPT ![w] = TRUE]
        /\ list' = list /\ stack' = stack
    BY <1>3 DEF QueueWork, QueueDelayedWork
  <2>3. pending'[w] /\ \A u \in Work : u # w => pending'[u] = pending[u]
    BY <2>2 DEF TypeOK
  <2>4. NoClaim(claims, w) /\ NoQueue(list, w) /\ NoTaken(stack, w)
    BY <1>1, <2>2 DEF Owned
  <2>5. (\A u : u # w => SameClaim(claims, claims', u)) /\ OneClaim(claims', w)
    BY <2>1, <2>4, ClaimMade
  <2>6. Owned(w)'
    BY <2>2, <2>3, <2>4, <2>5 DEF Owned
  <2> QED
    BY <2>2, <2>3, <2>5, <2>6, SameRefl, OwnOther
<1>4. CASE DelayedWorkTimer(w, c) \/ CancelDelayedWork(w, c)
  <2>1. PICK k \in Kinds : claims' = (claims \ {<<w, "timer", c>>}) \cup {<<w, k, c>>}
    BY <1>2, <1>4 DEF DelayedWorkTimer, CancelDelayedWork
  <2>2. /\ <<w, "timer", c>> \in claims /\ pending' = pending
        /\ list' = list /\ stack' = stack
    BY <1>4 DEF DelayedWorkTimer, CancelDelayedWork
  <2>3. /\ pending[w] /\ ClaimAt(claims, w, "timer", c)
        /\ NoQueue(list, w) /\ NoTaken(stack, w)
    BY <1>1, <1>2, <2>2, OnlyClaim
  <2>4. (\A u : u # w => SameClaim(claims, claims', u)) /\ OneClaim(claims', w)
    BY <1>2, <2>1, <2>3, ClaimTurned
  <2>5. Owned(w)'
    BY <2>2, <2>3, <2>4 DEF Owned
  <2> QED
    BY <2>2, <2>4, <2>5, SameRefl, OwnOther
<1>5. CASE CancelClear(w, c)
  <2>1. /\ <<w, "cancel", c>> \in claims /\ claims' = claims \ {<<w, "cancel", c>>}
        /\ pending' = [pending EXCEPT ![w] = FALSE] /\ list' = list /\ stack' = stack
    BY <1>5 DEF CancelClear
  <2>2. ~pending'[w] /\ \A u \in Work : u # w => pending'[u] = pending[u]
    BY <2>1 DEF TypeOK
  <2>3. ClaimAt(claims, w, "cancel", c) /\ NoQueue(list, w) /\ NoTaken(stack, w)
    BY <1>1, <1>2, <2>1, OnlyClaim
  <2>4. (\A u : u # w => SameClaim(claims, claims', u)) /\ NoClaim(claims', w)
    BY <1>2, <2>1, <2>3, ClaimDropped
  <2>5. Owned(w)'
    BY <2>1, <2>2, <2>3, <2>4 DEF Owned
  <2> QED
    BY <2>1, <2>2, <2>4, <2>5, SameRefl, OwnOther
<1>6. CASE DoQueueWork(w, c)
  <2>1. /\ <<w, "queue", c>> \in claims /\ claims' = claims \ {<<w, "queue", c>>}
        /\ pending' = pending /\ stack' = stack
    BY <1>6 DEF DoQueueWork
  <2>2. PICK e : e = [work |-> w, owed |-> {}]
    OBVIOUS
  <2>9. e \in Entry /\ e.work = w
    BY <2>2 DEF Entry
  <2>3. list' = [list EXCEPT ![c] = Append(list[c], e)]
    BY <1>6, <2>2 DEF DoQueueWork, AddTail
  <2>4. /\ pending[w] /\ ClaimAt(claims, w, "queue", c)
        /\ NoQueue(list, w) /\ NoTaken(stack, w)
    BY <1>1, <1>2, <2>1, OnlyClaim
  <2>5. (\A u : u # w => SameClaim(claims, claims', u)) /\ NoClaim(claims', w)
    BY <1>2, <2>1, <2>4, ClaimDropped
  <2>6. list \in Lists
    BY DEF TypeOK, Lists
  <2>7. (\A u : u # w => SameQueue(list, list', u)) /\ OneQueue(list', w)
    BY <2>3, <2>4, <2>6, <2>9, AppendQ
  <2>8. Owned(w)'
    BY <2>1, <2>4, <2>5, <2>7 DEF Owned
  <2> QED
    BY <2>1, <2>5, <2>7, <2>8, OwnOther
<1> QED
  BY <1>3, <1>4, <1>5, <1>6

\* stop_machine moves the timers of the CPU that goes down: every claim keeps its kind.
LEMMA OwnDown ==
    ASSUME TypeOK, OwnInv, NEW c \in CPU, NEW d \in CPU, CpuDown(c, d)
    PROVE  OwnInv'
<1> DEFINE To(x, e) == IF x = "timer" /\ e = c THEN d ELSE e
<1>1. claims' = {<<k[1], k[2], To(k[2], k[3])>> : k \in claims}
  BY DEF CpuDown
<1>2. pending' = pending /\ list' = list /\ stack' = stack
  BY DEF CpuDown
<1>3. \A x, e : e \in CPU => To(x, e) \in CPU
  OBVIOUS
<1>4. \A u, x, e : <<u, x, e>> \in claims => <<u, x, To(x, e)>> \in claims'
  BY <1>1
<1>5. ASSUME NEW u, NEW x, NEW e, <<u, x, e>> \in claims'
      PROVE  \E b \in CPU : <<u, x, b>> \in claims /\ e = To(x, b)
  <2>1. PICK k \in claims : <<u, x, e>> = <<k[1], k[2], To(k[2], k[3])>>
    BY <1>1, <1>5
  <2>2. k \in Claim
    BY DEF TypeOK
  <2>3. k[3] \in CPU /\ k = <<k[1], k[2], k[3]>>
    BY <2>2 DEF Claim
  <2>4. u = k[1] /\ x = k[2] /\ e = To(k[2], k[3])
    BY <2>1
  <2> QED
    BY <2>3, <2>4
<1> HIDE DEF To
<1>6. ASSUME NEW u PROVE SameClaim(claims, claims', u)
  <2>1. NoClaim(claims, u) => NoClaim(claims', u)
    BY <1>5 DEF NoClaim
  <2>2. ASSUME OneClaim(claims, u) PROVE OneClaim(claims', u)
    <3>1. PICK x \in Kinds, e \in CPU : ClaimAt(claims, u, x, e)
      BY <2>2 DEF OneClaim
    <3>2. PICK b \in CPU : b = To(x, e)
      BY <1>3
    <3>3. <<u, x, b>> \in claims'
      BY <1>4, <3>1, <3>2 DEF ClaimAt
    <3>4. ASSUME NEW y \in Kinds, NEW h \in CPU, <<u, y, h>> \in claims' PROVE y = x /\ h = b
      <4>1. PICK j \in CPU : <<u, y, j>> \in claims /\ h = To(y, j)
        BY <1>5, <3>4
      <4>2. y = x /\ j = e
        BY <3>1, <4>1 DEF ClaimAt
      <4> QED
        BY <3>2, <4>1, <4>2
    <3>5. ClaimAt(claims', u, x, b)
      BY <3>3, <3>4 DEF ClaimAt
    <3> QED
      BY <3>5 DEF OneClaim
  <2> QED
    BY <2>1, <2>2 DEF SameClaim
<1>7. ASSUME NEW u \in Work PROVE Owned(u)'
  <2>1. Owned(u) /\ pending'[u] = pending[u]
    BY <1>2 DEF OwnInv
  <2>2. SameQueue(list, list', u) /\ SameTaken(stack, stack', u)
    BY <1>2, SameRefl
  <2> QED
    BY <1>6, <2>1, <2>2, OwnedKept
<1> QED
  BY <1>7 DEF OwnInv

\* take_over_work moves one work from queue to queue.
LEMMA OwnTakeOver ==
    ASSUME TypeOK, HotInv, OwnInv, TakeOverOne
    PROVE  OwnInv'
<1>1. PICK c \in CPU, b \in CPU : c = hp.cpu /\ b = hp.on
  BY DEF TypeOK
<1>2. c # b /\ list[c] # <<>>
  BY <1>1 DEF HotInv, HpCpu, TakeOverOne
<1>3. list \in Lists /\ list[c] \in Seq(Entry)
  BY DEF TypeOK, Lists
<1>4. PICK e : e = Head(list[c])
  OBVIOUS
<1>5. e \in Entry
  BY <1>2, <1>3, <1>4, TailFacts
<1>6. PICK m : m = [list EXCEPT ![c] = Tail(list[c])]
  OBVIOUS
<1>7. /\ m \in Lists
      /\ \A u : ~OnQueue(list, u, c, 1) => SameQueue(list, m, u)
      /\ \A u : QueueAt(list, u, c, 1) => NoQueue(m, u)
      /\ OnQueue(list, e.work, c, 1) /\ \A u : OnQueue(list, u, c, 1) => u = e.work
  BY <1>2, <1>3, <1>4, <1>6, TailQ
<1>8. list' = [list EXCEPT ![b] = Append(list[b], e), ![c] = Tail(list[c])]
  BY <1>1, <1>4 DEF TakeOverOne
<1>9. list' = [m EXCEPT ![b] = Append(m[b], e)]
  <2>1. PICK p, q : p = Append(list[b], e) /\ q = Tail(list[c])
    OBVIOUS
  <2>2. list' = [list EXCEPT ![b] = p, ![c] = q] /\ m = [list EXCEPT ![c] = q]
    BY <1>6, <1>8, <2>1
  <2>3. m[b] = list[b]
    BY <1>2, <1>3, <2>2 DEF Lists
  <2>4. list' = [m EXCEPT ![b] = p]
    BY <1>2, <1>3, <2>2 DEF Lists
  <2> QED
    BY <2>1, <2>3, <2>4
<1>10. /\ \A u : u # e.work => SameQueue(m, list', u)
       /\ NoQueue(m, e.work) => OneQueue(list', e.work)
  BY <1>5, <1>7, <1>9, AppendQ
<1>11. claims' = claims /\ pending' = pending /\ stack' = stack
  BY DEF TakeOverOne
<1>12. ASSUME NEW u \in Work PROVE SameQueue(list, list', u)
  <2>1. CASE u # e.work
    <3>1. SameQueue(list, m, u) /\ SameQueue(m, list', u)
      BY <1>7, <1>10, <2>1
    <3> QED
      BY <3>1 DEF SameQueue
  <2>2. CASE u = e.work
    <3>1. Owned(u) /\ OnQueue(list, u, c, 1) /\ 1 \in Nat
      BY <1>7, <2>2 DEF OwnInv
    <3>2. QueueAt(list, u, c, 1)
      BY <3>1, OnlyQueue
    <3>3. OneQueue(list', u) /\ ~NoQueue(list, u)
      BY <1>7, <1>10, <2>2, <3>1, <3>2 DEF NoQueue
    <3> QED
      BY <3>3 DEF SameQueue
  <2> QED
    BY <2>1, <2>2
<1> QED
  BY <1>11, <1>12, SameRefl, OwnSame

\* create_workqueue_thread initialises a queue that is empty.
LEMMA OwnPrepare ==
    ASSUME TypeOK, HotInv, OwnInv, NEW c \in CPU, CpuUpPrepare(c)
    PROVE  OwnInv'
<1>1. list[c] = <<>>
  BY DEF CpuUpPrepare, HotInv, WorkerOf, Handled
<1>2. list' = [list EXCEPT ![c] = <<>>]
  BY DEF CpuUpPrepare
<1>3. list' = list
  BY <1>1, <1>2 DEF TypeOK
<1>4. claims' = claims /\ pending' = pending /\ stack' = stack
  BY DEF CpuUpPrepare
<1> QED
  BY <1>3, <1>4, SameRefl, OwnSame

LEMMA OwnInit == Init => OwnInv
<1> SUFFICES ASSUME Init, NEW w \in Work PROVE Owned(w)
  BY DEF OwnInv
<1>1. \A c \in CPU : DOMAIN list[c] = {} /\ DOMAIN stack[c] = {}
  BY DEF Init
<1>2. ~pending[w] /\ claims = {}
  BY DEF Init
<1>3. NoClaim(claims, w) /\ NoQueue(list, w) /\ NoTaken(stack, w)
  BY <1>1, <1>2 DEF NoClaim, NoQueue, NoTaken, OnQueue, IsTaken
<1> QED
  BY <1>2, <1>3 DEF Owned

LEMMA OwnNext == TypeOK /\ HotInv /\ OwnInv /\ [Next]_vars => OwnInv'
<1> SUFFICES ASSUME TypeOK, HotInv, OwnInv, [Next]_vars PROVE OwnInv'
  OBVIOUS
<1>1. CASE claims' = claims /\ pending' = pending /\ list' = list /\ stack' = stack
  BY <1>1, SameRefl, OwnSame
<1>2. ASSUME NEW f \in Flusher, FlushStart(f) PROVE OwnInv'
  BY <1>1, <1>2 DEF FlushStart
<1>3. CASE UNCHANGED vars
  BY <1>1, <1>3 DEF vars
<1>4. CASE HotplugStep
  <2>1. CASE \/ CpuDead \/ CpuStopped \/ TakeOverDone \/ CpuUp \/ CpuOnline \/ CpuUpCanceled
    BY <1>1, <2>1 DEF CpuDead, CpuStopped, TakeOverDone, CpuUp, CpuOnline, CpuUpCanceled
  <2> QED
    BY <1>4, <2>1, OwnTakeOver DEF HotplugStep
<1>5. ASSUME NEW c \in CPU, Worker(c) PROVE OwnInv'
  BY <1>5, OwnWorker DEF HotInv
<1> QED
  BY <1>2, <1>3, <1>4, <1>5, OwnQueue, OwnFlush, OwnDown, OwnPrepare DEF Next

-----------------------------------------------------------------------------
(* The owner is unique *)

ClaimSet(w) == {k \in claims : k[1] = w}
QueueSet(w) ==
    UNION {{<<"list", c, i>> : i \in {j \in DOMAIN list[c] : list[c][j].work = w}} : c \in CPU}
TakenSet(w) ==
    UNION {{<<"taken", c, i>> :
              i \in {j \in DOMAIN stack[c] : stack[c][j].work = w /\ stack[c][j].taken}} : c \in CPU}

LEMMA ClaimSetIs ==
    ASSUME TypeOK, NEW w \in Work
    PROVE  /\ NoClaim(claims, w) => ClaimSet(w) = {}
           /\ OneClaim(claims, w) => \E k : ClaimSet(w) = {k}
<1>1. \A k \in ClaimSet(w) : \E x \in Kinds, c \in CPU : k = <<w, x, c>> /\ <<w, x, c>> \in claims
  <2> SUFFICES ASSUME NEW k \in ClaimSet(w)
               PROVE  \E x \in Kinds, c \in CPU : k = <<w, x, c>> /\ <<w, x, c>> \in claims
    OBVIOUS
  <2>1. k \in claims /\ k[1] = w /\ k \in Work \X Kinds \X CPU
    BY DEF ClaimSet, TypeOK, Claim, Kinds
  <2> QED
    BY <2>1
<1>2. NoClaim(claims, w) => ClaimSet(w) = {}
  BY <1>1 DEF NoClaim
<1>3. ASSUME OneClaim(claims, w) PROVE \E k : ClaimSet(w) = {k}
  <2>1. PICK x \in Kinds, c \in CPU :
           \A y \in Kinds, d \in CPU : <<w, y, d>> \in claims <=> y = x /\ d = c
    BY <1>3 DEF OneClaim, ClaimAt
  <2>2. <<w, x, c>> \in ClaimSet(w)
    BY <2>1 DEF ClaimSet
  <2>3. \A k \in ClaimSet(w) : k = <<w, x, c>>
    BY <1>1, <2>1
  <2>4. ClaimSet(w) = {<<w, x, c>>}
    BY <2>2, <2>3
  <2> QED
    BY <2>4
<1> QED
  BY <1>2, <1>3

LEMMA QueueSetIs ==
    ASSUME TypeOK, NEW w \in Work
    PROVE  /\ NoQueue(list, w) => QueueSet(w) = {}
           /\ OneQueue(list, w) => \E k : QueueSet(w) = {k}
<1>0. \A c \in CPU : DOMAIN list[c] \subseteq Nat
  <2> SUFFICES ASSUME NEW c \in CPU PROVE DOMAIN list[c] \subseteq Nat
    OBVIOUS
  <2>1. list[c] \in Seq(Entry)
    BY DEF TypeOK
  <2> QED
    BY <2>1
<1>1. \A k \in QueueSet(w) : \E c \in CPU, i \in Nat : k = <<"list", c, i>> /\ OnQueue(list, w, c, i)
  BY <1>0 DEF QueueSet, OnQueue
<1>2. NoQueue(list, w) => QueueSet(w) = {}
  BY <1>1 DEF NoQueue
<1>3. ASSUME OneQueue(list, w) PROVE \E k : QueueSet(w) = {k}
  <2>1. PICK c \in CPU, i \in Nat :
           \A d \in CPU, j \in Nat : OnQueue(list, w, d, j) <=> d = c /\ j = i
    BY <1>3 DEF OneQueue, QueueAt
  <2>2. OnQueue(list, w, c, i)
    BY <2>1
  <2>3. <<"list", c, i>> \in QueueSet(w)
    BY <2>2 DEF QueueSet, OnQueue
  <2>4. \A k \in QueueSet(w) : k = <<"list", c, i>>
    BY <1>1, <2>1
  <2>5. QueueSet(w) = {<<"list", c, i>>}
    BY <2>3, <2>4
  <2> QED
    BY <2>5
<1> QED
  BY <1>2, <1>3

LEMMA TakenSetIs ==
    ASSUME TypeOK, NEW w \in Work
    PROVE  /\ NoTaken(stack, w) => TakenSet(w) = {}
           /\ OneTaken(stack, w) => \E k : TakenSet(w) = {k}
<1>0. \A c \in CPU : DOMAIN stack[c] \subseteq Nat
  <2> SUFFICES ASSUME NEW c \in CPU PROVE DOMAIN stack[c] \subseteq Nat
    OBVIOUS
  <2>1. stack[c] \in Seq(Frame)
    BY DEF TypeOK
  <2> QED
    BY <2>1
<1>1. \A k \in TakenSet(w) : \E c \in CPU, i \in Nat : k = <<"taken", c, i>> /\ IsTaken(stack, w, c, i)
  BY <1>0 DEF TakenSet, IsTaken
<1>2. NoTaken(stack, w) => TakenSet(w) = {}
  BY <1>1 DEF NoTaken
<1>3. ASSUME OneTaken(stack, w) PROVE \E k : TakenSet(w) = {k}
  <2>1. PICK c \in CPU, i \in Nat :
           \A d \in CPU, j \in Nat : IsTaken(stack, w, d, j) <=> d = c /\ j = i
    BY <1>3 DEF OneTaken, TakenAt
  <2>2. IsTaken(stack, w, c, i)
    BY <2>1
  <2>3. <<"taken", c, i>> \in TakenSet(w)
    BY <2>2 DEF TakenSet, IsTaken
  <2>4. \A k \in TakenSet(w) : k = <<"taken", c, i>>
    BY <1>1, <2>1
  <2>5. TakenSet(w) = {<<"taken", c, i>>}
    BY <2>3, <2>4
  <2> QED
    BY <2>5
<1> QED
  BY <1>2, <1>3

LEMMA CountOwners ==
    ASSUME TypeOK, NEW w \in Work, Owned(w)
    PROVE  Cardinality(Owners(w)) = IF pending[w] THEN 1 ELSE 0
<1>1. Owners(w) = (ClaimSet(w) \cup QueueSet(w)) \cup TakenSet(w)
  BY DEF Owners, ClaimSet, QueueSet, TakenSet
<1>2. CASE ~pending[w]
  <2>1. Owners(w) = {}
    BY <1>1, <1>2, ClaimSetIs, QueueSetIs, TakenSetIs DEF Owned
  <2> QED
    BY <1>2, <2>1, FS_EmptySet
<1>3. CASE pending[w]
  <2>1. \E k : Owners(w) = {k}
    BY <1>1, <1>3, ClaimSetIs, QueueSetIs, TakenSetIs DEF Owned
  <2> QED
    BY <1>3, <2>1, FS_Singleton
<1> QED
  BY <1>2, <1>3

\* The pending bit is set exactly while one party is committed to the work: no work is
\* linked on two queues, queued twice by a timer and a caller, or left with its bit set
\* and nobody to clear it (queue_work, delayed_work_timer_fn, cancel_delayed_work,
\* run_workqueue, take_over_work).
THEOREM PendingOwnedHolds == Spec => []PendingOwned
<1>1. TypeOK /\ OwnInv => PendingOwned
  BY CountOwners DEF OwnInv, PendingOwned
<1>2. TypeOK /\ HotInv /\ [Next]_vars => HotInv'
  BY HotNext
<1>3. TypeOK /\ HotInv /\ OwnInv /\ [Next]_vars => OwnInv'
  BY OwnNext
<1> QED
  BY <1>1, <1>2, <1>3, TypeCorrect, HotInit, OwnInit, PTL DEF Spec
============================================================================
