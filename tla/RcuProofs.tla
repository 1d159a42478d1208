------------------------------ MODULE RcuProofs ------------------------------
(***************************************************************************)
(* The control block and the mask of RCU, for every number of CPUs, every  *)
(* batch counter and every hotplug; the grace period and the request of    *)
(* batches, while no CPU comes up; and the callbacks of a CPU that goes    *)
(* down, while a run of the tasklet can invoke all there are.              *)
(***************************************************************************)
EXTENDS Rcu, FiniteSetTheorems, TLAPS

(* Batch numbers *)

\* The batch after b is another one, and b comes before the two that follow it
\* and before neither itself nor its predecessor.
LEMMA BatchNumbers ==
    ASSUME NEW b \in Batches
    PROVE  /\ Inc(b) \in Batches /\ Inc(b) # b /\ Inc(Inc(b)) # b /\ Inc(Inc(b)) # Inc(b)
           /\ rcu_batch_before(b, Inc(b)) /\ rcu_batch_before(b, Inc(Inc(b)))
           /\ ~rcu_batch_before(b, b) /\ ~rcu_batch_before(Inc(b), b)
<1>1. /\ BatchMod \in Nat /\ BatchMod >= 4 /\ b \in 0..BatchMod - 1
      /\ BatchMod \div 2 >= 2 /\ BatchMod \div 2 \in Int
      /\ 2 * (BatchMod \div 2) <= BatchMod
  BY BatchAssumption DEF Batches
<1>2. \A x \in 0..BatchMod - 1 : /\ x % BatchMod = x
                                 /\ (x - BatchMod) % BatchMod = x
                                 /\ (x + BatchMod) % BatchMod = x
  BY <1>1
<1>3. \A x \in 0..BatchMod - 1 : Inc(x) = IF x = BatchMod - 1 THEN 0 ELSE x + 1
  <2> SUFFICES ASSUME NEW x \in 0..BatchMod - 1
               PROVE  Inc(x) = IF x = BatchMod - 1 THEN 0 ELSE x + 1
    OBVIOUS
  <2>1. CASE x = BatchMod - 1
    <3>1. (0 + BatchMod) % BatchMod = 0
      BY <1>1, <1>2
    <3> QED
      BY <1>1, <2>1, <3>1 DEF Inc
  <2>2. CASE x # BatchMod - 1
    <3>1. x + 1 \in 0..BatchMod - 1
      BY <1>1, <2>2
    <3> QED
      BY <1>2, <2>2, <3>1 DEF Inc
  <2> QED
    BY <2>1, <2>2
<1>4. /\ Inc(b) \in 0..BatchMod - 1 /\ Inc(Inc(b)) \in 0..BatchMod - 1
      /\ Inc(b) # b /\ Inc(Inc(b)) # b /\ Inc(Inc(b)) # Inc(b)
      /\ Inc(b) - b = 1 \/ Inc(b) - b = 1 - BatchMod
      /\ Inc(Inc(b)) - b = 2 \/ Inc(Inc(b)) - b = 2 - BatchMod
  <2>1. Inc(b) \in 0..BatchMod - 1
    BY <1>1, <1>3
  <2>2. /\ Inc(Inc(b)) = IF Inc(b) = BatchMod - 1 THEN 0 ELSE Inc(b) + 1
        /\ Inc(b) = IF b = BatchMod - 1 THEN 0 ELSE b + 1
    BY <1>1, <1>3, <2>1
  <2> QED
    BY <1>1, <2>1, <2>2
<1>5. ASSUME NEW x \in 0..BatchMod - 1, NEW k \in {1, 2}, x - b = k \/ x - b = k - BatchMod
      PROVE  (b - x) % BatchMod = BatchMod - k /\ (x - b) % BatchMod = k
  <2>1. k \in 0..BatchMod - 1 /\ BatchMod - k \in 0..BatchMod - 1
    BY <1>1, <1>5
  <2>2. b - x = (BatchMod - k) - BatchMod \/ b - x = BatchMod - k
    BY <1>1, <1>5
  <2> QED
    BY <1>2, <1>5, <2>1, <2>2
<1>6. (b - Inc(b)) % BatchMod = BatchMod - 1 /\ (Inc(b) - b) % BatchMod = 1
  BY <1>4, <1>5
<1>7. (b - Inc(Inc(b))) % BatchMod = BatchMod - 2
  BY <1>4, <1>5
<1>8. (b - b) % BatchMod = 0
  BY <1>1, <1>2
<1> QED
  BY <1>1, <1>4, <1>6, <1>7, <1>8 DEF rcu_batch_before, Batches

-----------------------------------------------------------------------------
(* The control block *)

Bumping == \E p \in Thread : pc[p] = "bump"

\* Where the threads can be; a CPU that is down is outside its tasklet.
Places ==
    /\ ret \in [Thread -> {"off", "qs", "do", "move"}]
    /\ \A c \in CPU : /\ pc[c] \notin {"dead", "move", "up"}
                      /\ pc[c] \in Locked => ret[c] \in {"qs", "do"}
                      /\ c \notin online => pc[c] \in {"off", "run"}
    /\ pc[Hp] \in {"off", "dead", "move", "up"} \cup Locked
    /\ pc[Hp] \in Locked => ret[Hp] = "move"

\* rcu_state's lock.
OneLock == \A p, q \in Thread : pc[p] \in Locked /\ pc[q] \in Locked => p = q

\* A CPU goes down or comes up: it is not online, and once its quiescent state
\* was reported no grace period waits for it.
Victim ==
    /\ pc[Hp] = "off" <=> victim = None
    /\ victim \notin online
    /\ pc[Hp] \in {"move"} \cup Locked => victim \notin cpumask
    /\ online # {}

\* The mask is set just before cur is incremented, and empty between periods.
MaskState ==
    /\ Bumping => cur = completed /\ cpumask # {}
    /\ ~Bumping /\ cur = completed => cpumask = {}

CInv == TypeOK /\ Places /\ OneLock /\ Victim /\ MaskState /\ MaskIsAlive

\* The invariant holds initially.
LEMMA InitCInv == Init => CInv
<1> SUFFICES ASSUME Init PROVE CInv
  OBVIOUS
<1>1. BatchMod - 1 \in Batches /\ 0 \in Batches
  BY BatchAssumption DEF Batches
<1>2. /\ cur = BatchMod - 1 /\ completed = BatchMod - 1 /\ next_pending = FALSE
      /\ cpumask = {} /\ victim = None /\ reading = {}
      /\ pc = [p \in Thread |-> "off"] /\ ret = [p \in Thread |-> "off"]
      /\ online \in SUBSET CPU /\ online # {}
  BY DEF Init
<1>3. TypeOK
  BY <1>1, <1>2 DEF Init, TypeOK, PC
<1>4. Hp \in Thread /\ CPU \subseteq Thread /\ None \notin CPU
  BY CpuAssumption DEF Thread
<1>5. Places /\ OneLock
  BY <1>2, <1>4 DEF Places, OneLock, Locked
<1>6. ~Bumping
  BY <1>2 DEF Bumping
<1>7. Victim /\ MaskState /\ MaskIsAlive
  BY <1>2, <1>4, <1>6 DEF Victim, MaskState, MaskIsAlive, Locked
<1> QED
  BY <1>3, <1>5, <1>7 DEF CInv

\* What the proofs below use of the state.
LEMMA Facts ==
    ASSUME CInv
    PROVE  /\ Hp \in Thread /\ CPU \subseteq Thread /\ Hp \notin CPU /\ None \notin CPU
           /\ pc \in [Thread -> PC] /\ ret \in [Thread -> {"off", "qs", "do", "move"}]
           /\ cur \in Batches /\ completed \in Batches /\ Inc(cur) \in Batches
           /\ Inc(cur) # cur
           /\ {"off", "qs", "do", "move"} \subseteq PC
           /\ {"off", "qs", "do", "move"} \cap Locked = {}
  BY CpuAssumption, BatchNumbers DEF CInv, TypeOK, Places, Thread, PC, Locked

\* A step that changes neither the control block nor where anybody is.
LEMMA Elsewhere ==
    ASSUME CInv, TypeOK', UNCHANGED <<ctrl, online, victim, pc, ret>>
    PROVE  CInv'
<1>1. /\ cur' = cur /\ completed' = completed /\ cpumask' = cpumask
      /\ online' = online /\ victim' = victim /\ pc' = pc /\ ret' = ret
  BY DEF ctrl
<1> QED
  BY <1>1 DEF CInv, Places, OneLock, Victim, MaskState, MaskIsAlive, Bumping

\* A step of the tasklet of c outside the lock.
LEMMA Unlocked ==
    ASSUME CInv, TypeOK', UNCHANGED <<cur, completed, cpumask, online, victim, ret>>,
           NEW c \in CPU, NEW l \in PC \ (Locked \cup {"dead", "move", "up"}),
           pc' = [pc EXCEPT ![c] = l], pc[c] \notin Locked,
           c \notin online => l \in {"off", "run"}
    PROVE  CInv'
<1>1. /\ c \in Thread /\ c # Hp /\ Hp \in Thread
      /\ \A p \in Thread : p # c => pc'[p] = pc[p]
      /\ pc'[c] = l
  BY Facts
<1>2. "bump" \in Locked
  BY DEF Locked
<1>3. Bumping' <=> Bumping
  BY <1>1, <1>2 DEF Bumping
<1>4. Places' /\ OneLock'
  BY <1>1, Facts DEF CInv, Places, OneLock
<1>5. Victim' /\ MaskState' /\ MaskIsAlive'
  BY <1>1, <1>3 DEF CInv, Victim, MaskState, MaskIsAlive
<1> QED
  BY <1>4, <1>5 DEF CInv

-----------------------------------------------------------------------------
(* Steps outside the lock *)

\* Readers, call_rcu and context switches.
LEMMA CpuSteps ==
    ASSUME CInv, NEW c \in CPU,
           \/ ReadLock(c) \/ ReadUnlock(c) \/ ContextSwitch(c)
           \/ \E x \in Cb : CallRcu(c, x)
    PROVE  CInv'
<1>0. TypeOK
  BY DEF CInv
<1>1. CASE ReadLock(c)
  <2>1. TypeOK'
    BY <1>0, <1>1 DEF ReadLock, CanRun, TypeOK, ctrl, qs, lists
  <2> QED
    BY <1>1, <2>1, Elsewhere DEF ReadLock
<1>2. CASE ReadUnlock(c)
  <2>1. TypeOK'
    BY <1>0, <1>2 DEF ReadUnlock, TypeOK, ctrl, qs, lists
  <2> QED
    BY <1>2, <2>1, Elsewhere DEF ReadUnlock
<1>3. CASE ContextSwitch(c)
  <2>1. TypeOK'
    BY <1>0, <1>3 DEF ContextSwitch, TypeOK, ctrl, lists, env
  <2> QED
    BY <1>3, <2>1, Elsewhere DEF ContextSwitch, env
<1>4. CASE \E x \in Cb : CallRcu(c, x)
  <2>1. PICK x \in Cb : CallRcu(c, x)
    BY <1>4
  <2>2. TypeOK'
    BY <1>0, <2>1 DEF CallRcu, TypeOK, ctrl, qs
  <2> QED
    BY <2>1, <2>2, Elsewhere DEF CallRcu
<1> QED
  BY <1>1, <1>2, <1>3, <1>4

\* The tick schedules the tasklet.
LEMMA TickStep ==
    ASSUME CInv, NEW c \in CPU, NEW user \in BOOLEAN, Tick(c, user)
    PROVE  CInv'
<1>1. /\ pc[c] = "off" /\ pc' = [pc EXCEPT ![c] = "run"]
      /\ passed_quiesc' = [passed_quiesc EXCEPT ![c] = @ \/ user]
      /\ UNCHANGED <<ctrl, quiescbatch, qs_pending, lists, env, ret>>
  BY DEF Tick, Goto
<1>2. "run" \in PC \ (Locked \cup {"dead", "move", "up"}) /\ pc[c] \notin Locked
  BY <1>1 DEF PC, Locked
<1>3. TypeOK'
  <2>1. passed_quiesc' \in [CPU -> BOOLEAN]
    BY <1>1 DEF CInv, TypeOK
  <2>2. pc' \in [Thread -> PC]
    BY <1>1, <1>2, Facts
  <2> QED
    BY <1>1, <2>1, <2>2 DEF CInv, TypeOK, ctrl, lists, env
<1> QED
  BY <1>1, <1>2, <1>3, Unlocked DEF ctrl, env

\* The steps of __rcu_process_callbacks outside the lock.
LEMMA TaskletSteps ==
    ASSUME CInv, NEW c \in CPU,
           \/ ProcessLists(c) \/ SetBatch(c) \/ ReadPending(c)
           \/ CheckQuiescent(c) \/ NoteBatch(c) \/ DoBatch(c)
    PROVE  CInv'
<1>0. TypeOK /\ c \in Thread /\ pc \in [Thread -> PC]
  BY Facts DEF CInv
<1>1. pc[c] \in {"run", "batch", "pend", "qs", "note", "do"} /\ pc[c] \notin Locked
  BY DEF ProcessLists, SetBatch, ReadPending, CheckQuiescent, NoteBatch, DoBatch, Locked
<1>2. c \in online
  <2>1. CASE pc[c] = "run"
    BY <2>1 DEF ProcessLists, SetBatch, ReadPending, CheckQuiescent, NoteBatch, DoBatch
  <2>2. CASE pc[c] # "run"
    BY <1>1, <2>2 DEF CInv, Places
  <2> QED
    BY <2>1, <2>2
<1>3. \E l \in PC \ (Locked \cup {"dead", "move", "up"}) : pc' = [pc EXCEPT ![c] = l]
  <2>1. {"off", "run", "batch", "pend", "start", "qs", "note", "quiet", "do"}
          \subseteq PC \ (Locked \cup {"dead", "move", "up"})
    BY DEF PC, Locked
  <2>2. \E l \in {"off", "run", "batch", "pend", "start", "qs", "note", "quiet", "do"} :
            pc' = [pc EXCEPT ![c] = l]
    BY DEF ProcessLists, SetBatch, ReadPending, CheckQuiescent, NoteBatch, DoBatch, Goto
  <2> QED
    BY <2>1, <2>2
<1>4. PICK l \in PC \ (Locked \cup {"dead", "move", "up"}) : pc' = [pc EXCEPT ![c] = l]
  BY <1>3
<1>5. pc' \in [Thread -> PC]
  BY <1>0, <1>4
<1>6. TypeOK' /\ UNCHANGED <<cur, completed, cpumask, online, victim, ret>>
  <2>1. CASE ProcessLists(c)
    BY <1>0, <1>5, <2>1 DEF ProcessLists, TypeOK, ctrl, qs, env
  <2>2. CASE SetBatch(c)
    BY <1>0, <1>5, <2>2, Facts DEF SetBatch, TypeOK, ctrl, qs, env
  <2>3. CASE ReadPending(c)
    BY <1>0, <1>5, <2>3 DEF ReadPending, TypeOK, ctrl, qs, lists, env
  <2>4. CASE CheckQuiescent(c)
    <3>1. qs_pending' \in [CPU -> BOOLEAN]
      BY <1>0, <2>4 DEF CheckQuiescent, TypeOK
    <3> QED
      BY <1>0, <1>5, <2>4, <3>1 DEF CheckQuiescent, TypeOK, ctrl, lists, env
  <2>5. CASE NoteBatch(c)
    BY <1>0, <1>5, <2>5 DEF NoteBatch, TypeOK, ctrl, lists, env
  <2>6. CASE DoBatch(c)
    <3>1. PICK done \in SUBSET donelist[c] :
              /\ donelist' = [donelist EXCEPT ![c] = @ \ done]
              /\ pre' = [x \in Cb |-> IF x \in done THEN {} ELSE pre[x]]
      BY <2>6 DEF DoBatch, kSubset
    <3>2. donelist' \in [CPU -> SUBSET Cb] /\ pre' \in [Cb -> SUBSET CPU]
      BY <1>0, <3>1 DEF TypeOK
    <3> QED
      BY <1>0, <1>5, <2>6, <3>2 DEF DoBatch, TypeOK, ctrl, qs
  <2> QED
    BY <2>1, <2>2, <2>3, <2>4, <2>5, <2>6
<1> QED
  BY <1>1, <1>2, <1>4, <1>6, Unlocked

-----------------------------------------------------------------------------
(* Steps with the lock *)

\* Nobody is inside rcu_start_batch when the lock is free.
LEMMA FreeLock ==
    ASSUME LockFree
    PROVE  ~Bumping
  BY DEF LockFree, Bumping, Locked

\* cpu_quiet, by the tasklet of c for c or by the hotplug thread for the CPU
\* that is gone.
LEMMA QuietStep ==
    ASSUME CInv, LockFree, NEW p \in Thread, NEW c, NEW l, cpu_quiet(p, c, l),
           \/ p \in CPU /\ p \in online /\ l = "do"
           \/ p = Hp /\ c = victim /\ l = "move" /\ victim # None,
           UNCHANGED <<cur, next_pending, qs, lists, env>>
    PROVE  CInv'
<1>1. /\ cpumask' = cpumask \ {c}
      /\ completed' = IF cpumask' = {} THEN cur ELSE completed
      /\ pc' = [pc EXCEPT ![p] = IF cpumask' = {} THEN "test" ELSE l]
      /\ ret' = [ret EXCEPT ![p] = l]
      /\ cur' = cur /\ online' = online /\ victim' = victim
  BY DEF cpu_quiet, Goto, env
<1>2. /\ pc'[p] = "test" \/ pc'[p] = l
      /\ ret'[p] = l
      /\ \A q \in Thread : q # p => pc'[q] = pc[q] /\ ret'[q] = ret[q]
      /\ pc'[p] \in PC /\ pc'[p] # "bump" /\ l \notin Locked /\ l # "off"
      /\ "test" \in Locked
  BY <1>1, Facts DEF PC, Locked
<1>3. ~Bumping'
  <2>1. ~Bumping
    BY FreeLock
  <2> QED
    BY <1>2, <2>1 DEF Bumping
<1>4. TypeOK'
  <2>1. pc' \in [Thread -> PC]
    BY <1>1, <1>2, Facts
  <2>2. completed' \in Batches /\ (cur' = completed' \/ cur' = Inc(completed'))
    BY <1>1 DEF CInv, TypeOK
  <2> QED
    BY <1>1, <2>1, <2>2 DEF CInv, TypeOK, qs, lists, env
<1>5. Places'
  <2>1. ret' \in [Thread -> {"off", "qs", "do", "move"}]
    BY <1>1, Facts
  <2>2. /\ Hp \in Thread /\ CPU \subseteq Thread /\ Hp \notin CPU
    BY Facts
  <2>3. ASSUME NEW d \in CPU
        PROVE  /\ pc'[d] \notin {"dead", "move", "up"}
               /\ pc'[d] \in Locked => ret'[d] \in {"qs", "do"}
               /\ d \notin online' => pc'[d] \in {"off", "run"}
    BY <1>1, <1>2, <2>2 DEF CInv, Places
  <2>4. /\ pc'[Hp] \in {"off", "dead", "move", "up"} \cup Locked
        /\ pc'[Hp] \in Locked => ret'[Hp] = "move"
    BY <1>2, <2>2 DEF CInv, Places
  <2> QED
    BY <2>1, <2>3, <2>4 DEF Places
<1>6. OneLock'
  BY <1>2 DEF OneLock, LockFree
<1>7. Victim'
  BY <1>1, <1>2, Facts DEF CInv, Victim
<1>8. MaskState'
  BY <1>1, <1>3, FreeLock DEF CInv, MaskState
<1>9. MaskIsAlive'
  BY <1>1 DEF CInv, MaskIsAlive
<1> QED
  BY <1>4, <1>5, <1>6, <1>7, <1>8, <1>9 DEF CInv

\* The report of the tasklet.
LEMMA ReportStep ==
    ASSUME CInv, NEW c \in CPU, ReportQuiescent(c)
    PROVE  CInv'
<1>1. /\ pc[c] = "quiet" /\ LockFree /\ c \in Thread
      /\ UNCHANGED <<cur, next_pending, qs, lists, env>>
  BY Facts DEF ReportQuiescent
<1>2. c \in online
  BY <1>1 DEF CInv, Places
<1>3. CASE cpu_quiet(c, c, "do")
  BY <1>1, <1>2, <1>3, QuietStep
<1>4. CASE Goto(c, "do") /\ UNCHANGED <<cpumask, completed, ret>>
  <2>1. /\ "do" \in PC \ (Locked \cup {"dead", "move", "up"}) /\ pc[c] \notin Locked
        /\ pc' = [pc EXCEPT ![c] = "do"]
    BY <1>1, <1>4 DEF PC, Locked, Goto
  <2>2. pc' \in [Thread -> PC]
    BY <2>1, Facts
  <2>3. TypeOK'
    BY <1>1, <1>4, <2>2 DEF CInv, TypeOK, qs, lists, env
  <2> QED
    BY <1>1, <1>2, <1>4, <2>1, <2>3, Unlocked DEF env
<1> QED
  BY <1>3, <1>4 DEF ReportQuiescent

\* The report for a dead CPU.
LEMMA OfflineQuietStep ==
    ASSUME CInv, OfflineQuiet
    PROVE  CInv'
<1>1. /\ pc[Hp] = "dead" /\ LockFree /\ Hp \in Thread
      /\ UNCHANGED <<cur, next_pending, qs, lists, env>>
  BY Facts DEF OfflineQuiet
<1>2. victim # None
  BY <1>1 DEF CInv, Victim
<1>3. CASE cpu_quiet(Hp, victim, "move")
  BY <1>1, <1>2, <1>3, QuietStep
<1>4. CASE cur = completed /\ Goto(Hp, "move") /\ UNCHANGED <<cpumask, completed, ret>>
  <2>1. /\ pc' = [pc EXCEPT ![Hp] = "move"] /\ online' = online /\ victim' = victim
        /\ pc'[Hp] = "move" /\ \A q \in Thread : q # Hp => pc'[q] = pc[q]
        /\ pc' \in [Thread -> PC] /\ "move" \notin Locked /\ "bump" \in Locked
    BY <1>1, <1>4, Facts DEF Goto, Locked, env
  <2>2. cpumask = {}
    BY <1>1, <1>4, FreeLock DEF CInv, MaskState
  <2>3. TypeOK'
    BY <1>1, <1>4, <2>1 DEF CInv, TypeOK, qs, lists, env
  <2>4. Places' /\ OneLock'
    BY <1>1, <1>4, <2>1, Facts DEF CInv, Places, OneLock
  <2>5. ~Bumping' /\ ~Bumping
    BY <1>1, <2>1, FreeLock DEF Bumping
  <2>6. Victim' /\ MaskState' /\ MaskIsAlive'
    BY <1>1, <1>2, <1>4, <2>1, <2>2, <2>5 DEF CInv, Victim, MaskState, MaskIsAlive
  <2> QED
    BY <2>3, <2>4, <2>6 DEF CInv
<1> QED
  BY <1>3, <1>4 DEF OfflineQuiet

\* rcu_start_batch(rcp, rsp, 1) takes the lock.
LEMMA RequestStep ==
    ASSUME CInv, NEW c \in CPU, RequestBatch(c)
    PROVE  CInv'
<1>1. /\ pc[c] = "start" /\ LockFree /\ next_pending' = TRUE
      /\ pc' = [pc EXCEPT ![c] = "test"] /\ ret' = [ret EXCEPT ![c] = "qs"]
      /\ cur' = cur /\ completed' = completed /\ cpumask' = cpumask
      /\ UNCHANGED <<qs, lists, env>>
  BY DEF RequestBatch, Goto
<1>2. /\ c \in Thread /\ pc'[c] = "test" /\ ret'[c] = "qs" /\ online' = online
      /\ victim' = victim
      /\ \A q \in Thread : q # c => pc'[q] = pc[q] /\ ret'[q] = ret[q]
      /\ "test" \in PC /\ "test" \in Locked /\ "bump" \in Locked
      /\ pc' \in [Thread -> PC] /\ ret' \in [Thread -> {"off", "qs", "do", "move"}]
  BY <1>1, Facts DEF PC, Locked, env
<1>3. TypeOK'
  BY <1>1, <1>2 DEF CInv, TypeOK, qs, lists, env
<1>4. c \in online
  BY <1>1 DEF CInv, Places
<1>5. Places'
  BY <1>2, <1>4, Facts DEF CInv, Places
<1>6. OneLock'
  BY <1>1, <1>2 DEF OneLock, LockFree
<1>7. ~Bumping /\ ~Bumping'
  BY <1>1, <1>2, FreeLock DEF Bumping
<1>8. Victim' /\ MaskState' /\ MaskIsAlive'
  BY <1>1, <1>2, <1>7, Facts DEF CInv, Victim, MaskState, MaskIsAlive
<1> QED
  BY <1>3, <1>5, <1>6, <1>8 DEF CInv

\* A thread that leaves the lock goes on where it was.
LEMMA Leave ==
    ASSUME CInv, NEW p \in Thread, pc[p] \in Locked, UNCHANGED <<online, ret>>,
           pc' = [pc EXCEPT ![p] = ret[p]]
    PROVE  /\ Places' /\ OneLock' /\ ~Bumping' /\ pc' \in [Thread -> PC]
           /\ pc'[Hp] = "off" <=> pc[Hp] = "off"
           /\ pc'[Hp] \in {"move"} \cup Locked => pc[Hp] \in {"move"} \cup Locked
<1>1. /\ Hp \in Thread /\ CPU \subseteq Thread /\ Hp \notin CPU
      /\ p \in CPU \/ p = Hp
      /\ pc'[p] = ret[p] /\ \A q \in Thread : q # p => pc'[q] = pc[q]
      /\ pc' \in [Thread -> PC]
      /\ ret[p] \notin Locked /\ "bump" \in Locked /\ "off" \notin Locked
  BY Facts DEF Thread, Locked
<1>2. /\ p \in CPU => ret[p] \in {"qs", "do"} /\ p \in online
      /\ p = Hp => ret[p] = "move"
  <2>1. "off" \notin Locked /\ "run" \notin Locked
    BY DEF Locked
  <2> QED
    BY <2>1 DEF CInv, Places
<1>3. \A q \in Thread : pc[q] \in Locked => q = p
  BY DEF CInv, OneLock
<1>4. Places'
  BY <1>1, <1>2 DEF CInv, Places
<1>5. OneLock' /\ ~Bumping'
  BY <1>1, <1>3 DEF OneLock, Bumping
<1>6. pc'[Hp] = "off" <=> pc[Hp] = "off"
  BY <1>1, <1>2
<1>7. pc'[Hp] \in {"move"} \cup Locked => pc[Hp] \in {"move"} \cup Locked
  BY <1>1, <1>2
<1> QED
  BY <1>1, <1>4, <1>5, <1>6, <1>7

\* The condition of rcu_start_batch.
LEMMA TestStep ==
    ASSUME CInv, NEW p \in Thread, TestBatch(p)
    PROVE  CInv'
<1>1. /\ pc[p] = "test" /\ pc[p] \in Locked
      /\ cur' = cur /\ completed' = completed
      /\ UNCHANGED <<qs, lists, env, ret>> /\ online' = online /\ victim' = victim
  BY DEF TestBatch, Locked, env
<1>2. ~Bumping
  <2>1. \A q \in Thread : pc[q] \in Locked => q = p
    BY <1>1 DEF CInv, OneLock
  <2> QED
    BY <1>1, <2>1 DEF Bumping, Locked
<1>3. CASE completed = cur /\ cpumask' = online /\ next_pending' = FALSE /\ Goto(p, "bump")
  <2>1. /\ pc'[p] = "bump" /\ \A q \in Thread : q # p => pc'[q] = pc[q]
        /\ pc' \in [Thread -> PC] /\ "bump" \in Locked /\ ret' = ret
    BY <1>1, <1>3, Facts DEF Goto, PC, Locked
  <2>2. TypeOK'
    BY <1>1, <1>3, <2>1 DEF CInv, TypeOK, qs, lists, env
  <2>3. Places'
    <3>1. p \in CPU => p \in online
      BY <1>1 DEF CInv, Places
    <3> QED
      BY <1>1, <2>1, <3>1, Facts DEF CInv, Places
  <2>4. OneLock'
    BY <1>1, <2>1 DEF CInv, OneLock
  <2>5. Bumping'
    BY <2>1 DEF Bumping
  <2>6. Victim'
    BY <1>1, <1>3, <2>1, Facts DEF CInv, Victim, Locked
  <2>7. MaskState' /\ MaskIsAlive'
    BY <1>1, <1>3, <2>5 DEF CInv, Victim, MaskState, MaskIsAlive
  <2> QED
    BY <2>2, <2>3, <2>4, <2>6, <2>7 DEF CInv
<1>4. CASE Goto(p, ret[p]) /\ UNCHANGED <<cpumask, next_pending>>
  <2>1. /\ Places' /\ OneLock' /\ ~Bumping' /\ pc' \in [Thread -> PC]
        /\ pc'[Hp] = "off" <=> pc[Hp] = "off"
        /\ pc'[Hp] \in {"move"} \cup Locked => pc[Hp] \in {"move"} \cup Locked
    BY <1>1, <1>4, Leave DEF Goto
  <2>2. TypeOK'
    BY <1>1, <1>4, <2>1 DEF CInv, TypeOK, qs, lists, env
  <2>3. Victim' /\ MaskState' /\ MaskIsAlive'
    BY <1>1, <1>2, <1>4, <2>1 DEF CInv, Victim, MaskState, MaskIsAlive
  <2> QED
    BY <2>1, <2>2, <2>3 DEF CInv
<1> QED
  BY <1>3, <1>4 DEF TestBatch

\* cur++ and the end of rcu_start_batch.
LEMMA BumpStep ==
    ASSUME CInv, NEW p \in Thread, BumpBatch(p)
    PROVE  CInv'
<1>1. /\ pc[p] \in Locked /\ cur' = Inc(cur) /\ completed' = completed
      /\ pc' = [pc EXCEPT ![p] = ret[p]] /\ next_pending' = next_pending
      /\ cpumask' = cpumask /\ ret' = ret /\ online' = online /\ victim' = victim
      /\ UNCHANGED <<qs, lists, env>>
  BY DEF BumpBatch, Locked, Goto, env
<1>2. cur = completed /\ cpumask # {}
  BY DEF CInv, MaskState, Bumping, BumpBatch
<1>3. /\ Places' /\ OneLock' /\ ~Bumping' /\ pc' \in [Thread -> PC]
      /\ pc'[Hp] = "off" <=> pc[Hp] = "off"
      /\ pc'[Hp] \in {"move"} \cup Locked => pc[Hp] \in {"move"} \cup Locked
  BY <1>1, Leave
<1>4. TypeOK'
  BY <1>1, <1>2, <1>3, Facts DEF CInv, TypeOK, qs, lists, env
<1>5. Victim' /\ MaskState' /\ MaskIsAlive'
  BY <1>1, <1>2, <1>3, Facts DEF CInv, Victim, MaskState, MaskIsAlive
<1> QED
  BY <1>3, <1>4, <1>5 DEF CInv

-----------------------------------------------------------------------------
(* Hotplug *)

\* A step of the hotplug thread outside the lock.
LEMMA HpMoves ==
    ASSUME CInv, NEW l \in {"off", "dead", "move", "up"}, pc[Hp] \notin Locked,
           UNCHANGED <<ctrl, ret>>, NEW v,
           pc' = [pc EXCEPT ![Hp] = l]
                 \/ (v \in CPU /\ v \notin online' /\ pc' = [pc EXCEPT ![Hp] = l, ![v] = "off"]),
           \A c \in CPU : c \notin online' => pc[c] \in {"off", "run"},
           TypeOK'
    PROVE  Places' /\ OneLock' /\ (Bumping' <=> Bumping) /\ pc'[Hp] = l
<1>1. /\ Hp \in Thread /\ CPU \subseteq Thread /\ Hp \notin CPU /\ ret' = ret
      /\ pc'[Hp] = l /\ l \notin Locked /\ "bump" \in Locked /\ "off" \notin Locked
      /\ "run" \notin Locked
      /\ \A q \in Thread : q # Hp => pc'[q] = pc[q] \/ (pc'[q] = "off" /\ pc[q] \in {"off", "run"})
  BY Facts DEF Locked
<1>2. Places'
  BY <1>1 DEF CInv, Places
<1>3. OneLock' /\ (Bumping' <=> Bumping)
  BY <1>1 DEF CInv, OneLock, Bumping
<1> QED
  BY <1>1, <1>2, <1>3

\* cpu_down, rcu_move_batch and the two halves of cpu_up.
LEMMA HotplugSteps ==
    ASSUME CInv, CpuUp \/ \E c \in CPU : CpuDown(c) \/ OfflineMove(c) \/ CpuUpPrepare(c)
    PROVE  CInv'
<1>0. /\ Hp \in Thread /\ CPU \subseteq Thread /\ Hp \notin CPU /\ None \notin CPU
      /\ pc \in [Thread -> PC] /\ {"off", "dead", "move", "up"} \subseteq PC
  BY Facts DEF PC
<1>1. ASSUME NEW c \in CPU, CpuDown(c) PROVE CInv'
  <2>1. /\ pc[Hp] = "off" /\ pc' = [pc EXCEPT ![Hp] = "dead"]
        /\ c \in online /\ pc[c] \in {"off", "run"} /\ c \notin reading /\ online # {c}
        /\ online' = online \ {c} /\ victim' = c
        /\ UNCHANGED <<ctrl, qs, lists, reading, pre, ret>>
        /\ cur' = cur /\ completed' = completed /\ cpumask' = cpumask
    BY <1>1 DEF CpuDown, CanRun, Goto, ctrl
  <2>2. TypeOK'
    <3>1. pc' \in [Thread -> PC]
      BY <1>0, <2>1
    <3> QED
      BY <2>1, <3>1 DEF CInv, TypeOK, ctrl, qs, lists
  <2>3. Places' /\ OneLock' /\ (Bumping' <=> Bumping) /\ pc'[Hp] = "dead"
    <3>1. \A d \in CPU : d \notin online' => pc[d] \in {"off", "run"}
      BY <2>1 DEF CInv, Places
    <3>2. pc[Hp] \notin Locked
      BY <2>1 DEF Locked
    <3> QED
      BY <2>1, <2>2, <3>1, <3>2, HpMoves
  <2>4. victim = None
    BY <2>1 DEF CInv, Victim
  <2>5. Victim'
    BY <1>0, <2>1, <2>3 DEF CInv, Victim, Locked
  <2>6. MaskState' /\ MaskIsAlive'
    BY <1>0, <2>1, <2>3, <2>4 DEF CInv, MaskState, MaskIsAlive, TypeOK
  <2> QED
    BY <2>2, <2>3, <2>5, <2>6 DEF CInv
<1>2. ASSUME NEW c \in CPU, OfflineMove(c) PROVE CInv'
  <2>1. /\ pc[Hp] = "move" /\ pc' = [pc EXCEPT ![Hp] = "off", ![victim] = "off"]
        /\ victim' = None /\ online' = online
        /\ UNCHANGED <<ctrl, qs, batch, donelist, reading, pre, ret>>
        /\ nxtlist' = [nxtlist EXCEPT ![c] = @ \cup curlist[victim] \cup nxtlist[victim],
                                      ![victim] = {}]
        /\ curlist' = [curlist EXCEPT ![victim] = {}]
        /\ cur' = cur /\ completed' = completed /\ cpumask' = cpumask
    BY <1>2 DEF OfflineMove, ctrl
  <2>2. victim \in CPU /\ victim \notin online /\ victim \notin cpumask
    BY <2>1 DEF CInv, Victim, TypeOK
  <2>3. TypeOK'
    <3>1. pc' \in [Thread -> PC]
      BY <1>0, <2>1
    <3>2. nxtlist' \in [CPU -> SUBSET Cb] /\ curlist' \in [CPU -> SUBSET Cb]
      BY <2>1, <2>2 DEF CInv, TypeOK
    <3> QED
      BY <2>1, <3>1, <3>2 DEF CInv, TypeOK, ctrl, qs
  <2>4. Places' /\ OneLock' /\ (Bumping' <=> Bumping) /\ pc'[Hp] = "off"
    <3>1. \A d \in CPU : d \notin online' => pc[d] \in {"off", "run"}
      BY <2>1 DEF CInv, Places
    <3>2. pc[Hp] \notin Locked
      BY <2>1 DEF Locked
    <3> QED
      BY <2>1, <2>2, <2>3, <3>1, <3>2, HpMoves
  <2>5. Victim'
    BY <1>0, <2>1, <2>4 DEF CInv, Victim, Locked, TypeOK
  <2>6. MaskState' /\ MaskIsAlive'
    BY <2>1, <2>2, <2>4 DEF CInv, MaskState, MaskIsAlive
  <2> QED
    BY <2>3, <2>4, <2>5, <2>6 DEF CInv
<1>3. ASSUME NEW c \in CPU, CpuUpPrepare(c) PROVE CInv'
  <2>1. /\ pc[Hp] = "off" /\ pc' = [pc EXCEPT ![Hp] = "up"]
        /\ c \notin online /\ online' = online /\ victim' = c
        /\ UNCHANGED <<ctrl, reading, pre, ret>>
        /\ cur' = cur /\ completed' = completed /\ cpumask' = cpumask
    BY <1>3 DEF CpuUpPrepare, Goto, ctrl
  <2>2. TypeOK'
    <3>1. pc' \in [Thread -> PC]
      BY <1>0, <2>1
    <3>2. 0 \in Batches
      BY BatchAssumption DEF Batches
    <3>3. /\ quiescbatch' \in [CPU -> Batches] /\ batch' \in [CPU -> Batches]
          /\ passed_quiesc' \in [CPU -> BOOLEAN] /\ qs_pending' \in [CPU -> BOOLEAN]
          /\ nxtlist' \in [CPU -> SUBSET Cb] /\ curlist' \in [CPU -> SUBSET Cb]
          /\ donelist' \in [CPU -> SUBSET Cb]
      BY <1>3, <3>2 DEF CpuUpPrepare, CInv, TypeOK
    <3> QED
      BY <2>1, <3>1, <3>3 DEF CInv, TypeOK, ctrl
  <2>3. Places' /\ OneLock' /\ (Bumping' <=> Bumping) /\ pc'[Hp] = "up"
    <3>1. \A d \in CPU : d \notin online' => pc[d] \in {"off", "run"}
      BY <2>1 DEF CInv, Places
    <3>2. pc[Hp] \notin Locked
      BY <2>1 DEF Locked
    <3> QED
      BY <2>1, <2>2, <3>1, <3>2, HpMoves
  <2>4. victim = None
    BY <2>1 DEF CInv, Victim
  <2>5. Victim'
    BY <1>0, <2>1, <2>3 DEF CInv, Victim, Locked
  <2>6. MaskState' /\ MaskIsAlive'
    BY <1>0, <2>1, <2>3, <2>4 DEF CInv, MaskState, MaskIsAlive, TypeOK
  <2> QED
    BY <2>2, <2>3, <2>5, <2>6 DEF CInv
<1>4. ASSUME CpuUp PROVE CInv'
  <2>1. /\ pc[Hp] = "up" /\ pc' = [pc EXCEPT ![Hp] = "off"]
        /\ online' = online \cup {victim} /\ victim' = None
        /\ UNCHANGED <<ctrl, qs, lists, reading, pre, ret>>
        /\ cur' = cur /\ completed' = completed /\ cpumask' = cpumask
    BY <1>4 DEF CpuUp, Goto, ctrl
  <2>2. victim \in CPU
    BY <2>1 DEF CInv, Victim, TypeOK
  <2>3. TypeOK'
    <3>1. pc' \in [Thread -> PC]
      BY <1>0, <2>1
    <3> QED
      BY <2>1, <2>2, <3>1 DEF CInv, TypeOK, ctrl, qs, lists
  <2>4. Places' /\ OneLock' /\ (Bumping' <=> Bumping) /\ pc'[Hp] = "off"
    <3>1. \A d \in CPU : d \notin online' => pc[d] \in {"off", "run"}
      BY <2>1 DEF CInv, Places
    <3>2. pc[Hp] \notin Locked
      BY <2>1 DEF Locked
    <3> QED
      BY <2>1, <2>3, <3>1, <3>2, HpMoves
  <2>5. Victim'
    BY <1>0, <2>1, <2>2, <2>4 DEF CInv, Victim, Locked, TypeOK
  <2>6. MaskState' /\ MaskIsAlive'
    BY <2>1, <2>4 DEF CInv, MaskState, MaskIsAlive
  <2> QED
    BY <2>3, <2>4, <2>5, <2>6 DEF CInv
<1> QED
  BY <1>1, <1>2, <1>3, <1>4

\* Every step keeps the control block's invariant.
LEMMA NextCInv == CInv /\ [Next]_vars => CInv'
<1> SUFFICES ASSUME CInv, [Next]_vars PROVE CInv'
  OBVIOUS
<1>1. ASSUME NEW c \in CPU,
             \/ ReadLock(c) \/ ReadUnlock(c) \/ ContextSwitch(c) \/ Tasklet(c)
             \/ \E x \in Cb : CallRcu(c, x)
             \/ \E user \in BOOLEAN : Tick(c, user)
      PROVE  CInv'
  BY <1>1, CpuSteps, TickStep, TaskletSteps, RequestStep, ReportStep DEF Tasklet
<1>2. ASSUME NEW p \in Thread, StartBatch(p) PROVE CInv'
  BY <1>2, TestStep, BumpStep DEF StartBatch
<1>3. CASE HotplugNext
  BY <1>3, OfflineQuietStep, HotplugSteps DEF HotplugNext
<1>4. CASE UNCHANGED vars
  <2>1. TypeOK'
    BY <1>4 DEF CInv, TypeOK, vars, ctrl, qs, lists, env
  <2> QED
    BY <1>4, <2>1, Elsewhere DEF vars, env
<1> QED
  BY <1>1, <1>2, <1>3, <1>4 DEF Next

\* CInv is an inductive invariant, for every kind of hotplug.
LEMMA ControlHolds == Spec => []CInv
  BY InitCInv, NextCInv, PTL DEF Spec

\* Every variable keeps its type; completed is always cur or the batch before it.
THEOREM TypeCorrect == Spec => []TypeOK
<1>1. CInv => TypeOK
  BY DEF CInv
<1> QED
  BY <1>1, ControlHolds, PTL

\* A grace period in progress always waits for somebody who can end it, whatever
\* CPUs go down and come up while it runs.
THEOREM MaskIsAliveHolds == Spec => []MaskIsAlive
<1>1. CInv => MaskIsAlive
  BY DEF CInv
<1> QED
  BY <1>1, ControlHolds, PTL

-----------------------------------------------------------------------------
(* The grace period, while no CPU comes up *)

\* No CPU is on its way up, and a reader older than a callback is still reading.
Older == pc[Hp] # "up" /\ \A x \in Cb : pre[x] \subseteq reading

\* A CPU that is online has taken notice of the current batch, or the grace
\* period waits for it.
Noticed ==
    \A r \in online :
        \/ quiescbatch[r] = cur
        \/ cur # completed /\ quiescbatch[r] = completed /\ r \in cpumask

\* The mask with which a batch is started has every CPU that is online.
MaskFull == Bumping => online \subseteq cpumask

\* The current grace period waits for r, and nothing that r has recorded so far
\* counts as its quiescent state.
Owes(r) ==
    /\ r \in cpumask
    /\ quiescbatch[r] = cur => ~passed_quiesc[r] /\ pc[r] # "quiet"

\* CPU c has callbacks that wait for batch[c].
Waits(c) == c \in online /\ curlist[c] # {} /\ pc[c] # "batch"

\* That batch has not started, but will; or it is running, and every reader that
\* is older than one of the callbacks holds it up; or it is over, no such reader
\* is left, and c puts the callbacks on its done list before it lets the next
\* grace period end.
Ahead(c) ==
    /\ batch[c] = Inc(cur)
    /\ next_pending \/ pc[c] \in {"pend", "start"} \/ Bumping
During(c) ==
    /\ batch[c] = cur /\ cur # completed
    /\ \A x \in curlist[c] : \A r \in pre[x] : Owes(r)
Over(c) ==
    /\ batch[c] = completed
    /\ \A x \in curlist[c] : pre[x] = {}
    /\ cur # completed => /\ c \in cpumask
                          /\ quiescbatch[c] = cur => pc[c] \in {"do", "off", "run"}

Stages == \A c \in CPU : Waits(c) => Ahead(c) \/ During(c) \/ Over(c)

GInv == CInv /\ Older /\ Noticed /\ MaskFull /\ Stages /\ GracePeriod

\* A step leaves what the callbacks of c wait for as it is.
Kept(c) ==
    /\ cur' = cur /\ completed' = completed /\ batch'[c] = batch[c]
    /\ curlist'[c] = curlist[c]
    /\ \A x \in curlist[c] : pre'[x] \subseteq pre[x]
    /\ next_pending \/ Bumping => next_pending' \/ Bumping'
    /\ pc[c] \in {"pend", "start"} => pc'[c] \in {"pend", "start"} \/ next_pending'
    /\ \A r \in reading : Owes(r) => Owes(r)'
    /\ c \in cpumask => c \in cpumask'
    /\ quiescbatch'[c] = cur =>
          \/ pc'[c] \in {"do", "off", "run"}
          \/ /\ quiescbatch[c] = cur
             /\ pc[c] \in {"do", "off", "run"} => pc'[c] \in {"do", "off", "run"}

\* Callbacks that such a step leaves waiting wait for the same batch.
LEMMA KeptStage ==
    ASSUME GInv, NEW c \in CPU, Waits(c), Kept(c)
    PROVE  (Ahead(c) \/ During(c) \/ Over(c))'
<1>1. Ahead(c) \/ During(c) \/ Over(c)
  BY DEF GInv, Stages
<1>2. \A x \in curlist[c] : pre'[x] \subseteq pre[x] /\ pre[x] \subseteq reading
  BY DEF Kept, GInv, Older, CInv, TypeOK
<1>3. CASE Ahead(c)
  BY <1>3 DEF Ahead, Kept
<1>4. CASE During(c)
  BY <1>2, <1>4 DEF During, Kept
<1>5. CASE Over(c)
  BY <1>2, <1>5 DEF Over, Kept
<1> QED
  BY <1>1, <1>3, <1>4, <1>5

\* The invariant holds initially.
LEMMA InitGInv == Init => GInv
<1> SUFFICES ASSUME Init PROVE GInv
  OBVIOUS
<1>1. CInv
  BY InitCInv
<1>2. /\ cur = completed /\ quiescbatch = [c \in CPU |-> completed]
      /\ curlist = [c \in CPU |-> {}] /\ donelist = [c \in CPU |-> {}]
      /\ pre = [x \in Cb |-> {}] /\ pc = [p \in Thread |-> "off"]
      /\ online \in SUBSET CPU /\ Hp \in Thread
  BY DEF Init, Thread
<1>3. Older /\ Noticed /\ Stages /\ GracePeriod
  BY <1>2 DEF Older, Noticed, Stages, Waits, GracePeriod
<1>4. MaskFull
  BY <1>2 DEF MaskFull, Bumping
<1> QED
  BY <1>1, <1>3, <1>4 DEF GInv

\* Readers come and go.
LEMMA ReaderSteps ==
    ASSUME GInv, CInv', NEW c \in CPU, ReadLock(c) \/ ReadUnlock(c)
    PROVE  GInv'
<1>1. /\ cur' = cur /\ completed' = completed /\ next_pending' = next_pending
      /\ cpumask' = cpumask /\ quiescbatch' = quiescbatch /\ passed_quiesc' = passed_quiesc
      /\ batch' = batch /\ curlist' = curlist /\ donelist' = donelist
      /\ online' = online /\ pc' = pc
  BY DEF ReadLock, ReadUnlock, ctrl, qs, lists
<1>2. \A x \in Cb : pre'[x] \subseteq pre[x] /\ pre'[x] \subseteq reading'
  <2>0. pre \in [Cb -> SUBSET CPU] /\ \A x \in Cb : pre[x] \subseteq reading
    BY DEF GInv, CInv, TypeOK, Older
  <2>1. CASE ReadLock(c)
    BY <2>0, <2>1 DEF ReadLock
  <2>2. CASE ReadUnlock(c)
    BY <2>0, <2>2 DEF ReadUnlock
  <2> QED
    BY <2>1, <2>2
<1>3. Bumping' <=> Bumping
  BY <1>1 DEF Bumping
<1>4. Older' /\ Noticed' /\ MaskFull'
  BY <1>1, <1>2, <1>3 DEF GInv, Older, Noticed, MaskFull
<1>5. GracePeriod'
  BY <1>1, <1>2 DEF GInv, GracePeriod, CInv, TypeOK
<1>6. Stages'
  <2> SUFFICES ASSUME NEW d \in CPU, Waits(d)'
               PROVE  (Ahead(d) \/ During(d) \/ Over(d))'
    BY DEF Stages
  <2>1. Waits(d)
    BY <1>1 DEF Waits
  <2>2. \A r \in reading : Owes(r) => Owes(r)'
    BY <1>1 DEF Owes
  <2>3. \A x \in curlist[d] : x \in Cb
    BY DEF GInv, CInv, TypeOK
  <2>4. Kept(d)
    BY <1>1, <1>2, <1>3, <2>2, <2>3 DEF Kept
  <2> QED
    BY <2>1, <2>4, KeptStage
<1> QED
  BY <1>4, <1>5, <1>6 DEF GInv

\* call_rcu: the new callback is on no current and no done list.
LEMMA CallStep ==
    ASSUME GInv, CInv', NEW c \in CPU, NEW x \in Cb, CallRcu(c, x)
    PROVE  GInv'
<1>1. /\ cur' = cur /\ completed' = completed /\ next_pending' = next_pending
      /\ cpumask' = cpumask /\ quiescbatch' = quiescbatch /\ passed_quiesc' = passed_quiesc
      /\ batch' = batch /\ curlist' = curlist /\ donelist' = donelist
      /\ online' = online /\ pc' = pc /\ reading' = reading
      /\ pre' = [pre EXCEPT ![x] = reading]
  BY DEF CallRcu, ctrl, qs
<1>2. \A d \in CPU : x \notin curlist[d] /\ x \notin donelist[d]
  BY DEF CallRcu, Queued
<1>3. \A y \in Cb : (y # x => pre'[y] = pre[y]) /\ pre'[y] \subseteq reading
  BY <1>1 DEF GInv, CInv, TypeOK, Older
<1>4. Bumping' <=> Bumping
  BY <1>1 DEF Bumping
<1>5. Older' /\ Noticed' /\ MaskFull'
  BY <1>1, <1>3, <1>4 DEF GInv, Older, Noticed, MaskFull
<1>6. GracePeriod'
  BY <1>1, <1>2, <1>3 DEF GInv, GracePeriod, CInv, TypeOK
<1>7. Stages'
  <2> SUFFICES ASSUME NEW d \in CPU, Waits(d)'
               PROVE  (Ahead(d) \/ During(d) \/ Over(d))'
    BY DEF Stages
  <2>1. Waits(d)
    BY <1>1 DEF Waits
  <2>2. \A r \in reading : Owes(r) => Owes(r)'
    BY <1>1 DEF Owes
  <2>3. \A y \in curlist[d] : y \in Cb /\ y # x
    BY <1>2 DEF GInv, CInv, TypeOK
  <2>4. Kept(d)
    BY <1>1, <1>3, <1>4, <2>2, <2>3 DEF Kept
  <2> QED
    BY <2>1, <2>4, KeptStage
<1> QED
  BY <1>5, <1>6, <1>7 DEF GInv

\* A context switch or a tick records a quiescent state of a CPU that is not
\* reading.
LEMMA QuiescentSteps ==
    ASSUME GInv, CInv', NEW c \in CPU,
           ContextSwitch(c) \/ \E user \in BOOLEAN : Tick(c, user)
    PROVE  GInv'
<1>1. /\ cur' = cur /\ completed' = completed /\ next_pending' = next_pending
      /\ cpumask' = cpumask /\ quiescbatch' = quiescbatch
      /\ batch' = batch /\ curlist' = curlist /\ donelist' = donelist
      /\ online' = online /\ reading' = reading /\ pre' = pre
  BY DEF ContextSwitch, Tick, ctrl, lists, env
<1>2. /\ Hp \in Thread /\ CPU \subseteq Thread /\ Hp \notin CPU /\ pc \in [Thread -> PC]
      /\ passed_quiesc \in [CPU -> BOOLEAN] /\ reading \subseteq CPU /\ online \subseteq CPU
  BY Facts DEF GInv, CInv, TypeOK
<1>3. pc' = pc \/ (pc[c] = "off" /\ pc' = [pc EXCEPT ![c] = "run"])
  BY DEF ContextSwitch, Tick, Goto
<1>4. \A p \in Thread : pc'[p] = pc[p] \/ (pc[p] = "off" /\ pc'[p] = "run" /\ p # Hp)
  BY <1>2, <1>3
<1>5. \A r \in reading : passed_quiesc'[r] => passed_quiesc[r]
  BY <1>2 DEF ContextSwitch, Tick
<1>6. Bumping' <=> Bumping
  BY <1>4 DEF Bumping
<1>7. Older' /\ Noticed' /\ MaskFull' /\ GracePeriod'
  BY <1>1, <1>2, <1>4, <1>6 DEF GInv, Older, Noticed, MaskFull, GracePeriod
<1>8. Stages'
  <2> SUFFICES ASSUME NEW d \in CPU, Waits(d)'
               PROVE  (Ahead(d) \/ During(d) \/ Over(d))'
    BY DEF Stages
  <2>1. Waits(d)
    BY <1>1, <1>2, <1>4 DEF Waits
  <2>2. \A r \in reading : Owes(r) => Owes(r)'
    BY <1>1, <1>2, <1>4, <1>5 DEF Owes
  <2>3. Kept(d)
    BY <1>1, <1>2, <1>4, <1>6, <2>2 DEF Kept
  <2> QED
    BY <2>1, <2>3, KeptStage
<1> QED
  BY <1>7, <1>8 DEF GInv

\* The steps of the tasklet that leave the lists of waiting callbacks alone.
LEMMA TaskletKept ==
    ASSUME GInv, CInv', NEW c \in CPU,
           ReadPending(c) \/ RequestBatch(c) \/ CheckQuiescent(c) \/ NoteBatch(c) \/ DoBatch(c)
    PROVE  GInv'
<1>1. /\ cur' = cur /\ completed' = completed /\ cpumask' = cpumask
      /\ batch' = batch /\ curlist' = curlist
      /\ online' = online /\ reading' = reading
      /\ next_pending => next_pending'
  BY DEF ReadPending, RequestBatch, CheckQuiescent, NoteBatch, DoBatch, ctrl, lists, env
<1>2. /\ Hp \in Thread /\ CPU \subseteq Thread /\ Hp \notin CPU /\ pc \in [Thread -> PC]
      /\ passed_quiesc \in [CPU -> BOOLEAN] /\ reading \subseteq CPU /\ online \subseteq CPU
      /\ quiescbatch \in [CPU -> Batches] /\ pre \in [Cb -> SUBSET CPU]
      /\ donelist \in [CPU -> SUBSET Cb] /\ curlist \in [CPU -> SUBSET Cb]
  BY Facts DEF GInv, CInv, TypeOK
<1>3. \E l \in PC : pc' = [pc EXCEPT ![c] = l] /\ l # "bump" /\ l # "batch"
  BY <1>2 DEF ReadPending, RequestBatch, CheckQuiescent, NoteBatch, DoBatch, Goto, PC, Locked
<1>4. /\ \A p \in Thread : p # c => pc'[p] = pc[p]
      /\ pc'[c] # "bump" /\ pc'[c] # "batch" /\ pc[c] # "bump" /\ pc[c] # "batch"
  <2>1. pc[c] # "bump" /\ pc[c] # "batch"
    BY DEF ReadPending, RequestBatch, CheckQuiescent, NoteBatch, DoBatch
  <2> QED
    BY <1>2, <1>3, <2>1
<1>5. /\ \A x \in Cb : pre'[x] \subseteq pre[x]
      /\ \A d \in CPU : donelist'[d] \subseteq donelist[d]
  <2>1. CASE DoBatch(c)
    <3>1. PICK done \in SUBSET donelist[c] :
              /\ donelist' = [donelist EXCEPT ![c] = @ \ done]
              /\ pre' = [x \in Cb |-> IF x \in done THEN {} ELSE pre[x]]
      BY <2>1 DEF DoBatch, kSubset
    <3> QED
      BY <1>2, <3>1
  <2>2. CASE ~DoBatch(c)
    BY <2>2 DEF ReadPending, RequestBatch, CheckQuiescent, NoteBatch, lists, env
  <2> QED
    BY <2>1, <2>2
<1>6. Bumping' <=> Bumping
  BY <1>2, <1>4 DEF Bumping
<1>7. \A d \in CPU : d # c => quiescbatch'[d] = quiescbatch[d] /\ passed_quiesc'[d] = passed_quiesc[d]
  BY <1>2 DEF ReadPending, RequestBatch, CheckQuiescent, NoteBatch, DoBatch, qs
<1>8. /\ quiescbatch'[c] = quiescbatch[c] \/ quiescbatch'[c] = cur
      /\ Owes(c) => Owes(c)'
      /\ pc[c] \in {"pend", "start"} => pc'[c] \in {"pend", "start"} \/ next_pending'
      /\ quiescbatch'[c] = cur =>
            \/ pc'[c] \in {"do", "off", "run"}
            \/ /\ quiescbatch[c] = cur
               /\ pc[c] \in {"do", "off", "run"} => pc'[c] \in {"do", "off", "run"}
  <2>1. CASE ReadPending(c)
    BY <1>1, <1>2, <2>1 DEF ReadPending, Goto, qs, Owes, ctrl
  <2>2. CASE RequestBatch(c)
    BY <1>1, <1>2, <2>2 DEF RequestBatch, Goto, qs, Owes
  <2>3. CASE CheckQuiescent(c)
    BY <1>1, <1>2, <2>3 DEF CheckQuiescent, Goto, Owes
  <2>4. CASE NoteBatch(c)
    BY <1>1, <1>2, <2>4 DEF NoteBatch, Goto, Owes
  <2>5. CASE DoBatch(c)
    BY <1>1, <1>2, <2>5 DEF DoBatch, Goto, qs, Owes
  <2> QED
    BY <2>1, <2>2, <2>3, <2>4, <2>5
<1>9. Older'
  BY <1>1, <1>2, <1>4, <1>5 DEF GInv, Older
<1>10. Noticed' /\ MaskFull' /\ GracePeriod'
  BY <1>1, <1>2, <1>5, <1>6, <1>7, <1>8 DEF GInv, Noticed, MaskFull, GracePeriod
<1>11. Stages'
  <2> SUFFICES ASSUME NEW d \in CPU, Waits(d)'
               PROVE  (Ahead(d) \/ During(d) \/ Over(d))'
    BY DEF Stages
  <2>1. Waits(d)
    BY <1>1, <1>2, <1>4 DEF Waits
  <2>2. \A r \in reading : Owes(r) => Owes(r)'
    <3>1. \A r \in CPU : r # c => (Owes(r) => Owes(r)')
      BY <1>1, <1>2, <1>4, <1>7 DEF Owes
    <3> QED
      BY <1>2, <1>8, <3>1
  <2>3. Kept(d)
    <3>1. CASE d = c
      BY <1>1, <1>2, <1>5, <1>6, <1>8, <2>2, <3>1 DEF Kept
    <3>2. CASE d # c
      BY <1>1, <1>2, <1>4, <1>5, <1>6, <1>7, <2>2, <3>2 DEF Kept
    <3> QED
      BY <3>1, <3>2
  <2> QED
    BY <2>1, <2>3, KeptStage
<1> QED
  BY <1>9, <1>10, <1>11 DEF GInv

\* The lists move on: callbacks are done only when their batch is over, and no
\* older reader is left then.
LEMMA ListsStep ==
    ASSUME GInv, CInv', NEW c \in CPU, ProcessLists(c)
    PROVE  GInv'
<1> DEFINE finished == ~rcu_batch_before(completed, batch[c])
           left == IF finished THEN {} ELSE curlist[c]
           advance == nxtlist[c] # {} /\ left = {}
<1>1. /\ pc[c] = "run" /\ c \in online
      /\ donelist' = [donelist EXCEPT ![c] = @ \cup (curlist[c] \ left)]
      /\ curlist' = [curlist EXCEPT ![c] = IF advance THEN nxtlist[c] ELSE left]
      /\ pc' = [pc EXCEPT ![c] = IF advance THEN "batch" ELSE "qs"]
      /\ cur' = cur /\ completed' = completed /\ next_pending' = next_pending
      /\ cpumask' = cpumask /\ quiescbatch' = quiescbatch /\ passed_quiesc' = passed_quiesc
      /\ batch' = batch /\ online' = online /\ reading' = reading /\ pre' = pre
  BY DEF ProcessLists, Goto, ctrl, qs, env
<1>2. /\ Hp \in Thread /\ CPU \subseteq Thread /\ Hp \notin CPU /\ pc \in [Thread -> PC]
      /\ reading \subseteq CPU /\ online \subseteq CPU
      /\ donelist \in [CPU -> SUBSET Cb] /\ curlist \in [CPU -> SUBSET Cb]
      /\ cur \in Batches /\ completed \in Batches /\ (cur = completed \/ cur = Inc(completed))
  BY Facts DEF GInv, CInv, TypeOK
<1>3. curlist[c] # {} => Ahead(c) \/ During(c) \/ Over(c)
  BY <1>1 DEF GInv, Stages, Waits
<1>4. curlist[c] # {} => (finished <=> Over(c))
  <2>1. /\ rcu_batch_before(completed, Inc(completed))
        /\ rcu_batch_before(completed, Inc(Inc(completed)))
        /\ ~rcu_batch_before(completed, completed)
    BY <1>2, BatchNumbers
  <2> QED
    BY <1>2, <1>3, <2>1 DEF Ahead, During, Over
<1>5. \A x \in curlist[c] \ left : pre[x] = {}
  BY <1>4 DEF Over
<1>6. /\ \A p \in Thread : p # c => pc'[p] = pc[p]
      /\ pc'[c] = IF advance THEN "batch" ELSE "qs"
      /\ curlist'[c] = IF advance THEN nxtlist[c] ELSE left
      /\ \A d \in CPU : d # c => curlist'[d] = curlist[d] /\ donelist'[d] = donelist[d]
      /\ donelist'[c] = donelist[c] \cup (curlist[c] \ left)
  BY <1>1, <1>2
<1>7. Waits(c)' => Waits(c) /\ curlist'[c] = curlist[c] /\ pc'[c] = "qs" /\ ~Over(c)
  BY <1>1, <1>4, <1>6 DEF Waits
<1> HIDE DEF finished, left, advance
<1>8. Bumping' <=> Bumping
  BY <1>1, <1>2, <1>6 DEF Bumping
<1>9. Older' /\ Noticed' /\ MaskFull'
  BY <1>1, <1>2, <1>6, <1>8 DEF GInv, Older, Noticed, MaskFull
<1>10. GracePeriod'
  BY <1>1, <1>5, <1>6 DEF GInv, GracePeriod
<1>11. \A r \in reading : Owes(r) => Owes(r)'
  BY <1>1, <1>2, <1>6 DEF Owes
<1>12. Stages'
  <2> SUFFICES ASSUME NEW d \in CPU, Waits(d)'
               PROVE  (Ahead(d) \/ During(d) \/ Over(d))'
    BY DEF Stages
  <2>1. CASE d # c
    <3>1. Waits(d) /\ Kept(d)
      BY <1>1, <1>2, <1>6, <1>8, <1>11, <2>1 DEF Waits, Kept
    <3> QED
      BY <3>1, KeptStage
  <2>2. CASE d = c
    <3>1. Ahead(c) \/ During(c)
      BY <1>3, <1>7, <2>2 DEF Waits
    <3>2. \A x \in curlist[c] : pre[x] \subseteq reading
      BY <1>2 DEF GInv, Older
    <3>3. CASE Ahead(c)
      BY <1>1, <1>8, <2>2, <3>3 DEF Ahead
    <3>4. CASE During(c)
      BY <1>1, <1>7, <1>11, <2>2, <3>2, <3>4 DEF During
    <3> QED
      BY <3>1, <3>3, <3>4
  <2> QED
    BY <2>1, <2>2
<1> QED
  BY <1>9, <1>10, <1>12 DEF GInv

\* rdp->batch = rcp->cur + 1: a batch that has not been started.
LEMMA SetBatchStep ==
    ASSUME GInv, CInv', NEW c \in CPU, SetBatch(c)
    PROVE  GInv'
<1>1. /\ pc[c] = "batch" /\ pc' = [pc EXCEPT ![c] = "pend"]
      /\ batch' = [batch EXCEPT ![c] = Inc(cur)]
      /\ cur' = cur /\ completed' = completed /\ next_pending' = next_pending
      /\ cpumask' = cpumask /\ quiescbatch' = quiescbatch /\ passed_quiesc' = passed_quiesc
      /\ curlist' = curlist /\ donelist' = donelist
      /\ online' = online /\ reading' = reading /\ pre' = pre
  BY DEF SetBatch, Goto, ctrl, qs, env
<1>2. /\ Hp \in Thread /\ CPU \subseteq Thread /\ Hp \notin CPU /\ pc \in [Thread -> PC]
      /\ reading \subseteq CPU /\ online \subseteq CPU /\ batch \in [CPU -> Batches]
  BY Facts DEF GInv, CInv, TypeOK
<1>3. /\ \A p \in Thread : p # c => pc'[p] = pc[p]
      /\ pc'[c] = "pend" /\ batch'[c] = Inc(cur)
      /\ \A d \in CPU : d # c => batch'[d] = batch[d]
  BY <1>1, <1>2
<1>4. Bumping' <=> Bumping
  BY <1>1, <1>2, <1>3 DEF Bumping
<1>5. Older' /\ Noticed' /\ MaskFull' /\ GracePeriod'
  BY <1>1, <1>2, <1>3, <1>4 DEF GInv, Older, Noticed, MaskFull, GracePeriod
<1>6. \A r \in reading : Owes(r) => Owes(r)'
  BY <1>1, <1>2, <1>3 DEF Owes
<1>7. Stages'
  <2> SUFFICES ASSUME NEW d \in CPU, Waits(d)'
               PROVE  (Ahead(d) \/ During(d) \/ Over(d))'
    BY DEF Stages
  <2>1. CASE d # c
    <3>1. Waits(d) /\ Kept(d)
      BY <1>1, <1>2, <1>3, <1>4, <1>6, <2>1 DEF Waits, Kept
    <3> QED
      BY <3>1, KeptStage
  <2>2. CASE d = c
    BY <1>1, <1>3, <2>2 DEF Ahead
  <2> QED
    BY <2>1, <2>2
<1> QED
  BY <1>5, <1>7 DEF GInv

\* cpu_quiet for CPU v, which is gone or has passed a quiescent state of its own
\* since it noticed the batch: the grace period ends only when no reader holds
\* it up.
LEMMA QuietGrace ==
    ASSUME GInv, CInv', LockFree, NEW p \in Thread, NEW v, NEW l \in {"do", "move"},
           cpu_quiet(p, v, l), p = Hp \/ p = v,
           v \in online => p = v /\ pc[v] = "quiet" /\ quiescbatch[v] = cur,
           p \in CPU => pc[p] = "quiet",
           UNCHANGED <<cur, next_pending, qs, lists, env>>
    PROVE  GInv'
<1>1. /\ cpumask' = cpumask \ {v}
      /\ completed' = IF cpumask' = {} THEN cur ELSE completed
      /\ pc' = [pc EXCEPT ![p] = IF cpumask' = {} THEN "test" ELSE l]
      /\ cur' = cur /\ next_pending' = next_pending
      /\ quiescbatch' = quiescbatch /\ passed_quiesc' = passed_quiesc
      /\ batch' = batch /\ curlist' = curlist /\ donelist' = donelist
      /\ online' = online /\ reading' = reading /\ pre' = pre
  BY DEF cpu_quiet, Goto, qs, lists, env
<1>2. /\ Hp \in Thread /\ CPU \subseteq Thread /\ Hp \notin CPU /\ pc \in [Thread -> PC]
      /\ reading \subseteq online /\ online \subseteq CPU
      /\ \A x \in Cb : pre[x] \subseteq reading
      /\ curlist \in [CPU -> SUBSET Cb]
  BY Facts DEF GInv, CInv, TypeOK, Older
<1>3. /\ \A q \in Thread : q # p => pc'[q] = pc[q]
      /\ pc'[p] \in {"test", "do", "move"}
  BY <1>1, <1>2
<1>4. ~Bumping /\ ~Bumping'
  <2>1. ~Bumping
    BY FreeLock
  <2> QED
    BY <1>3, <2>1 DEF Bumping
<1>5. cur = completed => cpumask = {}
  BY <1>4 DEF GInv, CInv, MaskState
<1>6. \A r \in reading : Owes(r) => r # v /\ r \in cpumask' /\ (completed' = completed => Owes(r)')
  <2> SUFFICES ASSUME NEW r \in reading, Owes(r)
               PROVE  r # v /\ r \in cpumask' /\ Owes(r)'
    OBVIOUS
  <2>1. r \in online /\ r \in CPU /\ r \in Thread
    BY <1>2
  <2>2. r # v
    BY <2>1 DEF Owes
  <2>3. r # p
    BY <1>2, <2>1, <2>2
  <2> QED
    BY <1>1, <1>3, <2>1, <2>2, <2>3 DEF Owes
<1>7. Older'
  BY <1>1, <1>2, <1>3 DEF GInv, Older
<1>8. Noticed'
  <2> SUFFICES ASSUME NEW r \in online
               PROVE  \/ quiescbatch[r] = cur
                      \/ cur # completed' /\ quiescbatch[r] = completed' /\ r \in cpumask'
    BY <1>1 DEF Noticed
  <2> QED
    BY <1>1 DEF GInv, Noticed
<1>9. MaskFull' /\ GracePeriod'
  BY <1>1, <1>4 DEF GInv, MaskFull, GracePeriod
<1>10. Stages'
  <2> SUFFICES ASSUME NEW d \in CPU, Waits(d)'
               PROVE  (Ahead(d) \/ During(d) \/ Over(d))'
    BY DEF Stages
  <2>0. d \in online /\ d \in Thread /\ (d = p => pc[d] = "quiet" /\ d = v)
    BY <1>1, <1>2 DEF Waits
  <2>1. Waits(d)
    BY <1>1, <1>3, <2>0 DEF Waits
  <2>2. Ahead(d) \/ During(d) \/ Over(d)
    BY <2>1 DEF GInv, Stages
  <2>3. CASE Ahead(d)
    BY <1>1, <1>3, <1>4, <2>0, <2>3 DEF Ahead
  <2>4. CASE During(d) /\ cpumask' # {}
    BY <1>1, <1>2, <1>6, <2>4 DEF During
  <2>5. CASE During(d) /\ cpumask' = {}
    <3>1. \A x \in curlist[d] : pre[x] = {}
      <4> SUFFICES ASSUME NEW x \in curlist[d], NEW r \in pre[x] PROVE FALSE
        OBVIOUS
      <4>1. Owes(r) /\ r \in reading
        BY <1>2, <2>5 DEF During
      <4> QED
        BY <1>6, <2>5, <4>1
    <3> QED
      BY <1>1, <2>5, <3>1 DEF During, Over
  <2>6. CASE Over(d)
    <3>1. cur # completed => d # v
      BY <2>0, <2>6 DEF Over
    <3>2. CASE cur = completed
      BY <1>1, <1>5, <2>6, <3>2 DEF Over
    <3>3. CASE cur # completed
      <4>1. d \in cpumask' /\ completed' = completed /\ d # p
        BY <1>1, <2>0, <2>6, <3>1, <3>3 DEF Over
      <4> QED
        BY <1>1, <1>3, <2>0, <2>6, <4>1 DEF Over
    <3> QED
      BY <3>2, <3>3
  <2> QED
    BY <2>2, <2>3, <2>4, <2>5, <2>6
<1> QED
  BY <1>7, <1>8, <1>9, <1>10 DEF GInv

\* The report of the tasklet.
LEMMA ReportGrace ==
    ASSUME GInv, CInv', NEW c \in CPU, ReportQuiescent(c)
    PROVE  GInv'
<1>1. /\ pc[c] = "quiet" /\ LockFree /\ c \in Thread
      /\ UNCHANGED <<cur, next_pending, qs, lists, env>>
  BY Facts DEF ReportQuiescent, GInv
<1>2. CASE quiescbatch[c] = cur /\ cpu_quiet(c, c, "do")
  BY <1>1, <1>2, QuietGrace
<1>3. CASE Goto(c, "do") /\ UNCHANGED <<cpumask, completed, ret>>
  <2>1. /\ pc' = [pc EXCEPT ![c] = "do"]
        /\ cur' = cur /\ completed' = completed /\ next_pending' = next_pending
        /\ cpumask' = cpumask /\ quiescbatch' = quiescbatch /\ passed_quiesc' = passed_quiesc
        /\ batch' = batch /\ curlist' = curlist /\ donelist' = donelist
        /\ online' = online /\ reading' = reading /\ pre' = pre
    BY <1>1, <1>3 DEF Goto, qs, lists, env
  <2>2. /\ Hp \in Thread /\ CPU \subseteq Thread /\ Hp \notin CPU /\ pc \in [Thread -> PC]
        /\ reading \subseteq CPU /\ online \subseteq CPU
    BY Facts DEF GInv, CInv, TypeOK
  <2>3. /\ \A p \in Thread : p # c => pc'[p] = pc[p]
        /\ pc'[c] = "do"
    BY <2>1, <2>2
  <2>4. Bumping' <=> Bumping
    BY <1>1, <2>2, <2>3 DEF Bumping
  <2>5. Older' /\ Noticed' /\ MaskFull' /\ GracePeriod'
    BY <2>1, <2>2, <2>3, <2>4 DEF GInv, Older, Noticed, MaskFull, GracePeriod
  <2>6. \A r \in reading : Owes(r) => Owes(r)'
    BY <2>1, <2>2, <2>3 DEF Owes
  <2>7. \A d \in CPU : Waits(d)' => Waits(d) /\ Kept(d)
    BY <1>1, <2>1, <2>2, <2>3, <2>4, <2>6 DEF Waits, Kept
  <2>8. Stages'
    BY <2>7, KeptStage DEF Stages
  <2> QED
    BY <2>5, <2>8 DEF GInv
<1> QED
  BY <1>2, <1>3 DEF ReportQuiescent

\* The condition of rcu_start_batch: the new mask has every CPU that is online.
LEMMA TestGrace ==
    ASSUME GInv, CInv', NEW p \in Thread, TestBatch(p)
    PROVE  GInv'
<1>1. /\ pc[p] = "test" /\ pc[p] \in Locked
      /\ cur' = cur /\ completed' = completed
      /\ quiescbatch' = quiescbatch /\ passed_quiesc' = passed_quiesc
      /\ batch' = batch /\ curlist' = curlist /\ donelist' = donelist
      /\ online' = online /\ reading' = reading /\ pre' = pre /\ ret' = ret
  BY DEF TestBatch, Locked, qs, lists, env
<1>2. /\ Hp \in Thread /\ CPU \subseteq Thread /\ Hp \notin CPU /\ pc \in [Thread -> PC]
      /\ reading \subseteq CPU /\ online \subseteq CPU
  BY Facts DEF GInv, CInv, TypeOK
<1>3. CASE /\ completed = cur /\ cpumask' = online /\ next_pending' = FALSE
           /\ Goto(p, "bump")
  <2>1. /\ pc'[p] = "bump" /\ \A q \in Thread : q # p => pc'[q] = pc[q]
    BY <1>2, <1>3 DEF Goto
  <2>2. Bumping'
    BY <2>1 DEF Bumping
  <2>3. Older' /\ Noticed' /\ MaskFull' /\ GracePeriod'
    BY <1>1, <1>2, <1>3, <2>1 DEF GInv, Older, Noticed, MaskFull, GracePeriod
  <2>4. ASSUME NEW d \in CPU, Waits(d)' PROVE (Ahead(d) \/ During(d) \/ Over(d))'
    <3>1. Ahead(d) \/ During(d) \/ Over(d)
      BY <1>1, <1>2, <2>1, <2>4 DEF GInv, Stages, Waits
    <3> QED
      BY <1>1, <1>3, <2>2, <3>1 DEF Ahead, During, Over
  <2>5. Stages'
    BY <2>4 DEF Stages
  <2> QED
    BY <2>3, <2>5 DEF GInv
<1>4. CASE Goto(p, ret[p]) /\ UNCHANGED <<cpumask, next_pending>>
  <2>1. /\ pc'[p] = ret[p] /\ \A q \in Thread : q # p => pc'[q] = pc[q]
        /\ cpumask' = cpumask /\ next_pending' = next_pending
        /\ ret[p] \in {"off", "qs", "do", "move"}
    BY <1>2, <1>4, Facts DEF Goto, GInv
  <2>2. Bumping' <=> Bumping
    BY <1>1, <1>2, <2>1 DEF Bumping
  <2>3. Older' /\ Noticed' /\ MaskFull' /\ GracePeriod'
    BY <1>1, <1>2, <2>1, <2>2 DEF GInv, Older, Noticed, MaskFull, GracePeriod
  <2>4. \A r \in reading : Owes(r) => Owes(r)'
    BY <1>1, <1>2, <2>1 DEF Owes
  <2>5. \A d \in CPU : Waits(d)' => Waits(d) /\ Kept(d)
    BY <1>1, <1>2, <2>1, <2>2, <2>4 DEF Waits, Kept
  <2>6. Stages'
    BY <2>5, KeptStage DEF Stages
  <2> QED
    BY <2>3, <2>6 DEF GInv
<1> QED
  BY <1>3, <1>4 DEF TestBatch

\* cur++: the batch that was ahead is running, and nobody has noticed it yet.
LEMMA BumpGrace ==
    ASSUME GInv, CInv', NEW p \in Thread, BumpBatch(p)
    PROVE  GInv'
<1>1. /\ pc[p] = "bump" /\ cur' = Inc(cur) /\ completed' = completed
      /\ pc' = [pc EXCEPT ![p] = ret[p]] /\ next_pending' = next_pending
      /\ cpumask' = cpumask /\ quiescbatch' = quiescbatch /\ passed_quiesc' = passed_quiesc
      /\ batch' = batch /\ curlist' = curlist /\ donelist' = donelist
      /\ online' = online /\ reading' = reading /\ pre' = pre /\ ret' = ret
  BY DEF BumpBatch, Goto, qs, lists, env
<1>2. /\ Hp \in Thread /\ CPU \subseteq Thread /\ Hp \notin CPU /\ pc \in [Thread -> PC]
      /\ reading \subseteq online /\ online \subseteq CPU
      /\ \A x \in Cb : pre[x] \subseteq reading
      /\ curlist \in [CPU -> SUBSET Cb]
      /\ ret[p] \in {"off", "qs", "do", "move"} /\ Inc(cur) # cur
  BY Facts DEF GInv, CInv, TypeOK, Older
<1>3. Bumping /\ cur = completed /\ online \subseteq cpumask
  BY <1>1 DEF GInv, CInv, MaskState, MaskFull, Bumping
<1>4. \A q \in Thread : q # p => pc'[q] = pc[q] /\ pc[q] # "bump"
  <2>1. "bump" \in Locked
    BY DEF Locked
  <2> QED
    BY <1>1, <1>2, <2>1 DEF GInv, CInv, OneLock
<1>5. pc'[p] = ret[p] /\ ~Bumping'
  BY <1>1, <1>2, <1>4 DEF Bumping
<1>6. \A r \in online : quiescbatch[r] = cur /\ r \in cpumask
  BY <1>3 DEF GInv, Noticed
<1>7. Older'
  BY <1>1, <1>2, <1>4, <1>5 DEF GInv, Older
<1>8. Noticed' /\ MaskFull' /\ GracePeriod'
  BY <1>1, <1>2, <1>3, <1>5, <1>6 DEF GInv, Noticed, MaskFull, GracePeriod
<1>9. ASSUME NEW d \in CPU, Waits(d)' PROVE (Ahead(d) \/ During(d) \/ Over(d))'
  <2>1. d \in online /\ (Ahead(d) \/ During(d) \/ Over(d))
    BY <1>1, <1>2, <1>4, <1>9 DEF GInv, Stages, Waits
  <2>2. CASE Ahead(d)
    <3>1. \A x \in curlist[d] : \A r \in pre[x] : Owes(r)'
      <4> SUFFICES ASSUME NEW x \in curlist[d], NEW r \in pre[x] PROVE Owes(r)'
        OBVIOUS
      <4>1. r \in online
        BY <1>2
      <4> QED
        BY <1>1, <1>2, <1>6, <4>1 DEF Owes
    <3> QED
      BY <1>1, <1>2, <1>3, <2>2, <3>1 DEF Ahead, During
  <2>3. CASE During(d)
    BY <1>3, <2>3 DEF During
  <2>4. CASE Over(d)
    BY <1>1, <1>2, <1>3, <1>6, <2>1, <2>4 DEF Over
  <2> QED
    BY <2>1, <2>2, <2>3, <2>4
<1>10. Stages'
  BY <1>9 DEF Stages
<1> QED
  BY <1>7, <1>8, <1>10 DEF GInv

\* A CPU goes down, and its waiting callbacks start afresh on another one.
LEMMA DownGrace ==
    ASSUME GInv, CInv', NEW c \in CPU, CpuDown(c) \/ OfflineMove(c)
    PROVE  GInv'
<1>1. /\ cur' = cur /\ completed' = completed /\ next_pending' = next_pending
      /\ cpumask' = cpumask /\ quiescbatch' = quiescbatch /\ passed_quiesc' = passed_quiesc
      /\ batch' = batch /\ donelist' = donelist
      /\ reading' = reading /\ pre' = pre /\ online' \subseteq online
  BY DEF CpuDown, OfflineMove, ctrl, qs, lists
<1>2. /\ Hp \in Thread /\ CPU \subseteq Thread /\ Hp \notin CPU /\ pc \in [Thread -> PC]
      /\ reading \subseteq online /\ online \subseteq CPU
      /\ curlist \in [CPU -> SUBSET Cb]
  BY Facts DEF GInv, CInv, TypeOK
<1>3. /\ \A d \in online : pc'[d] = pc[d] /\ curlist'[d] = curlist[d]
      /\ pc'[Hp] \in {"off", "dead"} /\ pc[Hp] # "bump"
      /\ \A q \in Thread : q # Hp => pc'[q] = pc[q] \/ (pc'[q] = "off" /\ pc[q] \in {"off", "run"})
  <2>1. CASE CpuDown(c)
    BY <1>2, <2>1 DEF CpuDown, Goto, lists
  <2>2. CASE OfflineMove(c)
    <3>1. /\ pc[Hp] = "move" /\ pc' = [pc EXCEPT ![Hp] = "off", ![victim] = "off"]
          /\ curlist' = [curlist EXCEPT ![victim] = {}]
      BY <2>2 DEF OfflineMove
    <3>2. victim \in CPU /\ victim \notin online /\ pc[victim] \in {"off", "run"}
      BY <3>1 DEF GInv, CInv, Victim, TypeOK, Places
    <3> QED
      BY <1>2, <3>1, <3>2
  <2> QED
    BY <2>1, <2>2
<1>4. Bumping' <=> Bumping
  BY <1>2, <1>3 DEF Bumping
<1>5. Older' /\ Noticed' /\ MaskFull' /\ GracePeriod'
  BY <1>1, <1>3, <1>4 DEF GInv, Older, Noticed, MaskFull, GracePeriod
<1>6. \A r \in reading : Owes(r) => Owes(r)'
  BY <1>1, <1>2, <1>3 DEF Owes
<1>7. \A d \in CPU : Waits(d)' => Waits(d) /\ Kept(d)
  BY <1>1, <1>2, <1>3, <1>4, <1>6 DEF Waits, Kept
<1>8. Stages'
  BY <1>7, KeptStage DEF Stages
<1> QED
  BY <1>5, <1>8 DEF GInv

-----------------------------------------------------------------------------

\* Every step keeps the grace-period invariant, as long as no CPU comes up.
LEMMA NextGInv == "up" \notin Hotplug /\ GInv /\ [Next]_vars => GInv'
<1> SUFFICES ASSUME "up" \notin Hotplug, GInv, [Next]_vars PROVE GInv'
  OBVIOUS
<1>0. CInv'
  BY NextCInv DEF GInv
<1>1. ASSUME NEW c \in CPU,
             \/ ReadLock(c) \/ ReadUnlock(c) \/ ContextSwitch(c) \/ Tasklet(c)
             \/ \E x \in Cb : CallRcu(c, x)
             \/ \E user \in BOOLEAN : Tick(c, user)
      PROVE  GInv'
  <2>1. CASE ReadLock(c) \/ ReadUnlock(c)
    BY <1>0, <2>1, ReaderSteps
  <2>2. CASE ContextSwitch(c) \/ \E user \in BOOLEAN : Tick(c, user)
    BY <1>0, <2>2, QuiescentSteps
  <2>3. CASE \E x \in Cb : CallRcu(c, x)
    BY <1>0, <2>3, CallStep
  <2>4. CASE Tasklet(c)
    BY <1>0, <2>4, TaskletKept, ListsStep, SetBatchStep, ReportGrace DEF Tasklet
  <2> QED
    BY <1>1, <2>1, <2>2, <2>3, <2>4
<1>2. ASSUME NEW p \in Thread, StartBatch(p) PROVE GInv'
  BY <1>0, <1>2, TestGrace, BumpGrace DEF StartBatch
<1>3. CASE HotplugNext
  <2>1. CASE OfflineQuiet
    <3>1. /\ pc[Hp] = "dead" /\ LockFree /\ Hp \in Thread /\ Hp \notin CPU
          /\ UNCHANGED <<cur, next_pending, qs, lists, env>>
      BY <2>1, Facts DEF OfflineQuiet, GInv
    <3>2. CASE cpu_quiet(Hp, victim, "move")
      <4>1. victim \notin online
        BY DEF GInv, CInv, Victim
      <4> QED
        BY <1>0, <3>1, <3>2, <4>1, QuietGrace
    <3>3. CASE Goto(Hp, "move") /\ UNCHANGED <<cpumask, completed, ret>>
      <4>1. /\ cur' = cur /\ completed' = completed /\ next_pending' = next_pending
            /\ cpumask' = cpumask /\ quiescbatch' = quiescbatch
            /\ passed_quiesc' = passed_quiesc
            /\ batch' = batch /\ curlist' = curlist /\ donelist' = donelist
            /\ online' = online /\ reading' = reading /\ pre' = pre
            /\ pc' = [pc EXCEPT ![Hp] = "move"]
        BY <3>1, <3>3 DEF Goto, qs, lists, env
      <4>2. /\ CPU \subseteq Thread /\ pc \in [Thread -> PC]
            /\ reading \subseteq CPU /\ online \subseteq CPU
        BY Facts DEF GInv, CInv, TypeOK
      <4>3. pc'[Hp] = "move" /\ \A q \in Thread : q # Hp => pc'[q] = pc[q]
        BY <3>1, <4>1, <4>2
      <4>4. Bumping' <=> Bumping
        BY <3>1, <4>3 DEF Bumping
      <4>5. Older' /\ Noticed' /\ MaskFull' /\ GracePeriod'
        BY <4>1, <4>3, <4>4 DEF GInv, Older, Noticed, MaskFull, GracePeriod
      <4>6. \A r \in reading : Owes(r) => Owes(r)'
        BY <3>1, <4>1, <4>2, <4>3 DEF Owes
      <4>7. \A d \in CPU : Waits(d)' => Waits(d) /\ Kept(d)
        BY <3>1, <4>1, <4>2, <4>3, <4>4, <4>6 DEF Waits, Kept
      <4>8. Stages'
        BY <4>7, KeptStage DEF Stages
      <4> QED
        BY <1>0, <4>5, <4>8 DEF GInv
    <3> QED
      BY <2>1, <3>2, <3>3 DEF OfflineQuiet
  <2>2. CASE \E c \in CPU : CpuDown(c) \/ OfflineMove(c)
    BY <1>0, <2>2, DownGrace
  <2>3. ~CpuUp /\ \A c \in CPU : ~CpuUpPrepare(c)
    BY DEF CpuUp, CpuUpPrepare, GInv, Older
  <2> QED
    BY <1>3, <2>1, <2>2, <2>3 DEF HotplugNext
<1>4. CASE UNCHANGED vars
  <2>1. /\ cur' = cur /\ completed' = completed /\ next_pending' = next_pending
        /\ cpumask' = cpumask /\ quiescbatch' = quiescbatch /\ passed_quiesc' = passed_quiesc
        /\ batch' = batch /\ curlist' = curlist /\ donelist' = donelist
        /\ online' = online /\ reading' = reading /\ pre' = pre /\ pc' = pc
    BY <1>4 DEF vars, ctrl, qs, lists, env
  <2>2. (Bumping' <=> Bumping) /\ \A r : Owes(r)' <=> Owes(r)
    BY <2>1 DEF Bumping, Owes
  <2>3. Older' /\ Noticed' /\ MaskFull' /\ GracePeriod'
    BY <2>1, <2>2 DEF GInv, Older, Noticed, MaskFull, GracePeriod
  <2>4. Stages'
    BY <2>1, <2>2 DEF GInv, Stages, Waits, Ahead, During, Over
  <2> QED
    BY <1>0, <2>3, <2>4 DEF GInv
<1> QED
  BY <1>1, <1>2, <1>3, <1>4 DEF Next

\* As long as no CPU comes up, a callback is invoked only after every read-side
\* critical section older than it has ended: for every number of CPUs and
\* callbacks, whatever CPUs go down, and although batch numbers wrap.
THEOREM GracePeriodHolds == "up" \notin Hotplug => (Spec => []GracePeriod)
<1> SUFFICES ASSUME "up" \notin Hotplug PROVE Spec => []GracePeriod
  OBVIOUS
<1>1. GInv => GracePeriod
  BY DEF GInv
<1>2. GInv /\ [Next]_vars => GInv'
  BY NextGInv
<1> QED
  BY <1>1, <1>2, InitGInv, PTL DEF Spec

\* As long as no CPU comes up, a batch that callbacks wait for is over, running,
\* or will be started.
THEOREM BatchRequestedHolds == "up" \notin Hotplug => (Spec => []BatchRequested)
<1> SUFFICES ASSUME "up" \notin Hotplug PROVE Spec => []BatchRequested
  OBVIOUS
<1>1. GInv => BatchRequested
  <2> SUFFICES ASSUME GInv, NEW c \in online, curlist[c] # {}, pc[c] # "batch"
               PROVE  \/ ~rcu_batch_before(cur, batch[c])
                      \/ /\ batch[c] = Inc(cur)
                         /\ \/ next_pending
                            \/ pc[c] \in {"pend", "start"}
                            \/ \E p \in Thread : pc[p] = "bump"
    BY DEF BatchRequested
  <2>1. /\ cur \in Batches /\ completed \in Batches /\ c \in CPU
        /\ cur = completed \/ cur = Inc(completed)
    BY DEF GInv, CInv, TypeOK
  <2>2. Ahead(c) \/ During(c) \/ Over(c)
    BY <2>1 DEF GInv, Stages, Waits
  <2>3. ~rcu_batch_before(cur, cur) /\ ~rcu_batch_before(Inc(completed), completed)
    BY <2>1, BatchNumbers
  <2> QED
    BY <2>1, <2>2, <2>3 DEF Ahead, During, Over, Bumping
<1>2. GInv /\ [Next]_vars => GInv'
  BY NextGInv
<1> QED
  BY <1>1, <1>2, InitGInv, PTL DEF Spec

-----------------------------------------------------------------------------
(* The callbacks of a CPU that goes down *)

\* A step in which no list of waiting callbacks grows but on a CPU that is online.
LEMMA WaitingKept ==
    ASSUME WaitingNotOrphaned, online' = online, victim' = victim,
           \A c \in CPU \ online : nxtlist'[c] = nxtlist[c] /\ curlist'[c] = curlist[c]
    PROVE  WaitingNotOrphaned'
BY DEF WaitingNotOrphaned

\* The steps of a CPU.
LEMMA WaitingCpu ==
    ASSUME CInv, WaitingNotOrphaned, NEW c \in CPU,
           \/ ReadLock(c) \/ ReadUnlock(c) \/ ContextSwitch(c) \/ Tasklet(c)
           \/ \E x \in Cb : CallRcu(c, x)
           \/ \E user \in BOOLEAN : Tick(c, user)
    PROVE  WaitingNotOrphaned'
<1>0. nxtlist \in [CPU -> SUBSET Cb] /\ curlist \in [CPU -> SUBSET Cb]
  BY DEF CInv, TypeOK
<1>1. CASE \/ ReadLock(c) \/ ReadUnlock(c) \/ ContextSwitch(c)
           \/ SetBatch(c) \/ ReadPending(c) \/ RequestBatch(c)
           \/ CheckQuiescent(c) \/ NoteBatch(c) \/ ReportQuiescent(c) \/ DoBatch(c)
           \/ \E user \in BOOLEAN : Tick(c, user)
  <2>1. UNCHANGED <<nxtlist, curlist, online, victim>>
    BY <1>1 DEF ReadLock, ReadUnlock, ContextSwitch, SetBatch, ReadPending, RequestBatch,
                CheckQuiescent, NoteBatch, ReportQuiescent, DoBatch, Tick, lists, env
  <2> QED
    BY <2>1, WaitingKept
<1>2. CASE \E x \in Cb : CallRcu(c, x)
  <2>1. /\ c \in online /\ UNCHANGED <<curlist, online, victim>>
        /\ \A d \in CPU \ {c} : nxtlist'[d] = nxtlist[d]
    BY <1>0, <1>2 DEF CallRcu
  <2> QED
    BY <2>1, WaitingKept
<1>3. CASE ProcessLists(c)
  <2>1. \E K, N : /\ curlist' = [curlist EXCEPT ![c] = K]
                  /\ nxtlist' = [nxtlist EXCEPT ![c] = N]
    BY <1>3, Zenon DEF ProcessLists
  <2>2. c \in online /\ UNCHANGED <<online, victim>>
    BY <1>3 DEF ProcessLists, env
  <2> QED
    BY <1>0, <2>1, <2>2, WaitingKept
<1> QED
  BY <1>1, <1>2, <1>3 DEF Tasklet

\* A batch is started, by a tasklet or by the hotplug thread.
LEMMA WaitingStart ==
    ASSUME WaitingNotOrphaned, NEW p \in Thread, StartBatch(p)
    PROVE  WaitingNotOrphaned'
<1>1. UNCHANGED <<nxtlist, curlist, online, victim>>
  BY DEF StartBatch, TestBatch, BumpBatch, lists, env
<1> QED
  BY <1>1, WaitingKept

\* CPU hotplug.
LEMMA WaitingHotplug ==
    ASSUME CInv, WaitingNotOrphaned, HotplugNext
    PROVE  WaitingNotOrphaned'
<1>0. /\ nxtlist \in [CPU -> SUBSET Cb] /\ curlist \in [CPU -> SUBSET Cb]
      /\ Hp \notin CPU /\ victim \in CPU \cup {None} /\ None \notin CPU
      /\ victim \notin online /\ (pc[Hp] = "off" <=> victim = None)
      /\ \A d \in CPU : (nxtlist[d] \cup curlist[d] # {}) => d \in online \cup {victim}
  BY Facts DEF CInv, TypeOK, Places, Victim, WaitingNotOrphaned
<1>1. CASE OfflineQuiet
  <2>1. UNCHANGED <<nxtlist, curlist, online, victim>>
    BY <1>1 DEF OfflineQuiet, lists, env
  <2> QED
    BY <2>1, WaitingKept
<1>2. CASE CpuUp
  <2>1. UNCHANGED <<nxtlist, curlist>> /\ online' = online \cup {victim}
    BY <1>2 DEF CpuUp, lists
  <2> QED
    BY <1>0, <2>1 DEF WaitingNotOrphaned
<1>3. ASSUME NEW c \in CPU, CpuDown(c) PROVE WaitingNotOrphaned'
  <2>1. /\ UNCHANGED <<nxtlist, curlist>> /\ online' = online \ {c} /\ victim' = c
        /\ pc[Hp] = "off"
    BY <1>3 DEF CpuDown, lists
  <2> QED
    BY <1>0, <2>1 DEF WaitingNotOrphaned
<1>4. ASSUME NEW c \in CPU, OfflineMove(c) PROVE WaitingNotOrphaned'
  <2>1. c \in online /\ victim \in CPU /\ victim # c /\ online' = online
    BY <1>0, <1>4 DEF OfflineMove
  <2>2. /\ \A d \in CPU \ {c, victim} : nxtlist'[d] = nxtlist[d] /\ curlist'[d] = curlist[d]
        /\ nxtlist'[victim] = {} /\ curlist'[victim] = {}
    BY <1>0, <1>4, <2>1 DEF OfflineMove
  <2> QED
    BY <1>0, <2>1, <2>2 DEF WaitingNotOrphaned
<1>5. ASSUME NEW c \in CPU, CpuUpPrepare(c) PROVE WaitingNotOrphaned'
  <2>1. /\ online' = online /\ pc[Hp] = "off"
        /\ \A d \in CPU : (nxtlist'[d] \cup curlist'[d] # {}) => (nxtlist[d] \cup curlist[d] # {})
    BY <1>0, <1>5 DEF CpuUpPrepare
  <2> QED
    BY <1>0, <2>1 DEF WaitingNotOrphaned
<1> QED
  BY <1>1, <1>2, <1>3, <1>4, <1>5 DEF HotplugNext

\* rcu_offline_cpu leaves no callback behind that waits for a grace period, however many
\* there are and between whatever steps of its tasklet the CPU dies: each is on a CPU
\* that is online or whose lists are about to be moved.  (Callbacks whose grace period is
\* over are another matter: a run of the tasklet may leave some on the done list, which
\* is not moved.)
THEOREM WaitingNotOrphanedHolds == Spec => []WaitingNotOrphaned
<1>1. Init => WaitingNotOrphaned
  BY DEF Init, WaitingNotOrphaned
<1>2. CInv /\ WaitingNotOrphaned /\ [Next]_vars => WaitingNotOrphaned'
  <2> SUFFICES ASSUME CInv, WaitingNotOrphaned, [Next]_vars PROVE WaitingNotOrphaned'
    OBVIOUS
  <2>1. CASE UNCHANGED vars
    BY <2>1 DEF vars, lists, env, WaitingNotOrphaned
  <2>2. CASE Next
    BY <2>2, WaitingCpu, WaitingStart, WaitingHotplug DEF Next
  <2> QED
    BY <2>1, <2>2
<1> QED
  BY <1>1, <1>2, ControlHolds, PTL DEF Spec
==============================================================================
