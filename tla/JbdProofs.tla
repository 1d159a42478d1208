----------------------------- MODULE JbdProofs -----------------------------
(***************************************************************************)
(* Who owns the buffers of the journal, for every number of blocks and     *)
(* handles and every size of the log, in the windows as well.              *)
(***************************************************************************)
EXTENDS Jbd, SequenceTheorems, WellFoundedInduction, TLAPS

(* Numbers and records *)

\* A non-empty set of numbers has a least one.
LEMMA LeastNat ==
    ASSUME NEW S, S \subseteq Nat, S # {}
    PROVE  \E m \in S : \A k \in S : m <= k
<1> DEFINE Less == OpToRel(<, Nat)
<1>1. Less = {p \in Nat \X Nat : p[1] < p[2]}
  BY Zenon DEF OpToRel
<1>2. PICK m \in S : \A k \in S : ~(<<k, m>> \in Less)
  BY WFMin, NatLessThanWellFounded
<1>3. \A k \in S : <<k, m>> \in Less <=> k < m
  BY <1>1
<1> HIDE DEF Less
<1>4. ASSUME NEW k \in S PROVE m <= k
  <2>1. ~(k < m) /\ m \in Nat /\ k \in Nat
    BY <1>2, <1>3
  <2> QED
    BY <2>1
<1> QED
  BY <1>4

-----------------------------------------------------------------------------
(* The transaction id that recovery arrives at *)

\* The pass of do_one_pass over the log lg is the recursion that Scan writes down.
PassUpTo(f, lg, s, m) ==
    f = [n \in 0..m |-> IF n = 0 THEN ScanStart(s) ELSE ScanBlock(lg, f[n - 1])]

LEMMA PassExists ==
    ASSUME NEW lg, NEW s, NEW m \in Nat
    PROVE  \E f : PassUpTo(f, lg, s, m)
<1> DEFINE Bad == {k \in Nat : ~\E f : PassUpTo(f, lg, s, k)}
<1> SUFFICES ASSUME Bad # {} PROVE FALSE
  OBVIOUS
<1>1. PICK k \in Bad : \A j \in Bad : k <= j
  BY LeastNat
<1>2. k \in Nat /\ ~\E f : PassUpTo(f, lg, s, k)
  OBVIOUS
<1>3. CASE k = 0
  <2>1. PICK f : f = [n \in 0..0 |-> ScanStart(s)]
    OBVIOUS
  <2>2. \A n \in 0..0 : n = 0
    OBVIOUS
  <2>3. f = [n \in 0..0 |-> IF n = 0 THEN ScanStart(s) ELSE ScanBlock(lg, f[n - 1])]
    BY <2>1, <2>2
  <2> QED
    BY <1>2, <1>3, <2>3 DEF PassUpTo
<1>4. CASE k # 0
  <2>1. k - 1 \in Nat /\ ~(k <= k - 1)
    BY <1>2, <1>4
  <2>2. PICK f : PassUpTo(f, lg, s, k - 1)
    BY <1>1, <2>1
  <2>3. \A n \in 0..k - 1 : f[n] = IF n = 0 THEN ScanStart(s) ELSE ScanBlock(lg, f[n - 1])
    BY Zenon, <2>2 DEF PassUpTo
  <2>4. PICK g : g = [n \in 0..k |-> IF n = k THEN ScanBlock(lg, f[k - 1]) ELSE f[n]]
    OBVIOUS
  <2>5. /\ k \in 0..k /\ k - 1 \in 0..k /\ k - 1 # k
        /\ \A n \in 0..k : n # k => n \in 0..k - 1
        /\ \A n \in 0..k - 1 : n # 0 => n - 1 \in 0..k /\ n - 1 # k
    BY <1>2, <1>4
  <2>6. \A n \in 0..k - 1 : n \in 0..k /\ n # k
    BY <1>2
  <2>7. g[k] = ScanBlock(lg, f[k - 1]) /\ \A n \in 0..k : n # k => g[n] = f[n]
    BY <2>4, <2>5
  <2>8. ASSUME NEW n \in 0..k
        PROVE  g[n] = IF n = 0 THEN ScanStart(s) ELSE ScanBlock(lg, g[n - 1])
    <3>1. CASE n = k
      <4>1. g[k - 1] = f[k - 1]
        BY <2>5, <2>7
      <4> QED
        BY <1>4, <2>7, <3>1, <4>1
    <3>2. CASE n # k
      <4>1. n \in 0..k - 1 /\ g[n] = f[n] /\ (n # 0 => g[n - 1] = f[n - 1])
        BY <2>5, <2>7, <3>2
      <4> QED
        BY <2>3, <4>1
    <3> QED
      BY <3>1, <3>2
  <2>9. g = [n \in 0..k |-> g[n]]
    BY <2>4
  <2>10. PassUpTo(g, lg, s, k)
    BY <2>8, <2>9 DEF PassUpTo
  <2> QED
    BY <1>2, <2>10
<1> QED
  BY <1>3, <1>4

LEMMA ScanIsPass ==
    ASSUME NEW lg, NEW s
    PROVE  \E f : PassUpTo(f, lg, s, LogSize) /\ Scan(lg, s) = f[LogSize]
<1>1. \E f : PassUpTo(f, lg, s, LogSize)
  BY PassExists, JbdConstants
<1> DEFINE P(f) == f = [n \in 0..LogSize |-> IF n = 0 THEN ScanStart(s) ELSE ScanBlock(lg, f[n - 1])]
<1>2. \E f : P(f)
  BY Zenon, <1>1 DEF PassUpTo
<1>3. P(CHOOSE f : P(f))
  BY Zenon, <1>2
<1> QED
  BY Zenon, <1>3 DEF Scan, PassUpTo

\* The state of a pass; each block leaves a transaction id.
PassState(p) ==
    /\ p = [f \in {"pos", "tid", "end", "revoked", "writes"} |-> p[f]]
    /\ p.tid \in Nat

LEMMA PassField ==
    ASSUME NEW p, PassState(p), NEW x, NEW y
    PROVE  /\ PassState([p EXCEPT !.end = x])
           /\ PassState([p EXCEPT !.pos = x, !.revoked = y])
           /\ PassState([p EXCEPT !.pos = x, !.writes = y])
           /\ y \in Nat => PassState([p EXCEPT !.pos = x, !.tid = y])
<1> USE DEF PassState
<1>1. PassState([p EXCEPT !.end = x])
  OBVIOUS
<1>2. PassState([p EXCEPT !.pos = x, !.revoked = y])
  OBVIOUS
<1>3. PassState([p EXCEPT !.pos = x, !.writes = y])
  OBVIOUS
<1>4. ASSUME y \in Nat PROVE PassState([p EXCEPT !.pos = x, !.tid = y])
  BY <1>4
<1> QED
  BY <1>1, <1>2, <1>3, <1>4

LEMMA BlockTid ==
    ASSUME NEW lg, NEW p, PassState(p)
    PROVE  PassState(ScanBlock(lg, p))
<1> DEFINE r == lg[p.pos]
<1> DEFINE at(k) == ((p.pos - 1 + k) % LogSize) + 1
<1> DEFINE rv == p.revoked \cup {<<b, r.tid>> : b \in r.blocks}
<1> DEFINE ws == p.writes \o [k \in 1..Len(r.tags) |->
                           [block |-> r.tags[k], tid |-> r.tid, rec |-> lg[at(k)]]]
<1> DEFINE n == Len(r.tags)
<1> DEFINE Ended == [p EXCEPT !.end = TRUE]
<1> DEFINE Commit == [p EXCEPT !.pos = at(1), !.tid = p.tid + 1]
<1> DEFINE Revoke == [p EXCEPT !.pos = at(1), !.revoked = rv]
<1> DEFINE Desc == [p EXCEPT !.pos = at(1 + n), !.writes = ws]
<1>1. ScanBlock(lg, p) \in {Ended, Commit, Revoke, Desc}
  BY Zenon DEF ScanBlock
<1>2. p.tid + 1 \in Nat
  BY DEF PassState
<1> HIDE DEF at, rv, ws, n
<1>3. PassState(Ended) /\ PassState(Revoke) /\ PassState(Desc) /\ PassState(Commit)
  BY <1>2, PassField
<1> HIDE DEF Ended, Commit, Revoke, Desc
<1> QED
  BY <1>1, <1>3

LEMMA ScanTid ==
    ASSUME NEW lg, NEW s, s.seq \in Nat
    PROVE  Scan(lg, s).tid \in Nat
<1>1. PICK f : PassUpTo(f, lg, s, LogSize) /\ Scan(lg, s) = f[LogSize]
  BY ScanIsPass
<1>2. \A n \in 0..LogSize : f[n] = IF n = 0 THEN ScanStart(s) ELSE ScanBlock(lg, f[n - 1])
  BY Zenon, <1>1 DEF PassUpTo
<1> DEFINE Bad == {n \in 0..LogSize : ~PassState(f[n])}
<1>3. CASE Bad # {}
  <2>1. LogSize \in Nat /\ Bad \subseteq Nat
    BY JbdConstants
  <2>2. PICK k \in Bad : \A j \in Bad : k <= j
    BY <1>3, <2>1, LeastNat
  <2>3. k \in 0..LogSize /\ ~PassState(f[k])
    OBVIOUS
  <2>4. CASE k = 0
    BY <1>2, <2>3, <2>4 DEF PassState, ScanStart
  <2>5. CASE k # 0
    <3>1. k - 1 \in 0..LogSize /\ ~(k <= k - 1)
      BY <2>1, <2>3, <2>5
    <3>2. PassState(f[k - 1])
      BY <2>2, <3>1
    <3>3. f[k] = ScanBlock(lg, f[k - 1])
      BY <1>2, <2>3, <2>5
    <3> QED
      BY <2>3, <3>2, <3>3, BlockTid
  <2> QED
    BY <2>4, <2>5
<1>4. CASE Bad = {}
  <2>1. LogSize \in 0..LogSize
    BY JbdConstants
  <2> QED
    BY <1>1, <1>4, <2>1 DEF PassState
<1> QED
  BY <1>3, <1>4

-----------------------------------------------------------------------------
(* Journal heads and transactions *)

HeadFields == {"val", "trans", "next", "list", "frozen", "cp", "dirty", "jbd"}
Lists == {"None", "Reserved", "Metadata", "Shadow", "Forget"}

IsHead(r) ==
    /\ r = [f \in HeadFields |-> r[f]]
    /\ r.trans \in Nat /\ r.next \in Nat /\ r.list \in Lists /\ r.cp.tid \in Nat
    /\ r.dirty \in BOOLEAN /\ r.jbd \in BOOLEAN

RunFields == {"tid", "locked", "credits", "revoke", "sync", "undo"}
ComFields == {"tid", "phase", "start", "credits", "revoke", "sync", "undo", "fs", "desc",
              "tags", "copying", "page"}

IsRun(t) ==
    /\ t = [f \in RunFields |-> t[f]]
    /\ t.tid \in Nat \ {0} /\ t.locked \in BOOLEAN

IsCom(t) ==
    /\ t = [f \in ComFields |-> t[f]]
    /\ t.tid \in Nat \ {0} /\ t.tags \in Seq(Block) /\ t.copying \in Block \cup {None}

LEMMA ListNames ==
    /\ "None" \in Lists /\ "Reserved" \in Lists /\ "Metadata" \in Lists
    /\ "Shadow" \in Lists /\ "Forget" \in Lists
  BY DEF Lists

\* What File, Unfile, Refile and Clean make of each field.
LEMMA FileFields ==
    ASSUME NEW r, IsHead(r), NEW t \in Nat, NEW l \in Lists, NEW q, q = File(r, t, l)
    PROVE  /\ IsHead(q) /\ q.trans = t /\ q.list = l
           /\ ~q.dirty /\ (q.jbd <=> r.dirty \/ r.jbd)
           /\ q.next = r.next /\ q.frozen = r.frozen /\ q.cp = r.cp
  BY DEF IsHead, File, HeadFields

LEMMA UnfileFields ==
    ASSUME NEW r, IsHead(r), NEW q, q = Unfile(r)
    PROVE  /\ IsHead(q) /\ q.trans = 0 /\ q.list = "None"
           /\ (q.dirty <=> r.dirty \/ r.jbd) /\ ~q.jbd
           /\ q.next = r.next /\ q.frozen = r.frozen /\ q.cp = r.cp
  BY DEF IsHead, Unfile, HeadFields, Lists

LEMMA RefileFields ==
    ASSUME NEW r, IsHead(r), r.next # 0, NEW q, q = Refile(r)
    PROVE  /\ IsHead(q) /\ q.trans = r.next /\ q.list = "Metadata"
           /\ q.dirty = r.dirty /\ q.jbd = r.jbd
           /\ q.next = 0 /\ q.frozen = r.frozen /\ q.cp = r.cp
  BY DEF IsHead, Refile, HeadFields, Lists

LEMMA CleanFields ==
    ASSUME NEW v, NEW q, q = Clean(v)
    PROVE  /\ IsHead(q) /\ q.trans = 0 /\ q.next = 0 /\ q.list = "None"
           /\ q.frozen = None /\ ~q.dirty /\ ~q.jbd
  BY DEF IsHead, Clean, HeadFields, Lists, NoCp

-----------------------------------------------------------------------------
(* The invariant *)

\* Where a journal head r can be while rt is the running and ct the committing
\* transaction.
Filed(r, rt, ct) ==
    /\ r.trans \in {0, rt, ct} /\ (r.trans = 0 <=> r.list = "None")
    /\ r.next # 0 => r.next = rt /\ r.trans = ct /\ ct # 0
    /\ r.dirty => r.trans = 0
    /\ r.frozen # None => r.trans = ct /\ ct # 0
    /\ r.list \in {"Metadata", "Shadow"} => r.jbd
    /\ r.list = "Reserved" => r.trans = rt
    /\ r.list = "Shadow" => r.trans = ct

\* The committing transaction's lists hold q exactly when they hold r.
SameLists(r, q, ct) ==
    /\ q.list = "Shadow" <=> r.list = "Shadow"
    /\ q.trans = ct /\ q.list = "Metadata" <=> r.trans = ct /\ r.list = "Metadata"

Shapes ==
    /\ buf = [b \in Block |-> buf[b]] /\ \A b \in Block : IsHead(buf[b])
    /\ kind = [b \in Block |-> kind[b]]
    /\ run = NoTrans \/ IsRun(run)
    /\ com = NoTrans \/ IsCom(com)
    /\ handle = [h \in Handle |-> handle[h]]

Tids0 ==
    /\ seq \in Nat /\ tailseq \in Nat /\ sb.seq \in Nat
    /\ mode # "down" => seq # 0
    /\ run.tid # 0 => run.tid < seq
    /\ com.tid # 0 => com.tid < seq
    /\ run.tid # 0 => com.tid # run.tid
    /\ run # NoTrans /\ run.locked => com = NoTrans
    /\ \A h \in Handle : handle[h] # None => run # NoTrans
    /\ ~Up => run = NoTrans /\ com = NoTrans

FiledAll == \A b \in Block : Filed(buf[b], run.tid, com.tid)

\* The head of a free block: no transaction is to have it next, and the block is
\* pinned while the committing one has still to write it to the log.
FreeAll ==
    \A b \in Block : kind[b] = Free =>
        /\ buf[b].next = 0
        /\ buf[b].list \in {"None", "Forget"} \/ (b \in pinned /\ buf[b].trans = com.tid)

\* A block between its creation and its filling is metadata.
Created ==
    /\ fresh = [h \in Handle |-> fresh[h]]
    /\ \A h \in Handle, b \in Block : fresh[h] = b => kind[b] = "meta" /\ Up

Commits ==
    com # NoTrans =>
        /\ IsInjective(com.tags)
        /\ \A b \in Block : buf[b].list = "Shadow" <=> b \in Range(com.tags)
        /\ com.phase \in {"wait", "record", "forget"} => Owned(com.tid, "Metadata") = {}
        /\ com.phase \in {"record", "forget"} => com.tags = <<>>
        /\ com.copying # None =>
              com.phase = "meta" /\ com.copying \in Owned(com.tid, "Metadata")

JInv == Shapes /\ Tids0 /\ FiledAll /\ Commits /\ FreeAll /\ Created

LEMMA NoTransTid == NoTrans.tid = 0
  BY DEF NoTrans

LEMMA TransTids ==
    ASSUME Shapes
    PROVE  /\ run.tid \in Nat /\ com.tid \in Nat
           /\ run # NoTrans <=> run.tid # 0
           /\ com # NoTrans <=> com.tid # 0
  BY NoTransTid DEF Shapes, IsRun, IsCom

\* The shape of the heads when one of them is replaced.
LEMMA OneBuf ==
    ASSUME Shapes, NEW b \in Block, NEW q, IsHead(q), SetBuf(b, q)
    PROVE  /\ buf' = [c \in Block |-> buf'[c]] /\ \A c \in Block : IsHead(buf'[c])
           /\ buf'[b] = q /\ \A c \in Block \ {b} : buf'[c] = buf[c]
<1>1. buf'[b] = q /\ \A c \in Block \ {b} : buf'[c] = buf[c]
  BY DEF Shapes, SetBuf
<1>2. buf' = [c \in Block |-> buf'[c]]
  BY DEF Shapes, SetBuf
<1>3. \A c \in Block : IsHead(buf'[c])
  BY <1>1 DEF Shapes
<1> QED
  BY <1>1, <1>2, <1>3

\* Commits when the committing transaction stays and its lists do.
LEMMA CommitsStay ==
    ASSUME Commits, com' = com, \A b \in Block : SameLists(buf[b], buf'[b], com.tid)
    PROVE  Commits'
  BY DEF Commits, SameLists, Owned

\* A handle, the VM or a checkpoint replaces one head.
LEMMA OneHead ==
    ASSUME JInv, NEW b \in Block, NEW q, IsHead(q), SetBuf(b, q), com' = com,
           run'.tid = run.tid, \A c \in Block \ {b} : kind'[c] = kind[c],
           pinned \subseteq pinned',
           Filed(q, run.tid, com.tid), SameLists(buf[b], q, com.tid),
           kind'[b] = Free => q.next = 0 /\ (q.list \in {"None", "Forget"}
                                             \/ (b \in pinned' /\ q.trans = com.tid))
    PROVE  /\ buf' = [c \in Block |-> buf'[c]] /\ \A c \in Block : IsHead(buf'[c])
           /\ FiledAll' /\ Commits' /\ FreeAll'
<1>1. /\ buf' = [c \in Block |-> buf'[c]] /\ \A c \in Block : IsHead(buf'[c])
      /\ buf'[b] = q /\ \A c \in Block \ {b} : buf'[c] = buf[c]
  BY OneBuf DEF JInv
<1>2. FiledAll'
  BY <1>1 DEF JInv, FiledAll
<1>3. \A c \in Block : SameLists(buf[c], buf'[c], com.tid)
  BY <1>1 DEF SameLists
<1>4. Commits'
  BY <1>3, CommitsStay DEF JInv
<1>5. FreeAll'
  BY <1>1 DEF JInv, FreeAll
<1> QED
  BY <1>1, <1>2, <1>4, <1>5

-----------------------------------------------------------------------------
(* What the operations of a handle make of a journal head *)

LEMMA AccessFiled ==
    ASSUME NEW b \in Block, NEW t \in Nat \ {0}, NEW ct \in Nat, t # ct,
           IsHead(buf[b])
    PROVE  Filed(buf[b], t, ct) =>
           /\ IsHead(Access(b, t)) /\ Filed(Access(b, t), t, ct)
           /\ SameLists(buf[b], Access(b, t), ct)
<1> DEFINE r == buf[b]
<1>q. PICK q : q = File(r, t, "Reserved")
  OBVIOUS
<1>f. /\ IsHead(q) /\ q.trans = t /\ q.list = "Reserved" /\ ~q.dirty
      /\ q.next = r.next /\ q.frozen = r.frozen
  BY <1>q, FileFields, ListNames
<1> HAVE Filed(buf[b], t, ct)
<1>1. CASE r.trans = t \/ r.next = t
  BY <1>1 DEF Access, SameLists
<1>2. CASE ~(r.trans = t \/ r.next = t) /\ r.frozen # None
  <2>1. Access(b, t) = [r EXCEPT !.next = t]
    BY <1>2 DEF Access
  <2> HIDE DEF r
  <2>2. PICK p : p = [r EXCEPT !.next = t]
    OBVIOUS
  <2>3. IsHead(p) /\ p.next = t /\ \A f \in HeadFields \ {"next"} : p[f] = r[f]
    BY <2>2 DEF IsHead, r, HeadFields
  <2>4. Filed(p, t, ct) /\ SameLists(r, p, ct)
    BY <1>2, <2>3 DEF Filed, SameLists, r, HeadFields
  <2> QED
    BY <2>1, <2>2, <2>3, <2>4 DEF r
<1>3. CASE ~(r.trans = t \/ r.next = t) /\ r.frozen = None /\ r.trans # 0
  <2>1. PICK x : x = IF r.list # "Forget" THEN r.val ELSE None
    OBVIOUS
  <2>2. Access(b, t) = [r EXCEPT !.next = t, !.frozen = x]
    BY <1>3, <2>1 DEF Access
  <2> HIDE DEF r
  <2>3. PICK p : p = [r EXCEPT !.next = t, !.frozen = x]
    OBVIOUS
  <2>4. IsHead(p) /\ p.next = t /\ \A f \in HeadFields \ {"next", "frozen"} : p[f] = r[f]
    BY <2>3 DEF IsHead, r, HeadFields
  <2>5. Filed(p, t, ct) /\ SameLists(r, p, ct)
    BY <1>3, <2>4 DEF Filed, SameLists, r, HeadFields
  <2> QED
    BY <2>2, <2>3, <2>4, <2>5 DEF r
<1>4. CASE ~(r.trans = t \/ r.next = t) /\ r.frozen = None /\ r.trans = 0
  <2>1. Access(b, t) = File(r, t, "Reserved")
    BY <1>4 DEF Access
  <2> HIDE DEF r
  <2>2. Filed(q, t, ct) /\ SameLists(r, q, ct)
    BY <1>4, <1>f DEF Filed, SameLists, r
  <2> QED
    BY <2>1, <1>q, <1>f, <2>2 DEF r
<1> QED
  BY <1>1, <1>2, <1>3, <1>4

LEMMA DirtyFiled ==
    ASSUME NEW r, NEW t \in Nat \ {0}, NEW ct \in Nat, NEW v, t # ct,
           IsHead(r)
    PROVE  Filed(r, t, ct) =>
           /\ IsHead(Dirty(r, t, v)) /\ Filed(Dirty(r, t, v), t, ct)
           /\ SameLists(r, Dirty(r, t, v), ct)
<1>g. PICK f : f = File(r, t, "Metadata")
  OBVIOUS
<1>f. /\ IsHead(f) /\ f.trans = t /\ f.list = "Metadata" /\ ~f.dirty
      /\ f.next = r.next /\ f.frozen = r.frozen
  BY <1>g DEF File, IsHead, HeadFields, Lists
<1> HAVE Filed(r, t, ct)
<1>1. CASE r.trans = t /\ r.list # "Metadata"
  <2>1. PICK q : q = [f EXCEPT !.val = v, !.jbd = TRUE]
    OBVIOUS
  <2>2. Dirty(r, t, v) = q
    BY <1>1, <1>g, <2>1 DEF Dirty
  <2>3. IsHead(q) /\ q.jbd = TRUE /\ \A x \in HeadFields \ {"val", "jbd"} : q[x] = f[x]
    BY <1>f, <2>1 DEF IsHead, HeadFields
  <2>4. Filed(q, t, ct) /\ SameLists(r, q, ct)
    BY <1>1, <1>f, <2>3 DEF Filed, SameLists, HeadFields
  <2> QED
    BY <2>2, <2>3, <2>4
<1>2. CASE ~(r.trans = t /\ r.list # "Metadata")
  <2>1. PICK q : q = [r EXCEPT !.val = v, !.jbd = TRUE]
    OBVIOUS
  <2>2. Dirty(r, t, v) = q
    BY <1>2, <2>1 DEF Dirty
  <2>3. IsHead(q) /\ q.jbd = TRUE /\ \A x \in HeadFields \ {"val", "jbd"} : q[x] = r[x]
    BY <2>1 DEF IsHead, HeadFields
  <2>4. Filed(q, t, ct) /\ SameLists(r, q, ct)
    BY <1>2, <2>3 DEF Filed, SameLists, HeadFields
  <2> QED
    BY <2>2, <2>3, <2>4
<1> QED
  BY <1>1, <1>2

LEMMA ForgetFiled ==
    ASSUME NEW r, NEW t \in Nat \ {0}, NEW ct \in Nat, t # ct,
           IsHead(r)
    PROVE  Filed(r, t, ct) =>
           /\ IsHead(Forget(r, t)) /\ Filed(Forget(r, t), t, ct)
           /\ SameLists(r, Forget(r, t), ct) /\ Forget(r, t).next = 0
           /\ Forget(r, t).list \in {"None", "Forget"} \/ Forget(r, t).trans = ct
<1>w. PICK w : w = Unfile(r)
  OBVIOUS
<1>u. PICK u : u = [w EXCEPT !.dirty = FALSE]
  OBVIOUS
<1>3. /\ IsHead(w) /\ w.trans = 0 /\ w.list = "None" /\ ~w.jbd
      /\ w.next = r.next /\ w.frozen = r.frozen
  BY <1>w, UnfileFields
<1>4. IsHead(u) /\ ~u.dirty /\ \A x \in HeadFields \ {"dirty"} : u[x] = w[x]
  BY <1>u, <1>3 DEF IsHead, HeadFields
<1>5. /\ u.trans = 0 /\ u.list = "None" /\ ~u.jbd
      /\ u.next = r.next /\ u.frozen = r.frozen
  BY <1>3, <1>4 DEF HeadFields
<1>q. PICK q : q = File(u, t, "Forget")
  OBVIOUS
<1>6. /\ IsHead(q) /\ q.trans = t /\ q.list = "Forget" /\ ~q.dirty
      /\ ~q.jbd /\ q.next = r.next /\ q.frozen = r.frozen
  BY <1>q, <1>4, <1>5 DEF File, IsHead, HeadFields, Lists
<1> HAVE Filed(r, t, ct)
<1>1. CASE r.trans = t
  <2>1. Forget(r, t) \in {u, q}
    BY <1>1, <1>w, <1>u, <1>q DEF Forget
  <2>2. r.next = 0 /\ r.frozen = None
    BY <1>1 DEF Filed
  <2>3. Filed(u, t, ct) /\ SameLists(r, u, ct)
    BY <1>1, <1>4, <1>5, <2>2 DEF Filed, SameLists
  <2>4. Filed(q, t, ct) /\ SameLists(r, q, ct)
    BY <1>1, <1>6, <2>2 DEF Filed, SameLists
  <2> QED
    BY <1>4, <1>5, <1>6, <2>1, <2>2, <2>3, <2>4
<1>2. CASE r.trans # t
  <2>1. PICK p : p = [r EXCEPT !.next = 0]
    OBVIOUS
  <2>2. Forget(r, t) = p
    BY <1>2, <2>1 DEF Forget
  <2>3. IsHead(p) /\ p.next = 0 /\ \A x \in HeadFields \ {"next"} : p[x] = r[x]
    BY <2>1 DEF IsHead, HeadFields
  <2>4. Filed(p, t, ct) /\ SameLists(r, p, ct)
    BY <2>3 DEF Filed, SameLists, HeadFields
  <2>5. p.list \in {"None", "Forget"} \/ p.trans = ct
    BY <1>2, <2>3 DEF Filed, HeadFields
  <2> QED
    BY <2>2, <2>3, <2>4, <2>5
<1> QED
  BY <1>1, <1>2

-----------------------------------------------------------------------------
(* Handles keep the invariant *)

\* An open handle has a running transaction, which is not the committing one.
LEMMA OpenRun ==
    ASSUME JInv, NEW h \in Handle, Open(h)
    PROVE  IsRun(run) /\ run.tid \in Nat \ {0} /\ com.tid \in Nat /\ run.tid # com.tid
<1>1. Shapes /\ Tids0
  BY DEF JInv
<1>2. run # NoTrans
  BY <1>1 DEF Tids0, Open
<1>3. IsRun(run)
  BY <1>1, <1>2 DEF Shapes
<1> QED
  BY <1>1, <1>2, <1>3, TransTids DEF Tids0

\* What the running transaction's own steps leave of Tids0.
LEMMA RunKeepsTids ==
    ASSUME JInv, MemOnly, com' = com, seq' = seq, IsRun(run), IsRun(run'),
           run'.tid = run.tid, run'.locked = run.locked
    PROVE  Tids0' /\ run' # NoTrans
<1>1. run # NoTrans /\ run' # NoTrans
  BY NoTransTid DEF IsRun
<1>2. mode' = mode /\ tailseq' = tailseq /\ sb' = sb
  BY DEF MemOnly, disk, space
<1>3. Tids0
  BY DEF JInv
<1> QED
  BY <1>1, <1>2, <1>3 DEF Tids0, Up

\* A handle changes the head of block b to q and the kind of the block to k.
LEMMA HandleHead ==
    ASSUME JInv, NEW b \in Block, NEW q, NEW k, MemOnly, com' = com, seq' = seq,
           IsRun(run), IsRun(run'), run'.tid = run.tid, run'.locked = run.locked,
           handle' = [h \in Handle |-> handle'[h]], pinned \subseteq pinned',
           SetBuf(b, q), kind' = [kind EXCEPT ![b] = k],
           IsHead(q), Filed(q, run.tid, com.tid), SameLists(buf[b], q, com.tid),
           k = Free => q.next = 0 /\ (q.list \in {"None", "Forget"}
                                      \/ (b \in pinned' /\ q.trans = com.tid)),
           Created'
    PROVE  JInv'
<1>1. /\ kind' = [c \in Block |-> kind'[c]] /\ kind'[b] = k
      /\ \A c \in Block \ {b} : kind'[c] = kind[c]
  BY DEF JInv, Shapes
<1>2. /\ buf' = [c \in Block |-> buf'[c]] /\ \A c \in Block : IsHead(buf'[c])
      /\ FiledAll' /\ Commits' /\ FreeAll'
  BY <1>1, OneHead
<1>3. Tids0'
  BY RunKeepsTids
<1>4. Shapes'
  BY <1>1, <1>2 DEF JInv, Shapes
<1> QED
  BY <1>2, <1>3, <1>4 DEF JInv

\* Created when no block changes its kind and nothing is created.
LEMMA CreatedStay ==
    ASSUME Created, kind' = kind, mode' = mode,
           fresh' = fresh \/ \E h \in Handle : fresh' = [fresh EXCEPT ![h] = None]
    PROVE  Created'
<1>1. fresh' = [h \in Handle |-> fresh'[h]]
  BY DEF Created
<1>2. None \notin Block
  BY JbdConstants
<1>3. \A h \in Handle, b \in Block : fresh'[h] = b => fresh[h] = b
  BY <1>2 DEF Created
<1> QED
  BY <1>1, <1>3 DEF Created, Up

LEMMA AccessStep ==
    ASSUME JInv, NEW h \in Handle, NEW b \in Block, get_write_access(h, b)
    PROVE  JInv'
<1>1. IsRun(run) /\ run.tid \in Nat \ {0} /\ com.tid \in Nat /\ run.tid # com.tid
  BY OpenRun DEF get_write_access, Ready
<1>2. /\ SetBuf(b, Access(b, run.tid)) /\ com' = com /\ seq' = seq /\ kind' = kind
      /\ handle' = [handle EXCEPT ![h] = @ - 1] /\ MemOnly /\ kind[b] = "meta"
      /\ run' = [run EXCEPT !.revoke = @ \ {b}] /\ pinned' = pinned /\ fresh' = fresh
  BY DEF get_write_access, Linked
<1>3. IsRun(run') /\ run'.tid = run.tid /\ run'.locked = run.locked
  BY <1>1, <1>2 DEF IsRun, RunFields
<1>4. IsHead(buf[b]) /\ Filed(buf[b], run.tid, com.tid)
  BY DEF JInv, Shapes, FiledAll
<1>5. PICK q : q = Access(b, run.tid)
  OBVIOUS
<1>6. IsHead(q) /\ Filed(q, run.tid, com.tid) /\ SameLists(buf[b], q, com.tid)
  BY <1>1, <1>2, <1>4, <1>5, AccessFiled
<1>7. "meta" # Free /\ kind' = [kind EXCEPT ![b] = "meta"]
  BY <1>2, JbdConstants DEF JInv, Shapes
<1>8. handle' = [g \in Handle |-> handle'[g]]
  BY <1>2 DEF JInv, Shapes
<1>9. Created'
  BY <1>2, CreatedStay DEF JInv, MemOnly
<1> QED
  BY <1>1, <1>2, <1>3, <1>5, <1>6, <1>7, <1>8, <1>9, HandleHead

LEMMA DirtyStep ==
    ASSUME JInv, NEW h \in Handle, NEW b \in Block, NEW v, dirty_metadata(h, b, v)
    PROVE  JInv'
<1>1. IsRun(run) /\ run.tid \in Nat \ {0} /\ com.tid \in Nat /\ run.tid # com.tid
  BY OpenRun DEF dirty_metadata
<1>2. /\ SetBuf(b, Dirty(buf[b], run.tid, v)) /\ com' = com /\ seq' = seq /\ kind' = kind
      /\ handle' = handle /\ MemOnly /\ run' = run /\ pinned' = pinned
      /\ fresh' = [fresh EXCEPT ![h] = None]
  BY DEF dirty_metadata
<1>3. kind[b] = "meta"
  BY DEF dirty_metadata, Linked, JInv, Created
<1>4. IsHead(buf[b]) /\ Filed(buf[b], run.tid, com.tid)
  BY DEF JInv, Shapes, FiledAll
<1>5. PICK q : q = Dirty(buf[b], run.tid, v)
  OBVIOUS
<1>6. IsHead(q) /\ Filed(q, run.tid, com.tid) /\ SameLists(buf[b], q, com.tid)
  BY <1>1, <1>2, <1>4, <1>5, DirtyFiled
<1>7. "meta" # Free /\ kind' = [kind EXCEPT ![b] = "meta"]
  BY <1>2, <1>3, JbdConstants DEF JInv, Shapes
<1>8. handle' = [g \in Handle |-> handle'[g]]
  BY <1>2 DEF JInv, Shapes
<1>9. Created'
  BY <1>2, CreatedStay DEF JInv, MemOnly
<1> QED
  BY <1>1, <1>2, <1>5, <1>6, <1>7, <1>8, <1>9, HandleHead

\* The head that journal_get_create_access leaves: the buffer is reserved, passed
\* on by the committing transaction, or the running one's already.
LEMMA CreateFiled ==
    ASSUME NEW r, NEW t \in Nat \ {0}, NEW ct \in Nat, t # ct, IsHead(r), Filed(r, t, ct),
           NEW q, q = IF r.trans = 0 THEN File(r, t, "Reserved")
                      ELSE IF r.trans = ct THEN [r EXCEPT !.next = t] ELSE r
    PROVE  IsHead(q) /\ Filed(q, t, ct) /\ SameLists(r, q, ct)
<1>1. CASE r.trans = 0
  <2>1. q = File(r, t, "Reserved")
    BY <1>1
  <2>2. /\ IsHead(q) /\ q.trans = t /\ q.list = "Reserved" /\ ~q.dirty
        /\ q.next = r.next /\ q.frozen = r.frozen
    BY <2>1 DEF File, IsHead, HeadFields, Lists
  <2> QED
    BY <1>1, <2>2 DEF Filed, SameLists
<1>2. CASE r.trans # 0 /\ r.trans = ct
  <2>1. q = [r EXCEPT !.next = t]
    BY <1>2
  <2>2. IsHead(q) /\ q.next = t /\ \A f \in HeadFields \ {"next"} : q[f] = r[f]
    BY <2>1 DEF IsHead, HeadFields
  <2> QED
    BY <1>2, <2>2 DEF Filed, SameLists, HeadFields
<1>3. CASE r.trans # 0 /\ r.trans # ct
  BY <1>3 DEF SameLists
<1> QED
  BY <1>1, <1>2, <1>3

LEMMA CreateStep ==
    ASSUME JInv, NEW h \in Handle, NEW b \in Block, get_create_access(h, b)
    PROVE  JInv'
<1>1. IsRun(run) /\ run.tid \in Nat \ {0} /\ com.tid \in Nat /\ run.tid # com.tid
  BY OpenRun DEF get_create_access, Ready
<1>2. PICK q : q = IF buf[b].trans = 0 THEN File(buf[b], run.tid, "Reserved")
                   ELSE IF buf[b].trans = com.tid THEN [buf[b] EXCEPT !.next = run.tid]
                   ELSE buf[b]
  OBVIOUS
<1>3. /\ SetBuf(b, q) /\ com' = com /\ seq' = seq /\ MemOnly /\ pinned' = pinned
      /\ kind' = [kind EXCEPT ![b] = "meta"] /\ Up
      /\ handle' = [handle EXCEPT ![h] = @ - 1] /\ fresh' = [fresh EXCEPT ![h] = b]
      /\ run' = [run EXCEPT !.revoke = @ \ {b}, !.undo = TRUE]
  BY <1>2 DEF get_create_access, Ready, Open
<1>4. IsHead(buf[b]) /\ Filed(buf[b], run.tid, com.tid)
  BY DEF JInv, Shapes, FiledAll
<1>5. IsHead(q) /\ Filed(q, run.tid, com.tid) /\ SameLists(buf[b], q, com.tid)
  BY <1>1, <1>2, <1>4, CreateFiled
<1>6. IsRun(run') /\ run'.tid = run.tid /\ run'.locked = run.locked
  BY <1>1, <1>3 DEF IsRun, RunFields
<1>7. handle' = [g \in Handle |-> handle'[g]] /\ "meta" # Free
  BY <1>3, JbdConstants DEF JInv, Shapes
<1>8. Created'
  <2>1. Created /\ kind = [c \in Block |-> kind[c]]
    BY DEF JInv, Shapes
  <2>2. fresh' = [g \in Handle |-> fresh'[g]] /\ mode' = mode
    BY <1>3, <2>1 DEF Created, MemOnly
  <2>3. \A g \in Handle, c \in Block : fresh'[g] = c => c = b \/ fresh[g] = c
    BY <1>3, <2>1 DEF Created
  <2>4. \A c \in Block : kind[c] = "meta" \/ c = b => kind'[c] = "meta"
    BY <1>3, <2>1
  <2> QED
    BY <1>3, <2>1, <2>2, <2>3, <2>4 DEF Created, Up
<1> QED
  BY <1>1, <1>3, <1>5, <1>6, <1>7, <1>8, HandleHead

LEMMA RevokeStep ==
    ASSUME JInv, NEW h \in Handle, NEW b \in Block, journal_revoke(h, b)
    PROVE  JInv'
<1>1. IsRun(run) /\ run.tid \in Nat \ {0} /\ com.tid \in Nat /\ run.tid # com.tid
  BY OpenRun DEF journal_revoke, Ready
<1>2. /\ SetBuf(b, Forget(buf[b], run.tid)) /\ com' = com /\ seq' = seq /\ MemOnly
      /\ kind' = [kind EXCEPT ![b] = Free] /\ handle' = handle /\ fresh' = fresh
      /\ pinned' = pinned \cup {b} /\ Linked(b)
      /\ run' = [run EXCEPT !.revoke = @ \cup {b}, !.undo = TRUE]
  BY DEF journal_revoke, tasks
<1>3. IsRun(run') /\ run'.tid = run.tid /\ run'.locked = run.locked
  BY <1>1, <1>2 DEF IsRun, RunFields
<1>4. IsHead(buf[b]) /\ Filed(buf[b], run.tid, com.tid)
  BY DEF JInv, Shapes, FiledAll
<1>5. PICK q : q = Forget(buf[b], run.tid)
  OBVIOUS
<1>6. /\ IsHead(q) /\ Filed(q, run.tid, com.tid) /\ SameLists(buf[b], q, com.tid)
      /\ q.next = 0 /\ (q.list \in {"None", "Forget"} \/ q.trans = com.tid)
  BY <1>1, <1>4, <1>5, ForgetFiled
<1>7. handle' = [g \in Handle |-> handle'[g]]
  BY <1>2 DEF JInv, Shapes
<1>8. Created'
  <2>1. Created /\ kind = [c \in Block |-> kind[c]] /\ mode' = mode
    BY <1>2 DEF JInv, Shapes, MemOnly
  <2>2. ASSUME NEW g \in Handle, NEW c \in Block, fresh'[g] = c
        PROVE  kind'[c] = "meta" /\ Up'
    <3>1. fresh[g] = c /\ c # b
      BY <1>2, <2>2 DEF Linked
    <3> QED
      BY <1>2, <2>1, <3>1 DEF Created, Up
  <2>3. fresh' = [g \in Handle |-> fresh'[g]]
    BY <1>2, <2>1 DEF Created
  <2> QED
    BY <2>2, <2>3 DEF Created
<1>9. pinned \subseteq pinned' /\ b \in pinned'
  BY <1>2
<1>10. SetBuf(b, q)
  BY <1>2, <1>5
<1> QED
  BY <1>1, <1>2, <1>3, <1>6, <1>7, <1>8, <1>9, <1>10, HandleHead

LEMMA AllocDataStep ==
    ASSUME JInv, NEW h \in Handle, NEW b \in Block, alloc_data(h, b)
    PROVE  JInv'
<1>1. IsRun(run) /\ run.tid \in Nat \ {0} /\ com.tid \in Nat /\ run.tid # com.tid
  BY OpenRun DEF alloc_data, Ready
<1>2. /\ SetBuf(b, [buf[b] EXCEPT !.dirty = FALSE]) /\ com' = com /\ seq' = seq /\ MemOnly
      /\ kind' = [kind EXCEPT ![b] = Data] /\ handle' = handle /\ fresh' = fresh
      /\ pinned' = pinned /\ kind[b] = Free
      /\ run' = [run EXCEPT !.sync = @ \cup {b}, !.undo = TRUE]
  BY DEF alloc_data, tasks, Allocatable
<1>3. IsRun(run') /\ run'.tid = run.tid /\ run'.locked = run.locked
  BY <1>1, <1>2 DEF IsRun, RunFields
<1>4. IsHead(buf[b]) /\ Filed(buf[b], run.tid, com.tid)
  BY DEF JInv, Shapes, FiledAll
<1>5. PICK q : q = [buf[b] EXCEPT !.dirty = FALSE]
  OBVIOUS
<1>6. IsHead(q) /\ ~q.dirty /\ \A x \in HeadFields \ {"dirty"} : q[x] = buf[b][x]
  BY <1>4, <1>5 DEF IsHead, HeadFields
<1>7. Filed(q, run.tid, com.tid) /\ SameLists(buf[b], q, com.tid)
  BY <1>4, <1>6 DEF Filed, SameLists, HeadFields
<1>8. handle' = [g \in Handle |-> handle'[g]] /\ Data # Free /\ "meta" # Free
  BY <1>2, JbdConstants DEF JInv, Shapes
<1>9. Created'
  <2>1. Created /\ kind = [c \in Block |-> kind[c]] /\ mode' = mode
    BY <1>2 DEF JInv, Shapes, MemOnly
  <2>2. \A c \in Block : kind[c] = "meta" => kind'[c] = "meta"
    BY <1>2, <1>8, <2>1
  <2> QED
    BY <1>2, <2>1, <2>2 DEF Created, Up
<1> QED
  BY <1>1, <1>2, <1>3, <1>5, <1>6, <1>7, <1>8, <1>9, HandleHead

\* Steps of the commit thread, the VM and checkpoints create nothing.
LEMMA KeptCreated ==
    ASSUME JInv, Kept
    PROVE  Created' /\ UNCHANGED <<kind, pinned, handle, seq, mode>>
<1>1. UNCHANGED <<kind, pinned, handle, fresh, seq, mode>>
  BY DEF Kept, tasks
<1> QED
  BY <1>1, CreatedStay DEF JInv

\* Steps that leave the heads, what is free and the two transactions' ids alone.
LEMMA HeadsStay ==
    ASSUME JInv, buf' = buf, kind' = kind, pinned' = pinned, com' = com, run'.tid = run.tid
    PROVE  FiledAll' /\ Commits' /\ FreeAll'
  BY DEF JInv, FiledAll, FreeAll, Commits, Owned

LEMMA DirtyDataStep ==
    ASSUME JInv, NEW h \in Handle, NEW b \in Block, dirty_data(h, b)
    PROVE  JInv'
<1>1. IsRun(run)
  BY OpenRun DEF dirty_data, Ready
<1>2. /\ seq' = seq /\ kind' = kind /\ buf' = buf /\ pinned' = pinned /\ handle' = handle
      /\ fresh' = fresh /\ mode' = mode /\ sb' = sb /\ tailseq' = tailseq
      /\ run' = [run EXCEPT !.sync = @ \cup {b}]
      /\ com' = com \/ (com # NoTrans /\ com' = [com EXCEPT !.sync = @ \ {b}])
  BY DEF dirty_data, tasks, space
<1>3. IsRun(run') /\ run'.tid = run.tid /\ run'.locked = run.locked
  BY <1>1, <1>2 DEF IsRun, RunFields
<1>4. Shapes /\ Tids0 /\ FiledAll /\ Commits /\ FreeAll /\ Created
  BY DEF JInv
<1>5. CASE com' = com
  <2>1. run # NoTrans /\ run' # NoTrans
    BY <1>1, <1>3, NoTransTid DEF IsRun
  <2>2. Tids0' /\ Shapes'
    BY <1>2, <1>3, <1>4, <1>5, <2>1 DEF Tids0, Shapes, Up
  <2> QED
    BY <1>2, <1>3, <1>4, <1>5, <2>2, HeadsStay, CreatedStay DEF JInv
<1>6. CASE com # NoTrans /\ com' = [com EXCEPT !.sync = @ \ {b}]
  <2>1. IsCom(com)
    BY <1>4, <1>6 DEF Shapes
  <2>2. /\ IsCom(com') /\ com'.tid = com.tid /\ com'.tags = com.tags /\ com'.phase = com.phase
        /\ com'.copying = com.copying
    BY <1>6, <2>1 DEF IsCom, ComFields
  <2>3. com' # NoTrans /\ run # NoTrans /\ run' # NoTrans
    BY <1>1, <1>3, <2>2, NoTransTid DEF IsCom, IsRun
  <2>4. Tids0' /\ Shapes'
    BY <1>2, <1>3, <1>4, <1>6, <2>2, <2>3 DEF Tids0, Shapes, Up
  <2>5. FiledAll' /\ FreeAll'
    BY <1>2, <1>3, <1>4, <2>2 DEF FiledAll, FreeAll
  <2>6. Commits'
    BY <1>2, <1>4, <1>6, <2>2 DEF Commits, Owned
  <2> QED
    BY <1>2, <1>4, <2>4, <2>5, <2>6, CreatedStay DEF JInv
<1> QED
  BY <1>2, <1>5, <1>6

LEMMA StopStep ==
    ASSUME JInv, NEW h \in Handle, journal_stop(h)
    PROVE  JInv'
<1>1. IsRun(run)
  BY OpenRun DEF journal_stop, Ready
<1>2. PICK x : run' = [run EXCEPT !.credits = x]
  BY DEF journal_stop
<1>3. /\ com' = com /\ seq' = seq /\ MemOnly /\ kind' = kind /\ buf' = buf
      /\ handle' = [handle EXCEPT ![h] = None] /\ pinned' = pinned /\ fresh' = fresh
  BY DEF journal_stop
<1>4. IsRun(run') /\ run'.tid = run.tid /\ run'.locked = run.locked
  BY <1>1, <1>2 DEF IsRun, RunFields
<1>5. FiledAll' /\ Commits' /\ FreeAll'
  BY <1>3, <1>4, HeadsStay
<1>6. Tids0'
  BY <1>1, <1>3, <1>4, RunKeepsTids
<1>7. Shapes' /\ Created'
  BY <1>3, <1>4, CreatedStay DEF JInv, Shapes, MemOnly
<1> QED
  BY <1>5, <1>6, <1>7 DEF JInv

\* A task leaves __log_wait_for_space and finds no transaction to join.
LEMMA RetryStep ==
    ASSUME JInv, MemOnly, UNCHANGED <<run, seq, handle, buf, kind, pinned, fresh, com>>
    PROVE  JInv'
<1>1. UNCHANGED <<mode, tailseq, sb>>
  BY DEF MemOnly, disk, space
<1>2. Shapes' /\ Tids0'
  BY <1>1 DEF JInv, Shapes, Tids0, Up
<1> QED
  BY <1>1, <1>2, HeadsStay, CreatedStay DEF JInv

\* journal_start: the new transaction's id is fresh.
LEMMA StartStep ==
    ASSUME JInv, NEW h \in Handle, journal_start(h)
    PROVE  JInv'
<1> DEFINE t == IF run = NoTrans THEN NewTransaction ELSE run
<1>1. Shapes /\ Tids0 /\ FiledAll /\ Created
  BY DEF JInv
<1>2. Up /\ UNCHANGED <<buf, kind, pinned, fresh, com>> /\ MemOnly
  BY DEF journal_start
<1>r. CASE UNCHANGED <<run, seq, handle>>
  BY <1>2, <1>r, RetryStep
<1>s. CASE ~UNCHANGED <<run, seq, handle>>
  <2>2. /\ \E v : handle' = [handle EXCEPT ![h] = v]
        /\ seq' = IF run = NoTrans THEN seq + 1 ELSE seq
    BY <1>s DEF journal_start
  <2>3. run # NoTrans => ~run.locked
    BY <1>s DEF journal_start
  <2>4. PICK x : run' = t \/ run' = [t EXCEPT !.credits = x]
    BY Zenon, <1>s DEF journal_start
  <2>5. IsRun(t)
    <3>1. CASE run = NoTrans
      <4>1. t = NewTransaction /\ seq \in Nat \ {0}
        BY <1>1, <1>2, <3>1 DEF Tids0, Up
      <4> HIDE DEF t
      <4> QED
        BY <4>1 DEF NewTransaction, IsRun, RunFields
    <3>2. CASE run # NoTrans
      BY <1>1, <3>2 DEF Shapes
    <3> QED
      BY <3>1, <3>2
  <2>6. t.tid = (IF run = NoTrans THEN seq ELSE run.tid) /\ (t.locked <=> FALSE)
    BY <2>3, <2>5 DEF NewTransaction
  <2> HIDE DEF t
  <2>7. IsRun(run') /\ run'.tid = t.tid /\ (run'.locked <=> t.locked)
    BY <2>4, <2>5 DEF IsRun, RunFields
  <2>8. Shapes' /\ Created'
    BY <1>1, <1>2, <2>2, <2>7, CreatedStay DEF Shapes, MemOnly
  <2>9. run' # NoTrans /\ run'.tid \in Nat \ {0} /\ ~run'.locked
    BY <2>6, <2>7, NoTransTid DEF IsRun
  <2>10. mode' = mode /\ tailseq' = tailseq /\ sb' = sb
    BY <1>2 DEF MemOnly, disk, space
  <2>11. com.tid \in Nat /\ (com.tid # 0 => com.tid < seq)
    BY <1>1, TransTids DEF Tids0
  <2>12. CASE run = NoTrans
    <3>1. seq' = seq + 1 /\ run'.tid = seq /\ seq \in Nat /\ seq # 0
      BY <1>1, <1>2, <2>2, <2>6, <2>7, <2>12 DEF Tids0, Up
    <3>2. Tids0'
      BY <1>1, <1>2, <2>9, <2>10, <2>11, <3>1 DEF Tids0, Up
    <3>3. run.tid = 0
      BY <2>12, NoTransTid
    <3>4. ASSUME NEW b \in Block
          PROVE  Filed(buf[b], run'.tid, com.tid)
      <4>1. Filed(buf[b], 0, com.tid)
        BY <1>1, <3>3 DEF FiledAll
      <4> QED
        BY <4>1, <2>9 DEF Filed
    <3>5. FiledAll'
      BY <1>2, <3>4 DEF FiledAll
    <3>6. Commits' /\ FreeAll'
      BY <1>2 DEF JInv, Commits, FreeAll, Owned
    <3> QED
      BY <2>8, <3>2, <3>5, <3>6 DEF JInv
  <2>13. CASE run # NoTrans
    <3>1. seq' = seq /\ run'.tid = run.tid
      BY <2>2, <2>6, <2>7, <2>13
    <3>2. Tids0'
      BY <1>1, <1>2, <2>9, <2>10, <3>1 DEF Tids0, Up
    <3> QED
      BY <1>2, <2>8, <3>1, <3>2, HeadsStay DEF JInv
  <2> QED
    BY <2>12, <2>13
<1> QED
  BY <1>r, <1>s

-----------------------------------------------------------------------------
(* The commit thread keeps the invariant *)

LEMMA SbNowSeq ==
    ASSUME sb.seq \in Nat, tailseq \in Nat
    PROVE  SbNow.seq \in Nat
  BY DEF SbNow

LEMMA LockStep ==
    ASSUME JInv, CommitLock
    PROVE  JInv'
<1>1. Shapes /\ Tids0
  BY DEF JInv
<1>2. /\ run # NoTrans /\ com = NoTrans /\ Kept /\ UNCHANGED <<space, com, buf>>
      /\ run' = [run EXCEPT !.locked = TRUE] /\ sb' = IF flushed THEN SbNow ELSE sb
  BY DEF CommitLock
<1>3. UNCHANGED <<kind, pinned, handle, seq, mode, tailseq>> /\ Created'
  BY <1>2, KeptCreated DEF space
<1>4. IsRun(run)
  BY <1>1, <1>2 DEF Shapes
<1>5. IsRun(run') /\ run'.tid = run.tid
  BY <1>2, <1>4 DEF IsRun, RunFields
<1>6. run' # NoTrans
  BY <1>5, NoTransTid DEF IsRun
<1>7. sb'.seq \in Nat
  BY <1>1, <1>2, SbNowSeq DEF Tids0
<1>8. Tids0'
  BY <1>1, <1>2, <1>3, <1>5, <1>6, <1>7 DEF Tids0, Up
<1>9. Shapes'
  BY <1>1, <1>2, <1>3, <1>5 DEF Shapes
<1>10. FiledAll' /\ Commits' /\ FreeAll'
  BY <1>2, <1>3, <1>5, HeadsStay
<1> QED
  BY <1>3, <1>8, <1>9, <1>10 DEF JInv

\* A journal head when the running transaction t becomes the committing one.
LEMMA SwitchFiled ==
    ASSUME NEW r, NEW t \in Nat \ {0}, NEW q, IsHead(r), Filed(r, t, 0),
           q = IF r.trans = t /\ r.list = "Reserved" THEN Refile(r) ELSE r
    PROVE  IsHead(q) /\ Filed(q, 0, t) /\ q.list # "Shadow"
           /\ q.next = 0 /\ (q.list = r.list \/ q.list = "None")
<1>1. r.next = 0 /\ r.frozen = None
  BY DEF Filed
<1>2. CASE r.trans = t /\ r.list = "Reserved"
  <2>1. q = Unfile(r)
    BY <1>1, <1>2 DEF Refile
  <2>2. IsHead(q) /\ q.trans = 0 /\ q.list = "None" /\ q.next = 0 /\ q.frozen = None
    BY <1>1, <2>1 DEF Unfile, IsHead, HeadFields, Lists
  <2> QED
    BY <2>2 DEF Filed
<1>3. CASE ~(r.trans = t /\ r.list = "Reserved")
  <2>1. q = r
    BY <1>3
  <2> QED
    BY <1>1, <1>3, <2>1 DEF Filed
<1> QED
  BY <1>2, <1>3

LEMMA SwitchStep ==
    ASSUME JInv, CommitSwitch
    PROVE  JInv'
<1>1. Shapes /\ Tids0 /\ FiledAll /\ FreeAll
  BY DEF JInv
<1>2. /\ Up /\ run # NoTrans /\ run.locked /\ Kept /\ UNCHANGED <<disk, space>>
      /\ \A h \in Handle : handle[h] = None
      /\ buf' = [b \in Block |->
            IF buf[b].trans = run.tid /\ buf[b].list = "Reserved" THEN Refile(buf[b]) ELSE buf[b]]
      /\ run' = NoTrans
  BY DEF CommitSwitch
<1>3. UNCHANGED <<kind, pinned, handle, seq, mode, tailseq, sb>> /\ Created'
  BY <1>2, KeptCreated DEF space, disk
<1>4. IsRun(run) /\ com = NoTrans /\ com.tid = 0
  BY <1>1, <1>2, NoTransTid DEF Shapes, Tids0
<1>5. /\ IsCom(com') /\ com'.tid = run.tid /\ com'.phase = "data" /\ com'.tags = <<>>
      /\ com'.copying = None
  <2>1. PICK s, c, v, y, n, f :
           com' = [tid |-> run.tid, phase |-> "data", start |-> s, credits |-> c,
                   revoke |-> v, sync |-> y, undo |-> n, fs |-> f,
                   desc |-> 0, tags |-> <<>>, copying |-> None, page |-> None]
    BY DEF CommitSwitch
  <2>2. <<>> \in Seq(Block)
    OBVIOUS
  <2> QED
    BY <1>4, <2>1, <2>2 DEF IsCom, ComFields, IsRun
<1>6. run.tid \in Nat \ {0} /\ run.tid < seq
  BY <1>1, <1>4 DEF IsRun, Tids0
<1>7. ASSUME NEW b \in Block
      PROVE  IsHead(buf'[b]) /\ Filed(buf'[b], 0, run.tid) /\ buf'[b].list # "Shadow"
             /\ buf'[b].next = 0 /\ (buf'[b].list = buf[b].list \/ buf'[b].list = "None")
  <2>1. buf'[b] = IF buf[b].trans = run.tid /\ buf[b].list = "Reserved"
                  THEN Refile(buf[b]) ELSE buf[b]
    BY <1>2
  <2>2. IsHead(buf[b]) /\ Filed(buf[b], run.tid, 0)
    BY <1>1, <1>4 DEF Shapes, FiledAll
  <2> QED
    BY <1>6, <2>1, <2>2, SwitchFiled
<1>8. FiledAll'
  BY <1>2, <1>3, <1>5, <1>7, NoTransTid DEF FiledAll
<1>9. Commits'
  <2>1. IsInjective(com'.tags) /\ Range(com'.tags) = {}
    BY <1>5 DEF IsInjective, Range
  <2> QED
    BY <1>5, <1>7, <2>1 DEF Commits, Owned
<1>10. Tids0'
  BY <1>1, <1>2, <1>3, <1>5, <1>6, NoTransTid DEF Tids0, Up
<1>11. buf' = [b \in Block |-> buf'[b]]
  BY <1>2
<1>12. Shapes'
  BY <1>1, <1>2, <1>3, <1>5, <1>7, <1>11 DEF Shapes
<1>13. FreeAll'
  <2>1. ASSUME NEW b \in Block, kind[b] = Free
        PROVE  buf[b].list \in {"None", "Forget"}
    <3>1. Filed(buf[b], run.tid, 0)
      BY <1>1, <1>4 DEF FiledAll
    <3> QED
      BY <1>1, <1>4, <2>1, <3>1 DEF FreeAll, Filed
  <2> QED
    BY <1>3, <1>7, <2>1 DEF FreeAll
<1> QED
  BY <1>3, <1>8, <1>9, <1>10, <1>12, <1>13 DEF JInv

\* What the committing transaction's own steps leave of Tids0 and of the shapes.
LEMMA ComKeeps ==
    ASSUME JInv, Kept, com # NoTrans, run' = run, tailseq' = tailseq, sb' = sb,
           IsCom(com'), com'.tid = com.tid
    PROVE  /\ Tids0' /\ Created'
           /\ (buf' = [c \in Block |-> buf'[c]] /\ (\A c \in Block : IsHead(buf'[c]))) => Shapes'
<1>1. Shapes /\ Tids0
  BY DEF JInv
<1>2. UNCHANGED <<kind, handle, seq, mode>> /\ Created'
  BY KeptCreated
<1>3. com' # NoTrans
  BY NoTransTid DEF IsCom
<1>4. Tids0'
  BY <1>1, <1>2, <1>3 DEF Tids0, Up
<1>5. (buf' = [c \in Block |-> buf'[c]] /\ \A c \in Block : IsHead(buf'[c])) => Shapes'
  BY <1>1, <1>2 DEF Shapes
<1> QED
  BY <1>2, <1>4, <1>5

\* Steps that change only the phase, or what Commits does not speak of.
LEMMA PhaseStep ==
    ASSUME JInv, Kept, com # NoTrans, run' = run, tailseq' = tailseq, sb' = sb, buf' = buf,
           IsCom(com'), com'.tid = com.tid, com'.tags = com.tags, com'.copying = com.copying,
           com.phase # "meta",
           com'.phase \in {"wait", "record", "forget"} => Owned(com.tid, "Metadata") = {},
           com'.phase \in {"record", "forget"} => com.tags = <<>>
    PROVE  JInv'
<1>1. Shapes /\ FiledAll /\ Commits /\ FreeAll
  BY DEF JInv
<1>2. Tids0' /\ Shapes' /\ Created'
  BY <1>1, ComKeeps DEF Shapes
<1>3. kind' = kind /\ pinned' = pinned
  BY DEF Kept
<1>4. FiledAll' /\ FreeAll'
  BY <1>1, <1>3 DEF FiledAll, FreeAll
<1>5. Commits'
  BY <1>1 DEF Commits, Owned
<1> QED
  BY <1>2, <1>4, <1>5 DEF JInv

LEMMA DataStep ==
    ASSUME JInv, CommitData
    PROVE  JInv'
<1>1. /\ com # NoTrans /\ com.phase = "data" /\ Kept
      /\ UNCHANGED <<log, io, sb, space, run, buf, flushed, durable>>
      /\ com' = [com EXCEPT !.sync = {}, !.phase = "headers"]
  BY DEF CommitData, In
<1>2. IsCom(com)
  BY <1>1 DEF JInv, Shapes
<1>3. /\ IsCom(com') /\ com'.tid = com.tid /\ com'.tags = com.tags
      /\ com'.copying = com.copying /\ com'.phase = "headers"
  BY <1>1, <1>2 DEF IsCom, ComFields
<1> QED
  BY <1>1, <1>3, PhaseStep DEF space

LEMMA HeadersStep ==
    ASSUME JInv, CommitHeaders
    PROVE  JInv'
<1> DEFINE meta == Owned(com.tid, "Metadata") # {}
<1>1. PICK d :
      /\ com # NoTrans /\ com.phase = "headers" /\ Kept
      /\ UNCHANGED <<log, sb, home, tail, tailseq, run, buf, flushed, durable>>
      /\ com' = [com EXCEPT !.revoke = {}, !.desc = d,
                            !.phase = IF meta THEN "meta" ELSE "wait"]
  BY DEF CommitHeaders, In
<1>2. IsCom(com)
  BY <1>1 DEF JInv, Shapes
<1> HIDE DEF meta
<1>3. /\ IsCom(com') /\ com'.tid = com.tid /\ com'.tags = com.tags
      /\ com'.copying = com.copying /\ com'.phase = IF meta THEN "meta" ELSE "wait"
  BY <1>1, <1>2 DEF IsCom, ComFields
<1>4. com'.phase \in {"wait", "record", "forget"} => Owned(com.tid, "Metadata") = {}
  BY <1>3 DEF meta
<1>5. com'.phase \notin {"record", "forget"}
  BY <1>3
<1> QED
  BY <1>1, <1>3, <1>4, <1>5, PhaseStep

LEMMA RecordStep ==
    ASSUME JInv, CommitRecord
    PROVE  JInv'
<1>1. /\ com # NoTrans /\ com.phase = "wait" /\ Kept /\ com.tags = <<>>
      /\ UNCHANGED <<sb, home, tail, tailseq, run, buf, flushed, durable>>
      /\ com' = [com EXCEPT !.phase = "record"]
  BY DEF CommitRecord, In
<1>2. IsCom(com)
  BY <1>1 DEF JInv, Shapes
<1>3. /\ IsCom(com') /\ com'.tid = com.tid /\ com'.tags = com.tags
      /\ com'.copying = com.copying
  BY <1>1, <1>2 DEF IsCom, ComFields
<1>4. Owned(com.tid, "Metadata") = {}
  BY <1>1 DEF JInv, Commits
<1> QED
  BY <1>1, <1>3, <1>4, PhaseStep

LEMMA DoneStep ==
    ASSUME JInv, CommitDone
    PROVE  JInv'
<1>1. /\ com # NoTrans /\ com.phase = "record" /\ Kept
      /\ UNCHANGED <<sb, home, space, run, buf, flushed>>
      /\ com' = [com EXCEPT !.phase = "forget"]
  BY DEF CommitDone, In
<1>2. IsCom(com)
  BY <1>1 DEF JInv, Shapes
<1>3. /\ IsCom(com') /\ com'.tid = com.tid /\ com'.tags = com.tags
      /\ com'.copying = com.copying
  BY <1>1, <1>2 DEF IsCom, ComFields
<1>4. Owned(com.tid, "Metadata") = {} /\ com.tags = <<>>
  BY <1>1 DEF JInv, Commits
<1> QED
  BY <1>1, <1>3, <1>4, PhaseStep DEF space

LEMMA CopyStep ==
    ASSUME JInv, NEW b \in Block, CommitCopy(b)
    PROVE  JInv'
<1>1. PICK f :
      /\ com # NoTrans /\ com.phase = "meta" /\ Kept /\ UNCHANGED <<disk, space, run>>
      /\ b \in Owned(com.tid, "Metadata")
      /\ SetBuf(b, [buf[b] EXCEPT !.frozen = f])
      /\ com' = [com EXCEPT !.copying = b, !.page = f]
  BY DEF CommitCopy, In
<1>2. sb' = sb /\ tailseq' = tailseq /\ kind' = kind /\ pinned' = pinned
  BY <1>1 DEF disk, space, Kept
<1>3. Shapes /\ FiledAll /\ Commits /\ FreeAll
  BY DEF JInv
<1>4. IsCom(com) /\ IsHead(buf[b]) /\ Filed(buf[b], run.tid, com.tid)
  BY <1>1, <1>3 DEF Shapes, FiledAll
<1>5. /\ IsCom(com') /\ com'.tid = com.tid /\ com'.tags = com.tags
      /\ com'.copying = b /\ com'.phase = "meta"
  BY <1>1, <1>4 DEF IsCom, ComFields
<1>6. PICK q : q = [buf[b] EXCEPT !.frozen = f]
  OBVIOUS
<1>7. IsHead(q) /\ \A x \in HeadFields \ {"frozen"} : q[x] = buf[b][x]
  BY <1>4, <1>6 DEF IsHead, HeadFields
<1>8. buf[b].trans = com.tid /\ buf[b].list = "Metadata"
  BY <1>1 DEF Owned
<1>9. com.tid \in Nat \ {0}
  BY <1>4 DEF IsCom
<1>10. Filed(q, run.tid, com.tid)
  BY <1>4, <1>7, <1>8, <1>9 DEF Filed, HeadFields
<1>11. q.trans = buf[b].trans /\ q.list = buf[b].list /\ q.next = buf[b].next
  BY <1>7 DEF HeadFields
<1>12. /\ buf' = [c \in Block |-> buf'[c]] /\ \A c \in Block : IsHead(buf'[c])
       /\ buf'[b] = q /\ \A c \in Block \ {b} : buf'[c] = buf[c]
  BY <1>1, <1>3, <1>6, <1>7, OneBuf
<1>13. Tids0' /\ Shapes' /\ Created'
  BY <1>1, <1>2, <1>5, <1>12, ComKeeps
<1>14. FiledAll'
  BY <1>1, <1>2, <1>3, <1>5, <1>10, <1>12 DEF FiledAll
<1>15. \A c \in Block : buf'[c].trans = buf[c].trans /\ buf'[c].list = buf[c].list
  BY <1>11, <1>12
<1>16. Commits'
  BY <1>1, <1>3, <1>5, <1>15 DEF Commits, Owned
<1>17. FreeAll'
  BY <1>2, <1>3, <1>5, <1>11, <1>12 DEF FreeAll
<1> QED
  BY <1>13, <1>14, <1>16, <1>17 DEF JInv

\* Appending a new tag, and taking the last one away.
LEMMA AppendTag ==
    ASSUME NEW s \in Seq(Block), NEW b \in Block, NEW u, u = Append(s, b),
           IsInjective(s), b \notin Range(s)
    PROVE  u \in Seq(Block) /\ IsInjective(u) /\ Range(u) = Range(s) \cup {b}
<1> USE DEF IsInjective, Range
<1>1. /\ u \in Seq(Block) /\ Len(u) = Len(s) + 1 /\ u[Len(s) + 1] = b
      /\ \A i \in 1..Len(s) : u[i] = s[i]
  OBVIOUS
<1>2. Len(s) \in Nat /\ DOMAIN s = 1..Len(s) /\ DOMAIN u = 1..Len(s) + 1
  BY <1>1
<1>3. \A i \in 1..Len(s) + 1 : i = Len(s) + 1 \/ i \in 1..Len(s)
  BY <1>2
<1>4. Len(s) + 1 \in 1..Len(s) + 1 /\ \A i \in 1..Len(s) : i \in 1..Len(s) + 1
  BY <1>2
<1>5. ASSUME NEW i \in DOMAIN u, NEW j \in DOMAIN u, u[i] = u[j]
      PROVE  i = j
  <2>1. (i = Len(s) + 1 \/ i \in 1..Len(s)) /\ (j = Len(s) + 1 \/ j \in 1..Len(s))
    BY <1>2, <1>3
  <2> QED
    BY <1>1, <1>2, <1>5, <2>1
<1>6. ASSUME NEW c
      PROVE  (\E i \in DOMAIN u : u[i] = c) <=> c = b \/ \E i \in DOMAIN s : s[i] = c
  BY <1>1, <1>2, <1>3, <1>4
<1> QED
  BY <1>1, <1>5, <1>6

LEMMA FrontTag ==
    ASSUME NEW s \in Seq(Block), s # <<>>, NEW u, u = Front(s),
           IsInjective(s)
    PROVE  /\ u \in Seq(Block) /\ Last(s) \in Block /\ Last(s) \in Range(s)
           /\ IsInjective(u) /\ Range(u) = Range(s) \ {Last(s)}
<1> USE DEF IsInjective, Range
<1> DEFINE n == Len(s)
<1>1. n \in Nat \ {0} /\ DOMAIN s = 1..n /\ \A i \in 1..n : s[i] \in Block
  OBVIOUS
<1>2. Last(s) = s[n] /\ n \in DOMAIN s
  BY <1>1 DEF Last
<1>3. u = SubSeq(s, 1, n - 1)
  BY DEF Front
<1> HIDE DEF n
<1>4. n - 1 \in Int /\ 1 \in Int /\ \A i \in 1..n - 1 : i \in 1..n /\ i # n /\ 1 + i - 1 = i
  BY <1>1
<1>6. \A i \in 1..n - 1 : s[i] \in Block
  BY <1>1, <1>4
<1>7. /\ u \in Seq(Block) /\ Len(u) = IF 1 <= n - 1 THEN (n - 1) - 1 + 1 ELSE 0
      /\ \A i \in 1..(n - 1) - 1 + 1 : u[i] = s[1 + i - 1]
  BY <1>3, <1>4, <1>6, SubSeqProperties
<1>11. Len(u) = n - 1 /\ (n - 1) - 1 + 1 = n - 1
  BY <1>1, <1>7
<1>12. DOMAIN u = 1..n - 1
  BY <1>7, <1>11
<1>5. DOMAIN u = 1..n - 1 /\ \A i \in 1..n - 1 : u[i] = s[i] /\ i \in 1..n /\ i # n
  BY <1>4, <1>7, <1>11, <1>12
<1>8. \A i \in 1..n : i = n \/ i \in 1..n - 1
  BY <1>1
<1>9. ASSUME NEW c
      PROVE  (\E i \in DOMAIN u : u[i] = c) <=> c # Last(s) /\ \E i \in DOMAIN s : s[i] = c
  <2>1. ASSUME NEW i \in DOMAIN u, u[i] = c
        PROVE  c # Last(s) /\ \E j \in DOMAIN s : s[j] = c
    BY <1>1, <1>2, <1>5, <2>1
  <2>2. ASSUME c # Last(s), NEW i \in DOMAIN s, s[i] = c
        PROVE  \E j \in DOMAIN u : u[j] = c
    BY <1>1, <1>2, <1>5, <1>8, <2>2
  <2> QED
    BY <2>1, <2>2
<1>10. \A i, j \in DOMAIN u : u[i] = u[j] => i = j
  BY <1>1, <1>5
<1>13. Last(s) \in Block
  BY <1>1, <1>2
<1>14. \A c : c \in Range(u) <=> c \in Range(s) \ {Last(s)}
  BY <1>9
<1>15. Last(s) \in Range(s) /\ IsInjective(u)
  BY <1>2, <1>10
<1> HIDE DEF IsInjective, Range
<1>16. Range(u) = Range(s) \ {Last(s)}
  BY <1>14
<1> QED
  BY <1>7, <1>13, <1>15, <1>16

LEMMA ShadowStep ==
    ASSUME JInv, CommitShadow
    PROVE  JInv'
<1> DEFINE b == com.copying
<1> DEFINE last == Owned(com.tid, "Metadata") = {b}
<1>1. PICK c :
      /\ com # NoTrans /\ com.phase = "meta" /\ b # None
      /\ UNCHANGED <<kind, pinned, tasks, seq, mode>>
      /\ UNCHANGED <<log, sb, home, tail, tailseq, run, flushed, durable>>
      /\ SetBuf(b, File(buf[b], com.tid, "Shadow"))
      /\ com' = [com EXCEPT !.copying = None, !.page = None, !.tags = Append(com.tags, b),
                            !.credits = c, !.phase = IF last THEN "wait" ELSE com.phase]
  BY DEF CommitShadow, In
<1>2. UNCHANGED <<kind, pinned, handle, seq, mode>> /\ Created'
  BY <1>1, CreatedStay DEF JInv, tasks
<1>3. Shapes /\ Tids0 /\ FiledAll /\ Commits /\ FreeAll
  BY DEF JInv
<1>4. b \in Owned(com.tid, "Metadata")
  BY <1>1, <1>3 DEF Commits
<1>5. b \in Block /\ buf[b].trans = com.tid /\ buf[b].list = "Metadata"
  BY <1>4 DEF Owned
<1>6. IsCom(com) /\ IsHead(buf[b]) /\ Filed(buf[b], run.tid, com.tid)
  BY <1>1, <1>3, <1>5 DEF Shapes, FiledAll
<1>7. PICK u : u = Append(com.tags, b)
  OBVIOUS
<1>8. com.tags \in Seq(Block) /\ com.tid \in Nat \ {0}
  BY <1>6 DEF IsCom
<1>9. /\ u \in Seq(Block)
      /\ IsInjective(u) /\ Range(u) = Range(com.tags) \cup {b}
  <2>1. b \notin Range(com.tags)
    BY <1>1, <1>3, <1>5 DEF Commits
  <2>2. IsInjective(com.tags)
    BY <1>1, <1>3 DEF Commits
  <2> HIDE DEF b
  <2> QED
    BY <1>5, <1>7, <1>8, <2>1, <2>2, AppendTag
<1> HIDE DEF last
<1>10. /\ IsCom(com') /\ com'.tid = com.tid /\ com'.tags = u /\ com'.copying = None
       /\ com'.phase = IF last THEN "wait" ELSE "meta"
  BY <1>1, <1>6, <1>7, <1>9 DEF IsCom, ComFields
<1>11. PICK q : q = File(buf[b], com.tid, "Shadow")
  OBVIOUS
<1>12. /\ IsHead(q) /\ q.trans = com.tid /\ q.list = "Shadow" /\ ~q.dirty
       /\ (q.jbd <=> buf[b].dirty \/ buf[b].jbd)
       /\ q.next = buf[b].next /\ q.frozen = buf[b].frozen
  BY <1>6, <1>8, <1>11 DEF File, IsHead, HeadFields, Lists
<1>13. Filed(q, run.tid, com.tid)
  BY <1>5, <1>6, <1>8, <1>12 DEF Filed
<1>14. /\ buf' = [c1 \in Block |-> buf'[c1]] /\ \A c1 \in Block : IsHead(buf'[c1])
       /\ buf'[b] = q /\ \A c1 \in Block \ {b} : buf'[c1] = buf[c1]
  BY <1>1, <1>3, <1>5, <1>11, <1>12, OneBuf
<1>15. Tids0' /\ Shapes'
  <2>1. com' # NoTrans
    BY <1>10, NoTransTid DEF IsCom
  <2> QED
    BY <1>1, <1>2, <1>3, <1>10, <1>14, <2>1 DEF Shapes, Tids0, Up
<1>20. FreeAll'
  BY <1>2, <1>3, <1>5, <1>10, <1>12, <1>14 DEF FreeAll
<1>16. FiledAll'
  BY <1>1, <1>2, <1>3, <1>10, <1>13, <1>14 DEF FiledAll
<1> HIDE DEF b
<1>17. \A c1 \in Block : buf'[c1].list = "Shadow" <=> c1 \in Range(u)
  <2>1. \A c1 \in Block : buf[c1].list = "Shadow" <=> c1 \in Range(com.tags)
    BY <1>1, <1>3 DEF Commits
  <2>2. ASSUME NEW c1 \in Block
        PROVE  buf'[c1].list = "Shadow" <=> c1 = b \/ buf[c1].list = "Shadow"
    BY <1>12, <1>14
  <2> QED
    BY <1>9, <2>1, <2>2
<1>18. last => \A c1 \in Block : ~(buf'[c1].trans = com.tid /\ buf'[c1].list = "Metadata")
  BY <1>12, <1>14 DEF last, Owned
<1>19. Commits'
  BY <1>9, <1>10, <1>17, <1>18 DEF Commits, Owned
<1> QED
  BY <1>2, <1>15, <1>16, <1>19, <1>20 DEF JInv

LEMMA UnshadowStep ==
    ASSUME JInv, CommitUnshadow
    PROVE  JInv'
<1> DEFINE b == Last(com.tags)
<1>1. /\ com # NoTrans /\ com.phase = "wait" /\ Kept /\ com.tags # <<>>
      /\ UNCHANGED <<disk, space, run>>
      /\ SetBuf(b, File(buf[b], com.tid, "Forget"))
      /\ com' = [com EXCEPT !.tags = Front(com.tags)]
  BY DEF CommitUnshadow, In
<1>2. sb' = sb /\ tailseq' = tailseq /\ kind' = kind /\ pinned' = pinned
  BY <1>1 DEF disk, space, Kept
<1>3. Shapes /\ FiledAll /\ Commits /\ FreeAll
  BY DEF JInv
<1>4. IsCom(com) /\ com.tags \in Seq(Block) /\ com.tid \in Nat \ {0}
  BY <1>1, <1>3 DEF Shapes, IsCom
<1>5. PICK u : u = Front(com.tags)
  OBVIOUS
<1>6. /\ u \in Seq(Block) /\ b \in Block /\ b \in Range(com.tags)
      /\ IsInjective(u) /\ Range(u) = Range(com.tags) \ {b}
  <2>1. IsInjective(com.tags)
    BY <1>1, <1>3 DEF Commits
  <2> QED
    BY <1>1, <1>4, <1>5, <2>1, FrontTag
<1> HIDE DEF b
<1>7. buf[b].list = "Shadow"
  BY <1>1, <1>3, <1>6 DEF Commits
<1>8. IsHead(buf[b]) /\ Filed(buf[b], run.tid, com.tid)
  BY <1>3, <1>6 DEF Shapes, FiledAll
<1>9. /\ IsCom(com') /\ com'.tid = com.tid /\ com'.tags = u
      /\ com'.copying = com.copying /\ com'.phase = "wait"
  BY <1>1, <1>4, <1>5, <1>6 DEF IsCom, ComFields
<1>10. PICK q : q = File(buf[b], com.tid, "Forget")
  OBVIOUS
<1>11. /\ IsHead(q) /\ q.trans = com.tid /\ q.list = "Forget" /\ ~q.dirty
       /\ (q.jbd <=> buf[b].dirty \/ buf[b].jbd)
       /\ q.next = buf[b].next /\ q.frozen = buf[b].frozen
  BY <1>4, <1>8, <1>10 DEF File, IsHead, HeadFields, Lists
<1>12. Filed(q, run.tid, com.tid)
  BY <1>4, <1>7, <1>8, <1>11 DEF Filed
<1>13. /\ buf' = [c \in Block |-> buf'[c]] /\ \A c \in Block : IsHead(buf'[c])
       /\ buf'[b] = q /\ \A c \in Block \ {b} : buf'[c] = buf[c]
  BY <1>1, <1>3, <1>6, <1>10, <1>11, OneBuf
<1>14. Tids0' /\ Shapes' /\ Created'
  BY <1>1, <1>2, <1>9, <1>13, ComKeeps
<1>15. FiledAll'
  BY <1>1, <1>2, <1>3, <1>9, <1>12, <1>13 DEF FiledAll
<1>16. \A c \in Block : buf'[c].list = "Shadow" <=> c \in Range(u)
  <2>1. \A c \in Block : buf[c].list = "Shadow" <=> c \in Range(com.tags)
    BY <1>1, <1>3 DEF Commits
  <2>2. ASSUME NEW c \in Block
        PROVE  buf'[c].list = "Shadow" <=> c # b /\ buf[c].list = "Shadow"
    BY <1>11, <1>13
  <2> QED
    BY <1>6, <2>1, <2>2
<1>17. com.copying = None /\ \A c \in Block : ~(buf'[c].trans = com.tid /\ buf'[c].list = "Metadata")
  BY <1>1, <1>3, <1>11, <1>13 DEF Commits, Owned
<1>18. Commits'
  BY <1>6, <1>9, <1>16, <1>17 DEF Commits, Owned
<1>19. FreeAll'
  BY <1>2, <1>3, <1>9, <1>11, <1>13 DEF FreeAll
<1> QED
  BY <1>14, <1>15, <1>18, <1>19 DEF JInv

\* A buffer on the forget list of the committing transaction ct, when the commit
\* is done with it.
Forgotten(r, ct, s) ==
    LET w == [r EXCEPT !.frozen = None, !.cp = NoCp]
    IN  IF w.jbd THEN Refile([w EXCEPT !.cp = [tid |-> ct, start |-> s]]) ELSE Unfile(w)

LEMMA ForgottenFiled ==
    ASSUME NEW r, NEW t \in Nat, NEW ct \in Nat \ {0}, NEW s, t # ct, IsHead(r),
           Filed(r, t, ct), r.trans = ct, r.list = "Forget",
           r.jbd \/ r.next = 0, NEW q, q = Forgotten(r, ct, s)
    PROVE  IsHead(q) /\ Filed(q, t, ct) /\ q.trans # ct /\ q.list # "Shadow"
           /\ q.next = 0 /\ (r.next = 0 => q.list = "None")
<1>w. PICK w : w = [r EXCEPT !.frozen = None, !.cp = NoCp]
  OBVIOUS
<1>q. q = IF w.jbd THEN Refile([w EXCEPT !.cp = [tid |-> ct, start |-> s]]) ELSE Unfile(w)
  BY <1>w DEF Forgotten
<1>1. /\ IsHead(w) /\ w.frozen = None
      /\ \A x \in HeadFields \ {"frozen", "cp"} : w[x] = r[x]
  BY <1>w DEF IsHead, HeadFields, NoCp
<1>2. /\ w.trans = ct /\ w.list = "Forget" /\ w.next = r.next /\ w.jbd = r.jbd
      /\ w.dirty = r.dirty
  BY <1>1 DEF HeadFields
<1>3. ~w.dirty /\ (w.next # 0 => w.next = t) /\ (~w.jbd => w.next = 0)
  BY <1>2 DEF Filed
<1>4. CASE w.jbd
  <2>1. PICK p : p = [w EXCEPT !.cp = [tid |-> ct, start |-> s]]
    OBVIOUS
  <2>2. /\ IsHead(p) /\ p.frozen = None
        /\ \A x \in HeadFields \ {"cp"} : p[x] = w[x]
    BY <1>1, <2>1 DEF IsHead, HeadFields
  <2>3. /\ p.trans = ct /\ p.list = "Forget" /\ p.next = w.next /\ p.jbd = w.jbd
        /\ p.dirty = w.dirty
    BY <1>2, <2>2 DEF HeadFields
  <2>4. q = Refile(p)
    BY <1>q, <1>4, <2>1
  <2>5. CASE p.next = 0
    <3>1. q = Unfile(p)
      BY <2>4, <2>5 DEF Refile
    <3>2. IsHead(q) /\ q.trans = 0 /\ q.list = "None" /\ q.next = 0 /\ q.frozen = None
      BY <2>2, <2>5, <3>1 DEF Unfile, IsHead, HeadFields, Lists
    <3> QED
      BY <3>2 DEF Filed
  <2>6. CASE p.next # 0
    <3>1. q = [p EXCEPT !.trans = p.next, !.next = 0, !.list = "Metadata"]
      BY <2>4, <2>6 DEF Refile
    <3>2. /\ IsHead(q) /\ q.trans = p.next /\ q.list = "Metadata" /\ q.next = 0
          /\ q.frozen = None /\ q.jbd = p.jbd /\ q.dirty = p.dirty
      <4>1. IsHead(p) /\ p.frozen = None
        BY <2>2
      <4> QED
        BY <4>1, <2>4, <2>6, RefileFields
    <3>3. q.trans = t /\ t # 0 /\ q.jbd /\ ~q.dirty
      BY <1>3, <1>4, <2>3, <2>6, <3>2
    <3> QED
      BY <1>2, <2>3, <2>6, <3>2, <3>3 DEF Filed
  <2> QED
    BY <2>5, <2>6
<1>5. CASE ~w.jbd
  <2>1. q = Unfile(w)
    BY <1>q, <1>5
  <2>2. IsHead(q) /\ q.trans = 0 /\ q.list = "None" /\ q.next = 0 /\ q.frozen = None
    BY <1>1, <1>3, <1>5, <2>1 DEF Unfile, IsHead, HeadFields, Lists
  <2> QED
    BY <2>2 DEF Filed
<1> QED
  BY <1>4, <1>5

LEMMA ForgetStep ==
    ASSUME JInv, NEW b \in Block, CommitForget(b)
    PROVE  JInv'
<1>1. /\ com # NoTrans /\ com.phase = "forget" /\ Kept /\ b \in Owned(com.tid, "Forget")
      /\ buf[b].jbd \/ buf[b].next = 0
      /\ SetBuf(b, Forgotten(buf[b], com.tid, com.start)) /\ UNCHANGED <<disk, space, run, com>>
  <2>1. PICK w : w = [buf[b] EXCEPT !.frozen = None, !.cp = NoCp]
    OBVIOUS
  <2>2. w.jbd = buf[b].jbd /\ w.next = buf[b].next
    BY <2>1 DEF JInv, Shapes, IsHead, HeadFields
  <2> QED
    BY <2>1, <2>2 DEF CommitForget, In, Forgotten
<1>2. sb' = sb /\ tailseq' = tailseq /\ kind' = kind /\ pinned' = pinned
  BY <1>1 DEF disk, space, Kept
<1>3. Shapes /\ FiledAll /\ Commits /\ Tids0 /\ FreeAll
  BY DEF JInv
<1>4. IsCom(com) /\ IsHead(buf[b]) /\ Filed(buf[b], run.tid, com.tid)
  BY <1>1, <1>3 DEF Shapes, FiledAll
<1>5. buf[b].trans = com.tid /\ buf[b].list = "Forget"
  BY <1>1 DEF Owned
<1>6. com.tid \in Nat \ {0} /\ run.tid \in Nat /\ run.tid # com.tid
  BY <1>1, <1>3, TransTids DEF Tids0
<1>7. PICK y : y = Forgotten(buf[b], com.tid, com.start)
  OBVIOUS
<1>8. IsHead(y) /\ Filed(y, run.tid, com.tid) /\ y.trans # com.tid /\ y.list # "Shadow"
      /\ y.next = 0 /\ (buf[b].next = 0 => y.list = "None")
  BY <1>1, <1>4, <1>5, <1>6, <1>7, ForgottenFiled
<1>9. SameLists(buf[b], y, com.tid)
  BY <1>5, <1>8 DEF SameLists
<1>10. /\ buf' = [c \in Block |-> buf'[c]] /\ \A c \in Block : IsHead(buf'[c])
       /\ FiledAll' /\ Commits' /\ FreeAll'
  <2>1. kind'[b] = Free => y.list = "None"
    BY <1>2, <1>3, <1>8 DEF FreeAll
  <2> QED
    BY <1>1, <1>2, <1>7, <1>8, <1>9, <2>1, OneHead
<1>11. Tids0' /\ Shapes' /\ Created'
  BY <1>1, <1>2, <1>4, <1>10, ComKeeps
<1> QED
  BY <1>10, <1>11 DEF JInv

\* The bitmap's turn: by now everything the transaction had to write is written.
LEMMA BitmapStep ==
    ASSUME JInv, CommitBitmap
    PROVE  JInv'
<1>1. /\ com # NoTrans /\ com.phase = "forget" /\ com' = [com EXCEPT !.undo = FALSE]
      /\ UNCHANGED <<disk, space, run, buf, kind, tasks, seq, mode>>
  BY DEF CommitBitmap, In
<1>2. UNCHANGED <<sb, tailseq, handle, fresh>>
  BY <1>1 DEF disk, space, tasks
<1>3. Shapes /\ FiledAll /\ Commits /\ Tids0 /\ FreeAll /\ Created
  BY DEF JInv
<1>4. IsCom(com)
  BY <1>1, <1>3 DEF Shapes
<1>5. /\ IsCom(com') /\ com'.tid = com.tid /\ com'.tags = com.tags
      /\ com'.copying = com.copying /\ com'.phase = com.phase
  BY <1>1, <1>4 DEF IsCom, ComFields
<1>6. com' # NoTrans
  BY <1>5, NoTransTid DEF IsCom
<1>7. Shapes' /\ Tids0'
  BY <1>1, <1>2, <1>3, <1>5, <1>6 DEF Shapes, Tids0, Up
<1>8. FiledAll' /\ Commits' /\ Created'
  BY <1>1, <1>2, <1>3, <1>5, CreatedStay DEF FiledAll, Commits, Owned
<1>9. ASSUME NEW b \in Block, kind[b] = Free
      PROVE  buf[b].next = 0 /\ buf[b].list \in {"None", "Forget"}
  <2>1. com.tags = <<>> /\ Owned(com.tid, "Metadata") = {} /\ Range(com.tags) = {}
    BY <1>1, <1>3 DEF Commits, Range
  <2>2. ~(buf[b].trans = com.tid /\ buf[b].list = "Metadata") /\ buf[b].list # "Shadow"
    BY <1>1, <1>3, <2>1 DEF Commits, Owned
  <2>3. buf[b].list = "Reserved" => buf[b].trans # com.tid
    <3>1. com.tid # 0 /\ run.tid # com.tid
      BY <1>3, <1>4 DEF Tids0, IsCom
    <3> QED
      BY <1>3, <3>1 DEF FiledAll, Filed
  <2>4. buf[b].list \in Lists
    BY <1>3 DEF Shapes, IsHead
  <2> QED
    BY <1>3, <1>9, <2>2, <2>3, <2>4 DEF FreeAll, Lists
<1>10. FreeAll'
  BY <1>1, <1>9 DEF FreeAll
<1> QED
  BY <1>7, <1>8, <1>10 DEF JInv

LEMMA FinishStep ==
    ASSUME JInv, CommitFinish
    PROVE  JInv'
<1>1. /\ com # NoTrans /\ com.phase = "forget" /\ Kept /\ Owned(com.tid, "Forget") = {}
      /\ com' = NoTrans /\ UNCHANGED <<disk, space, run, buf>>
  BY DEF CommitFinish, In
<1>2. UNCHANGED <<sb, tailseq, kind, pinned, handle, seq, mode>> /\ Created'
  BY <1>1, KeptCreated DEF disk, space
<1>3. Shapes /\ FiledAll /\ Commits /\ Tids0 /\ FreeAll
  BY DEF JInv
<1>4. com.tags = <<>> /\ Owned(com.tid, "Metadata") = {}
  BY <1>1, <1>3 DEF Commits
<1>5. \A b \in Block : buf[b].list # "Shadow"
  BY <1>1, <1>3, <1>4 DEF Commits, Range
<1>6. com.tid \in Nat \ {0} /\ run.tid \in Nat /\ run.tid # com.tid
  BY <1>1, <1>3, TransTids DEF Tids0
<1>7. ASSUME NEW b \in Block
      PROVE  Filed(buf[b], run.tid, 0) /\ buf[b].trans # com.tid
  <2>1. IsHead(buf[b]) /\ Filed(buf[b], run.tid, com.tid)
    BY <1>3 DEF Shapes, FiledAll
  <2>2. buf[b].trans = com.tid => buf[b].list \notin {"Forget", "Metadata", "Shadow"}
    BY <1>1, <1>4, <1>5 DEF Owned
  <2>3. buf[b].trans # com.tid
    BY <1>6, <2>1, <2>2 DEF Filed, IsHead, Lists
  <2> QED
    BY <1>5, <1>6, <2>1, <2>3 DEF Filed
<1>8. com'.tid = 0
  BY <1>1, NoTransTid
<1>9. FiledAll'
  BY <1>1, <1>2, <1>7, <1>8 DEF FiledAll
<1>10. Tids0'
  BY <1>1, <1>2, <1>3, <1>8, NoTransTid DEF Tids0, Up
<1>11. Shapes'
  BY <1>1, <1>2, <1>3 DEF Shapes
<1>12. Commits'
  BY <1>1 DEF Commits
<1>13. FreeAll'
  BY <1>1, <1>2, <1>3, <1>7 DEF FreeAll
<1> QED
  BY <1>2, <1>9, <1>10, <1>11, <1>12, <1>13 DEF JInv

-----------------------------------------------------------------------------
(* Write-back, checkpoints, crash and recovery keep the invariant *)

\* The VM or a checkpoint changes one head that no list of a commit holds
\* differently.
LEMMA WriteBackStep ==
    ASSUME JInv, NEW b \in Block, WriteBack(b) \/ RemoveCheckpoint(b)
    PROVE  JInv'
<1>1. PICK q :
      /\ q = [buf[b] EXCEPT !.dirty = FALSE] \/ q = [buf[b] EXCEPT !.cp = NoCp]
      /\ SetBuf(b, q) /\ Kept /\ UNCHANGED <<sb, space, run, com>>
  BY DEF WriteBack, RemoveCheckpoint, disk
<1>2. UNCHANGED <<tailseq, kind, pinned, handle, seq, mode>> /\ Created'
  BY <1>1, KeptCreated DEF space
<1>3. Shapes /\ FiledAll /\ Tids0 /\ FreeAll
  BY DEF JInv
<1>4. IsHead(buf[b]) /\ Filed(buf[b], run.tid, com.tid)
  BY <1>3 DEF Shapes, FiledAll
<1>5. /\ IsHead(q) /\ (q.dirty => buf[b].dirty)
      /\ \A x \in HeadFields \ {"dirty", "cp"} : q[x] = buf[b][x]
  <2>1. CASE q = [buf[b] EXCEPT !.dirty = FALSE]
    BY <1>4, <2>1 DEF IsHead, HeadFields
  <2>2. CASE q = [buf[b] EXCEPT !.cp = NoCp]
    <3>1. NoCp.tid \in Nat
      BY DEF NoCp
    <3> QED
      BY <1>4, <2>2, <3>1 DEF IsHead, HeadFields
  <2> QED
    BY <1>1, <2>1, <2>2
<1>6. Filed(q, run.tid, com.tid) /\ SameLists(buf[b], q, com.tid)
  BY <1>4, <1>5 DEF Filed, SameLists, HeadFields
<1>7. /\ buf' = [c \in Block |-> buf'[c]] /\ \A c \in Block : IsHead(buf'[c])
      /\ FiledAll' /\ Commits' /\ FreeAll'
  <2>1. q.next = buf[b].next /\ q.list = buf[b].list /\ q.trans = buf[b].trans
    BY <1>5 DEF HeadFields
  <2>2. kind'[b] = Free => q.next = 0 /\ (q.list \in {"None", "Forget"}
                                          \/ (b \in pinned' /\ q.trans = com.tid))
    BY <1>2, <1>3, <2>1 DEF FreeAll
  <2> QED
    BY <1>1, <1>2, <1>5, <1>6, <2>2, OneHead
<1>8. Tids0'
  BY <1>1, <1>2, <1>3 DEF Tids0, Up
<1>9. Shapes'
  BY <1>1, <1>2, <1>3, <1>7 DEF Shapes
<1> QED
  BY <1>2, <1>7, <1>8, <1>9 DEF JInv

LEMMA WriteDataStep ==
    ASSUME JInv, NEW b \in Block, WriteData(b)
    PROVE  JInv'
<1>1. /\ run # NoTrans /\ run' = [run EXCEPT !.sync = @ \ {b}] /\ Kept
      /\ UNCHANGED <<sb, space, com, buf>>
  BY DEF WriteData
<1>2. UNCHANGED <<tailseq, kind, pinned, handle, seq, mode>> /\ Created'
  BY <1>1, KeptCreated DEF space
<1>3. Shapes /\ Tids0
  BY DEF JInv
<1>4. IsRun(run)
  BY <1>1, <1>3 DEF Shapes
<1>5. IsRun(run') /\ run'.tid = run.tid /\ run'.locked = run.locked
  BY <1>1, <1>4 DEF IsRun, RunFields
<1>6. run' # NoTrans
  BY <1>5, NoTransTid DEF IsRun
<1>7. Tids0'
  BY <1>1, <1>2, <1>3, <1>5, <1>6 DEF Tids0, Up
<1>8. Shapes'
  BY <1>1, <1>2, <1>3, <1>5 DEF Shapes
<1> QED
  BY <1>1, <1>2, <1>5, <1>7, <1>8, HeadsStay DEF JInv

\* The oldest transaction in the log has an id.
LEMMA OldestTid ==
    ASSUME JInv
    PROVE  Oldest.tid \in Nat
<1>1. Shapes /\ Tids0
  BY DEF JInv
<1>2. CASE CheckpointList # {}
  <2>1. \A c \in CheckpointList : c.tid \in Nat
    BY <1>1 DEF CheckpointList, Shapes, IsHead
  <2> DEFINE T == {c.tid : c \in CheckpointList}
  <2>2. T \subseteq Nat /\ T # {}
    BY <1>2, <2>1
  <2>3. PICK m \in T : \A k \in T : m <= k
    BY <2>2, LeastNat
  <2>4. \E c \in CheckpointList : \A d \in CheckpointList : c.tid <= d.tid
    BY <2>3
  <2>5. Oldest \in CheckpointList
    BY <1>2, <2>4 DEF Oldest
  <2> QED
    BY <2>1, <2>5
<1>3. CASE CheckpointList = {}
  <2>1. com.tid \in Nat /\ run.tid \in Nat /\ seq \in Nat
    BY <1>1, TransTids DEF Tids0
  <2> QED
    BY <1>3, <2>1 DEF Oldest
<1> QED
  BY <1>2, <1>3

LEMMA TailStep ==
    ASSUME JInv, CleanupTail \/ UpdateSuperblock \/ journal_flush
    PROVE  JInv'
<1>1. Shapes /\ Tids0
  BY DEF JInv
<1>2. UNCHANGED <<run, com, buf, kind, pinned, handle, fresh, seq, mode>>
  BY DEF CleanupTail, UpdateSuperblock, journal_flush, Kept, tasks
<1>3. tailseq' \in Nat /\ sb'.seq \in Nat
  <2>1. CASE CleanupTail
    <3>1. tailseq' = Oldest.tid /\ sb' = sb
      BY <2>1 DEF CleanupTail, disk
    <3> QED
      BY <1>1, <3>1, OldestTid DEF Tids0
  <2>2. CASE UpdateSuperblock
    <3>1. tailseq' = tailseq /\ sb' = SbNow
      BY <2>2 DEF UpdateSuperblock, space
    <3> QED
      BY <1>1, <3>1, SbNowSeq DEF Tids0
  <2>3. CASE journal_flush
    <3>1. tailseq' = tailseq /\ sb' = [start |-> 0, seq |-> tailseq]
      BY <2>3 DEF journal_flush, space
    <3> QED
      BY <1>1, <3>1 DEF Tids0
  <2> QED
    BY <2>1, <2>2, <2>3
<1>4. Tids0'
  BY <1>1, <1>2, <1>3 DEF Tids0, Up
<1>5. Shapes'
  BY <1>1, <1>2 DEF Shapes
<1> QED
  BY <1>2, <1>4, <1>5, HeadsStay, CreatedStay DEF JInv

\* No transaction, and buffers that are all clean.
LEMMA AllClean ==
    ASSUME NEW v, run' = NoTrans, com' = NoTrans, buf' = [b \in Block |-> Clean(v[b])]
    PROVE  /\ buf' = [b \in Block |-> buf'[b]] /\ \A b \in Block : IsHead(buf'[b])
           /\ FiledAll' /\ Commits' /\ FreeAll'
<1>1. run'.tid = 0 /\ com'.tid = 0
  BY NoTransTid
<1>2. ASSUME NEW b \in Block
      PROVE  /\ IsHead(buf'[b]) /\ Filed(buf'[b], 0, 0)
             /\ buf'[b].next = 0 /\ buf'[b].list = "None"
  <2>1. PICK q : q = Clean(v[b])
    OBVIOUS
  <2>2. /\ IsHead(q) /\ q.trans = 0 /\ q.next = 0 /\ q.list = "None"
        /\ q.frozen = None /\ ~q.dirty /\ ~q.jbd
    BY <2>1, CleanFields
  <2>3. Filed(q, 0, 0)
    BY <2>2 DEF Filed
  <2>4. buf'[b] = q
    BY <2>1
  <2> QED
    BY <2>2, <2>3, <2>4
<1>3. FiledAll'
  BY <1>1, <1>2 DEF FiledAll
<1>4. Commits'
  BY DEF Commits
<1>5. FreeAll'
  BY <1>2 DEF FreeAll
<1> QED
  BY <1>2, <1>3, <1>4, <1>5

LEMMA CrashStep ==
    ASSUME JInv, NEW S, Crash(S)
    PROVE  JInv'
<1>1. /\ run' = NoTrans /\ com' = NoTrans /\ sb' = sb /\ seq' = 0 /\ tailseq' = 0
      /\ mode' = "down" /\ kind' = [b \in Block |-> Free]
      /\ handle' = [h \in Handle |-> None] /\ fresh' = [h \in Handle |-> None]
      /\ buf' = [b \in Block |-> Clean(None)]
  BY DEF Crash
<1>2. PICK v : v = [b \in Block |-> None]
  OBVIOUS
<1>3. buf' = [b \in Block |-> Clean(v[b])]
  BY <1>1, <1>2
<1>4. /\ buf' = [b \in Block |-> buf'[b]] /\ \A b \in Block : IsHead(buf'[b])
      /\ FiledAll' /\ Commits' /\ FreeAll'
  BY <1>1, <1>3, AllClean
<1>5. sb.seq \in Nat
  BY DEF JInv, Tids0
<1>6. Tids0'
  BY <1>1, <1>5, NoTransTid DEF Tids0, Up
<1>7. Shapes'
  BY <1>1, <1>4 DEF Shapes
<1>8. Created'
  BY <1>1, JbdConstants DEF Created
<1> QED
  BY <1>4, <1>6, <1>7, <1>8 DEF JInv

LEMMA RecoverStep ==
    ASSUME JInv, RecoverCrash \/ journal_recover
    PROVE  JInv'
<1>1. Shapes /\ Tids0
  BY DEF JInv
<1>2. mode = "down" /\ Restarting
  BY DEF RecoverCrash, journal_recover
<1>3. UNCHANGED <<sb, buf, kind, pinned, handle, fresh, run, com, tailseq>>
  BY <1>2 DEF Restarting, space, tasks
<1>4. run = NoTrans /\ com = NoTrans /\ sb.seq \in Nat
  BY <1>1, <1>2 DEF Tids0, Up
<1>5. seq' \in Nat /\ (mode' # "down" => seq' # 0) /\ mode' # "up"
  <2>1. CASE RecoverCrash
    BY <1>1, <1>2, <2>1 DEF RecoverCrash, Tids0
  <2>2. CASE journal_recover
    <3>1. PICK n : n = Scan(log, sb).tid
      OBVIOUS
    <3>2. n \in Nat
      BY <1>4, <3>1, ScanTid
    <3>3. seq' = (IF sb.start = 0 THEN sb.seq + 1 ELSE n + 1) /\ mode' = "replayed"
      BY <2>2, <3>1 DEF journal_recover
    <3> QED
      BY <1>4, <3>2, <3>3
  <2> QED
    BY <2>1, <2>2
<1>6. Tids0'
  BY <1>1, <1>3, <1>4, <1>5, NoTransTid DEF Tids0, Up
<1>7. Shapes'
  BY <1>1, <1>3 DEF Shapes
<1>8. Created'
  BY <1>2, <1>3 DEF JInv, Created, Up
<1> QED
  BY <1>3, <1>6, <1>7, <1>8, HeadsStay DEF JInv

LEMMA ResetStep ==
    ASSUME JInv, journal_reset
    PROVE  JInv'
<1>1. Shapes /\ Tids0
  BY DEF JInv
<1>2. /\ mode = "replayed" /\ tailseq' = seq /\ buf' = [b \in Block |-> Clean(home[b])]
      /\ sb' = IF sb.start = 0 THEN sb ELSE [start |-> 1, seq |-> seq]
      /\ kind' = [b \in Block |-> IF durable[b] \in {Data, Free} THEN durable[b] ELSE "meta"]
      /\ mode' = "up" /\ UNCHANGED <<handle, fresh, run, com, seq>>
  BY DEF journal_reset, tasks
<1>3. run = NoTrans /\ com = NoTrans /\ seq \in Nat /\ seq # 0 /\ sb.seq \in Nat
  BY <1>1, <1>2 DEF Tids0, Up
<1>4. /\ buf' = [b \in Block |-> buf'[b]] /\ \A b \in Block : IsHead(buf'[b])
      /\ FiledAll' /\ Commits' /\ FreeAll'
  BY <1>2, <1>3, AllClean
<1>5. sb'.seq \in Nat
  BY <1>2, <1>3
<1>6. Tids0'
  BY <1>1, <1>2, <1>3, <1>5, NoTransTid DEF Tids0, Up
<1>7. kind' = [b \in Block |-> kind'[b]]
  BY <1>2
<1>8. Shapes'
  BY <1>1, <1>2, <1>4, <1>7 DEF Shapes
<1>9. Created'
  BY <1>2 DEF JInv, Created, Up
<1> QED
  BY <1>4, <1>6, <1>8, <1>9 DEF JInv

-----------------------------------------------------------------------------
(* The theorem *)

LEMMA JInit == Init => JInv
<1> SUFFICES ASSUME Init PROVE JInv
  OBVIOUS
<1>1. /\ run = NoTrans /\ com = NoTrans /\ seq = 1 /\ tailseq = 1 /\ mode = "up"
      /\ sb = [start |-> 0, seq |-> 0] /\ buf = [b \in Block |-> Clean(home[b])]
      /\ kind = [b \in Block |-> "meta"] /\ handle = [h \in Handle |-> None]
      /\ fresh = [h \in Handle |-> None]
  BY DEF Init, Reset
<1>2. ASSUME NEW b \in Block
      PROVE  /\ IsHead(buf[b]) /\ Filed(buf[b], 0, 0)
             /\ buf[b].next = 0 /\ buf[b].list = "None"
  <2>1. PICK q : q = Clean(home[b])
    OBVIOUS
  <2>2. /\ IsHead(q) /\ q.trans = 0 /\ q.next = 0 /\ q.list = "None"
        /\ q.frozen = None /\ ~q.dirty /\ ~q.jbd
    BY <2>1, CleanFields
  <2>3. Filed(q, 0, 0)
    BY <2>2 DEF Filed
  <2>4. buf[b] = q
    BY <1>1, <2>1
  <2> QED
    BY <2>2, <2>3, <2>4
<1>3. FiledAll
  BY <1>1, <1>2, NoTransTid DEF FiledAll
<1>4. Commits
  BY <1>1 DEF Commits
<1>5. Tids0
  BY <1>1, NoTransTid DEF Tids0, Up
<1>6. buf = [b \in Block |-> buf[b]]
  BY <1>1
<1>7. Shapes
  BY <1>1, <1>2, <1>6 DEF Shapes
<1>8. FreeAll /\ Created
  BY <1>1, <1>2, JbdConstants DEF FreeAll, Created
<1> QED
  BY <1>3, <1>4, <1>5, <1>7, <1>8 DEF JInv

LEMMA JNext == JInv /\ [Next]_vars => JInv'
<1> SUFFICES ASSUME JInv, [Next]_vars PROVE JInv'
  OBVIOUS
<1>1. ASSUME NEW h \in Handle,
             \/ journal_start(h) \/ journal_stop(h)
             \/ \E b \in Block :
                   \/ get_write_access(h, b) \/ get_create_access(h, b)
                   \/ journal_revoke(h, b) \/ alloc_data(h, b) \/ dirty_data(h, b)
                   \/ \E v \in Value : dirty_metadata(h, b, v)
      PROVE  JInv'
  BY <1>1, StartStep, StopStep, AccessStep, RevokeStep, AllocDataStep, DirtyStep,
     CreateStep, DirtyDataStep
<1>2. CASE CommitNext
  BY <1>2, LockStep, SwitchStep, DataStep, HeadersStep, ShadowStep, UnshadowStep, RecordStep,
     DoneStep, FinishStep, CopyStep, ForgetStep, BitmapStep DEF CommitNext
<1>3. CASE CheckpointNext
  BY <1>3, TailStep, WriteBackStep, WriteDataStep DEF CheckpointNext
<1>4. CASE \E S \in SUBSET DOMAIN io : Crash(S)
  BY <1>4, CrashStep
<1>5. CASE RecoverCrash \/ journal_recover \/ journal_reset
  BY <1>5, RecoverStep, ResetStep
<1>6. CASE UNCHANGED vars
  <2>1. UNCHANGED <<buf, kind, pinned, handle, fresh, run, com, seq, mode, tailseq, sb>>
    BY <1>6 DEF vars, disk, space, tasks
  <2> QED
    BY <2>1 DEF JInv, Shapes, Tids0, FiledAll, FreeAll, Created, Commits, Owned, Up
<1> QED
  BY <1>1, <1>2, <1>3, <1>4, <1>5, <1>6 DEF Next, HandleNext

LEMMA JOwns == JInv => Ownership
<1> SUFFICES ASSUME JInv, NEW b \in Block
             PROVE  LET r == buf[b]
                        rt == run.tid
                        ct == com.tid
                    IN  /\ r.trans \in {0, rt, ct} /\ (r.trans = 0 <=> r.list = "None")
                        /\ r.next # 0 => r.next = rt /\ r.trans = ct /\ ct # 0
                        /\ r.dirty => r.trans = 0
                        /\ r.frozen # None => r.trans = ct /\ ct # 0
                        /\ r.list = "Metadata" /\ r.trans = ct => r.jbd
                        /\ Allocatable(b) =>
                              r.next = 0 /\ (r.trans # 0 /\ r.trans = ct => r.list = "Forget")
  BY DEF Ownership
<1>1. Filed(buf[b], run.tid, com.tid)
  BY DEF JInv, FiledAll
<1>2. Allocatable(b) => buf[b].next = 0 /\ buf[b].list \in {"None", "Forget"}
  BY DEF JInv, FreeAll, Allocatable
<1> QED
  BY <1>1, <1>2 DEF Filed

\* Whatever handles, the commit thread, the VM and checkpoints do to a buffer,
\* and however the journal was restarted, the running and the committing
\* transaction own it as the J_ASSERTs of the journal expect.
THEOREM OwnershipHolds == Spec => []Ownership
<1>1. Init => JInv
  BY JInit
<1>2. JInv /\ [Next]_vars => JInv'
  BY JNext
<1>3. JInv => Ownership
  BY JOwns
<1> QED
  BY <1>1, <1>2, <1>3, PTL DEF Spec
=============================================================================
