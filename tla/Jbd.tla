--------------------------------- MODULE Jbd ---------------------------------
(***************************************************************************)
(* The journalling layer, fs/jbd: handles of the file system (at most one  *)
(* of each member of Handle open), the commit thread, write-back by the VM *)
(* and by checkpoints, the tail of the log, and a crash at any point with  *)
(* the recovery that follows it, which may crash as well.                  *)
(*                                                                         *)
(* The file system is its blocks: a block holds metadata with a value, is  *)
(* free, or holds ordinary data (which ordered mode writes in place before *)
(* the commit).  A write to the log that was submitted and not waited for  *)
(* is in io; a crash keeps any part of it.  Writes of the superblock, of   *)
(* the commit record's block and of home blocks are atomic.                *)
(*                                                                         *)
(* In three windows the code lets another task spoil what it relies on.    *)
(* spoiled records those a behaviour has been through:                     *)
(*   "shadow"  write access between the choice of what goes to the log and *)
(*             the filing on the shadow list (journal.c:374)               *)
(*   "tail"    log space reused while the superblock on the disk still has *)
(*             the old tail (checkpoint.c:445)                             *)
(*   "forget"  a block freed that the committing transaction owns and the  *)
(*             running one has modified (transaction.c:1274)               *)
(***************************************************************************)
EXTENDS Integers, SequencesExt

CONSTANTS
    Block,            \* blocks of the file system
    Freeable,         \* those that may be freed (not bitmaps and inode tables)
    Handle,           \* tasks that open handles
    Value,            \* contents of metadata blocks
    MagicValue,       \* a content that starts with JFS_MAGIC_NUMBER
    ZeroedValue,      \* that content with its first word 0
    Data, Free,       \* what a block that is not metadata is
    None,             \* a null pointer
    LogSize,          \* j_last - j_first; the log is 1 .. LogSize
    MaxTransBuffers,  \* j_max_transaction_buffers
    Reserved,         \* MIN_LOG_RESERVED_BLOCKS
    Credits,          \* nblocks of each journal_start
    MaxTid,           \* bound on transaction ids
    MaxBoot           \* bound on restarts

ASSUME JbdConstants ==
    /\ LogSize \in Nat \ {0} /\ MaxTid \in Nat \ {0} /\ MaxBoot \in Nat
    /\ MaxTransBuffers \in Nat /\ Reserved \in Nat /\ Credits \in 1..MaxTransBuffers
    /\ Data \notin Value /\ Free \notin Value /\ Data # Free /\ None \notin Value
    /\ "meta" \notin {Data, Free} /\ None \notin Block

VARIABLES
    log,      \* disk: the blocks of the journal
    io,       \* log blocks submitted and not waited for
    sb,       \* disk: s_start (0: nothing to recover) and s_sequence
    home,     \* disk: the blocks of the file system
    buf,      \* buffer head and journal head of each block
    kind,     \* "meta", Data or Free, as the file system sees it in memory
    pinned,   \* free blocks whose bit is set in b_committed_data
    handle,   \* None, or the credits the open handle has left
    fresh,    \* the block a handle has create access to and not yet filled
    waiting,  \* tasks in __log_wait_for_space
    run,      \* j_running_transaction
    com,      \* j_committing_transaction
    head, tail, free, tailseq, seq,  \* j_head, j_tail, j_free, j_tail_sequence,
                                     \* j_transaction_sequence
    flushed,  \* JFS_FLUSHED
    ck,       \* "sb" inside cleanup_journal_tail, j_tail moved, superblock not
    mode,     \* "up", "down" after a crash, "replayed" before journal_reset
    boots,    \* restarts so far
    durable,  \* the file system as of the last transaction that is committed
    spoiled   \* the windows that were stepped into

disk == <<log, io, sb, home>>
space == <<head, tail, free, tailseq>>
tasks == <<handle, fresh, waiting>>
vars == <<disk, buf, kind, pinned, tasks, run, com, space, seq, flushed, ck, mode, boots,
          durable, spoiled>>

-----------------------------------------------------------------------------
(* Journal heads *)

\* j_running_transaction or j_committing_transaction is NULL.
NoTrans == [tid |-> 0]

NoCp == [tid |-> 0, start |-> 0]

\* A buffer without a transaction or a checkpoint, clean.
Clean(v) == [val |-> v, trans |-> 0, next |-> 0, list |-> "None", frozen |-> None,
             cp |-> NoCp, dirty |-> FALSE, jbd |-> FALSE]

\* __journal_file_buffer: on a list of metadata the dirty bit is hidden from
\* the VM as jbddirty.
File(r, t, l) == [r EXCEPT !.trans = t, !.list = l, !.dirty = FALSE, !.jbd = r.dirty \/ r.jbd]

\* __journal_unfile_buffer: a jbddirty buffer is exposed to the VM.
Unfile(r) == [r EXCEPT !.trans = 0, !.list = "None", !.dirty = r.dirty \/ r.jbd, !.jbd = FALSE]

\* __journal_refile_buffer: to the transaction that has used it since, if any.
Refile(r) ==
    IF r.next = 0 THEN Unfile(r)
    ELSE [r EXCEPT !.trans = r.next, !.next = 0, !.list = "Metadata"]

Owned(t, l) == {b \in Block : buf[b].trans = t /\ buf[b].list = l}

\* The file system as the handles have left it in memory.
Current == [b \in Block |-> IF kind[b] = "meta" THEN buf[b].val ELSE kind[b]]

-----------------------------------------------------------------------------
(* The log *)

Blank == [type |-> "blank"]

\* Fault variant: the log is one block longer than it is.
Adv_PastEnd(p) == IF p > LogSize THEN 1 ELSE p + 1

\* journal_next_log_block.
Adv(p) == IF p = LogSize THEN 1 ELSE p + 1

\* The log once the submitted writes at S have reached the disk.
Landed(S) == [p \in DOMAIN log |-> IF p \in S THEN io[p] ELSE log[p]]

\* What recovery reads: do_one_pass starts at s_start ...
ScanStart(s) ==
    [pos |-> s.start, tid |-> s.seq, end |-> FALSE, revoked |-> {}, writes |-> <<>>]

\* ... and goes on block by block; a block that is not a header, or has another
\* sequence number, ends the pass.
ScanBlock(lg, p) ==
    LET r == lg[p.pos]
        at(k) == ((p.pos - 1 + k) % LogSize) + 1
    IN  IF p.end \/ r.type \in {"blank", "data"} THEN [p EXCEPT !.end = TRUE]
        ELSE IF r.tid # p.tid THEN [p EXCEPT !.end = TRUE]
        ELSE IF r.type = "commit" THEN [p EXCEPT !.pos = at(1), !.tid = @ + 1]
        ELSE IF r.type = "revoke"
             THEN [p EXCEPT !.pos = at(1), !.revoked = @ \cup {<<b, r.tid>> : b \in r.blocks}]
        ELSE [p EXCEPT !.pos = at(1 + Len(r.tags)),
                       !.writes = @ \o [k \in 1..Len(r.tags) |->
                           [block |-> r.tags[k], tid |-> r.tid, rec |-> lg[at(k)]]]]

Scan(lg, s) ==
    LET pass[n \in 0..LogSize] == IF n = 0 THEN ScanStart(s) ELSE ScanBlock(lg, pass[n - 1])
    IN  pass[LogSize]

\* PASS_REPLAY: the blocks of complete transactions, in order, that no revoke
\* record of the same or a later complete transaction names.  An escaped block
\* is copied as it is in the log: the magic number goes into the descriptor.
Replays(lg, s) ==
    LET p == Scan(lg, s)
        revoked(w) == \E r \in p.revoked : r[1] = w.block /\ w.tid <= r[2] /\ r[2] < p.tid
    IN  SelectSeq(p.writes, LAMBDA w : w.tid < p.tid /\ ~revoked(w))

RestoredVal(w) == IF w.rec.type = "data" THEN w.rec.val ELSE None

\* What each block holds before and while it is replayed, oldest first.
Stages ==
    LET ws == IF sb.start = 0 THEN <<>> ELSE Replays(log, sb)
    IN  [b \in Block |-> FoldLeft(LAMBDA s, w : IF w.block = b THEN Append(s, RestoredVal(w)) ELSE s,
                                 <<home[b]>>, ws)]

Replayed == LET s == Stages IN [b \in Block |-> Last(s[b])]

-----------------------------------------------------------------------------

\* A journal that journal_reset has set up on an empty log at sequence s.
Reset(s) ==
    /\ head = 1 /\ tail = 1 /\ free = LogSize
    /\ tailseq = s

\* A file system that was unmounted cleanly, all blocks metadata.  (Contents of
\* different blocks are never compared, so all may start with the same one.)
Init ==
    /\ log = [p \in 1..LogSize |-> Blank] /\ io = <<>>
    /\ sb = [start |-> 0, seq |-> 0]
    /\ \E v \in Value \ {MagicValue} : home = [b \in Block |-> v]
    /\ buf = [b \in Block |-> Clean(home[b])]
    /\ kind = [b \in Block |-> "meta"]
    /\ pinned = {}
    /\ handle = [h \in Handle |-> None] /\ fresh = [h \in Handle |-> None] /\ waiting = {}
    /\ run = NoTrans /\ com = NoTrans
    /\ seq = 1 /\ Reset(seq)
    /\ flushed = TRUE /\ ck = "idle" /\ mode = "up" /\ boots = 0
    /\ durable = home /\ spoiled = {}

-----------------------------------------------------------------------------
(* Handles *)

Up == mode = "up"
Open(h) == Up /\ handle[h] # None
SetBuf(b, r) == buf' = [buf EXCEPT ![b] = r]
MemOnly == UNCHANGED <<disk, space, flushed, ck, mode, boots, durable>>

\* Fault variant: no blocks are held back for descriptors, revoke and commit records.
SpaceLeft_NoReserve == IF free <= 0 THEN 0 ELSE free - (free \div 8)

\* __log_space_left, and jbd_space_needed.
SpaceLeft ==
    LET left == free - Reserved IN IF left <= 0 THEN 0 ELSE left - (left \div 8)

SpaceNeeded == MaxTransBuffers + (IF com = NoTrans THEN 0 ELSE com.credits)

\* get_transaction.
NewTransaction ==
    [tid |-> seq, locked |-> FALSE, credits |-> 0, revoke |-> {}, sync |-> {}, undo |-> FALSE]

\* journal_start, start_this_handle: a transaction is made if there is none, and
\* only then is the log's space looked at.  The handle waits while the
\* transaction is locked or full; it joins it, or goes to __log_wait_for_space.
\* A task comes back from there when there is space, and may find that it has
\* to wait for, or to make, another transaction.
journal_start(h) ==
    LET t     == IF run = NoTrans THEN NewTransaction ELSE run
        room  == ~t.locked /\ t.credits + Credits <= MaxTransBuffers
        spare == SpaceLeft >= SpaceNeeded
    IN  /\ Up /\ handle[h] = None
        /\ h \in waiting => spare
        /\ \/ /\ room
              /\ run = NoTrans => seq + boots <= MaxTid
              /\ run' = IF spare THEN [t EXCEPT !.credits = @ + Credits] ELSE t
              /\ seq' = IF run = NoTrans THEN seq + 1 ELSE seq
              /\ handle' = [handle EXCEPT ![h] = IF spare THEN Credits ELSE None]
              /\ waiting' = IF spare THEN waiting \ {h} ELSE waiting \cup {h}
           \/ /\ h \in waiting /\ (run = NoTrans \/ ~room)
              /\ waiting' = waiting \ {h}
              /\ UNCHANGED <<run, seq, handle>>
        /\ UNCHANGED <<buf, kind, pinned, fresh, com, spoiled>> /\ MemOnly

\* do_get_write_access: the journal head once transaction t may modify it.
Access(b, t) ==
    LET r == buf[b] IN
    IF r.trans = t \/ r.next = t THEN r
    ELSE IF r.frozen # None THEN [r EXCEPT !.next = t]
    ELSE IF r.trans # 0
         THEN [r EXCEPT !.next = t, !.frozen = IF r.list # "Forget" THEN r.val ELSE None]
    ELSE File(r, t, "Reserved")

\* The committing transaction writes the buffer itself to the log: wait.
Shadowed(b, t) ==
    /\ buf[b].list = "Shadow" /\ buf[b].frozen = None
    /\ t \notin {buf[b].trans, buf[b].next}

\* A block that holds metadata other handles can find: not one just created.
Linked(b) == kind[b] = "meta" /\ \A h \in Handle : fresh[h] # b

\* Open, and not between journal_get_create_access and the filling of the block.
Ready(h) == Open(h) /\ fresh[h] = None

\* journal_get_write_access, with journal_cancel_revoke.
get_write_access(h, b) ==
    /\ Ready(h) /\ Linked(b) /\ ~Shadowed(b, run.tid)
    /\ run.tid \notin {buf[b].trans, buf[b].next} /\ handle[h] > 0
    /\ SetBuf(b, Access(b, run.tid))
    /\ handle' = [handle EXCEPT ![h] = @ - 1]
    /\ run' = [run EXCEPT !.revoke = @ \ {b}]
    /\ UNCHANGED <<kind, pinned, fresh, waiting, com, seq, spoiled>> /\ MemOnly

\* journal_dirty_metadata of journal head r for transaction t, with content v.
Dirty(r, t, v) ==
    IF r.trans = t /\ r.list # "Metadata"
    THEN [File(r, t, "Metadata") EXCEPT !.val = v, !.jbd = TRUE]
    ELSE [r EXCEPT !.val = v, !.jbd = TRUE]

\* The file system modifies a block it has access to, or fills the one it has
\* created, and calls journal_dirty_metadata.
dirty_metadata(h, b, v) ==
    /\ Open(h)
    /\ \/ fresh[h] = b
       \/ /\ fresh[h] = None /\ Linked(b) /\ v # buf[b].val
          /\ run.tid \in {buf[b].trans, buf[b].next}
    /\ SetBuf(b, Dirty(buf[b], run.tid, v))
    /\ fresh' = [fresh EXCEPT ![h] = None]
    /\ UNCHANGED <<kind, pinned, handle, waiting, run, com, seq, spoiled>> /\ MemOnly

\* ext3_test_allocatable: the block is free in the bitmap, and in the copy of it
\* that journal_get_undo_access has kept.
Allocatable(b) == kind[b] = Free /\ b \notin pinned

\* A free block becomes metadata: its bit is set, journal_get_create_access, with
\* journal_cancel_revoke.  The buffer may still be on the forget list of the
\* committing transaction.
get_create_access(h, b) ==
    /\ Ready(h) /\ Allocatable(b) /\ handle[h] > 0
    /\ SetBuf(b, IF buf[b].trans = 0 THEN File(buf[b], run.tid, "Reserved")
                 ELSE IF buf[b].trans = com.tid THEN [buf[b] EXCEPT !.next = run.tid]
                 ELSE buf[b])
    /\ kind' = [kind EXCEPT ![b] = "meta"]
    /\ handle' = [handle EXCEPT ![h] = @ - 1] /\ fresh' = [fresh EXCEPT ![h] = b]
    /\ run' = [run EXCEPT !.revoke = @ \ {b}, !.undo = TRUE]
    /\ UNCHANGED <<pinned, waiting, com, seq, spoiled>> /\ MemOnly

\* journal_forget.  A checkpoint of the buffer is satisfied by the commit of
\* this transaction, so the buffer stays on its forget list until then.
Forget(r, t) ==
    IF r.trans = t
    THEN LET u == [Unfile(r) EXCEPT !.dirty = FALSE]
         IN  IF r.cp.tid # 0 THEN File(u, t, "Forget") ELSE u
    ELSE [r EXCEPT !.next = 0]

\* A metadata block is freed: journal_revoke, with journal_forget, and
\* ext3_free_blocks, which sets the block's bit in b_committed_data.
journal_revoke(h, b) ==
    /\ Ready(h) /\ b \in Freeable /\ Linked(b)
    /\ SetBuf(b, Forget(buf[b], run.tid))
    /\ kind' = [kind EXCEPT ![b] = Free] /\ pinned' = pinned \cup {b}
    /\ run' = [run EXCEPT !.revoke = @ \cup {b}, !.undo = TRUE]
    /\ spoiled' = IF buf[b].next # 0 THEN spoiled \cup {"forget"} ELSE spoiled
    /\ UNCHANGED <<tasks, com, seq>> /\ MemOnly

\* A free block becomes data: unmap_underlying_metadata, and journal_dirty_data
\* of the page's own buffer, which is not on a transaction.
alloc_data(h, b) ==
    /\ Ready(h) /\ Allocatable(b)
    /\ SetBuf(b, [buf[b] EXCEPT !.dirty = FALSE])
    /\ kind' = [kind EXCEPT ![b] = Data]
    /\ run' = [run EXCEPT !.sync = @ \cup {b}, !.undo = TRUE]
    /\ UNCHANGED <<pinned, tasks, com, seq, spoiled>> /\ MemOnly

\* Data is written again: journal_dirty_data of a buffer that the running
\* transaction has, that is on no transaction, or that is taken from the
\* committing one once it is written.
dirty_data(h, b) ==
    LET taken == com # NoTrans /\ b \in com.sync IN
    /\ Ready(h) /\ kind[b] = Data /\ b \notin run.sync
    /\ home' = IF taken THEN [home EXCEPT ![b] = Data] ELSE home
    /\ com' = IF taken THEN [com EXCEPT !.sync = @ \ {b}] ELSE com
    /\ run' = [run EXCEPT !.sync = @ \cup {b}]
    /\ UNCHANGED <<log, io, sb, buf, kind, pinned, tasks, space, seq, flushed, ck, mode, boots,
                   durable, spoiled>>

\* journal_stop: the credits left are given back.
journal_stop(h) ==
    /\ Ready(h)
    /\ handle' = [handle EXCEPT ![h] = None]
    /\ run' = [run EXCEPT !.credits = @ - handle[h]]
    /\ UNCHANGED <<buf, kind, pinned, fresh, waiting, com, seq, spoiled>> /\ MemOnly

-----------------------------------------------------------------------------
(* The commit thread: journal_commit_transaction *)

In(phase) == Up /\ com # NoTrans /\ com.phase = phase
Kept == UNCHANGED <<kind, pinned, tasks, seq, ck, mode, boots, spoiled>>

\* journal_update_superblock, on the values in memory.
SbNow ==
    IF sb.start = 0 /\ tailseq = seq THEN sb ELSE [start |-> tail, seq |-> tailseq]

\* The log is marked as in use again if it was flushed; T_LOCKED.
CommitLock ==
    /\ Up /\ run # NoTrans /\ ~run.locked /\ com = NoTrans
    /\ sb' = IF flushed THEN SbNow ELSE sb
    /\ flushed' = (sb'.start = 0)
    /\ run' = [run EXCEPT !.locked = TRUE]
    /\ UNCHANGED <<log, io, home, space, com, buf, durable>> /\ Kept

\* t_updates is 0: reserved buffers are put back, the revoke table is switched
\* and the transaction becomes the committing one (T_FLUSH).
CommitSwitch ==
    /\ Up /\ run # NoTrans /\ run.locked
    /\ \A h \in Handle : handle[h] = None
    /\ buf' = [b \in Block |->
          IF buf[b].trans = run.tid /\ buf[b].list = "Reserved" THEN Refile(buf[b]) ELSE buf[b]]
    /\ com' = [tid |-> run.tid, phase |-> "data", start |-> head, credits |-> run.credits,
               revoke |-> run.revoke, sync |-> run.sync, undo |-> run.undo, fs |-> Current,
               desc |-> 0, tags |-> <<>>, copying |-> None, page |-> None]
    /\ run' = NoTrans
    /\ UNCHANGED <<disk, space, flushed, durable>> /\ Kept

\* Ordered data is written home and waited for.
CommitData ==
    /\ In("data")
    /\ home' = [b \in Block |-> IF b \in com.sync THEN Data ELSE home[b]]
    /\ com' = [com EXCEPT !.sync = {}, !.phase = "headers"]
    /\ UNCHANGED <<log, io, sb, space, run, buf, flushed, durable>> /\ Kept

\* journal_write_revoke_records, and a block of the log for the descriptor if
\* there is metadata to write.
CommitHeaders ==
    LET meta == Owned(com.tid, "Metadata") # {}
        desc == IF com.revoke = {} THEN head ELSE Adv(head)
        used == (IF com.revoke = {} THEN 0 ELSE 1) + (IF meta THEN 1 ELSE 0)
    IN  /\ In("headers")
        /\ io' = IF com.revoke = {} THEN io
                 ELSE [p \in {head} |-> [type |-> "revoke", tid |-> com.tid, blocks |-> com.revoke]]
        /\ head' = IF meta THEN Adv(desc) ELSE desc
        /\ free' = free - used
        /\ com' = [com EXCEPT !.revoke = {}, !.desc = IF meta THEN desc ELSE 0,
                              !.phase = IF meta THEN "meta" ELSE "wait"]
        /\ UNCHANGED <<log, sb, home, tail, tailseq, run, buf, flushed, durable>> /\ Kept

\* journal_write_metadata_buffer up to jbd_unlock_bh_state: it is settled which
\* memory is written (page; None for the buffer itself); a content that starts
\* with the magic number is copied and its first word zeroed.  The buffer is
\* still on the metadata list.
CommitCopy(b) ==
    LET r == buf[b]
        v == IF r.frozen # None THEN r.frozen ELSE r.val
        f == IF v = MagicValue THEN ZeroedValue ELSE r.frozen
    IN  /\ In("meta") /\ com.copying = None
        /\ b \in Owned(com.tid, "Metadata")
        /\ SetBuf(b, [r EXCEPT !.frozen = f])
        /\ com' = [com EXCEPT !.copying = b, !.page = f]
        /\ UNCHANGED <<disk, space, run, flushed, durable>> /\ Kept

\* ... and the rest: the buffer is shadowed and its write queued; with the last
\* one the descriptor is complete and all of it is submitted.  A buffer that was
\* to be written itself and has a frozen copy by now may have been modified.
CommitShadow ==
    LET b == com.copying
        v == IF com.page = None THEN buf[b].val ELSE com.page
        tags == Append(com.tags, b)
        last == Owned(com.tid, "Metadata") = {b}
        desc == [type |-> "desc", tid |-> com.tid, tags |-> tags]
    IN  /\ In("meta") /\ b # None
        /\ io' = [p \in DOMAIN io \cup {head} \cup (IF last THEN {com.desc} ELSE {}) |->
                    IF p = head THEN [type |-> "data", val |-> v]
                    ELSE IF p = com.desc THEN desc ELSE io[p]]
        /\ head' = Adv(head) /\ free' = free - 1
        /\ SetBuf(b, File(buf[b], com.tid, "Shadow"))
        /\ com' = [com EXCEPT !.copying = None, !.page = None, !.tags = tags,
                              !.credits = @ - 1, !.phase = IF last THEN "wait" ELSE @]
        /\ spoiled' = IF com.page = None /\ buf[b].frozen # None
                      THEN spoiled \cup {"shadow"} ELSE spoiled
        /\ UNCHANGED <<log, sb, home, tail, tailseq, run, flushed, durable, kind, pinned, tasks,
                       seq, ck, mode, boots>>

\* The write of the shadowed buffer that was queued last is over: the lists are
\* emptied from their end.
CommitUnshadow ==
    /\ In("wait") /\ com.tags # <<>>
    /\ LET b == Last(com.tags) IN SetBuf(b, File(buf[b], com.tid, "Forget"))
    /\ com' = [com EXCEPT !.tags = Front(@)]
    /\ UNCHANGED <<disk, space, run, flushed, durable>> /\ Kept

\* The control blocks are on the disk too; the commit record is submitted.
CommitRecord ==
    /\ In("wait") /\ com.tags = <<>>
    /\ log' = Landed(DOMAIN io)
    /\ io' = [p \in {head} |-> [type |-> "commit", tid |-> com.tid]]
    /\ head' = Adv(head) /\ free' = free - 1
    /\ com' = [com EXCEPT !.phase = "record"]
    /\ UNCHANGED <<sb, home, tail, tailseq, run, buf, flushed, durable>> /\ Kept

\* The commit record is on the disk.
CommitDone ==
    /\ In("record")
    /\ log' = Landed(DOMAIN io) /\ io' = <<>>
    /\ durable' = com.fs
    /\ com' = [com EXCEPT !.phase = "forget"]
    /\ UNCHANGED <<sb, home, space, run, buf, flushed>> /\ Kept

\* The buffers whose freeing is in this transaction were filed on the forget
\* list before those that were written to the log, so they are over first.
FreedFirst == \A b \in Owned(com.tid, "Forget") : com.fs[b] # Free

\* The bitmap's buffer is reached on the forget list: b_committed_data becomes
\* the bitmap of this transaction if the running one has modified it since.
CommitBitmap ==
    /\ In("forget") /\ com.undo /\ FreedFirst
    /\ pinned' = {b \in Block : kind[b] = Free /\ com.fs[b] # Free}
    /\ com' = [com EXCEPT !.undo = FALSE]
    /\ UNCHANGED <<disk, space, run, buf, flushed, durable, kind, tasks, seq, ck, mode, boots,
                   spoiled>>

\* Fault variant: the frozen copy outlives its transaction.
CommitForget_KeepsFrozen(b) ==
    LET r == [buf[b] EXCEPT !.cp = NoCp] IN
    /\ In("forget") /\ b \in Owned(com.tid, "Forget") /\ (com.fs[b] = Free \/ FreedFirst)
    /\ r.jbd \/ r.next = 0
    /\ SetBuf(b, IF r.jbd THEN Refile([r EXCEPT !.cp = [tid |-> com.tid, start |-> com.start]])
                 ELSE Unfile(r))
    /\ UNCHANGED <<disk, space, run, com, flushed, durable>> /\ Kept

\* The forget list: the checkpoint of an older transaction is satisfied; a
\* dirty buffer is checkpointed for this one and passed on.  One that is not
\* must have nobody to be passed to: the thread stops at a J_ASSERT if it has.
CommitForget(b) ==
    LET r == [buf[b] EXCEPT !.frozen = None, !.cp = NoCp] IN
    /\ In("forget") /\ b \in Owned(com.tid, "Forget") /\ (com.fs[b] = Free \/ FreedFirst)
    /\ r.jbd \/ r.next = 0
    /\ SetBuf(b, IF r.jbd THEN Refile([r EXCEPT !.cp = [tid |-> com.tid, start |-> com.start]])
                 ELSE Unfile(r))
    /\ UNCHANGED <<disk, space, run, com, flushed, durable>> /\ Kept

\* T_FINISHED.
CommitFinish ==
    /\ In("forget") /\ Owned(com.tid, "Forget") = {} /\ ~com.undo
    /\ com' = NoTrans
    /\ UNCHANGED <<disk, space, run, buf, flushed, durable>> /\ Kept

CommitNext ==
    \/ CommitLock \/ CommitSwitch \/ CommitData \/ CommitHeaders
    \/ CommitShadow \/ CommitUnshadow \/ CommitRecord \/ CommitDone
    \/ CommitBitmap \/ CommitFinish
    \/ \E b \in Block : CommitCopy(b) \/ CommitForget(b)

-----------------------------------------------------------------------------
(* Write-back and checkpoints *)

\* The VM or __flush_buffer writes a dirty buffer home.
WriteBack(b) ==
    /\ Up /\ buf[b].dirty
    /\ home' = [home EXCEPT ![b] = buf[b].val]
    /\ SetBuf(b, [buf[b] EXCEPT !.dirty = FALSE])
    /\ UNCHANGED <<log, io, sb, space, run, com, flushed, durable>> /\ Kept

\* The VM writes a page of ordered data.
WriteData(b) ==
    /\ Up /\ run # NoTrans /\ b \in run.sync
    /\ home' = [home EXCEPT ![b] = Data]
    /\ run' = [run EXCEPT !.sync = @ \ {b}]
    /\ UNCHANGED <<log, io, sb, space, com, buf, flushed, durable>> /\ Kept

\* __try_to_free_cp_buf, __cleanup_transaction, __journal_try_to_free_buffer: a
\* buffer that was written back leaves its checkpoint list.
RemoveCheckpoint(b) ==
    /\ Up /\ buf[b].cp.tid # 0 /\ buf[b].list = "None" /\ ~buf[b].dirty
    /\ SetBuf(b, [buf[b] EXCEPT !.cp = NoCp])
    /\ UNCHANGED <<disk, space, run, com, flushed, durable>> /\ Kept

\* j_checkpoint_transactions.
CheckpointList ==
    {buf[b].cp : b \in Block} \ {c \in {buf[b].cp : b \in Block} :
                                    c.tid = 0 \/ (com # NoTrans /\ c.tid = com.tid)}

\* Fault variant: a transaction that is being committed does not hold the tail.
Oldest_NoCommitting ==
    IF CheckpointList # {}
    THEN CHOOSE c \in CheckpointList : \A d \in CheckpointList : c.tid <= d.tid
    ELSE [tid |-> IF run # NoTrans THEN run.tid ELSE seq, start |-> head]

\* The oldest transaction that is in the log, or the next one.
Oldest ==
    IF CheckpointList # {}
    THEN CHOOSE c \in CheckpointList : \A d \in CheckpointList : c.tid <= d.tid
    ELSE IF com # NoTrans THEN [tid |-> com.tid, start |-> com.start]
    ELSE [tid |-> IF run # NoTrans THEN run.tid ELSE seq, start |-> head]

\* cleanup_journal_tail up to the unlock of j_state_lock.
CleanupTail ==
    /\ Up /\ ck = "idle"
    /\ LET o == Oldest
       IN  /\ tailseq # o.tid
           /\ tail' = o.start /\ tailseq' = o.tid
           /\ free' = free + (o.start - tail) + (IF o.start < tail THEN LogSize ELSE 0)
    /\ ck' = "sb"
    /\ UNCHANGED <<disk, head, run, com, buf, kind, pinned, tasks, seq, flushed, mode, boots,
                   durable, spoiled>>

\* ... and journal_update_superblock.
UpdateSuperblock ==
    /\ Up /\ ck = "sb"
    /\ sb' = SbNow
    /\ flushed' = (sb'.start = 0)
    /\ ck' = "idle"
    /\ UNCHANGED <<log, io, home, space, run, com, buf, kind, pinned, tasks, seq, mode, boots,
                   durable, spoiled>>

\* The end of journal_flush, with everything committed and checkpointed and
\* updates locked out.
journal_flush ==
    /\ Up /\ ck = "idle" /\ run = NoTrans /\ com = NoTrans
    /\ \A b \in Block : buf[b].cp.tid = 0
    /\ tailseq = seq /\ sb.start # 0
    /\ sb' = [start |-> 0, seq |-> tailseq]
    /\ flushed' = TRUE
    /\ UNCHANGED <<log, io, home, space, run, com, buf, durable>> /\ Kept

CheckpointNext ==
    \/ CleanupTail \/ UpdateSuperblock \/ journal_flush
    \/ \E b \in Block : WriteBack(b) \/ WriteData(b) \/ RemoveCheckpoint(b)

-----------------------------------------------------------------------------
(* Crash and recovery *)

\* The log in use has come round to the part that starts at the old tail, which
\* the superblock on the disk still names.
Overlap == sb.start \notin {0, tail} /\ LogSize - free > (sb.start - tail) % LogSize

\* Memory is lost; any part of the submitted log writes has reached the disk.
\* If the commit record has, the transaction is committed.
Crash(S) ==
    /\ mode # "down"
    /\ log' = Landed(S) /\ io' = <<>>
    /\ durable' = IF \E p \in S : io[p].type = "commit" THEN com.fs ELSE durable
    /\ buf' = [b \in Block |-> Clean(None)]
    /\ kind' = [b \in Block |-> Free] /\ pinned' = {}
    /\ handle' = [h \in Handle |-> None] /\ fresh' = [h \in Handle |-> None] /\ waiting' = {}
    /\ run' = NoTrans /\ com' = NoTrans
    /\ head' = 1 /\ tail' = 1 /\ free' = LogSize /\ tailseq' = 0 /\ seq' = 0
    /\ flushed' = FALSE /\ ck' = "idle" /\ mode' = "down"
    /\ spoiled' = IF Up /\ Overlap THEN spoiled \cup {"tail"} ELSE spoiled
    /\ UNCHANGED <<sb, home, boots>>

Restarting ==
    UNCHANGED <<log, io, sb, buf, kind, pinned, tasks, run, com, space, flushed, ck, durable,
                spoiled>>

\* Another crash during recovery: some replayed blocks were written, each at
\* some stage of the replay.
RecoverCrash ==
    /\ mode = "down"
    /\ LET now == Stages
           s   == [b \in Block |-> Range(now[b])]
       IN  home' \in {h \in [Block -> UNION Range(s)] : \A b \in Block : h[b] \in s[b]}
    /\ UNCHANGED <<seq, mode, boots>> /\ Restarting

\* journal_recover: replay, sync_blockdev, the next transaction id.
journal_recover ==
    /\ mode = "down" /\ boots < MaxBoot
    /\ home' = Replayed
    /\ seq' = IF sb.start = 0 THEN sb.seq + 1 ELSE Scan(log, sb).tid + 1
    /\ mode' = "replayed" /\ boots' = boots + 1
    /\ Restarting

\* journal_reset; the file system is read from the disk.
journal_reset ==
    /\ mode = "replayed"
    /\ head' = 1 /\ tail' = 1 /\ free' = LogSize /\ tailseq' = seq
    /\ sb' = IF sb.start = 0 THEN sb ELSE [start |-> 1, seq |-> seq]
    /\ flushed' = (sb'.start = 0)
    /\ buf' = [b \in Block |-> Clean(home[b])]
    /\ kind' = [b \in Block |-> IF durable[b] \in {Data, Free} THEN durable[b] ELSE "meta"]
    /\ mode' = "up"
    /\ UNCHANGED <<log, io, home, pinned, tasks, run, com, seq, ck, boots, durable, spoiled>>

HandleNext ==
    \E h \in Handle :
        \/ journal_start(h) \/ journal_stop(h)
        \/ \E b \in Block :
              \/ get_write_access(h, b) \/ get_create_access(h, b) \/ journal_revoke(h, b)
              \/ alloc_data(h, b) \/ dirty_data(h, b)
              \/ \E v \in Value : dirty_metadata(h, b, v)

Next ==
    \/ HandleNext \/ CommitNext \/ CheckpointNext
    \/ \E S \in SUBSET DOMAIN io : Crash(S)
    \/ RecoverCrash \/ journal_recover \/ journal_reset

Spec == Init /\ [][Next]_vars

-----------------------------------------------------------------------------
(* Properties *)

Contents == Value \cup {ZeroedValue, Data, None}
Tids == 0..MaxTid + 1 + MaxBoot
JournalHeads ==
    [val : Contents, trans : Tids, next : Tids, frozen : Contents,
     list : {"None", "Reserved", "Metadata", "Shadow", "Forget"},
     cp : [tid : Tids, start : 0..LogSize], dirty : BOOLEAN, jbd : BOOLEAN]

TypeOK ==
    /\ home \in [Block -> Contents] /\ buf \in [Block -> JournalHeads]
    /\ kind \in [Block -> {"meta", Data, Free}]
    /\ durable \in [Block -> Value \cup {ZeroedValue, Data, Free}]
    /\ pinned \subseteq Block /\ waiting \subseteq Handle
    /\ fresh \in [Handle -> Block \cup {None}]
    /\ spoiled \subseteq {"shadow", "tail", "forget"}
    /\ DOMAIN log = 1..LogSize /\ DOMAIN io \subseteq 1..LogSize
    /\ sb \in [start : 0..LogSize, seq : Tids]
    /\ head \in 1..LogSize /\ tail \in 1..LogSize
    /\ mode \in {"up", "down", "replayed"} /\ ck \in {"idle", "sb"}
    /\ \A b \in Block : ~(buf[b].dirty /\ buf[b].jbd)

\* Block content v is what recovery leaves where the file system had w: an
\* escaped content keeps its first word zeroed.
Restored(v, w) == v = w \/ (w = MagicValue /\ v = ZeroedValue)

\* The file system on the disk is fs: metadata blocks have its contents, data
\* blocks the data that was written in place.
Holds(fs, h) == \A b \in Block : fs[b] # Free => Restored(h[b], fs[b])

\* At whatever point the machine stops, with whatever part of the submitted
\* writes on the disk, and however often recovery is itself interrupted,
\* replaying the log gives the file system as the last committed transaction
\* left it, no handle half done, no freed block's old contents over the data
\* written since: in every behaviour that has not been through one of the three
\* windows, and but for the first word of an escaped content.
Recoverable ==
    spoiled = {} =>
        /\ mode = "down" => Holds(durable, Replayed)
        /\ mode = "replayed" => Holds(durable, home)

\* What the journal is for, with no exception: recovery restores what was
\* committed, "The missing word can then be restored when the block is read
\* during recovery" (journal.c:258).
AlwaysRecoverable ==
    mode = "replayed" => \A b \in Block : durable[b] # Free => home[b] = durable[b]

\* journal_next_log_block's J_ASSERT(journal->j_free > 1): the commit thread
\* never finds the log full, although transactions are made for handles that then
\* have to wait and their empty commits take blocks too: the reserve must cover
\* the tasks that can be waiting.  (It leaves one block free.)
LogSpace == Up => free >= 1

\* What the J_ASSERTs of the journal rely on: a buffer belongs to the running
\* or the committing transaction; it waits for a second one only while the
\* committing one owns it; the VM sees it dirty only when no transaction owns
\* it; a frozen copy exists only for the committing transaction; the buffer of a
\* block that may be allocated is the running transaction's, nobody's, or on the
\* forget list of the committing one and not passed on.
Ownership ==
    Up => \A b \in Block :
        LET r == buf[b]
            rt == run.tid
            ct == com.tid
        IN  /\ r.trans \in {0, rt, ct} /\ (r.trans = 0 <=> r.list = "None")
            /\ r.next # 0 => r.next = rt /\ r.trans = ct /\ ct # 0
            /\ r.dirty => r.trans = 0
            /\ r.frozen # None => r.trans = ct /\ ct # 0
            /\ r.list = "Metadata" /\ r.trans = ct => r.jbd
            /\ Allocatable(b) => r.next = 0 /\ (r.trans # 0 /\ r.trans = ct => r.list = "Forget")

\* J_ASSERT_JH(jh, jh->b_next_transaction == NULL) of the commit thread: a buffer
\* on its forget list that is not dirty has not been taken by the running
\* transaction.
ForgetAssert ==
    In("forget") => \A b \in Owned(com.tid, "Forget") : buf[b].jbd \/ buf[b].next = 0
==============================================================================
