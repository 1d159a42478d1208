# TLA+ models of the kernel's synchronisation, deferred work and journalling

The repository is the Linux kernel 2.6.11.12 with added comments. This
directory holds TLA+ specifications of the parts on which the rest of the
kernel leans for mutual exclusion and for work done later: the counting
semaphore, the read/write semaphore, read-copy update, work queues, softirqs
with tasklets, and timers; and of the journal (jbd), on which the file systems
lean to survive a crash. All of it is C whose correctness is in the order of
steps: lock-free fast paths beside locked slow paths, flags that are tested on
one CPU and set on another, threads that go to sleep while somebody is about to
wake them, CPUs that disappear, and machines that stop between two writes to the
disk. Paths below are relative to `src/linux/`.

`PROJECT.json` lists the components, the runs, the mapping from definitions to
source lines, the hazards, the findings and the theorems.

## Inventory of the system

| part | state | operations | interacts with | what makes it correct |
|---|---|---|---|---|
| counting semaphore (`arch/i386/kernel/semaphore.c`, `include/asm-i386/semaphore.h`) | `count`, `sleepers`, the wait queue | `down`, `down_interruptible`, `down_trylock`, `up` | wait queue, signals, scheduler | no more holders than units; the count stays exact; a waiter is woken |
| read/write semaphore (`lib/rwsem.c`, `include/asm-i386/rwsem.h`) | `count` in two halves, a list of waiters on their stacks | down/up/trylock for read and write, downgrade | scheduler | readers or one writer; FIFO queue; no stranded waiter; no dead stack frame on the list |
| RCU (`kernel/rcupdate.c`) | control block (`cur`, `completed`, `next_pending`), CPU mask, per-CPU lists and flags | `call_rcu`, tick, tasklet, context switch, hotplug | tasklets, timer tick, scheduler, hotplug | no callback before the readers that precede it; every callback is invoked |
| work queues (`kernel/workqueue.c`) | pending bits, per-CPU lists, sequence counters, worker threads | queue, delayed queue, cancel, run, flush, hotplug | timers, kthreads, hotplug lock | a work is queued once; a flush waits for what it found; nothing is lost with a CPU |
| softirqs and tasklets (`kernel/softirq.c`, `include/linux/interrupt.h`) | two bits and a count per tasklet, per-CPU lists and pending masks, ksoftirqd | schedule, run, disable, enable, kill, hotplug | interrupts, bottom-half sections, ksoftirqd, hotplug | a tasklet runs on one CPU at a time; a scheduled tasklet runs, also when its CPU dies |
| CPU hotplug (`kernel/cpu.c`) | `cpu_online_map`, `cpucontrol` | `cpu_up`, `cpu_down`, notifiers | all of the above | notifiers leave nothing behind on a dead CPU |
| kernel threads (`kernel/kthread.c`) | stop request, completions | create, stop, bind | work queues | stop returns after the thread has ended |
| timers (`kernel/timer.c`) | per CPU a wheel of vectors, `timer_jiffies`, `running_timer`; `jiffies` | tick, softirq with cascade, add, mod, del, del_sync, migrate | softirqs, hotplug | a timer runs when its jiffy is over and not before; none is left on a dead CPU; `del_timer_sync` returns with the function over |
| journal (`fs/jbd/`) | the log, its superblock, the running and the committing transaction, a journal head per buffer, checkpoint lists | handles (start, write access, dirty, revoke, forget, stop), commit, write-back, checkpoint, flush, recovery | buffer cache, file system, disk | after a crash at any point, replaying the log gives the last committed file system |
| wait queues, completions (`kernel/sched.c`, `kernel/wait.c`) | lists of waiters | wait, wake | everything that sleeps | no lost wakeup |
| futexes, signals, fork/exit, IPC, scheduler | see `PROJECT.json` | | | |
| memory management, VFS, block layer, networking, drivers, security, crypto, architecture code, modules | see `PROJECT.json` | | | not modelled; reasons there |

The hard behaviours are the same throughout: *lock-free access beside locked
access* (`count` of both semaphores, the RCU control block, the tasklet bits),
*sleep against wakeup* (worker threads, ksoftirqd, flushers, waiters), *bits that
stand for ownership* (`pending`, `TASKLET_STATE_SCHED`), *wrapping counters* (batch
numbers, flush sequences), *limits that hand work over* (`maxbatch`,
`MAX_SOFTIRQ_RESTART`) and *CPUs that come and go*. The journal adds *crashes*:
what was submitted and not waited for may or may not be on the disk, the log is a
ring whose oldest part is given up for reuse, one buffer serves two
transactions, and recovery may itself be interrupted.

## Modules

| module | models |
|---|---|
| `Semaphore` | the counting semaphore |
| `SemaphoreProofs` | its type invariant, accounting, exclusion and wakeups, proved |
| `RwLock` | what a read/write lock promises (abstract) |
| `RwSem` | the xadd read/write semaphore; `ImplementsRwLock` is its refinement |
| `RwSemProofs` | its invariants and the refinement of `RwLock`, proved |
| `Rcu` | one flavour of RCU with readers, ticks, tasklets, hotplug |
| `RcuProofs` | its types, the mask of a grace period, that a dead CPU leaves no waiting callback behind, and, while no CPU comes up, grace periods and requests of batches, proved |
| `Workqueue` | one multi-threaded workqueue with its workers, flushers, timers, hotplug |
| `WorkqueueProofs` | its types, owners of the pending bit, wakeups, and that hotplug strands nothing, proved |
| `WorkqueueFlushProofs` | that `flush_workqueue` waits for what it found, proved |
| `Tasklet` | softirqs that run tasklets, ksoftirqd, control threads |
| `TaskletProofs` | its types and all four safety properties, proved |
| `Timer` | the timer wheels, the timer softirq, the calls of a task, migration |
| `TimerProofs` | that timers run on time, that none is stranded and that `del_timer_sync` quiesces, proved |
| `Jbd` | handles, commit, checkpoint, crash and recovery of the journal |
| `JbdProofs` | who owns the journal's buffers, proved |
| `MCSemaphore`, `MCRwSem`, `MCRcu`, `MCWorkqueue`, `MCTasklet`, `MCTimer`, `MCJbd` | the instances for TLC: symmetry sets and constants |

Definitions whose comment begins with "Fault variant" are altered copies of the
definition that follows them. The specifications do not use them; each records a
plausible mistake in that code that a property of the runs detects.

### Semaphore

A task moves through `idle`, `slow` (its `decl` left `count` negative), `sleep`,
`hold` and `wake` (its `incl` left `count` not positive and `__up` is next). The
fast paths (`Down`, `Up`) are one locked instruction each. A section under the
wait queue's spinlock contains exactly one access to `count`; it is one step at
that access: `DownEnter` and `DownRetry` take one turn of the loop of `__down` or
`__down_interruptible`, which ends in `Interrupted`, `Acquired` or `Blocked`;
`TrylockFailed` is `__down_trylock`. `WakeUp` is `__wake_up_common` with one
exclusive waiter: it skips waiters that already run. The store to `tsk->state`
ahead of the spinlock is merged into the section: nobody can wake the task
before it is on the queue, and a signal is seen by the test of `signal_pending`.
A signal is consumed when the call returns.

`Accounting` is the meaning of `sleepers`: it stands for at most one decrement,
whatever the number of tasks asleep. `NoLostWakeup` and `WaitersServed` are the
safety and the liveness form of "a waiter is not forgotten".

### RwSem and RwLock

Each access to `sem->count` is one step. `wait_lock` is held while some task is in
`InDoWake`, so that fast paths interleave with each access inside
`__rwsem_do_wake`: the 0 -> 1 attempt (`TryWake`), its undo (`UndoWake`), the
addition for all front readers (`ScanReaders`) and the wakeups one by one
(`GrantReader`). The list head is moved past each woken reader, where the code
does it once after the loop: nobody else looks at the list in between. Ownership
(`Readers`, `Writers`) begins with `waiter->task = NULL`, before the waiter knows.

`Accounting` says what each bias in `count` stands for at every point, also in
the middle of a wakeup. `QueueAlive` says that list entries are live stack frames.
`RwLock` is the abstract lock; with ownership mapped as above, each step of
`RwSem` is one of its steps or leaves both sets alone (`ImplementsRwLock`), which
includes that downgrading lets no writer in between.

### Rcu

`cur`, `completed`, `next_pending` and `cpumask` are the control block; it is read
outside its lock, so `__rcu_process_callbacks` is cut into `ProcessLists`,
`SetBatch`, `ReadPending`, `RequestBatch`, `CheckQuiescent`, `NoteBatch`,
`ReportQuiescent` and `DoBatch`, and `rcu_start_batch` into `TestBatch` (with
`next_pending = 0`) and `BumpBatch` (`cur++`): the order that the write barrier
enforces. Lists are sets of callbacks; the code keeps an order inside a list
that no property depends on. Each callback remembers (`pre`) the read-side
critical sections that were running when it was queued; that is the history that
`GracePeriod` speaks of. Batch numbers are compared modulo `BatchMod`, as machine
integers are; they start one below the wrap.

On a CPU the tasklet is not interleaved with the tasks of that CPU, and
`rcu_read_lock` disables preemption, so a CPU in a critical section does not go
through a context switch. `CallRcu` may come at any point of the tasklet, from an
interrupt. Going down happens through `stop_machine`: the CPU is between
tasklets and not in a critical section. The notifier of `CPU_DEAD` reports for
the CPU (`OfflineQuiet`) and moves its lists (`OfflineMove`).

### Workqueue

A section under `cwq->lock` is one step. `queue_work` is two steps: `QueueWork`
(`test_and_set_bit`) and `DoQueueWork` (`__queue_work`); in between the caller has
a *claim* on the work. An armed timer is a claim as well, and so is a
`cancel_delayed_work` between `del_timer_sync` and `clear_bit`. `PendingOwned`
says that the pending bit is set exactly if one claim, list entry or worker holds
the work. `worker_thread` is followed statement by statement (`WorkerSet`,
`WorkerTest`, `WorkerCheck`, `WorkerWakes`, `WorkerResume`); `run_workqueue` works
on a stack of frames because a work may flush its own queue, which runs the
queue by hand inside the outer call (`FlushSelf`). `test_and_set_bit` and
`add_timer` in `queue_delayed_work` are merged: nobody else looks at that timer
in between.

A flush records (`owed`) the works that are queued or running when it has taken
the hotplug lock; `FlushWaits` says that they are gone from a CPU when the flush
has gone past it. `hp` is the hotplug operation: `CpuDown`, `CpuDead`, `CpuStopped`,
`TakeOverOne`, `TakeOverDone` on the way down and `CpuUpPrepare`, `CpuUp`,
`CpuOnline` or `CpuUpCanceled` on the way up. `CpuDown` waits for callers with
preemption disabled on that CPU (they are inside `get_cpu`, or in the timer
softirq), and moves its timers to the CPU that handles the operation.

### Tasklet

Per-CPU lists and masks are touched by their own CPU with interrupts off (one
step per section); the bits and the count of a tasklet are shared and each
access is a step. Contexts of a CPU nest: an interrupt handler runs before a
softirq, a softirq before tasks, and a bottom-half section (`bh`) holds off
softirqs and other tasks. `Schedule` is the `test_and_set_bit` and `DoSchedule` the
rest of `tasklet_schedule`, from an interrupt, from a tasklet function or from a
task. `SoftAction`, `SoftNext`, `SoftRestart` and `SoftEnd` are `__do_softirq`;
`Trylock`, `TestCount`, `FuncReturn`, `PutBack` and `WalkEnd` are `tasklet_action` and
`tasklet_hi_action`, whose bodies are the same; `KSet` to `KLoop` are `ksoftirqd`.
Threads of `Ctl` disable and enable or kill.

`life` is how far `cpu_down` or `cpu_up` has got with a CPU. A CPU dies at task
level outside bottom-half sections, with whatever is on its lists; a task inside
`tasklet_schedule` goes on elsewhere (`MigrateTask`), and `TakeOver` is the
`CPU_DEAD` (and `CPU_UP_CANCELED`) part of `cpu_callback`. The ksoftirqd of a dead
CPU may run on another CPU until it is stopped, where it does nothing (`wait_to_die`);
those steps are left out. The thread that `CPU_UP_PREPARE` creates counts as runnable
from then on, since `CPU_ONLINE` or a raised softirq will wake it and a runnable
thread need not run either. `CpuOnline` may also find it asleep again, so it is
allowed whenever the thread sleeps, too often rather than too seldom.

`SchedOwned` is the counterpart of `PendingOwned`; it contains the `BUG()` of
`tasklet_action`. `NotForgotten` says that a listed tasklet has its softirq pending
or in progress, that a pending softirq has a context that will look at it
*without another interrupt*, and that a CPU that is off has no tasklets (the
`BUG_ON` of `CPU_UP_PREPARE`).

### Timer

A timer has a `base` (the CPU whose wheel it is on), `expires`, and a `slot`: the
vector and index of its bucket, or the work list of `__run_timers`. `run_timers` is
one round of the loop of `__run_timers` (`Cascaded` gives the buckets that
`cascade` empties, `internal_add_timer` where each timer goes), `RunTimer` marks a
timer of the work list as running and, in a second step, clears its base and enters
its function without the lock (`del_timer_sync` reads both without it),
`FunctionReturns` takes the lock again, `RunDone` ends the loop. A CPU at `scan`
holds its base's lock; a step that needs that lock waits (`Free`). `jiffies` and
the wheel are scaled, and, as on a 32-bit machine, the wheel covers the whole
range of the counter, so that every comparison is made across the wrap.

One task makes calls. `mod_timer` holds `timer->lock` from the read of
`timer->base` to `ModLock`, which takes the locks of both bases and starts again
if the base has changed; `add_timer_on`, `del_timer` and `del_timer_sync` are
followed in the same way, the last one statement by statement (`SyncCheck`,
`SyncSpin`, `SyncPending`). The function of a timer may re-arm it (`Rearm`) with
the lock dropped. `CpuDown`, `Migrate`, `MigrateDone`, `CpuUpPrepare` and `CpuUp`
(which may fail) are the hotplug half: `migrate_timer_list` skips nothing, it starts
again when a timer's lock is held.

`OnTime` relates the bucket of a pending timer to its expiry and to the base's
position, however the timer came there. `Quiesced` is the promise of
`del_timer_sync` for a handler that does not re-arm during the call;
`PeriodicQuiesced` is the promise of its comment for one that does.

### Jbd

A block of the file system holds metadata with a value, ordinary data, or is
free. `buf` is the buffer head with its journal head: current content, owning
transaction (`trans`), the running transaction that uses it next (`next`), its
list, the frozen copy, the checkpoint (`cp`), and the dirty bit as the VM sees it
(`dirty`) or hidden (`jbd`). A handle starts (`journal_start`: it makes a transaction,
tests credits and log space and joins, or waits in `__log_wait_for_space` and starts
again), gets write access (`get_write_access`, with `do_get_write_access`'s choice
between sharing and copying out), modifies (`dirty_metadata`), frees (`journal_revoke`,
with `journal_forget`), allocates a block for metadata (`get_create_access`, after which
it fills the block with `dirty_metadata`) or for data (`alloc_data`), writes data again
(`dirty_data`) and stops. `pinned` are the free blocks that the bitmap's
`b_committed_data` shows in use, which ext3 does not allocate (`Allocatable`); the commit
thread replaces that copy when it meets the bitmap on its forget list
(`CommitBitmap`). A buffer of the committing transaction's forget list may be allocated. The commit thread goes through the
phases of `journal_commit_transaction`: `CommitLock`, `CommitSwitch`, `CommitData`,
`CommitHeaders` (revoke records and descriptor), `CommitCopy` and `CommitShadow`
for each buffer, `CommitUnshadow`, `CommitRecord`, `CommitDone`, `CommitForget` for
each buffer with `CommitBitmap` among them, `CommitFinish`. `WriteBack`, `RemoveCheckpoint`, `CleanupTail`,
`UpdateSuperblock` and `journal_flush` are checkpointing.

`io` holds the writes to the log that were submitted and not waited for. `Crash`
keeps an arbitrary subset of them. Recovery is `Scan` (`PASS_SCAN` and
`PASS_REVOKE`) and `Replays` (`PASS_REPLAY`) on the disk alone; `RecoverCrash` stops
it at any block; after `journal_reset` the system lives again. `durable` is history:
the file system at the end of the last committed transaction; a transaction is
committed once its commit record is on the disk.

`Recoverable` compares it with what replaying would give, in every crashed
state. `LogSpace` says that the commit thread always finds a block in the log.
`Ownership` collects what the `J_ASSERT`s of jbd rely on.

In three places the code lets another task spoil what it relies on. The model has
all three; `spoiled` is history and records which of them a behaviour has been
through (see the observations below). `Recoverable` is about the behaviours that have
been through none, with any contents, and up to the first word of an escaped block.
`AlwaysRecoverable` is the same without exceptions and does not hold.

## Runs

Each passing run explores its whole state space with TLC.

| run | instance | checks |
|---|---|---|
| `semaphore` | 4 tasks, 2 units, fair | `TypeOK`, `Exclusion`, `Accounting`, `NoLostWakeup`, `WaitersServed` |
| `rwsem` | 3 tasks, fair | `TypeOK`, `QueueAlive`, `Exclusion`, `Accounting`, `ImplementsRwLock`, `OnlyUndoStrands`, `ServedUnlessStranded` |
| `rcu_offline` | 2 CPUs that go down, 2 callbacks, `maxbatch` 1 | `TypeOK`, `GracePeriod`, `BatchRequested`, `MaskIsAlive`, `WaitingNotOrphaned` |
| `rcu_live` | 2 CPUs that may come up, 1 callback, fair | `CallbacksInvoked` |
| `workqueue_hotplug` | 2 CPUs that go down and come up, 1 work that may be delayed, 1 flusher | `TypeOK`, `PendingOwned`, `FlushWaits`, `NoLostWakeup`, `NothingStranded` |
| `workqueue_self` | 1 CPU, 2 works, 1 of them flushes, 1 flusher, fair | `FlushWaits`, `QueuedRuns`, `FlushEnds` |
| `tasklet` | 2 CPUs that go down and come up, 1 tasklet, 1 control thread, fair | `TypeOK`, `Serialized`, `SchedOwned`, `Quiesced`, `NotForgotten`, `ScheduledRuns` |
| `timer` | 2 CPUs, one goes down and comes up, a timer that a task manages and one armed once, 16 jiffies | `TypeOK`, `OnTime`, `Quiesced`, `NotStranded` |
| `jbd` | 2 blocks, 1 handle, 3 transactions, a log of 10 blocks, a crash anywhere and a second life | `TypeOK`, `Recoverable`, `LogSpace`, `Ownership` |
| `timer_sync` | 2 CPUs, 1 timer | `PeriodicQuiesced`, violated |
| `jbd_recovery` | as `jbd` | `AlwaysRecoverable`, violated |
| `jbd_forget` | 2 blocks, 1 handle, 5 transactions, no crash | `ForgetAssert`, violated |

`timer_sync` shows a disagreement between the code and its comment
(`kernel/timer.c:396`): `del_timer_sync` waits until the handler is over and then
asks `timer_pending` whether it has re-armed the timer. If the softirq starts the
re-armed timer between the two, the answer is no and the call returns while the
handler runs. The comment says that it copes with handlers that re-arm the timer;
`timer` shows that it keeps its promise for those that do not during the call.

`jbd_recovery` shows a disagreement between `fs/jbd/journal.c:258`, which says that the
first word of an escaped block "can then be restored when the block is read during
recovery", and `fs/jbd/recovery.c:481`, which puts it into `bh`, the descriptor's buffer,
and not into `nbh`, which goes home: the block comes back with its first word zero.

`jbd_forget` shows that the assertion of `fs/jbd/commit.c:769` can fail. A block is
modified and committed; the next transaction frees it while that checkpoint is live, so
the buffer goes on its forget list; another one, which commits, has touched the bitmap;
a further one allocates the block and frees it again while that commit runs, and the
commit's rotation of `b_committed_data` shows the block free. Now the block is on the
forget list of a transaction that commits, not dirty and allocatable.
`journal_get_create_access` gives it to the running transaction
(`fs/jbd/transaction.c:827-830`: `b_next_transaction` is set), and the commit thread
reaches the buffer before `journal_dirty_metadata` does. In the model the commit thread
stops there; `Ownership` is about the time before.

More was observed while modelling. It bounds what the passing runs claim; each case
is reproduced by changing a `.cfg` as stated:

* `lib/rwsem.c:135`: the undo of a failed wakeup tests the whole of `count`, so it
  never sees the 1 -> 0 transition its comment asks for when somebody is queued. With
  three tasks: a reader leaves and is about to wake the writer in the queue; a second
  reader arrives on the contended path, queues behind the writer and grants it the lock;
  the first reader now makes its attempt, finds the writer active and has its undo
  ahead; the writer releases and sees an active bias, so it wakes nobody; the undo sees
  `count = -65536` and wakes nobody either. The reader sleeps until another task
  arrives (`Attended` as an invariant of `RwSem.cfg` shows the trace).
  `OnlyUndoStrands` says that this is the only such step, and `ServedUnlessStranded`
  that in behaviours without it everybody in the queue gets the lock.
* `kernel/rcupdate.c:292`: the done list of a dead CPU is not moved. It is not empty
  when more callbacks were finished than one run of the tasklet invokes (`maxbatch`);
  they stay there, and are forgotten when the CPU comes up again, because
  `rcu_init_percpu_data` clears its lists (`rcu_offline` has the case; with
  `donelist` added to `WaitingNotOrphaned` TLC shows it). `WaitingNotOrphaned` is about
  the lists that are moved, for any number of callbacks.
* `kernel/workqueue.c:319`: with CPU hotplug configured, `flush_workqueue` takes
  `cpucontrol`. A flush from outside holds it while it waits for a work; if that work
  calls `flush_workqueue` itself it waits for the lock, and neither goes on. So
  `FlushEnds` and `QueuedRuns` are checked without hotplug, where running the queue by
  hand avoids the deadlock on one CPU (two works on two CPUs that flush the queue also
  wait for each other, with or without hotplug).
* `kernel/rcupdate.c:196`: `rcu_start_batch` copies `cpu_online_map` before it
  increments `cur`. A CPU that comes online in between is not waited for, although
  a callback queued in between joins that batch. So `GracePeriod` is checked with
  CPUs that go down only (`rcu_offline` with `Hotplug = {"up"}` shows the case).
* `kernel/workqueue.c:222`: a work that flushes its own queue runs the works behind
  it, which advance `remove_sequence` past the outer work, and a flush by another
  thread may return while the outer work still runs. `FlushWaits` therefore excepts
  a work that is itself inside `flush_workqueue`.
* `kernel/workqueue.c:529`: the result of `create_workqueue_thread`, a pointer that
  is NULL on failure, is tested with `< 0`, so the failure branch of
  `CPU_UP_PREPARE` is dead. The model takes the creation to succeed.
* `kernel/softirq.c:641`: `CPU_UP_CANCELED` uses the ksoftirqd of the CPU also when
  its creation, or an earlier notifier, is what failed. Again the model takes the
  creation to succeed.
* `kernel/timer.c:392`: `mod_timer` during a run of the handler lets a second CPU run
  it as well, and the search of `del_timer_sync` ends at the first CPU found.
  `Quiesced` and `PeriodicQuiesced` therefore ask that one CPU had the timer at the
  call; the comment asks callers to prevent restarts.
* The three windows of `Jbd`. Each breaks `AlwaysRecoverable`: `Jbd_recovery.cfg` with
  `Value = {v1, v2}` and a constraint that allows one member of `spoiled` gives the trace.
  * `"shadow"` (`fs/jbd/journal.c:374`): between the unlock of the buffer and its
    filing on the shadow list (line 394) `journal_get_write_access` neither waits
    nor freezes a copy once the one in use is settled, so the running transaction
    may modify what is about to be written to the log. The comment at line 264 asks
    for a lock.
  * `"tail"` (`fs/jbd/checkpoint.c:445`): `j_free` grows before the superblock with
    the new tail is on the disk; a commit that reuses the space first leaves
    recovery, which starts from the old tail, a log whose beginning is overwritten.
    It is recorded only when a crash finds the log come round to the old tail.
  * `"forget"` (`fs/jbd/transaction.c:1276`): a block that the committing
    transaction owns and the running one has modified is freed; the buffer keeps
    the running transaction's content and is written home with it, or checkpointed
    for the committing transaction, although the free may never commit.
* `fs/jbd/transaction.c:132`: a handle makes a transaction before it looks at the log's
  space, and a transaction that is committed empty still takes a block of the log
  (`fs/jbd/commit.c:627`). While the space test fails every task can do so once before it
  waits, so the reserve of `__log_space_left` (32 blocks) covers a limited number of
  tasks. With ids and positions taken relative to the tail, so that TLC explores
  transactions without a bound on their number, and with one block and
  `MaxTransBuffers = Credits = 1`, `LogSpace` holds exactly if `Reserved` is at least 5
  more than the number of tasks (checked for 1, 2 and 3 tasks); revoke records take up
  to two more. With fewer blocks in reserve the assertion of `fs/jbd/journal.c:574`
  fails.

### Bounds

* *Semaphores.* Four tasks allow a holder, a waiter that was woken, a waiter that
  sleeps and a task on a fast path at the same time. Two units separate "one up"
  from "all units free". For the read/write semaphore three tasks allow a task in
  the middle of a wakeup, one that leaves and one in the queue (or two queued
  readers and the writer that wakes them).
* *`BatchMod` = 4.* A batch number is compared with numbers at most two away, so
  four is the smallest range in which signed comparison is defined; the counter
  starts one below the wrap.
* *`MaxBatch` = 1* puts the number of finished callbacks at and above the limit: with
  two callbacks one is left on the done list.
* *`SeqRange`* (8, 16) is the range of the flush counters. `SeqAssumption` says
  that works in flight span less than half of it. `Prompt` bounds how many works
  are queued while a flusher that has been woken for good has not looked yet: with
  the real 32 bits that is two thousand million works.
* *`MaxDepth`* bounds how deep works that flush are nested; the code itself warns
  above three.
* *`MaxRestart` = 2* allows one restart before the rest is left to ksoftirqd; the
  code's ten repeat the same step.
* A tasklet call by a task stays on its CPU; migration between
  `test_and_set_bit` and the list insertion would only change which CPU's list
  is used.
* One tasklet on `TASKLET_SOFTIRQ`: lists of several, and the order in which the bits of
  the pending mask are served, are in the model and the proofs and not exercised by the
  run.
* *RCU under hotplug.* `TypeOK`, `BatchRequested`, `MaskIsAlive` and `WaitingNotOrphaned`
  were also checked with CPUs that go down and come up (32 million states).
  `rcu_live` has CPUs that come up only: if CPUs go down and come up for ever, a callback
  that keeps being moved starts its wait again each time. `Prompt` of `Rcu` keeps a CPU
  from staying between `CPU_UP_PREPARE` and coming online for so many batches that the
  small `BatchMod` wraps all the way round, which takes 2^32 batches on the machine.
* *Timer.* `TVR_BITS = TVN_BITS = 1` and three vectors behind `tv1` give a wheel of 16
  jiffies; the delay 5 goes to an outer vector and cascades twice, the delay 0 goes to
  the bucket of the past. A wheel of 32 jiffies with `TVN_BITS = 2`, `TVN = 2` and
  delays 0 and 9 was checked once (13.6 million states). `MaxLag = 2` bounds how late
  softirqs, migration and calls are: a lag near half the counter's range is
  indistinguishable from the future, in the code as well. `MaxLate = 7` bounds how late a
  pending timer may get, which in this instance excludes nothing (the run has the same
  states without it): with more CPUs a timer could be migrated again and again, each time
  before its new CPU gets to it, until its jiffy seems to be in the future. One of the two
  CPUs goes down; with both allowed to (14.2 million states) the properties hold as well.
* *Jbd.* `MaxTid = 3` lets a block be freed, reused and freed again while older
  versions of it are in the log; `LogSize = 10` makes the third transaction wrap
  around the end of the log, and with `Reserved = 6` (the code's 32) and
  `MaxTransBuffers = 2` the space test refuses handles. One handle at a time: the
  transaction already interleaves it with commit and checkpoint; a second one would
  only share its transaction. `MaxBoot = 1` gives a second life on a used log (`MaxTid`
  bounds transactions and restarts together). The constraint `Unspoiled` of the run ends
  a behaviour at its first window, after which `Recoverable` says nothing; without it an
  instance with a log of 12 blocks was checked once (8 million states), and with it logs of
  13, 15 and 17 blocks. `jbd_forget` needs five transactions and no disk: its view leaves
  contents and the log out, and its constraint crashes.
* *What the file system owes jbd.* Bitmaps and inode tables are never freed; a block is
  filled by the handle that created it, before anybody else can find it; writes of a home
  block, of the superblock and of the commit record's block are atomic.
* Symmetry is used in runs of invariants only, over tasks, CPUs, callbacks and tasklets that
  no definition distinguishes, and over contents of blocks (not over workqueue CPUs, which are numbers because
  `for_each_online_cpu` has an order).

### Fairness

* *Semaphore*: weak fairness of the steps a task takes by itself: it does not stop
  inside the semaphore and gives back what it holds. Requests need not come.
  `WaitersServed` assumes that new requests cease, since a woken waiter competes
  with the fast path and the semaphore promises no order.
* *RwSem*: weak fairness of running steps, strong fairness of the steps that take
  `wait_lock`: a task that spins on it gets it sooner or later.
* *Rcu*: ticks recur and CPUs that are coming up arrive (weak); tasklets run to their end
  (strong); read-side critical sections are finite and a CPU that is online passes a
  quiescent state again and again (stated as `[]<>`).
* *Workqueue*: threads are scheduled, work functions return, calls in progress go
  on and armed timers expire (weak).
* *Tasklet*: interrupt handlers end (weak); softirqs, calls and tasks are held up
  by the levels above them only for a time, and a tasklet function does not
  schedule for ever (strong). No interrupt is assumed to
  come, so `ScheduledRuns` rests on `irq_exit`, `local_bh_enable` and ksoftirqd
  alone. Nothing is assumed of hotplug or of the control thread: `ScheduledRuns` excepts
  a tasklet that is disabled or being killed, and behaviours in which CPUs go down and
  come up for ever, where each time the new ksoftirqd would start afresh.
* *Timer* and *Jbd* state no fairness: their properties are invariants.

## Proofs

The theorems hold for every value of the constants; the only assumptions are the
`ASSUME`s of the component's module, which TLC evaluates in its runs.

`SemaphoreProofs`, for any finite set of tasks and any `N` in `Nat`:

* `TypeCorrect`: `Spec => []TypeOK`.
* `AccountingHolds`: `Spec => []Accounting`.
* `ExclusionHolds`: `Spec => []Exclusion`.

The inductive invariant is the conjunction of the three. `sleepers \in {0, 1}` needs
no help, but `Exclusion` is not inductive alone: a fast path admits a task when
`count` was positive, and only `Accounting` ties `count` to the number of holders.
In the contended paths a task gets in when `count + sleepers - 1` is not negative,
which `Accounting` turns into room for one more holder. The lemmas say how the
cardinalities of `Holders` and `Entering` change when one task moves.

* `NoLostWakeupHolds`: `Spec => []NoLostWakeup`.

For wakeups the invariant above is joined by `WInv`: a task that is asleep is inside
`__down` (`SleepsInDown`) and on the wait queue (`Queued`), and when one is asleep while nobody
is on the way to a contended section or to `__up`, `count` is negative (`Settled`). The last part is what makes it
inductive: with a negative `count` the next `up` takes the path that wakes. About
`sleepers` nothing of the kind can be said, because a failed `down_trylock` resets it
to 0 while others sleep. Leaving the queue wakes its next member, so a task that gets
in, or gives up on a signal, hands on a wakeup it may have swallowed.

`RwSemProofs`, for any finite set of fewer than 2^15 tasks (what the active half of
`count` can hold, as the comment in `rwsem.h` says):

* `TypeCorrect`, `AccountingHolds`, `ExclusionHolds`, `QueueAliveHolds`:
  `Spec => []TypeOK`, `[]Accounting`, `[]Exclusion`, `[]QueueAlive`.
* `Refinement`: `Spec => ImplementsRwLock`.

The four properties are inductive together with two more: the holder of `wait_lock`
is unique (`LockHeld`) and the kinds of party that `Accounting` adds up exclude each
other (`Distinct`). Every decision of the code is a test of one half of `count`; the
lemmas on the two halves turn such a test into a fact about sets of tasks (nobody
active, nobody else active, somebody queued), by way of `Accounting` and the bound on
the number of tasks. Exclusion follows from those facts, not the other way round.
The refinement maps the abstract readers and writers to `Readers` and `Writers`, in
which a woken waiter is an owner before it knows; each action is shown to be one of
the abstract acquisitions, releases or downgrades, or to leave both sets alone.

`RcuProofs`, for any sets of CPUs and callbacks and any range of batch numbers that
the module's assumptions admit:

* `TypeCorrect`, `MaskIsAliveHolds`: `Spec => []TypeOK`, `Spec => []MaskIsAlive`, with
  CPUs going down and coming up.
* `GracePeriodHolds`, `BatchRequestedHolds`: if no CPU comes up
  (`"up" \notin Hotplug`), `Spec => []GracePeriod` and `Spec => []BatchRequested`. The
  condition is the one of the run: with CPUs that come up the model violates
  `GracePeriod`, see above on `rcupdate.c:196`.
* `WaitingNotOrphanedHolds`: `Spec => []WaitingNotOrphaned`, for any number of
  callbacks, with CPUs going down and coming up.

`CInv` is about the control block: where each thread can be, one holder of the lock,
the CPU that is going down is not online and is out of the mask once it was reported,
and the mask is empty exactly between grace periods (`MaskState`). `GInv` adds what
carries the grace period. A CPU that is online has taken notice of the current batch
or is in the mask (`Noticed`). A CPU's waiting callbacks are in one of three stages:
*ahead*, when their batch is the next one and somebody is committed to starting it;
*during*, when it runs and every reader that is older than one of them owes the batch
a quiescent state that it has not recorded yet; *over*, when none of those readers is
left and their CPU moves them before it lets the next grace period end. The last
clause is needed because batch numbers wrap: without it a CPU could sleep through so
many batches that a finished one looks like a future one.

`WaitingNotOrphaned` is inductive with `CInv`: callbacks are queued on CPUs that are online
or whose tasklet runs, the CPU that is going down is the one whose lists are moved, and
it is the only CPU that is neither.

`TaskletProofs`, for any finite sets of CPUs, tasklets and control threads, any
softirq numbers and any restart limit, with CPUs going down and coming up:

* `SerializedHolds`: `Spec => []Serialized`.
* `TypeCorrect`: `Spec => []TypeOK`.
* `NotForgottenHolds`: `Spec => []NotForgotten`.
* `SchedOwnedHolds`: `Spec => []SchedOwned`.
* `QuiescedHolds`: `Spec => []Quiesced`.

*Serialized* is about CPUs inside a tasklet's function; the inductive invariant `IInv`
is about CPUs that have a tasklet *in hand*, from `tasklet_trylock` to
`tasklet_unlock`: such a CPU has a tasklet at the head of its private list
(`HasCurrent`), that tasklet's RUN bit is set (`HoldsRun`), and no other CPU has it
in hand (`OneHand`). The SCHED bit plays no part in the argument, as the comment in
`interrupt.h` says: it is clear while the function runs. A CPU that goes down does so
between softirqs, so the takeover moves lists and no tasklet in hand.

The type invariant bounds `t->count` by the number of threads, which is inductive only
as an equation: `count` is the number of threads between `tasklet_disable` and
`tasklet_enable` (`TInv`).

*NotForgotten* needs to know, for each CPU (`FInv`), that the mask and the private
list are empty outside `__do_softirq`, that a CPU that is not up runs nothing, that a
listed tasklet's softirq is in the pending or the processed mask, that somebody will
look at a pending one, and that a call of `tasklet_schedule` in progress is on a CPU
whose list will still be looked at.

*SchedOwned* counts the owners of a tasklet. The invariant `OInv` says the same
without numbers: SCHED is clear and there is no owner of any of the four kinds
(a call in progress, a place on a CPU's list, a place on a private list, a thread in
`tasklet_kill`), or it is set and exactly one kind has the tasklet, at exactly one
place. The lemmas are about the operations on lists (a push at the front, a tail,
taking a list, appending the list of a dead CPU): what they do to the one position of
one tasklet. `CountOwners` turns the result into the cardinality.

*Quiesced* combines all of them: a function can start only in the step that tests
`count`. A thread whose `tasklet_disable` has returned makes `count` positive (`TInv`);
a thread inside `tasklet_kill` owns SCHED, so no softirq has the tasklet on its list
(`OInv`); and a thread gets to either point by waiting for RUN to be clear, when no
CPU is in the function (`HoldsRun`).

`TimerProofs`, for any number of CPUs, any set of timers and any shape of the wheel:

* `NotStrandedHolds`: `Spec => []NotStranded`.
* `QuiescedHolds`: `Spec => []Quiesced`.
* `TypeCorrect`: `Spec => []TypeOK`.
* `OnTimeHolds`: `Spec => []OnTime`.

For the first two the invariant is `IInv == Placed /\ SyncInv`. `NotStranded` is not inductive alone: a timer is
put on the CPU a call has chosen or the softirq runs on, so `Placed` adds that a CPU
with a softirq in progress is online (`RunsOnline`), that the CPU a `mod_timer` has
chosen stays online until it is done (`NewOnline`: preemption is off), and that at most
one CPU is being migrated and it is not online (`OneDead`). `SyncInv` follows
`del_timer_sync` while the handler has not re-armed the timer: at most one CPU has
it; after `del_timer` it has no base, so that nobody starts it again; a CPU the search
has passed does not run it; nor does any but the one waited for; so after the wait none
does.

For the other two it is joined by `WInv`. `OnTime` says where a timer is whose jiffy is over
and is not inductive, because it says nothing of the others: `InWheel` gives the place of
every pending timer. One that is not over is in `tv1`, less than a round ahead, or in a
bucket of an outer vector `n`, and then `e % Span(n - 1) <= Sub(e, j)`: the jiffy at which
that bucket is emptied, which is `e` with its low digits cleared, is not behind the base. A
round of `__run_timers` at `j` takes one off the right-hand side; when both sides are equal,
`j` is that jiffy, `CascadeDue` shows that the bucket is among those that cascade, and
`AddTimer` that `internal_add_timer` puts the timer where the inequality is strict.
`BucketDue` shows that the bucket of `tv1` which a round empties holds exactly the timers
of that jiffy: a round of `tv1` divides the range of the counter, so this survives the wrap.
That a jiffy which is over stays over is not modular arithmetic but a matter of distances
from the present: bases and calls stay within `MaxLag` of `jiffies` (`LagInv`, `CallOK`),
pending timers within `MaxLate` behind and half the range ahead (`LateInv`). The proof uses
of powers of two only `SpanAssumption` (each vector covers a multiple, at least twice, of
the one before), and `RangeAssumption`: timeouts and lags together are shorter than half
the range, the premise of `time_after`.

`WorkqueueProofs`, for any finite sets of CPUs and works, any flushers and any range of
the sequence counters that the assumptions admit, with works that flush their own queue
and with CPUs going down and coming up:

* `TypeCorrect`: `Spec => []TypeOK`.
* `NothingStrandedHolds`: `Spec => []NothingStranded`.
* `NoLostWakeupHolds`: `Spec => []NoLostWakeup`.
* `PendingOwnedHolds`: `Spec => []PendingOwned`.

The first part of the module says once what each action does to the stacks of the
workers (a new innermost frame, a push, a wakeup of all frames that wait on a CPU); the
rest uses those lemmas only.

*NothingStranded* speaks of the time between hotplug operations; `HotInv` says, stage by
stage, what holds within one: whose worker is there, that a CPU being taken over is not
online while the CPU its works go to is, and that work is being queued for online CPUs
only.

*NoLostWakeup* needs three things. `LockInv`: every frame but the innermost is in a flush
by hand, and with CPU hotplug a flush in progress, or a hotplug operation, holds
`cpucontrol`. `FlushesWait`: a flush call that waits, of a Flusher or in any frame of a
stack, is behind the `remove_sequence` of its CPU; a function that returns makes it one
more and wakes every such call of that CPU, and `LockInv` says that no flush waits when
`CpuUpPrepare` resets the counter. `WorkersSleep`: a worker that is not runnable has not
been told to stop, from the test of the loop on, and has an empty list once it sleeps.

*PendingOwned* is a count of owners; `OwnInv` says without numbers that the bit is clear
and nobody has the work, or it is set and one kind of owner (a claim, a place on a queue,
a frame that has taken it) has it at one place. `AppendQ` and `TailQ` say what the two
queue operations do to the place of a work; `take_over_work` is one after the other, on
two different queues by `HotInv`, and `CpuUpPrepare` empties a queue that is empty by
`HotInv`. `CountOwners` turns the result into the cardinality.

`WorkqueueFlushProofs`, for the same constants:

* `FlushWaitsHolds`: `Spec => []FlushWaits`.

A flush knows the works only through two wrapping counters, so the proof counts. Four
invariants are joined to those above:

* `CountInv`: on a CPU that is online (or just prepared), `insert_sequence` is ahead of
  `remove_sequence` by the works in its queue and on its worker's stack, modulo the range
  of the counters.
* `RoomInv`: these are never as many as half that range. The queue holds each work at most
  once (`OwnInv`). The stack grows only where a work of `SelfFlush` is innermost
  (`SelfOnly`), each such work was queued under the bound `MaxDepth`, and those queued but
  not yet taken are counted in advance. `SeqAssumption` is what this needs.
* `DebtInv`: whatever is owed to a flush is on a CPU it still has to go to. `TodoInv`: those
  CPUs are online, and only a flush that holds off hotplug has any.
* `AheadInv`: while a flush waits for a CPU, what that CPU owes it lies before its
  `sequence_needed`: work `i` of the queue by at least `i` and the depth of the stack.

A flush goes past a CPU when its sequence is not ahead of `remove_sequence`; by `AheadInv`
and `RoomInv` the CPU then owes it nothing. Every step is one of five as seen from a CPU
and a set of flushers (`Counted`: nothing, a work added, taken, ended with the next one
taken, or the last one ended), and the invariants are shown to survive those five. A
function that ends with works still queued moves each of them one place forward and
`remove_sequence` by one, which keeps them before the sequence; one that ends with the
queue empty returns to a flush, and that frame is the exception `FlushWaits` makes. A
flush starts when nobody has `cpucontrol`, so no CPU that is offline has work; hotplug
runs when no flush is in progress, so nothing it moves is owed to anybody.

`JbdProofs`, for any number of blocks and handles, any size of the log, through all three windows:

* `OwnershipHolds`: `Spec => []Ownership`.

The invariant is `Shapes /\ Tids0 /\ FiledAll /\ Commits /\ FreeAll /\ Created`. `Shapes` are the records.
`Tids0`: transaction ids are fresh, the running and the committing transaction differ,
a locked transaction excludes a committing one, and an open handle has a running one.
`FiledAll` strengthens `Ownership` buffer by buffer: what is on the metadata or the shadow
list is journal-dirty, reserved buffers belong to the running transaction and shadowed
ones to the committing one. `FreeAll` is what makes reuse safe: no transaction is to have
the buffer of a free block next, and a free block whose buffer the commit has still to
write is pinned, that is, its freeing is newer than the copy of the bitmap that
`ext3_test_allocatable` looks at. `Created`: a block between its creation and its filling
is metadata, so nobody else frees or allocates it. `Commits`: the tags of the descriptor are exactly
the shadow list, each once, and the phases of a commit find the lists they expect. After a
crash the next transaction id is computed by the scan of the log; that it is a number
whatever the log holds is shown by taking the least block at which the scan would fail.

Only model-checked, and why:

* `PeriodicQuiesced` of `Timer`, `AlwaysRecoverable` and `ForgetAssert` of `Jbd` are
  violated, see above.
* `OnlyUndoStrands` of `RwSem`: also checked with four tasks (748 thousand states).
* `LogSpace` of `Jbd`: for the run's instance, and for unboundedly many transactions on a
  small one, see above on `transaction.c:132`. It is not true of every `Reserved`.
* `TypeOK` and `Recoverable` of `Jbd` speak of the result of folding a whole log, which is
  induction over data.
* All liveness properties: fairness and `ENABLED` are outside the prover's reach.

## Plan

Done: the components above, in the order of how much rests on them; then timers,
the journal, and the hotplug half of softirqs.

Next, to model:

1. the RCU tasklet of a dead CPU: `tasklet_kill_immediate` against
   `takeover_tasklets`, whose order is that of the registration of the notifiers;
2. `destroy_workqueue` and the failure path of `__create_workqueue`; the
   single-threaded variant;
3. completions and `kthread_create`/`kthread_stop`, which share one stop record;
4. `journal_unmap_buffer` and aborts in `Jbd`;
5. futexes (wait against wake and requeue), `ipc/sem.c` (queue of sleeping
   operations), `kernel/kfifo.c` (wrapping indices without a lock).

Next, to prove: `Recoverable` of `Jbd`, with the fold over the log replaced by an
invariant on each of its blocks.

## Not modelled

The reasons for whole subsystems are in `PROJECT.json`. Inside the modelled files:
the second RCU flavour (the same functions on other data; it shares the tasklet)
and `nohz_cpu_mask`, `synchronize_kernel`; `destroy_workqueue`, failures to
create a worker thread and single-threaded workqueues; softirqs other than the two that run
tasklets; `tasklet_kill_immediate`; `lib/rwsem-spinlock.c`; `next_timer_interrupt`,
`del_singleshot_timer_sync` and `schedule_timeout`, and the time keeping in
`timer.c`; in jbd aborts and I/O errors, barriers and the disk's cache,
`journal_extend` and `journal_restart`, `journal_unmap_buffer`, transactions with
several descriptors, and the creation and loading of a journal. Transaction ids of
jbd do not wrap in the model. Memory
ordering is sequential consistency: the barriers in the code are taken to do what
their comments say, and i386 needs none of them beyond the locked instructions.
