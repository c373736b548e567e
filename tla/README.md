# The ZFS transaction engine and its locks

This directory specifies, model-checks and in part proves the concurrent core of
ZFS as it stands in `src/usr/src/uts/common/fs/zfs` of this repository, with the
kernel locks of `src/usr/src/uts/common/os` that the file system layer relies on.
The modules are TLA+; TLC checks small instances and TLAPS proves theorems for
every value of the constants.

## 1. Inventory

The repository is a whole operating system. What it promises to a user of ZFS -
that what was written together reaches the disk together, in order, and that
threads neither corrupt each other's view of a file nor wait for ever - rests on
a few small and densely concurrent files. Those are the subject.

| Component | State | Operations | What makes it correct |
|---|---|---|---|
| transaction groups, `txg.c` | four group numbers, two "waiting" marks, per CPU: a lock, four counts, four callback lists | enter, release to quiesce, register callback, leave, delay, wait for open or synced, quiesce, sync, start, stop | groups are consecutive and written in order; nobody is in a group that is being written; every wait ends |
| per-txg lists, second half of `txg.c` | a head per slot; a link and a flag per object and slot | add, remove, remove this, walk | the flag says exactly what a walk meets |
| re-entrant reader/writer lock, `rrwlock.c` | writer, two reader counts, wanted flag, nodes in thread-specific data | enter and exit, for reading and writing | exclusion; a nested read never sleeps; writers are not starved |
| byte range locks, `zfs_rlock.c` | a tree of ranges, some of them shared proxies; size and block size of the file | lock for reading, writing, appending; reduce; unlock | a lock per byte; block size settled before sharing; no sleeper on a dead node |
| interruptible lock, `os/rwstlock.c` | a signed count and two condition variables | enter, interruptible enter, try, exit by anybody | exclusion; no wakeup lost to a signal |
| sync tasks, `dsl_synctask.c`, with the tasks of `dsl_dataset.c` for snapshots and their renames | groups of tasks queued per txg; names, snapshots and history in memory and on disk | create, wait, nowait, check, sync | checked again in syncing context; all or nothing; the caller learns what happened |
| intent log, `zil.c` | records in memory, a chain of log blocks, a header in memory and on disk | append, commit, create, sync, clean, suspend and resume, destroy, claim, replay | what a commit promised outlives a crash, once and in order; no block of the log is leaked or read after it was freed |
| DMU transactions, `dmu_tx.c` | holds and reservations of a transaction | hold, assign, commit, abort | assignment retries without keeping a group open |
| write throttle, `dsl_pool.c` | reserved space per slot, write limit | reserve, sync, adjust | a transaction is delayed before it is refused |
| configuration locks, `spa_misc.c` | an array of locks with writer and count | enter, try, exit | ordered acquisition, exclusion |
| vdev queue, space maps, metaslabs, ARC, ZIO | trees, caches, pipelines | - | - |
| rwlocks, mutexes, turnstiles, semaphores, task queues | lock words, sleep queues | - | exclusion, no lost wakeup |

How they meet: a system call enters the open group (`dmu_tx_assign` calls
`txg_hold_open`), changes objects under range locks and `z_teardown_lock` (an
rrwlock), leaves a record in memory for the intent log, puts the dirty objects on
per-txg lists, registers commit callbacks and leaves (`txg_rele_to_sync`). The
quiesce thread closes the group, the sync thread takes it, `spa_sync()` drains the
per-txg lists - data sets first, then groups of sync tasks - and those who wait in
`txg_wait_synced` are woken. `fsync()` does not wait for that: `zil_commit()`
writes the records to log blocks, whose allocations are in turn transactions. Export
stops both threads; after a crash an import claims and replays the log.

Hard behaviours: locks that are taken in one function and dropped in another;
loops that visit CPUs one by one while clients come and go; lists walked without
a lock because "nobody can be there"; condition variables shared by several kinds
of sleeper; flags that stand for several waiters; wakeups given to a thread that
has just been interrupted; state read before a sleep and used after it; slots
reused modulo four; blocks that two groups and a log writer own in turn; a crash
between any two of these. `PROJECT.json` lists each of them with its line and the
properties that would notice.

## 2. Modules and the code they stand for

Every action is a stretch of code that runs under one lock, or that no other
thread can observe in part. Sleeping is a program counter value; a broadcast
changes the program counters of the sleepers; a woken thread then has a step of
its own, so everything can happen between a wakeup and the return of `cv_wait`.
Definitions carry the names of the functions, and `PROJECT.json` gives their
lines. A definition marked `Fault:` is never used by a specification; it stands
next to the one it spoils and shows what the properties are sensitive to.

### Txg, GroupCommit, MCTxg, TxgProofs

`Txg` keeps the fields of `tx_state_t` and `tx_cpu_t`. `tc_lock` is a variable,
because `txg_hold_open()` returns with it held and the lock order between clients
and `txg_quiesce()` is part of the argument; `tx_sync_lock` is not, because no
thread holds it between two actions. The client protocol is that of
`dmu_tx_assign`/`dmu_tx_commit`: hold, maybe delay, release to quiesce, maybe
register a callback, leave. `txg_quiesce()` is three actions (lock the CPUs in
turn, advance, drain the CPUs in turn) and the two service loops are one action
per branch. The timer of the sync thread may run out at any time, and so may that
of `txg_delay()`. `spa_sync()` is the interval in which `sync_pc = "syncing"`.

Simplifications. Dropping all `tc_lock`s is one step with the increment, since
nobody can see the new number before the first lock is free and each client
depends on one lock only. The unlocked reads at the start of `txg_delay()` are one step.
Locals that are dead (`quiesce_txg` after the hand-off, the handle after the
release) go back to a fixed value. A callback is the pair of thread and group.
Suspend/resume bookkeeping (`CALLB_CPR`) has no effect on the protocol.

`GroupCommit` is the promise: an open group, a last stable group, at most one
group per client, callbacks delivered in the step that makes their group stable.
`ImplementsGroupCommit` says `Txg` keeps it.

### TxgList, PerTxgStacks

`TxgList` keeps the pointers and flags; `Walk` is what `txg_list_head` and
`txg_list_next` visit. `PerTxgStacks` has a sequence per slot, and the returned
values are part of the refinement.

### RRWLock, RRWProofs

`rrn[t]` is the number of nodes of thread `t` for this lock, `reads[t]` what it
has really entered. One lock is modelled: nodes of other locks are skipped by
`rrn_find`. The fast paths of non-debug kernels (lines 160-167 and 217-224) do
what the long paths do in the same case and are not separate actions. Callers do
not upgrade or downgrade, as the assertions demand.

### RangeLock, ByteLocks, MCRangeLock, RangeLockProofs

The tree is a set of nodes. `avl_find` and `avl_nearest` are searches of that set,
meaningful because nodes are disjoint, which `TreeIsExact` checks and does not assume.
A node is named after the thread whose `rl_t` it is, a proxy after its offset; so a
sleeper whose node is replaced by a proxy sleeps on a name that is gone, and
`SleepersAreFlagged` would say so. Broadcasts after `mutex_exit` are steps of
their own. While it holds a range a writer does what `zfs_write()` does: grow the
block, reduce the range, move the end of the file in chunks; `Truncate` and `Extend`
are `zfs_trunc()` and `zfs_extend()`, which set the size under a lock of the whole file.
Putting out pages (`"putpage"`) passes a length that wraps.

`z_max_blksz` is the recordsize property. `blksz_changed_cb()` sets it at any time, without a
lock that these paths take, and turns what is no power of two into `SPA_MAXBLOCKSIZE`. So it is not a
constant here: every read finds some power of two (`MaxBlksz`), the two reads of
`zfs_extend()` perhaps different ones. A block can therefore be smaller or larger than the value of the moment.
`zfs_grow_blocksize()` has its three ways of leaving the block as it is: it is large enough
(`zfs_znode.c`:1197), the file has outgrown it (1204), or `dnode_set_blksz()` answers `ENOTSUP` (1209),
which it may do as long as there are blocks past the first on disk or in the cache; `several` remembers whether the file has
had any with this block size, and then both outcomes are possible.

Simplifications. The size is read once per round of the loop where the code reads it twice. A unit of
length is `SPA_MINBLOCKSIZE`, to which block sizes are rounded. An I/O error
of `dnode_set_blksz()`, which answers `ENOTSUP` then too, is not considered. `ByteLocks` is the promise: sets of bytes held shared or exclusively.

### RwstLock, RwstProofs

`RWST_WRITE_WANTED` is whether someone is queued on `rwst_wcv`, so sleeping,
signalled and interrupted are different states. `cv_wait_sig()` of `condvar.c` is
modelled as far as the lock depends on it: an interrupted thread leaves the queue,
may still return nonzero, and passes on a `cv_signal()` that it received. The
panic path and lockstat are left out.

### Zil, MCZil, ZilProofs, ZilChainProofs, ZilReplayProofs

`Zil` is the intent log of one file system over `GroupCommit`, whose clients here
are the threads and the log blocks: `zil_lwb_write_start()` keeps the transaction
that allocates the next block until the write of the block that points to it
is done. `zl` is `zilog_t`, `blk` joins `lwb_t` with what the disk says of a block,
`zh` and `zh_disk` are the header in memory and in the last group on disk. Records
are numbered by `itx_seq`; `home[i]` is the group that holds the effect of record
`i`, 0 after a crash that undid it. A record has a file, may be out of order
(`ooo`: a write) and synchronous (`sync`: logged for a file that is open `O_DSYNC`).

`zl_writer` makes one thread the log writer, so what it does between two points at
which others can interfere is one action: take a record, put it in a block (or find
its data gone, or wait for its group), write the last block, wait for the writes, fall
back to `txg_wait_synced()` when there was no block to be had. `zil_sync()`, the
clean task and the log writer share `zl_itx_list` and `zl_lwb_list`; `zil_sync()` is
an action between the closing and the uberblock of a group.

`Crash` loses memory and every group that is not stable. Of the log blocks in flight or
in a write cache any subset has reached the disk. `zil_claim()`, `zil_replay()`,
each replayed record and the destruction of the log are separate actions, so a second
crash can hit the import anywhere.

Simplifications. A block holds `BlkRecs` records of one size. Threads that
want the same file exclude each other, as range and vnode locks make them. Blocks are
allocated lowest free first: no property names a block. The open group runs ahead by at most two,
as `TxgProofs` shows. The commit sequence is
published with the wakeup, since both happen under `zl_lock`.

### SyncTask, MCSyncTask, SyncTaskProofs

`SyncTask` is `dsl_sync_task_group_wait()`, `_nowait()` and `_sync()` over
`GroupCommit`, with real tasks: (recursive) snapshots and snapshot renames, and the events of
the pool's history that nobody waits for. `bp`, `prev_snap_txg`, `snapnames`, `objs`
and `history` are what the tasks read and write; `mos_disk` is the same as of the
last stable group, and a crash goes back to it. A data set's `bp` is
the set of writes in it, which lets the model say of which moment a snapshot is.

`dp_config_rwlock` is held over a run of check functions and over a run
of sync functions, so either is one action. The tasks of a group are a set of data sets: the
order is that in which the search met them, and the error that the group ends with may be that
of any task that fails. A DEBUG build leaves out first checks at random; with `ZFS_DEBUG` the
model takes any subset. A reservation can fail only where space is asked for, which of these
tasks snapshots do; a check that fails for want of space or because of a long name fails like one that finds the name
taken. `dsl_pool_sync()` is: data sets, then task groups one by one,
then the uberblock.

Simplifications. A rename looks up its snapshots in one step. The open group runs ahead by at
most two here too.

## 3. Runs

| Run | Bounds | States | Shows |
|---|---|---|---|
| txg_safety | 2 clients, 2 CPUs, groups 4 to 6 | 2.5 million | pipeline, empty groups, pinned open group, lock-free dispatch, clean export |
| txg_live | 2 clients, 1 CPU, groups 4 and 5 | 28 thousand | waits return, export ends, callbacks arrive; GroupCommit is implemented |
| txg_list | 3 objects, groups 4, 5, 8 (4 and 8 share a slot) | 1135 | lists are stacks, whatever links and flags say in between |
| rrw | 3 threads, nesting 3 | 1048 | exclusion, nested reads, no lost wakeup, the writer gets in |
| range | 3 threads, file of 4 units, requests of 1, 3 or all, recordsize 1, 2 or 4, all five calls | 583 thousand | exact tree, tiling, flags, no access past the block, ByteLocks |
| range_live | 3 threads, file of 2 units, requests of 2, recordsize 1 or 2 | 83 thousand | waiters get their range |
| rwst | 4 threads | 16 thousand | exclusion, no lost wakeup with interruption, every waiter returns |
| synctask | 2 threads, 2 data sets, 2 names, 3 operations, 1 refusal, 1 crash | 2.1 million | recursive snapshots are all or none and of one moment, results are true, names and events are kept, nobody is stuck |
| zil | 2 threads, 3 blocks, a file open O_DSYNC and one that is not; 3 records and 1 crash, or 2 and 2 | 2.2 million | promises outlive crashes, each record is replayed once, what survives is closed under dependence, no leaked or dangling block |
| zil_suspend | 1 thread, 2 suspenders, 2 records, 1 crash | 144 thousand | the log is empty while suspended, destroy and create keep apart, no double free, writer, sleepers and import finish |
| zil_ioerror | 2 threads, 2 records, writes of log blocks may fail | counterexample | an error of a log write is not noticed |
| zil_order | 1 thread, 3 records, 2 files | counterexample | the log is not in the order of events |

Why the bounds suffice. `MaxTxg` of `Txg` limits what clients and the timer ask for;
export still needs two groups more, so the open group passes 8 and the slot of
group 4 is used again, and three groups are in flight at once with a client in
two of them. What no bounded run reaches, group numbers and CPUs without limit,
is proved. Two CPUs are needed for the lock and drain loops; liveness uses one,
since its questions are about condition variables. In the range locks
`UINT64_MAX` is `Limit + MaxLen`: larger than any end of a request that does not
ask for the whole file, so that wrapping requests still wrap. Three overlapping ranges are
the smallest case in which a node with two holders is split by a third. A file of 4 units with
`SPA_MAXBLOCKSIZE` 4 is the smallest in which a block of 3, no power of two, can be above one recordsize and below another.

In the intent log three blocks and one record per block make every record a block of its own, so the
chain has a tail that is not written, runs out of blocks and reuses them. Two
crashes are what it takes to interrupt a replay, for which two records do; the third one is there to
be logged without an earlier one, and needs one crash (`MaxWork` bounds records and crashes together): the
first commit waits for a group in `zil_create()`, so its record is on disk anyway. The two files of run zil have
a record that commits of the other file leave out and one that they do not; changes of the name space, which
are treated like the latter, are in run zil_ioerror, files with records of both kinds in run zil_order, and every mix is in
the theorems. Two suspenders are the case in which one
finds the other at work. In the sync tasks three operations are a write, a
snapshot and what competes with it; two data sets, of which one call takes one and the other
both, let one task of a group fail and the other not. One crash comes
between any two of these steps; more of everything is covered by the proofs.
Symmetry over threads (and names) is used in safety runs only. The runs of `Zil` and `SyncTask`
turn the deadlock check off because bounded work may come to its end.

### Fairness

Txg: every service thread and every woken client runs (weak fairness), `spa_sync()`
returns, timers run out, a client that has entered a group goes on to leave it.
Taking a `tc_lock` that is released again and again is granted at last (strong
fairness): kernel mutexes wake their waiters. Nobody has to begin
a transaction, wait or export. RRWLock: woken threads run, holders let go, and a thread
that nests its reads gets at last to drop the outermost one; without that two
nested readers need never release. RangeLock and RwstLock: woken
threads run and holders let go; their liveness is stated for the case that new
requests stop, because neither lock promises anything against an endless stream.
Zil: threads, the clean task and the import run, I/O completes, and groups are closed
and written when somebody waits for them. SyncTask has no temporal liveness: `NoCallIsStuck`
says that while a call has not returned something other than a new call or a crash is
enabled, and since each such step is progress and the retries are bounded, calls return.

### What the two counterexamples say

*zil_ioerror.* The write of a log block carries `ZIO_FLAG_DONT_PROPAGATE`
(`zil.c`:765), so its error does not reach `zl_root_zio`, whose result
`zil_commit_writer()` relies on (`zil.c`:1177, 1183). If the write fails, `zil_commit()`
returns as if the records were safe; after a crash before their group is written they are lost.

*zil_order.* A commit of one file leaves out the asynchronous writes of
others but not their synchronous ones (`zil.c`:1130), so of two writes to a
file the later can go to the log first. `zfs_vnops.c`:123-125 promises the order of
events. One file has records of both kinds as a matter of course, since `itx_sync` says how the file was open
when the record was logged (`zfs_log.c`:518-522, 551, 615, 683). A crash can then keep the synchronous write and
lose the earlier asynchronous one to the same file. `SurvivorsClosed` says what is left: every surviving record
has with it the changes of the name space and the synchronous records that came before it, and an asynchronous record has the earlier
asynchronous ones of its file. The pair that this run shows, an asynchronous record before a synchronous one, is the one that
`ReliesOn` leaves out.

Three observations without a run of their own. `zfs_write()` reads `z_max_blksz` once, when it begins, and the range
lock reads it again; if recordsize is raised in between and others have grown the block to a larger power of two, that is
no longer at most `max_blksz`, and `ASSERT(!ISP2(zp->z_blksz))` (`zfs_vnops.c`:790) would fail in a
DEBUG build if this writer over-locked for the still larger recordsize; the block size chosen is right all the
same. The other two are about priority, neither about exclusion
or wakeups. In `rrwlock.c` a writer that gets in clears `rr_writer_wanted` (line 199)
though another still sleeps, so on its exit a new reader may go ahead of the
waiting writer. In `rwstlock.c` a writer that has been signalled is no longer
on the queue that readers look at (line 65); a reader that runs first sends it back to sleep.

## 4. Proofs

`TxgProofs`, `RRWProofs`, `RwstProofs`, `RangeLockProofs`, `SyncTaskProofs`, `ZilProofs`, `ZilChainProofs`
and `ZilReplayProofs` are checked by TLAPS from the modules as they are, with the assumptions on constants named there: finite
sets of threads, distinct thread names, at least one CPU, a first group of at least `TXG_SIZE`; for sync
tasks that threads are not numbers (they share lists with events), that `NoSnap` is neither a snapshot
nor a data set, and that the bounds are natural numbers of any size; for range locks that threads are not
numbers (a proxy is named after its offset) and that `SPA_MAXBLOCKSIZE` is a power of two; for the intent log that threads are neither
`NULL` nor blocks.

*Transaction groups.* The safety properties are not inductive. `TxgInv` adds: who owns
which `tc_lock` while the quiesce thread goes through the CPUs (`LockInv`); that
CPUs which the drain loop has passed are empty of the closing group (`HolderInv`);
that a callback is in the slot of its group, which is not yet stable and not
past the open one (`CallbackInv`); that export starts and stays idle
and waits past every callback (`StopInv`); how many threads live. The proof first
classifies steps by what they do to holds and locks (`StepKinds`), so each
invariant has one case per kind rather than per action. `Pipeline` gives the
distance between the open and the syncing group, which is less than four, and
`SlotsApart` turns that into "different slots": this is why dispatch needs no
lock and why `TXG_SIZE` is enough. Proved from it: all invariants of
txg_safety, the refinement of `GroupCommit`, and what no run repeats because it is proved: types,
exact counts (`CountsAreHolders`), groups in order (`SyncedInOrder`) and callbacks
with their group (`DispatchedWhenSynced`).

*Re-entrant lock.* `RRWInv` adds that a waiting writer reads nothing
(`WriterInv`) and that the wanted flag means that some writer waits (`WantedInv`). The
counts (`CountsAreReads`) are cardinalities of the set of holds, and lemmas say what one hold more
or fewer does to it. The key step is `BlockedIsNew`: a reader that is put to sleep has no
node and no anonymous reader exists, so by the counts it reads nothing.

*Interruptible lock.* `IInv` is the type invariant, `CountIsHolders`,
`SleepersHaveAReason` and one strengthening: those who wait hold nothing
(`WaitersHoldNothing`), which a thread needs when it leaves the queue on a signal. That
an interrupted writer passes on the wakeup it was given is what keeps
`SleepersHaveAReason` in the interrupt case.

*Range locks.* The safety properties and the refinement of `ByteLocks`, for any file size, lengths and
number of threads. `TreeIsExact` speaks of bytes and is not inductive: a node that two holders share
must not be cut where the range of one of them ends (`NoStraddle`), the owner of a node that is not a
proxy must hold it (`OwnersOK`), counts must be numbers of holders (`CountsOK`), and nodes must be
disjoint, else the search of the tree means nothing. `Agree(tree, holders, ranges)` has these parts and is
stated of a tree, not of the state, because `zfs_range_add_reader()` changes the tree in several moves
(split at the start, fill the gaps, count, split at the end) and each is shown to keep it.
`SleepersAreFlagged` needs besides that `r_read_wanted` is set only on a writer's node or on one whose
`r_write_wanted` is set too, for `zfs_range_proxify()` and `zfs_range_split()` copy flags.
`NoAccessPastBlock` says why it is safe that a writer who locked the whole file in order to grow the block may
find it not grown. It is proved from `BlockInv`, which adds that a file that has or has had several blocks has
blocks of a power of two, so that `ENOTSUP` never leaves an odd block that a write then passes; that `zfs_grow_blocksize()`
otherwise gives a block that fits the write or is a power of two (`GrowFact`); and that who changes `z_blksz` or truncates is alone
in the file (`ResizeAlone`), since others rely on it. The refinement takes from the invariant in the new state that a writer's bytes
are nobody else's, so that a step need only say whose range changed.

*Intent log.* `ZilInv` is the protocol of the log writer, the sync thread, suspenders, crash and import,
for any threads, blocks, records and crashes. Its parts: `zl_writer` is the one thread inside
`zil_commit_writer()` and its block is the last of the list and not issued (`WriterInv`); `zl_suspend`
counts suspenders, of whom one is at work (`SuspendInv`); a log is destroyed by the group in
`zl_destroy_txg`, meanwhile the list is empty and the header non-empty, and then the header says
nothing of a claim or replay (`DestroyInv`); the header follows the list (`HeadInv`). These lean on
less visible facts. The transaction of a block in flight keeps its group from being
written (`ActiveInv`). Blocks in the list differ and all but the last are on their way (`TailInv`); the last is too
only after a failed allocation, and then there is a group that empties the list and for which the log
writer waits (`Empties`): without that a new log writer could find an issued block and fill it.
A freed block stays allocated until its group is on disk, and blocks in the list or
in a header are allocated (`BirthInv`), so what the pool hands out next is not already in the list.
The chain on disk is a recursive function; that a walk starts at its head is
proved from a least counterexample, since the induction theorems cannot be instantiated. From `ZilInv`
follow `CreateAfterDestroy` and `SuspendedEmpty`.

*The chain of log blocks.* `ChainInv`, proved next to `ZilInv`, says what the blocks on disk are: there is a
sequence `D` of different, allocated blocks that starts at the header on disk, each block pointing to the
next (`Linked`), and a number `k` of them that `zil_sync()` has freed in the group that is being written, so that the
header in memory starts after them (`Headed`). `Live` is why the last block ends the chain whatever
a crash lets through: it points nowhere or its write was not issued. The rest of `D` is `zl_lwb_list`, or
waits for the import, or is freed by the group that destroys the log, or is one block that was kept
(`Listed`); the first block of a new log is in no chain until its group is written (`Pending`). For `NoLeak` there is
`Written`: a block on disk is pointed to by one whose contents are on disk, since `lwb_tx` holds
the group of the one until the write of the other has ended, and no block belongs to nobody. The
sequence is existentially quantified and each action says what it becomes: longer by a block, shorter by `k` with
the uberblock, cut where the surviving writes end after a crash. That `zil_parse()` visits a prefix of `D`
(`ImageChain`) is again proved from a least counterexample. From it follow `FreedOnce` and `NoDangling`
always, and `NoLeak` for `~LogErrors`: a write whose failure goes unnoticed (section 3) cuts
the chain before blocks that are allocated, and after a crash nothing reaches them. The run that checks `NoLeak`
has no failing writes either. For what follows `IsLog` also says of the records in `D` that their
sequence numbers grow along it (`Ordered`), that those of a log in use are of this boot (`Recent`), and that
every record of this boot that is in a block is in `D` (`Reached`); `BookInv` has their types.

*Replay.* `ReplayInv` says where the effect of each record is. In general: in a group that
exists and is dirty until it is on disk (`HomeInv`), and a record is in memory, in the log writer's hand or in one block, once
(`OnceInv`). During an import (`ImportInv`): nothing is written to the log (`QuietInv`), the header
in memory is that on disk with the claim (`ClaimInv`), the marks `zl_replayed_seq` belong to groups that will
be written and grow with them (`MarkInv`), and for each record that `zil_parse()` finds (`EntryInv`) a group on disk, or
one that will be, has its effect exactly when the header or the mark that goes with that group
says so, or the group of the record was on disk before the claim. That "exactly when" is what a second
crash needs: it makes some group the state of the file system and its `zh_replay_seq` the point to go on from.
`StageInv` relates the same to the position of the replay. `ReplayOnce` follows for the one action that
replays a record; no other moves the effect of a record except a crash, which undoes it.

*Commit.* `AckedSurvive` speaks of the time after a crash and is not inductive: a promise must be kept by
the disk as it is. `Safe(i)` is: the effect of `i` is on disk, or `i` is in a block that can be
read from the header on disk. First, what is safe stays safe. A block is freed with a group that
is not before those of its records (`MaxInv`), a crash keeps the blocks that can be read, and
the import ends by destroying the log only with a group that has all of it (`ReplayInv`). Second, nothing is lost
sight of (`HeldInv`): each record of this boot is in `zl_itx_list`, moot (its file is gone), safe, or the log writer answers for it, which
means it is in hand, in a block whose writes the writer will wait for, or of a group that
it will wait for. Third, what the writer leaves in the list does not concern its commit and has a number above the
`zl_commit_seq` that it will publish (`LoopInv`). So when it is done, its own records and those of every thread that
slept behind it are safe (`PromiseInv`); the flush of the write caches and the fallback to `txg_wait_synced()` are
the two cases of that step. `PromiseInv` and `AckedSurvive` are proved for `~LogErrors`; run zil_ioerror shows
that they need it. The other parts hold with failing writes too.

*What records rely on.* `SurvivorsClosed` needs a statement about the log itself: what a logged record relies on is moot,
safe, or before it in the log (`RelyInv`). It is kept because the writer takes the first record of the list that
concerns the commit (`PastInv`), so what it relies on and is still in the list was
skipped. Only an asynchronous record of another file than the commit's is skipped (`Loose`), and what relies on that is
itself loose and of the same file, so it is skipped too. A crash keeps what can be read,
a prefix of the log, so a record that is kept brings along what it relies on, and that stays so for
later crashes (`PastCrashInv`). No assumption on log errors is needed: a failed write cuts
the log and the prefix is still a prefix. Nor is one on `Kinds`: files may mix records as they like.

*Sync tasks.* All safety properties of the run but `NoCallIsStuck`, and besides that a
task group is queued once (`QueuedOnce`) and a data set has one snapshot per group
(`OneSnapshotPerGroup`), for any number of threads, data sets, names,
operations, refusals and crashes. `Inv` has, in the order in which the parts need each other:
which groups exist and who is in them (`GroupInv`); each pending call belongs to one
thread (`CallInv`); a group of tasks is on the list of its own txg, once, until it runs
(`TasksQueued`), and so is an event (`EventInv`); when each data set
had its last snapshot (`SnapTimes`); snapshots belong to calls, and those of stable groups are
on disk (`SnapObjs`); a waiting thread has its snapshots exactly when its tasks have run
without error (`SnapThreads`); `Whole`, which is `AllOrNone`, and `Named`, which is
`SnapshotsKeepTheirNames`, both in memory and on disk, because a crash makes the disk the memory; and for
`SnapshotIsAMoment` that groups go with time, for writes (`WriteOrder`) and calls (`CallOrder`), and that
a data set and a snapshot hold exactly the writes of the groups up to theirs (`BpInv`). The four
slots of the lists are told apart by `SlotsApart`, as in `TxgProofs`.

Model-checked only: all liveness and `NoCallIsStuck` (fairness and `ENABLED` are out of the
prover's reach here), and the lists, whose walk is a recursive function over pointers.

## 5. Not modelled

`spa_sync()` and everything below it, checksums, compression, devices: the models
take from them that a sync ends and what it leaves on disk. The ARC and the ZIO pipeline are
too large to be faithful at a small size. Condition variables are taken as
atomic release-and-sleep. Drivers, network, virtual memory, libraries and commands are
outside the subject. `PROJECT.json` has the reason for each component.

Of the intent log: `zil_close()` and unmount, `zil_check_log_chain()` and log devices that
are cleared, byte order, a frozen pool, errors of the replay functions and of
reads of the log, records of objects that are gone by the time of the replay, the data blocks of
indirect writes, and a clean task that cannot be dispatched. Of the data sets: clones,
promotion, destruction, holds, quotas, space accounting. And
`spa_config_tryenter()`, which on failure exits locks that it has not entered (`spa_misc.c`:292);
no caller asks for more than one.

## 6. Plan

Done, in this order: Txg, GroupCommit, TxgList, RRWLock, RangeLock, RwstLock, Zil, SyncTask,
and the proofs of Txg, RRWLock, RwstLock, SyncTask, RangeLock and Zil. Left:

1. `DmuTx` (`dmu_tx_assign`, `dmu_tx_wait`, `dmu_tx_commit`) with the throttle of
   `dsl_pool.c`: no group is kept open by a transaction that was refused.
2. `SpaConfigLock` (`spa_config_enter`, `exit`, `tryenter` over several locks):
   exclusion, writer's preference, no deadlock under ordered acquisition.
3. `KRWLock` (`os/rwlock.c`): the lock word, direct hand-off to a writer or to a group of
   readers, try-upgrade and downgrade; `Semaphore` (`os/semaphore.c`); task queues.
4. `SpaceMap` against a set of sectors, `VdevQueue` with its pending bound.
5. Proofs: exclusion of the new locks; the lists, if the walk can be put as a least
   counterexample like the chain of log blocks.
