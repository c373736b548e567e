------------------------------ MODULE SyncTask ------------------------------
(***************************************************************************)
(* Sync tasks, uts/common/fs/zfs/dsl_synctask.c: how a thread changes the  *)
(* pool's configuration, which only the sync thread may write.  Above the  *)
(* transaction groups of GroupCommit, with a system that crashes.          *)
(*                                                                         *)
(* The tasks are those of recursive snapshots and of their renames         *)
(* (dsl_dataset.c), and the events of the pool's history, which nobody     *)
(* waits for.  dp_config_rwlock makes every run of check functions and     *)
(* every run of sync functions one action.                                 *)
(*                                                                         *)
(* The tasks of a group do the same to different data sets, in whatever    *)
(* order the search for the data sets met them.  mos is what they read and *)
(* write in memory, mos_disk what the last group put on disk.  A data      *)
(* set's bp is the set of writes in it.                                    *)
(***************************************************************************)
EXTENDS Integers, Sequences, FiniteSets

CONSTANTS
  Threads,
  Datasets,
  Targets,     \* the sets of data sets that snapshots are asked for
  Names,       \* of snapshots
  NoSnap,
  ZFS_DEBUG,   \* a DEBUG build leaves out some of the first checks
  MaxOps,      \* bound: snapshots, renames, writes and events, all together
  MaxRefused,  \* bound: reservations of space that fail
  MaxTxg,      \* bound: the last group that the timer alone closes
  MaxCrash     \* bound: crashes

TXG_SIZE == 4
TXG_DEFER_SIZE == 2

Snapshots == [ds : Datasets, call : Nat, txg : Nat, bp : SUBSET Nat]

ASSUME SyncTaskAssumption ==
  /\ Threads \cap Nat = {}
  /\ NoSnap \notin Snapshots \cup Datasets
  /\ Targets \subseteq SUBSET Datasets \ {{}}
  /\ ZFS_DEBUG \in BOOLEAN
  /\ {MaxOps, MaxRefused, MaxTxg, MaxCrash} \subseteq Nat

VARIABLES
  open, stable, active,   \* the transaction groups, as in GroupCommit
  dp_sync_tasks,          \* the groups of tasks of each slot, latest first
  datasets_synced,        \* how far dsl_pool_sync() is with its group
  bp, prev_snap_txg, snapnames,   \* of the data sets
  objs,                   \* the snapshots that there are
  history,                \* the events in the pool's history
  mos_disk,
  writes,                 \* [ds, txg, before]; txg is 0 when a crash undid it
  events,                 \* the nowait groups: [txg, live]
  calls,                  \* [kind, name, obj, before]; obj has the data sets
  res,                    \* what each call returned, or "none"
  pc, cur, dstg_err, tx_txg,   \* of the threads; cur is the call that each makes
  wr,                     \* what they write: [ds, before]
  refused, crashes

gc_vars == <<open, stable, active>>
names_vars == <<prev_snap_txg, snapnames, objs>>
mos_vars == <<bp, names_vars, history>>
sync_vars == <<datasets_synced, mos_vars, mos_disk, refused>>
call_vars == <<calls, res>>
wait_vars == <<pc, cur, dstg_err, tx_txg>>
vars == <<gc_vars, dp_sync_tasks, sync_vars, writes, events, call_vars, wait_vars, wr,
          crashes>>

mos == [bp |-> bp, prev_snap_txg |-> prev_snap_txg, snapnames |-> snapnames,
        objs |-> objs, history |-> history]

GC == INSTANCE GroupCommit WITH Clients <- Threads, First <- 1, pending <- {}

NoWrite == [ds |-> NoSnap, before |-> 0]
NoStacks == [g \in 0 .. TXG_SIZE - 1 |-> <<>>]

Init ==
  /\ open = 1 /\ stable = 0 /\ active = [t \in Threads |-> 0]
  /\ dp_sync_tasks = NoStacks
  /\ datasets_synced = FALSE
  /\ bp = [d \in Datasets |-> {}]
  /\ prev_snap_txg = [d \in Datasets |-> 0]
  /\ snapnames = [d \in Datasets |-> [n \in Names |-> NoSnap]]
  /\ objs = {} /\ history = {}
  /\ mos_disk = mos
  /\ writes = <<>> /\ events = <<>> /\ calls = <<>> /\ res = <<>>
  /\ pc = [t \in Threads |-> "idle"]
  /\ cur = [t \in Threads |-> 0]
  /\ dstg_err = [t \in Threads |-> "0"]
  /\ tx_txg = [t \in Threads |-> 0]
  /\ wr = [t \in Threads |-> NoWrite]
  /\ refused = 0 /\ crashes = 0

OpsLeft ==
  Len(calls) + Len(writes) + Len(events)
    + Cardinality({t \in Threads : pc[t] = "write"}) < MaxOps

txg_list_add(dstg, txg) ==
  dp_sync_tasks' = [dp_sync_tasks EXCEPT ![txg % TXG_SIZE] = <<dstg>> \o @]

(***************************************************************************)
(* Transactions in open context that write, and that log an event.         *)
(***************************************************************************)

WriteBegin(t, d) ==
  /\ pc[t] = "idle"
  /\ OpsLeft
  /\ GC!Begin(t)
  /\ pc' = [pc EXCEPT ![t] = "write"]
  /\ wr' = [wr EXCEPT ![t] = [ds |-> d, before |-> Len(writes)]]
  /\ UNCHANGED <<dp_sync_tasks, sync_vars, writes, events, call_vars, cur, dstg_err, tx_txg,
                 crashes>>

WriteEnd(t) ==
  /\ pc[t] = "write"
  /\ writes' = Append(writes, [ds |-> wr[t].ds, txg |-> active[t], before |-> wr[t].before])
  /\ pc' = [pc EXCEPT ![t] = "idle"]
  /\ wr' = [wr EXCEPT ![t] = NoWrite]
  /\ GC!End(t)
  /\ UNCHANGED <<dp_sync_tasks, sync_vars, events, call_vars, cur, dstg_err, tx_txg, crashes>>

\* log_internal() with a transaction that is not syncing:
\* dsl_sync_task_do_nowait(), no check function and no space.
dsl_sync_task_group_nowait(t) ==
  /\ pc[t] = "write"
  /\ OpsLeft
  /\ events' = Append(events, [txg |-> active[t], live |-> TRUE])
  /\ txg_list_add(Len(events) + 1, active[t])
  /\ UNCHANGED <<gc_vars, sync_vars, writes, call_vars, wait_vars, wr, crashes>>

(***************************************************************************)
(* The check functions and the sync functions.                             *)
(***************************************************************************)

\* We don't allow multiple snapshots of the same txg.
SnapshotTooSoon(d, txg) == prev_snap_txg[d] >= txg

\* dsl_dataset_snapshot_check(), dsl_dataset_snapshot_rename_check().  A name that
\* is too long or a reservation without space fails a task as EEXIST does.
checkfunc(c, d, txg) ==
  IF calls[c].kind = "snapshot" /\ SnapshotTooSoon(d, txg) THEN "EAGAIN"
  ELSE IF snapnames[d][calls[c].name] # NoSnap THEN "EEXIST" ELSE "0"

\* The data sets of the tasks of call c.
Tasks(c) == DOMAIN calls[c].obj

\* What dstg_err can be when the tasks on S have been checked: the error of the
\* last that fails, which may be any.
GroupErrors(c, txg, S) ==
  LET bad == {d \in S : checkfunc(c, d, txg) # "0"}
  IN IF bad = {} THEN {"0"} ELSE {checkfunc(c, d, txg) : d \in bad}

Txg == stable + 1

\* zap_add() fails when the name is there.
zap_add(names, name, obj) ==
  [names EXCEPT ![name] = IF @ = NoSnap THEN obj ELSE @]

SnapshotOf(c, d) == [ds |-> d, call |-> c, txg |-> Txg, bp |-> bp[d]]

\* dsl_dataset_snapshot_sync() of the data sets in D.
SnapshotSync(c, D) ==
  /\ objs' = objs \cup {SnapshotOf(c, d) : d \in D}
  /\ prev_snap_txg' = [d \in Datasets |-> IF d \in D THEN Txg ELSE prev_snap_txg[d]]
  /\ snapnames' = [d \in Datasets |->
       IF d \in D THEN zap_add(snapnames[d], calls[c].name, SnapshotOf(c, d))
                  ELSE snapnames[d]]

\* zap_remove() of whatever the snapshot is called now.
zap_remove(names, obj) == [n \in Names |-> IF names[n] = obj THEN NoSnap ELSE names[n]]

\* dsl_dataset_snapshot_rename_sync() of the data sets in D.
RenameSync(c, D) ==
  /\ snapnames' = [d \in Datasets |->
       IF d \in D THEN zap_add(zap_remove(snapnames[d], calls[c].obj[d]), calls[c].name,
                               calls[c].obj[d])
                  ELSE snapnames[d]]
  /\ UNCHANGED <<objs, prev_snap_txg>>

syncfuncs(c, D) == IF calls[c].kind = "snapshot" THEN SnapshotSync(c, D) ELSE RenameSync(c, D)

(***************************************************************************)
(* dsl_sync_task_group_wait() and its callers.                             *)
(***************************************************************************)

Call(t, kind, name, obj) ==
  /\ pc[t] = "idle"
  /\ OpsLeft
  /\ calls' = Append(calls, [kind |-> kind, name |-> name, obj |-> obj,
                             before |-> Len(writes)])
  /\ res' = Append(res, "none")
  /\ pc' = [pc EXCEPT ![t] = "top"]
  /\ cur' = [cur EXCEPT ![t] = Len(calls) + 1]
  /\ UNCHANGED <<gc_vars, dp_sync_tasks, sync_vars, writes, events, dstg_err, tx_txg, wr,
                 crashes>>

\* A snapshot of the data sets in D with one name.
dmu_objset_snapshot(t, D, name) ==
  Call(t, "snapshot", name, [d \in D |-> NoSnap])

\* The snapshots of data sets in D, found by the old name and held, get the
\* new one.  D is what the search met: it takes one data set after the other.
dsl_recursive_rename(t, D, old, new) ==
  /\ old # new
  /\ D # {}
  /\ \A d \in D : snapnames[d][old] # NoSnap
  /\ Call(t, "rename", new, [d \in D |-> snapnames[d][old]])

\* The call of t returns err, and the group is destroyed.
Return(t, err) ==
  /\ res' = [res EXCEPT ![cur[t]] = err]
  /\ pc' = [pc EXCEPT ![t] = "idle"]
  /\ cur' = [cur EXCEPT ![t] = 0]
  /\ dstg_err' = [dstg_err EXCEPT ![t] = "0"]
  /\ tx_txg' = [tx_txg EXCEPT ![t] = 0]

\* top: dmu_tx_assign(TXG_WAIT) of a transaction that holds nothing.
GroupWaitAssign(t) ==
  /\ pc[t] = "top"
  /\ GC!Begin(t)
  /\ pc' = [pc EXCEPT ![t] = "check"]
  /\ tx_txg' = [tx_txg EXCEPT ![t] = open]
  /\ UNCHANGED <<dp_sync_tasks, sync_vars, writes, events, call_vars, cur, dstg_err, wr, crashes>>

\* The preliminary check, and if it passes the group goes on the list of its
\* transaction group.  A DEBUG build looks at some of the tasks only.
GroupWaitCheck(t) ==
  /\ pc[t] = "check"
  /\ \E S \in IF ZFS_DEBUG THEN SUBSET Tasks(cur[t]) ELSE {Tasks(cur[t])} :
     \E err \in GroupErrors(cur[t], tx_txg[t], S) :
       IF err # "0"
       THEN Return(t, err) /\ GC!End(t) /\ UNCHANGED dp_sync_tasks
       ELSE /\ pc' = [pc EXCEPT ![t] = "commit"]
            /\ dstg_err' = [dstg_err EXCEPT ![t] = "0"]
            /\ txg_list_add(t, tx_txg[t])
            /\ UNCHANGED <<res, gc_vars, cur, tx_txg>>
  /\ UNCHANGED <<sync_vars, writes, events, calls, wr, crashes>>

GroupWaitCommit(t) ==
  /\ pc[t] = "commit"
  /\ GC!End(t)
  /\ pc' = [pc EXCEPT ![t] = "wait"]
  /\ UNCHANGED <<dp_sync_tasks, sync_vars, writes, events, call_vars, cur, dstg_err, tx_txg, wr,
                 crashes>>

\* Fault: until the group is closed.
Synced_Closed(txg) == open > txg

\* txg_wait_synced(dstg->dstg_pool, txg)
Synced(txg) == stable >= txg

GroupWaitSynced(t) ==
  /\ pc[t] = "wait"
  /\ Synced(tx_txg[t])
  /\ IF dstg_err[t] = "EAGAIN"
     THEN pc' = [pc EXCEPT ![t] = "defer"] /\ UNCHANGED <<res, cur, dstg_err, tx_txg>>
     ELSE Return(t, dstg_err[t])
  /\ UNCHANGED <<gc_vars, dp_sync_tasks, sync_vars, writes, events, calls, wr, crashes>>

GroupWaitAgain(t) ==
  /\ pc[t] = "defer"
  /\ Synced(tx_txg[t] + TXG_DEFER_SIZE)
  /\ pc' = [pc EXCEPT ![t] = "top"]
  /\ tx_txg' = [tx_txg EXCEPT ![t] = 0]
  /\ UNCHANGED <<gc_vars, dp_sync_tasks, sync_vars, writes, events, call_vars, cur, dstg_err, wr,
                 crashes>>

(***************************************************************************)
(* dsl_pool_sync(), in the sync thread.                                    *)
(***************************************************************************)

Quiesced == Txg < open /\ \A t \in Threads : active[t] # Txg

\* The dirty data sets, until none is left.
SyncDatasets ==
  /\ Quiesced
  /\ ~datasets_synced
  /\ datasets_synced' = TRUE
  /\ bp' = [d \in Datasets |->
       bp[d] \cup {w \in DOMAIN writes : writes[w].ds = d /\ writes[w].txg = Txg}]
  /\ UNCHANGED <<gc_vars, dp_sync_tasks, names_vars, history, mos_disk, refused, writes,
                 events, call_vars, wait_vars, wr,
                 crashes>>

\* Fault: the sync tasks do not wait for the data sets.
TasksMayRun_Early == TRUE

TasksMayRun == datasets_synced

\* Fault: even when no space is asked for.
MayRefuse_Any(dstg) == TRUE

\* dsl_dir_tempreserve_space() says no only if there is something to reserve:
\* three blocks for a snapshot, none for a rename or an event.
MayRefuse(dstg) ==
  /\ dstg \in Threads
  /\ calls[cur[dstg]].kind = "snapshot"

\* Fault: what was checked in open context is not checked again.
SyncErrors_None(c) == {"0"}

\* The check functions again, in syncing context.
SyncErrors(c) == GroupErrors(c, Txg, Tasks(c))

\* Fault: each task goes by its own check.
RunsTasks_OwnCheck(c) == {d \in Tasks(c) : checkfunc(c, d, Txg) = "0"}

\* The tasks whose sync functions run: all of them or none.
RunsTasks(c) == IF SyncErrors(c) = {"0"} THEN Tasks(c) ELSE {}

\* dsl_sync_task_group_sync() when the reservation fails; ERESTART becomes EAGAIN.
GroupRefused(dstg) ==
  /\ MayRefuse(dstg)
  /\ refused < MaxRefused
  /\ refused' = refused + 1
  /\ IF dstg \in Threads
     THEN \E err \in {"EAGAIN", "ENOSPC"} : dstg_err' = [dstg_err EXCEPT ![dstg] = err]
     ELSE UNCHANGED dstg_err
  /\ UNCHANGED <<mos_vars, events>>

\* The rest of it, for a group that somebody waits for.
GroupRuns(t) ==
  /\ \E err \in SyncErrors(cur[t]) : dstg_err' = [dstg_err EXCEPT ![t] = err]
  /\ syncfuncs(cur[t], RunsTasks(cur[t]))
  /\ UNCHANGED <<bp, history, events, refused>>

\* And for one that it destroys at the end.
EventRuns(e) ==
  /\ history' = history \cup {e}
  /\ events' = [events EXCEPT ![e] = [txg |-> @.txg, live |-> FALSE]]
  /\ UNCHANGED <<bp, names_vars, dstg_err, refused>>

dsl_sync_task_group_sync ==
  LET slot == Txg % TXG_SIZE
      dstg == Head(dp_sync_tasks[slot])
  IN /\ Quiesced /\ TasksMayRun
     /\ dp_sync_tasks[slot] # <<>>
     /\ dp_sync_tasks' = [dp_sync_tasks EXCEPT ![slot] = Tail(@)]
     /\ \/ GroupRefused(dstg)
        \/ dstg \in Threads /\ GroupRuns(dstg)
        \/ dstg \notin Threads /\ EventRuns(dstg)
     /\ UNCHANGED <<gc_vars, datasets_synced, mos_disk, writes, call_vars, pc, cur, tx_txg, wr,
                    crashes>>

\* The group is on disk.
Stabilize ==
  /\ Quiesced /\ datasets_synced
  /\ dp_sync_tasks[Txg % TXG_SIZE] = <<>>
  /\ GC!Stabilize
  /\ datasets_synced' = FALSE
  /\ mos_disk' = mos
  /\ UNCHANGED <<dp_sync_tasks, mos_vars, refused, writes, events, call_vars, wait_vars, wr,
                 crashes>>

\* Fault: the wait before a retry does not ask for groups to be closed.
WaitsFor_First(t) == IF pc[t] = "wait" THEN tx_txg[t] ELSE 0

\* The group that t waits for in txg_wait_synced(), which pushes it out.
WaitsFor(t) ==
  IF pc[t] = "wait" THEN tx_txg[t]
  ELSE IF pc[t] = "defer" THEN tx_txg[t] + TXG_DEFER_SIZE ELSE 0

\* A group is closed when somebody waits for it, or by the timer.
Advance ==
  /\ open <= MaxTxg \/ \E t \in Threads : WaitsFor(t) >= open
  /\ open < stable + 3   \* one group is open, one quiesced, one being written
  /\ GC!Advance
  /\ UNCHANGED <<dp_sync_tasks, sync_vars, writes, events, call_vars, wait_vars, wr,
                 crashes>>

\* Memory is lost, and the pool is imported again as of its last group.
Crash ==
  /\ crashes < MaxCrash
  /\ crashes' = crashes + 1
  /\ open' = stable + 1
  /\ active' = [t \in Threads |-> 0]
  /\ dp_sync_tasks' = NoStacks
  /\ datasets_synced' = FALSE
  /\ bp' = mos_disk.bp /\ prev_snap_txg' = mos_disk.prev_snap_txg
  /\ snapnames' = mos_disk.snapnames /\ objs' = mos_disk.objs
  /\ history' = mos_disk.history
  /\ writes' = [w \in DOMAIN writes |->
                  [ds |-> writes[w].ds, before |-> writes[w].before,
                   txg |-> IF writes[w].txg <= stable THEN writes[w].txg ELSE 0]]
  /\ events' = [e \in DOMAIN events |->
                  [live |-> FALSE,
                   txg |-> IF events[e].txg <= stable THEN events[e].txg ELSE 0]]
  /\ pc' = [t \in Threads |-> "idle"]
  /\ cur' = [t \in Threads |-> 0]
  /\ dstg_err' = [t \in Threads |-> "0"]
  /\ tx_txg' = [t \in Threads |-> 0]
  /\ wr' = [t \in Threads |-> NoWrite]
  /\ UNCHANGED <<stable, mos_disk, refused, call_vars>>

WaitStep(t) ==
  \/ GroupWaitAssign(t)
  \/ GroupWaitCheck(t)
  \/ GroupWaitCommit(t)
  \/ GroupWaitSynced(t)
  \/ GroupWaitAgain(t)

SyncStep == SyncDatasets \/ dsl_sync_task_group_sync \/ Stabilize

\* What happens by itself, without new calls and crashes.
Progress == (\E t \in Threads : WriteEnd(t) \/ WaitStep(t)) \/ SyncStep \/ Advance

Next ==
  \/ \E t \in Threads :
       \/ \E d \in Datasets : WriteBegin(t, d)
       \/ dsl_sync_task_group_nowait(t)
       \/ \E D \in Targets, n \in Names : dmu_objset_snapshot(t, D, n)
       \/ \E D \in SUBSET Datasets, old, new \in Names : dsl_recursive_rename(t, D, old, new)
  \/ Progress
  \/ Crash

Spec == Init /\ [][Next]_vars

----------------------------------------------------------------------------
SnapsOf(os, c) == {o \in os : o.call = c}

\* A recursive snapshot is taken of all its data sets, in one group, or of
\* none: whichever task's check fails in syncing context, and wherever the
\* system crashes and comes back.
AllOrNone ==
  \A c \in DOMAIN calls :
    /\ {o.ds : o \in SnapsOf(objs, c)} \in {{}, Tasks(c)}
    /\ \A o, q \in SnapsOf(objs, c) : o.txg = q.txg

\* On 0 the snapshots are on disk, from where no crash takes them, and on an
\* error nothing has been or will be done.
DoneIsTrue ==
  \A c \in DOMAIN calls : calls[c].kind = "snapshot" =>
    /\ res[c] = "0" => {o.ds : o \in SnapsOf(mos_disk.objs, c)} = Tasks(c)
    /\ res[c] \notin {"0", "none"} => SnapsOf(objs, c) = {}

\* EAGAIN stays inside: the caller never gets it, however often a group has
\* to wait for a later transaction group.
NoEagain == \A c \in DOMAIN res : res[c] # "EAGAIN"

\* What dsl_sync_task_group_wait() tells its caller is so, whatever crashes,
\* refusals and rounds of EAGAIN came in between.
ResultIsTrue == DoneIsTrue /\ NoEagain

\* The data sets of a recursive snapshot are those of one moment, not
\* before the call: all writes that ended before the call are in, and with
\* a write all that ended before it began, in whichever data set.
SnapshotIsAMoment ==
  \A o, q \in objs : o.call = q.call =>
    \A w \in DOMAIN writes : writes[w].txg # 0 /\ writes[w].ds = o.ds =>
      /\ w <= calls[o.call].before => w \in o.bp
      /\ \A v \in q.bp : w <= writes[v].before => w \in o.bp

\* No snapshot loses its name: two calls that were both told in open context
\* that a name is free do not both get it.
SnapshotsKeepTheirNames ==
  \A o \in objs : \E n \in Names : snapnames[o.ds][n] = o

\* No two snapshots of a data set are of the same group, which the order of
\* snapshots by group and the space accounting between them rest on.
OneSnapshotPerGroup ==
  \A o, q \in objs : o.ds = q.ds /\ o.txg = q.txg => o = q

\* An event is in the history on disk exactly if the group of the transaction
\* that logged it is on disk, and its task group is freed with it, although
\* dsl_sync_task_group_sync() leaves early when the reservation fails.
EventsGoWithTheirGroup ==
  \A e \in DOMAIN events :
    /\ e \in mos_disk.history <=> events[e].txg \in 1 .. stable
    /\ events[e].live => events[e].txg > stable

\* A group of tasks is on at most one list, once, and on that of a group not
\* written yet (the VERIFYs on txg_list_add() and the waiter that frees its
\* group rest on it).
QueuedOnce ==
  \A t \in Threads :
    \A g \in DOMAIN dp_sync_tasks : \A i \in DOMAIN dp_sync_tasks[g] :
      dp_sync_tasks[g][i] = t =>
        /\ g = tx_txg[t] % TXG_SIZE /\ tx_txg[t] > stable
        /\ pc[t] \in {"commit", "wait"} /\ dstg_err[t] = "0"
        /\ \A j \in DOMAIN dp_sync_tasks[g] : dp_sync_tasks[g][j] = t => j = i

\* Nobody waits for ever: while a call has not returned, some thread, the
\* sync thread or the quiesce thread can take a step.  (Each such step makes
\* progress, so with the bounds on calls and refusals no run of them is
\* infinite, and every call returns.)
NoCallIsStuck ==
  (\E t \in Threads : cur[t] # 0) => ENABLED Progress

=============================================================================
