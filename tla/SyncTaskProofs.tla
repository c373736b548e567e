--------------------------- MODULE SyncTaskProofs ---------------------------
(***************************************************************************)
(* Proofs for SyncTask: every safety property of the runs, for any threads,*)
(* data sets and names and any number of calls, writes, events, failed     *)
(* reservations and crashes.                                               *)
(*                                                                         *)
(* None of the properties is inductive.  A result can be trusted because   *)
(* of where the thread is (SnapThreads), which needs to know on which list *)
(* its group is (TasksQueued) and that at most three transaction groups    *)
(* are not on disk, in different slots (GroupInv).  That a snapshot is of  *)
(* one moment needs the order of writes and groups (WriteOrder, CallOrder) *)
(* and what is in a data set while its group is written (BpInv).  A crash  *)
(* goes back to what is on disk, so each part speaks of the disk as well.  *)
(* Inv is all of them together, near the end of the module.                *)
(***************************************************************************)
EXTENDS SyncTask, SequenceTheorems, TLAPS

\* The types of the variables.
Pcs == {"idle", "write", "top", "check", "commit", "wait", "defer"}
Errs == {"0", "EAGAIN", "EEXIST", "ENOSPC"}
Writes == [ds : Datasets, txg : Nat, before : Nat]
Events == [txg : Nat, live : BOOLEAN]
Calls == [kind : {"snapshot", "rename"}, name : Names,
          obj : UNION {[D -> Snapshots \cup {NoSnap}] : D \in SUBSET Datasets},
          before : Nat]
Mos == [bp : [Datasets -> SUBSET Nat], prev_snap_txg : [Datasets -> Nat],
        snapnames : [Datasets -> [Names -> Snapshots \cup {NoSnap}]],
        objs : SUBSET Snapshots, history : SUBSET Nat]

\* Of the transaction groups and the lists of task groups.
GroupTypes ==
  /\ open \in Nat /\ stable \in Nat /\ active \in [Threads -> Nat]
  /\ dp_sync_tasks \in [0 .. TXG_SIZE - 1 -> Seq(Threads \cup Nat)]
  /\ datasets_synced \in BOOLEAN

\* Of the configuration, in memory and on disk.
MosTypes ==
  /\ bp \in [Datasets -> SUBSET Nat] /\ prev_snap_txg \in [Datasets -> Nat]
  /\ snapnames \in [Datasets -> [Names -> Snapshots \cup {NoSnap}]]
  /\ objs \in SUBSET Snapshots /\ history \in SUBSET Nat
  /\ mos_disk \in Mos

\* Of what threads do and what has been asked for.
ThreadTypes ==
  /\ writes \in Seq(Writes) /\ events \in Seq(Events)
  /\ calls \in Seq(Calls) /\ res \in Seq(Errs \cup {"none"})
  /\ pc \in [Threads -> Pcs] /\ cur \in [Threads -> Nat]
  /\ dstg_err \in [Threads -> Errs] /\ tx_txg \in [Threads -> Nat]
  /\ wr \in [Threads -> [ds : Datasets \cup {NoSnap}, before : Nat]]
  /\ \A t \in Threads : pc[t] = "write" => wr[t].ds \in Datasets

\* TypeInv is their conjunction.
TypeInv == GroupTypes /\ MosTypes /\ ThreadTypes

\* Where a thread has a transaction, and where it is in a call.
InTx == {"write", "check", "commit"}
InCall == {"top", "check", "commit", "wait", "defer"}

\* Which transaction groups there are, and which of them threads are in.
GroupInv ==
  /\ stable < open /\ open <= stable + 3
  /\ datasets_synced => Quiesced
  /\ \A t \in Threads :
       /\ active[t] # 0 <=> pc[t] \in InTx
       /\ active[t] # 0 => stable < active[t] /\ active[t] <= open
       /\ pc[t] \in {"check", "commit"} => tx_txg[t] = active[t]
       /\ pc[t] = "wait" => tx_txg[t] <= open

\* Each call that has not returned is of one thread.
CallInv ==
  /\ Len(res) = Len(calls)
  /\ \A t \in Threads :
       /\ cur[t] # 0 <=> pc[t] \in InCall
       /\ cur[t] # 0 => cur[t] \in DOMAIN calls /\ res[cur[t]] = "none"
       /\ \A u \in Threads : cur[t] # 0 /\ cur[u] = cur[t] => u = t

\* x is on the list of slot g, and at most once.
On(g, x) == \E i \in DOMAIN dp_sync_tasks[g] : dp_sync_tasks[g][i] = x
Unique(g, x) ==
  \A i, j \in DOMAIN dp_sync_tasks[g] :
    dp_sync_tasks[g][i] = x /\ dp_sync_tasks[g][j] = x => i = j

\* QueuedOnce, by slot and thread.
TasksQueued ==
  \A t \in Threads, g \in 0 .. TXG_SIZE - 1 : On(g, t) =>
    /\ g = tx_txg[t] % TXG_SIZE /\ tx_txg[t] > stable
    /\ pc[t] \in {"commit", "wait"} /\ dstg_err[t] = "0"
    /\ Unique(g, t)

\* A list holds events of its group that have not been written.
EventsQueued ==
  \A e \in Nat, g \in 0 .. TXG_SIZE - 1 : On(g, e) =>
    /\ e \in DOMAIN events /\ events[e].live /\ events[e].txg % TXG_SIZE = g
    /\ Unique(g, e)

\* Where each event is: on its group's list, in the history, or undone by a crash.
EventInv ==
  /\ EventsQueued
  /\ history \subseteq DOMAIN events /\ mos_disk.history \subseteq DOMAIN events
  /\ \A e \in DOMAIN events :
       /\ events[e].live => /\ stable < events[e].txg /\ events[e].txg <= open
                            /\ \A g \in 0 .. TXG_SIZE - 1 : g = events[e].txg % TXG_SIZE => On(g, e)
       /\ ~events[e].live => events[e].txg <= stable + 1
       /\ e \in history <=> ~events[e].live /\ events[e].txg # 0
       /\ e \in mos_disk.history <=> events[e].txg \in 1 .. stable

\* The slot of the group being written, and the first task group on its list.
Slot == Txg % TXG_SIZE
Dstg == Head(dp_sync_tasks[Slot])

\* What TypeInv says of one call.
LEMMA TaskTypes ==
  ASSUME ThreadTypes, NEW c \in DOMAIN calls
  PROVE  /\ Tasks(c) \subseteq Datasets
         /\ \A d \in Tasks(c) : calls[c].obj[d] \in Snapshots \cup {NoSnap}
         /\ calls[c].kind \in {"snapshot", "rename"} /\ calls[c].name \in Names
         /\ calls[c].before \in Nat
<1>1. calls[c] \in Calls
  BY DEF ThreadTypes
<1>2. PICK D \in SUBSET Datasets : calls[c].obj \in [D -> Snapshots \cup {NoSnap}]
  BY <1>1 DEF Calls
<1> QED
  BY <1>1, <1>2 DEF Calls, Tasks

\* The check functions return errors.
LEMMA ErrorTypes ==
  ASSUME NEW c, NEW txg, NEW S
  PROVE  GroupErrors(c, txg, S) \subseteq Errs
<1> \A d : checkfunc(c, d, txg) \in Errs
  BY DEF checkfunc, Errs
<1> QED
  BY DEF GroupErrors, Errs

\* txg_list_add() keeps the types of the lists.
LEMMA SlotTypes ==
  ASSUME GroupTypes, NEW x \in Threads \cup Nat, NEW txg \in Nat, txg_list_add(x, txg)
  PROVE  /\ dp_sync_tasks' \in [0 .. TXG_SIZE - 1 -> Seq(Threads \cup Nat)]
         /\ txg % TXG_SIZE \in 0 .. TXG_SIZE - 1
<1>1. txg % TXG_SIZE \in 0 .. TXG_SIZE - 1
  BY DEF TXG_SIZE
<1>2. <<x>> \o dp_sync_tasks[txg % TXG_SIZE] \in Seq(Threads \cup Nat)
  BY <1>1 DEF GroupTypes
<1> QED
  BY <1>1, <1>2 DEF txg_list_add, GroupTypes

\* What the last step of a group changes, variable by variable.
LEMMA StabilizeFacts ==
  ASSUME Stabilize
  PROVE  /\ Quiesced /\ datasets_synced
         /\ dp_sync_tasks[Txg % TXG_SIZE] = <<>>
         /\ stable' = Txg
         /\ UNCHANGED <<open, active, dp_sync_tasks>>
         /\ datasets_synced' = FALSE
         /\ UNCHANGED <<bp, prev_snap_txg, snapnames, objs, history>>
         /\ mos_disk'.bp = bp /\ mos_disk'.prev_snap_txg = prev_snap_txg
         /\ mos_disk'.snapnames = snapnames /\ mos_disk'.objs = objs
         /\ mos_disk'.history = history
         /\ UNCHANGED <<writes, events, call_vars, wait_vars, wr>>
<1>1. GC!Stabilize /\ mos_disk' = mos
  BY DEF Stabilize
<1>2. UNCHANGED <<open, active>> /\ stable' = Txg
  BY <1>1 DEF GC!Stabilize, Txg
<1> QED
  BY <1>1, <1>2 DEF Stabilize, mos_vars, names_vars, mos

\* A function on 1 .. n is a sequence of length n.
LEMMA SeqOfFunction ==
  ASSUME NEW S, NEW n \in Nat, NEW f \in [1 .. n -> S]
  PROVE  f \in Seq(S) /\ Len(f) = n /\ DOMAIN f = 1 .. n
<1>1. f \in Seq(S)
  BY SeqDef
<1>2. DOMAIN f = 1 .. n /\ DOMAIN f = 1 .. Len(f) /\ Len(f) \in Nat
  BY <1>1
<1> QED
  BY <1>1, <1>2

\* What a crash leaves: of the groups and of the configuration,
LEMMA CrashGroups ==
  ASSUME Crash
  PROVE  /\ open' = stable + 1 /\ stable' = stable
         /\ active' = [t \in Threads |-> 0]
         /\ dp_sync_tasks' = [g \in 0 .. TXG_SIZE - 1 |-> <<>>]
         /\ datasets_synced' = FALSE
         /\ mos_disk' = mos_disk /\ bp' = mos_disk.bp
         /\ prev_snap_txg' = mos_disk.prev_snap_txg
         /\ snapnames' = mos_disk.snapnames /\ objs' = mos_disk.objs
         /\ history' = mos_disk.history
  BY Zenon DEF Crash, NoStacks

\* of the threads,
LEMMA CrashThreads ==
  ASSUME Crash
  PROVE  /\ calls' = calls /\ res' = res
         /\ pc' = [t \in Threads |-> "idle"] /\ cur' = [t \in Threads |-> 0]
         /\ dstg_err' = [t \in Threads |-> "0"] /\ tx_txg' = [t \in Threads |-> 0]
         /\ wr' = [t \in Threads |-> NoWrite]
  BY Zenon DEF Crash, call_vars

\* of the writes,
LEMMA CrashWrites ==
  ASSUME ThreadTypes, GroupTypes, Crash
  PROVE  /\ writes' \in Seq(Writes) /\ Len(writes') = Len(writes)
         /\ DOMAIN writes' = DOMAIN writes
         /\ \A w \in DOMAIN writes :
              /\ writes'[w].ds = writes[w].ds /\ writes'[w].before = writes[w].before
              /\ writes'[w].txg = IF writes[w].txg <= stable THEN writes[w].txg ELSE 0
<1> DEFINE W(w) == [ds |-> writes[w].ds, before |-> writes[w].before,
                    txg |-> IF writes[w].txg <= stable THEN writes[w].txg ELSE 0]
<1>1. writes' = [w \in DOMAIN writes |-> W(w)]
  BY Zenon DEF Crash
<1>2. DOMAIN writes = 1 .. Len(writes) /\ Len(writes) \in Nat
  BY DEF ThreadTypes
<1>3. ASSUME NEW w \in DOMAIN writes PROVE W(w) \in Writes
  <2>1. writes[w] \in Writes
    BY DEF ThreadTypes
  <2> QED
    BY <2>1 DEF Writes
<1>4. writes' \in [1 .. Len(writes) -> Writes]
  BY <1>1, <1>2, <1>3
<1>5. \A w \in DOMAIN writes : writes'[w] = W(w)
  BY <1>1
<1>6. writes' \in Seq(Writes) /\ Len(writes') = Len(writes) /\ DOMAIN writes' = 1 .. Len(writes)
  BY <1>2, <1>4, SeqOfFunction
<1> QED
  BY <1>2, <1>5, <1>6

\* and of the events.
LEMMA CrashEvents ==
  ASSUME ThreadTypes, GroupTypes, Crash
  PROVE  /\ events' \in Seq(Events) /\ DOMAIN events' = DOMAIN events
         /\ \A e \in DOMAIN events :
              /\ ~events'[e].live
              /\ events'[e].txg = IF events[e].txg <= stable THEN events[e].txg ELSE 0
<1> DEFINE E(e) == [live |-> FALSE,
                    txg |-> IF events[e].txg <= stable THEN events[e].txg ELSE 0]
<1>1. events' = [e \in DOMAIN events |-> E(e)]
  BY Zenon DEF Crash
<1>2. DOMAIN events = 1 .. Len(events) /\ Len(events) \in Nat
  BY DEF ThreadTypes
<1>3. ASSUME NEW e \in DOMAIN events PROVE E(e) \in Events
  <2>1. events[e] \in Events
    BY DEF ThreadTypes
  <2> QED
    BY <2>1 DEF Events
<1>4. events' \in [1 .. Len(events) -> Events]
  BY <1>1, <1>2, <1>3
<1>5. \A e \in DOMAIN events : events'[e] = E(e)
  BY <1>1
<1>6. events' \in Seq(Events) /\ DOMAIN events' = 1 .. Len(events)
  BY <1>2, <1>4, SeqOfFunction
<1> QED
  BY <1>2, <1>5, <1>6

\* What writing an event to the history changes.
LEMMA EventRunsFacts ==
  ASSUME ThreadTypes, NEW e \in DOMAIN events, EventRuns(e)
  PROVE  /\ events' \in Seq(Events) /\ DOMAIN events' = DOMAIN events
         /\ events'[e].live = FALSE /\ events'[e].txg = events[e].txg
         /\ \A f \in DOMAIN events : f # e => events'[f] = events[f]
<1> DEFINE x == [txg |-> events[e].txg, live |-> FALSE]
<1>1. events' = [events EXCEPT ![e] = x]
  BY DEF EventRuns
<1>2. x \in Events
  <2>1. events[e] \in Events
    BY DEF ThreadTypes
  <2> QED
    BY <2>1 DEF Events
<1>3. events' \in Seq(Events) /\ DOMAIN events' = DOMAIN events
  BY <1>1, <1>2, ExceptSeq DEF ThreadTypes
<1>4. events'[e] = x
  BY <1>1
<1>5. \A f \in DOMAIN events : f # e => events'[f] = events[f]
  BY <1>1
<1> QED
  BY <1>3, <1>4, <1>5

\* GroupTypes is inductive with the other types.
LEMMA GroupTypesHold == TypeInv /\ [Next]_vars => GroupTypes'
<1> SUFFICES ASSUME TypeInv, [Next]_vars PROVE GroupTypes'
  OBVIOUS
<1> USE DEF TypeInv
<1>1. ASSUME NEW t \in Threads, NEW d \in Datasets, WriteBegin(t, d) PROVE GroupTypes'
  BY <1>1 DEF WriteBegin, GC!Begin, GroupTypes, sync_vars
<1>2. ASSUME NEW t \in Threads, WriteEnd(t) PROVE GroupTypes'
  BY <1>2 DEF WriteEnd, GC!End, GroupTypes, sync_vars
<1>3. ASSUME NEW t \in Threads, dsl_sync_task_group_nowait(t) PROVE GroupTypes'
  <2>1. Len(events) + 1 \in Nat /\ active[t] \in Nat
    BY DEF ThreadTypes, GroupTypes
  <2>2. dp_sync_tasks' \in [0 .. TXG_SIZE - 1 -> Seq(Threads \cup Nat)]
    BY <1>3, <2>1, SlotTypes DEF dsl_sync_task_group_nowait
  <2> QED
    BY <1>3, <2>2 DEF dsl_sync_task_group_nowait, GroupTypes, sync_vars, gc_vars
<1>4. ASSUME NEW t, NEW k, NEW n, NEW o, Call(t, k, n, o) PROVE GroupTypes'
  BY <1>4 DEF Call, GroupTypes, gc_vars, sync_vars
<1>5. ASSUME NEW t \in Threads, GroupWaitAssign(t) PROVE GroupTypes'
  BY <1>5 DEF GroupWaitAssign, GC!Begin, GroupTypes, sync_vars
<1>6. ASSUME NEW t \in Threads, GroupWaitCheck(t) PROVE GroupTypes'
  <2>1. CASE UNCHANGED dp_sync_tasks /\ GC!End(t)
    BY <1>6, <2>1 DEF GroupWaitCheck, GC!End, GroupTypes, sync_vars
  <2>2. CASE txg_list_add(t, tx_txg[t]) /\ UNCHANGED gc_vars
    <3>1. dp_sync_tasks' \in [0 .. TXG_SIZE - 1 -> Seq(Threads \cup Nat)]
      BY <2>2, SlotTypes DEF ThreadTypes
    <3> QED
      BY <1>6, <2>2, <3>1 DEF GroupWaitCheck, GroupTypes, sync_vars, gc_vars
  <2> QED
    BY <1>6, <2>1, <2>2 DEF GroupWaitCheck
<1>7. ASSUME NEW t \in Threads, GroupWaitCommit(t) PROVE GroupTypes'
  BY <1>7 DEF GroupWaitCommit, GC!End, GroupTypes, sync_vars
<1>8. ASSUME NEW t \in Threads, GroupWaitSynced(t) PROVE GroupTypes'
  BY <1>8 DEF GroupWaitSynced, GroupTypes, sync_vars, gc_vars
<1>9. ASSUME NEW t \in Threads, GroupWaitAgain(t) PROVE GroupTypes'
  BY <1>9 DEF GroupWaitAgain, GroupTypes, sync_vars, gc_vars
<1>10. CASE SyncDatasets
  BY <1>10 DEF SyncDatasets, GroupTypes, sync_vars, gc_vars
<1>11. CASE dsl_sync_task_group_sync
  <2>1. Txg % TXG_SIZE \in 0 .. TXG_SIZE - 1
    BY DEF Txg, TXG_SIZE, GroupTypes
  <2>2. Tail(dp_sync_tasks[Txg % TXG_SIZE]) \in Seq(Threads \cup Nat)
    BY <1>11, <2>1 DEF dsl_sync_task_group_sync, GroupTypes
  <2>3. dp_sync_tasks' \in [0 .. TXG_SIZE - 1 -> Seq(Threads \cup Nat)]
    BY <1>11, <2>1, <2>2 DEF dsl_sync_task_group_sync, GroupTypes
  <2> QED
    BY <1>11, <2>3 DEF dsl_sync_task_group_sync, GroupTypes, gc_vars
<1>12. CASE Stabilize
  BY <1>12, StabilizeFacts DEF GroupTypes, Txg
<1>13. CASE Advance
  BY <1>13 DEF Advance, GC!Advance, GroupTypes, sync_vars
<1>14. CASE Crash
  <2>1. <<>> \in Seq(Threads \cup Nat)
    OBVIOUS
  <2>2. dp_sync_tasks' \in [0 .. TXG_SIZE - 1 -> Seq(Threads \cup Nat)]
    BY <1>14, <2>1, CrashGroups, Zenon
  <2>3. open' \in Nat /\ stable' \in Nat /\ active' \in [Threads -> Nat] /\ datasets_synced' \in BOOLEAN
    BY <1>14, CrashGroups DEF GroupTypes
  <2> QED
    BY <2>2, <2>3 DEF GroupTypes
<1>15. CASE UNCHANGED vars
  BY <1>15 DEF vars, gc_vars, sync_vars, GroupTypes
<1> QED
  BY <1>1, <1>2, <1>3, <1>4, <1>5, <1>6, <1>7, <1>8, <1>9, <1>10, <1>11, <1>12, <1>13,
     <1>14, <1>15
     DEF Next, Progress, WaitStep, SyncStep, dmu_objset_snapshot, dsl_recursive_rename

\* What dsl_sync_task_group_sync() always does.
LEMMA GroupSyncFacts ==
  ASSUME GroupTypes, dsl_sync_task_group_sync
  PROVE  /\ Quiesced /\ datasets_synced
         /\ Slot \in 0 .. TXG_SIZE - 1
         /\ dp_sync_tasks[Slot] \in Seq(Threads \cup Nat) /\ dp_sync_tasks[Slot] # <<>>
         /\ dp_sync_tasks' = [dp_sync_tasks EXCEPT ![Slot] = Tail(dp_sync_tasks[Slot])]
         /\ UNCHANGED <<open, stable, active, datasets_synced, mos_disk, writes, calls, res, pc,
                        cur, tx_txg, wr, bp>>
         /\ \/ GroupRefused(Dstg)
            \/ Dstg \in Threads /\ GroupRuns(Dstg)
            \/ Dstg \notin Threads /\ EventRuns(Dstg)
<1>1. Slot \in 0 .. TXG_SIZE - 1
  BY DEF Slot, Txg, TXG_SIZE, GroupTypes
<1>2. UNCHANGED bp
  BY DEF dsl_sync_task_group_sync, GroupRefused, GroupRuns, EventRuns, mos_vars
<1> QED
  BY <1>1, <1>2 DEF dsl_sync_task_group_sync, Slot, Dstg, gc_vars, call_vars, TasksMayRun,
                    GroupTypes

\* It takes the first task group off the list; the others move up.
LEMMA HeadIsOn ==
  ASSUME GroupTypes, dsl_sync_task_group_sync
  PROVE  /\ Slot \in DOMAIN dp_sync_tasks /\ 1 \in DOMAIN dp_sync_tasks[Slot]
         /\ dp_sync_tasks[Slot][1] = Dstg /\ Dstg \in Threads \cup Nat
         /\ DOMAIN dp_sync_tasks' = DOMAIN dp_sync_tasks
         /\ \A g \in DOMAIN dp_sync_tasks : g # Slot => dp_sync_tasks'[g] = dp_sync_tasks[g]
         /\ DOMAIN dp_sync_tasks'[Slot] \subseteq Nat
         /\ \A i \in DOMAIN dp_sync_tasks'[Slot] :
              /\ i + 1 \in DOMAIN dp_sync_tasks[Slot] /\ i # 0
              /\ dp_sync_tasks'[Slot][i] = dp_sync_tasks[Slot][i + 1]
         /\ \A i \in DOMAIN dp_sync_tasks[Slot] : i # 1 =>
              /\ i - 1 \in DOMAIN dp_sync_tasks'[Slot]
              /\ dp_sync_tasks'[Slot][i - 1] = dp_sync_tasks[Slot][i]
<1>1. Slot \in 0 .. TXG_SIZE - 1 /\ DOMAIN dp_sync_tasks = 0 .. TXG_SIZE - 1
  BY GroupSyncFacts DEF GroupTypes
<1>2. dp_sync_tasks' = [dp_sync_tasks EXCEPT ![Slot] = Tail(dp_sync_tasks[Slot])]
  BY GroupSyncFacts
<1> DEFINE q == dp_sync_tasks[Slot]
<1>3. q \in Seq(Threads \cup Nat) /\ q # <<>>
  BY GroupSyncFacts
<1>4. dp_sync_tasks'[Slot] = Tail(q)
  BY <1>1, <1>2
<1>5. DOMAIN dp_sync_tasks' = DOMAIN dp_sync_tasks
         /\ \A g \in DOMAIN dp_sync_tasks : g # Slot => dp_sync_tasks'[g] = dp_sync_tasks[g]
  BY <1>2
<1>6. Dstg = q[1] /\ Dstg \in Threads \cup Nat /\ 1 \in DOMAIN q
  BY <1>3 DEF Dstg
<1>7. DOMAIN q = 1 .. Len(q) /\ Len(q) \in Nat
  BY <1>3
<1>8. Tail(q) \in Seq(Threads \cup Nat) /\ Len(Tail(q)) = Len(q) - 1
  BY <1>3, HeadTailProperties
<1>9. \A i \in 1 .. Len(Tail(q)) : Tail(q)[i] = q[i + 1]
  BY <1>3, HeadTailProperties
<1>10. DOMAIN Tail(q) = 1 .. Len(q) - 1
  BY <1>8
<1> HIDE DEF q
<1>11. \A i \in DOMAIN Tail(q) : i + 1 \in DOMAIN q /\ i # 0 /\ Tail(q)[i] = q[i + 1]
  BY <1>7, <1>8, <1>9, <1>10
<1>12. \A i \in DOMAIN q : i # 1 => i - 1 \in DOMAIN Tail(q) /\ Tail(q)[i - 1] = q[i]
  BY <1>7, <1>8, <1>9, <1>10
<1>13. DOMAIN Tail(q) \subseteq Nat
  BY <1>10
<1> QED
  BY <1>1, <1>4, <1>5, <1>6, <1>11, <1>12, <1>13 DEF q

\* The sync functions keep the types of what they write.
LEMMA SyncfuncTypes ==
  ASSUME TypeInv, NEW t \in Threads, cur[t] \in DOMAIN calls, GroupRuns(t)
  PROVE  /\ prev_snap_txg' \in [Datasets -> Nat]
         /\ snapnames' \in [Datasets -> [Names -> Snapshots \cup {NoSnap}]]
         /\ objs' \in SUBSET Snapshots
<1> USE DEF TypeInv
<1> DEFINE c == cur[t]
           D == RunsTasks(c)
           N == [Names -> Snapshots \cup {NoSnap}]
<1>1. D \subseteq Tasks(c) /\ Tasks(c) \subseteq Datasets
  BY TaskTypes DEF RunsTasks
<1>2. calls[c].name \in Names /\ \A d \in Tasks(c) : calls[c].obj[d] \in Snapshots \cup {NoSnap}
  BY TaskTypes
<1>3. c \in Nat /\ Txg \in Nat
  BY DEF ThreadTypes, GroupTypes, Txg
<1>4. \A d \in Datasets : SnapshotOf(c, d) \in Snapshots
  BY <1>3 DEF SnapshotOf, Snapshots, MosTypes
<1>5. \A d \in Datasets : snapnames[d] \in N
  BY DEF MosTypes
<1>6. CASE SnapshotSync(c, D)
  <2>1. objs' \in SUBSET Snapshots
    BY <1>1, <1>4, <1>6 DEF SnapshotSync, MosTypes
  <2>2. prev_snap_txg' \in [Datasets -> Nat]
    BY <1>3, <1>6 DEF SnapshotSync, MosTypes
  <2>3. \A d \in Datasets : zap_add(snapnames[d], calls[c].name, SnapshotOf(c, d)) \in N
    BY <1>2, <1>4, <1>5 DEF zap_add
  <2>4. snapnames' \in [Datasets -> N]
    BY <1>5, <1>6, <2>3 DEF SnapshotSync
  <2> QED
    BY <2>1, <2>2, <2>4
<1>7. CASE RenameSync(c, D)
  <2>1. \A d \in Datasets : zap_remove(snapnames[d], calls[c].obj[d]) \in N
    BY <1>5 DEF zap_remove
  <2>2. \A d \in D : zap_add(zap_remove(snapnames[d], calls[c].obj[d]), calls[c].name, calls[c].obj[d]) \in N
    BY <1>1, <1>2, <2>1 DEF zap_add
  <2>3. snapnames' \in [Datasets -> N]
    BY <1>5, <1>7, <2>2 DEF RenameSync
  <2> QED
    BY <1>7, <2>3 DEF RenameSync, MosTypes
<1> QED
  BY <1>6, <1>7 DEF GroupRuns, syncfuncs

\* ThreadTypes is inductive with the other types.
LEMMA ThreadTypesHold ==
  ASSUME TypeInv, [Next]_vars, CallInv, EventsQueued
  PROVE  ThreadTypes'
<1> USE DEF TypeInv
<1>1. ASSUME NEW t \in Threads, NEW d \in Datasets, WriteBegin(t, d) PROVE ThreadTypes'
  <2>1. Len(writes) \in Nat
    BY DEF ThreadTypes
  <2>2. wr' \in [Threads -> [ds : Datasets \cup {NoSnap}, before : Nat]] /\ wr'[t].ds \in Datasets
    BY <1>1, <2>1 DEF WriteBegin, ThreadTypes
  <2>3. \A u \in Threads : pc'[u] = "write" => wr'[u].ds \in Datasets
    BY <1>1, <2>2 DEF WriteBegin, ThreadTypes
  <2>4. pc' \in [Threads -> Pcs]
    BY <1>1 DEF WriteBegin, ThreadTypes, Pcs
  <2> QED
    BY <1>1, <2>2, <2>3, <2>4 DEF WriteBegin, ThreadTypes, call_vars
<1>2. ASSUME NEW t \in Threads, WriteEnd(t) PROVE ThreadTypes'
  <2>1. NoWrite \in [ds : Datasets \cup {NoSnap}, before : Nat]
    BY DEF NoWrite
  <2>2. wr' \in [Threads -> [ds : Datasets \cup {NoSnap}, before : Nat]]
    BY <1>2, <2>1 DEF WriteEnd, ThreadTypes
  <2>3. \A u \in Threads : pc'[u] = "write" => wr'[u].ds \in Datasets
    BY <1>2 DEF WriteEnd, ThreadTypes
  <2>4. pc' \in [Threads -> Pcs]
    BY <1>2 DEF WriteEnd, ThreadTypes, Pcs
  <2>5. [ds |-> wr[t].ds, txg |-> active[t], before |-> wr[t].before] \in Writes
    BY <1>2 DEF WriteEnd, ThreadTypes, GroupTypes, Writes
  <2>6. writes' \in Seq(Writes)
    BY <1>2, <2>5 DEF WriteEnd, ThreadTypes
  <2> QED
    BY <1>2, <2>2, <2>3, <2>4, <2>6 DEF WriteEnd, ThreadTypes, call_vars
<1>3. ASSUME NEW t \in Threads, dsl_sync_task_group_nowait(t) PROVE ThreadTypes'
  <2>1. [txg |-> active[t], live |-> TRUE] \in Events
    BY DEF Events, GroupTypes
  <2>2. events' \in Seq(Events)
    BY <1>3, <2>1 DEF dsl_sync_task_group_nowait, ThreadTypes
  <2> QED
    BY <1>3, <2>2 DEF dsl_sync_task_group_nowait, ThreadTypes, call_vars, wait_vars
<1>4. ASSUME NEW t \in Threads, NEW k \in {"snapshot", "rename"}, NEW n \in Names,
             NEW D \in SUBSET Datasets, NEW o \in [D -> Snapshots \cup {NoSnap}],
             Call(t, k, n, o)
      PROVE ThreadTypes'
  <2>1. Len(writes) \in Nat /\ Len(calls) + 1 \in Nat
    BY DEF ThreadTypes
  <2>2. [kind |-> k, name |-> n, obj |-> o, before |-> Len(writes)] \in Calls
    BY <2>1 DEF Calls
  <2>3. calls' \in Seq(Calls)
    BY <1>4, <2>2 DEF Call, ThreadTypes
  <2>4. res' \in Seq(Errs \cup {"none"})
    BY <1>4 DEF Call, ThreadTypes
  <2>5. pc' \in [Threads -> Pcs] /\ cur' \in [Threads -> Nat]
    BY <1>4, <2>1 DEF Call, ThreadTypes, Pcs
  <2>6. \A u \in Threads : pc'[u] = "write" => wr'[u].ds \in Datasets
    BY <1>4 DEF Call, ThreadTypes
  <2> QED
    BY <1>4, <2>3, <2>4, <2>5, <2>6 DEF Call, ThreadTypes
<1>5. ASSUME NEW t \in Threads, GroupWaitAssign(t) PROVE ThreadTypes'
  BY <1>5 DEF GroupWaitAssign, ThreadTypes, GroupTypes, Pcs, call_vars
<1>6. ASSUME NEW t \in Threads, NEW e \in Errs, cur[t] \in DOMAIN calls, Return(t, e), UNCHANGED <<writes, events, calls, wr>>
      PROVE ThreadTypes'
  <2>1. res' \in Seq(Errs \cup {"none"})
    BY <1>6 DEF Return, ThreadTypes, CallInv
  <2>2. pc' \in [Threads -> Pcs] /\ cur' \in [Threads -> Nat]
        /\ dstg_err' \in [Threads -> Errs] /\ tx_txg' \in [Threads -> Nat]
    BY <1>6 DEF Return, ThreadTypes, Pcs, Errs
  <2>3. \A u \in Threads : pc'[u] = "write" => wr'[u].ds \in Datasets
    BY <1>6 DEF Return, ThreadTypes
  <2> QED
    BY <1>6, <2>1, <2>2, <2>3 DEF ThreadTypes
<1>7. ASSUME NEW t \in Threads, GroupWaitCheck(t) PROVE ThreadTypes'
  <2>1. cur[t] \in DOMAIN calls
    BY <1>7 DEF GroupWaitCheck, CallInv, InCall
  <2>2. CASE \E e \in Errs : Return(t, e)
    BY <1>6, <1>7, <2>1, <2>2 DEF GroupWaitCheck
  <2>3. CASE /\ pc' = [pc EXCEPT ![t] = "commit"]
             /\ dstg_err' = [dstg_err EXCEPT ![t] = "0"]
             /\ UNCHANGED <<res, cur, tx_txg>>
    BY <1>7, <2>3 DEF GroupWaitCheck, ThreadTypes, Pcs, Errs
  <2>4. \A S : GroupErrors(cur[t], tx_txg[t], S) \subseteq Errs
    BY ErrorTypes
  <2> QED
    BY <1>7, <2>2, <2>3, <2>4 DEF GroupWaitCheck, Errs
<1>8. ASSUME NEW t \in Threads, GroupWaitCommit(t) PROVE ThreadTypes'
  BY <1>8 DEF GroupWaitCommit, ThreadTypes, Pcs, call_vars
<1>9. ASSUME NEW t \in Threads, GroupWaitSynced(t) PROVE ThreadTypes'
  <2>1. cur[t] \in DOMAIN calls /\ dstg_err[t] \in Errs
    BY <1>9 DEF GroupWaitSynced, CallInv, InCall, ThreadTypes
  <2>2. CASE Return(t, dstg_err[t])
    BY <1>6, <1>9, <2>1, <2>2 DEF GroupWaitSynced
  <2>3. CASE pc' = [pc EXCEPT ![t] = "defer"] /\ UNCHANGED <<res, cur, dstg_err, tx_txg>>
    BY <1>9, <2>3 DEF GroupWaitSynced, ThreadTypes, Pcs
  <2> QED
    BY <1>9, <2>2, <2>3 DEF GroupWaitSynced
<1>10. ASSUME NEW t \in Threads, GroupWaitAgain(t) PROVE ThreadTypes'
  BY <1>10 DEF GroupWaitAgain, ThreadTypes, Pcs, call_vars
<1>11. CASE UNCHANGED <<writes, events, call_vars, wait_vars, wr>>
  BY <1>11 DEF ThreadTypes, call_vars, wait_vars
<1>12. CASE dsl_sync_task_group_sync
  <2>1. CASE dstg_err' \in [Threads -> Errs] /\ UNCHANGED events
    BY <1>12, <2>1, GroupSyncFacts DEF ThreadTypes
  <2>2. CASE GroupRefused(Dstg)
    <3>1. dstg_err' \in [Threads -> Errs]
      BY <2>2 DEF GroupRefused, ThreadTypes, Errs
    <3> QED
      BY <2>1, <2>2, <3>1 DEF GroupRefused
  <2>3. CASE Dstg \in Threads /\ GroupRuns(Dstg)
    <3>1. SyncErrors(cur[Dstg]) \subseteq Errs
      BY ErrorTypes DEF SyncErrors
    <3>2. dstg_err' \in [Threads -> Errs]
      BY <2>3, <3>1 DEF GroupRuns, ThreadTypes
    <3> QED
      BY <2>1, <2>3, <3>2 DEF GroupRuns
  <2>4. CASE Dstg \notin Threads /\ EventRuns(Dstg)
    <3>1. Dstg \in DOMAIN events
      <4>1. Dstg \in Nat /\ On(Slot, Dstg) /\ Slot \in 0 .. TXG_SIZE - 1
        BY <1>12, <2>4, HeadIsOn, GroupSyncFacts DEF On
      <4> QED
        BY <4>1 DEF EventsQueued
    <3>2. events' \in Seq(Events)
      BY <2>4, <3>1, EventRunsFacts
    <3> QED
      BY <1>12, <2>4, <3>2, GroupSyncFacts DEF EventRuns, ThreadTypes
  <2> QED
    BY <1>12, <2>2, <2>3, <2>4, GroupSyncFacts
<1>13. CASE Crash
  <2>1. NoWrite \in [ds : Datasets \cup {NoSnap}, before : Nat]
    BY DEF NoWrite
  <2> QED
    BY <1>13, <2>1, CrashWrites, CrashEvents, CrashThreads DEF ThreadTypes, Pcs, Errs
<1>14. ASSUME NEW t \in Threads, NEW D \in Targets, NEW n \in Names, dmu_objset_snapshot(t, D, n)
       PROVE ThreadTypes'
  <2>1. D \in SUBSET Datasets
    BY SyncTaskAssumption
  <2> QED
    BY <1>4, <1>14, <2>1 DEF dmu_objset_snapshot
<1>15. ASSUME NEW t \in Threads, NEW D \in SUBSET Datasets, NEW old \in Names, NEW new \in Names,
              dsl_recursive_rename(t, D, old, new)
       PROVE ThreadTypes'
  <2>1. [d \in D |-> snapnames[d][old]] \in [D -> Snapshots \cup {NoSnap}]
    BY DEF MosTypes
  <2> QED
    BY <1>4, <1>15, <2>1 DEF dsl_recursive_rename
<1>16. CASE SyncDatasets \/ Stabilize \/ Advance \/ UNCHANGED vars
  BY <1>11, <1>16, StabilizeFacts DEF SyncDatasets, Advance, vars
<1> QED
  BY <1>1, <1>2, <1>3, <1>5, <1>7, <1>8, <1>9, <1>10, <1>12, <1>13, <1>14, <1>15, <1>16
     DEF Next, Progress, WaitStep, SyncStep

\* GroupInv is inductive.
LEMMA GroupInvHolds ==
  ASSUME TypeInv, GroupInv, [Next]_vars
  PROVE  GroupInv'
<1> USE DEF TypeInv
<1> DEFINE P(u, a, c, x, st, op) ==
             /\ a[u] # 0 <=> c[u] \in InTx
             /\ a[u] # 0 => st < a[u] /\ a[u] <= op
             /\ c[u] \in {"check", "commit"} => x[u] = a[u]
             /\ c[u] = "wait" => x[u] <= op
<1>0. /\ open \in Nat /\ stable \in Nat /\ \A t \in Threads : active[t] \in Nat /\ tx_txg[t] \in Nat
      /\ active \in [Threads -> Nat] /\ tx_txg \in [Threads -> Nat] /\ pc \in [Threads -> Pcs]
  BY DEF GroupTypes, ThreadTypes
<1>1. ASSUME NEW t \in Threads, GC!Begin(t), UNCHANGED datasets_synced,
             \/ pc' = [pc EXCEPT ![t] = "write"] /\ tx_txg' = tx_txg
             \/ pc' = [pc EXCEPT ![t] = "check"] /\ tx_txg' = [tx_txg EXCEPT ![t] = open]
      PROVE  GroupInv'
  <2>1. active' = [active EXCEPT ![t] = open] /\ open' = open /\ stable' = stable /\ active[t] = 0
    BY <1>1 DEF GC!Begin
  <2>2. datasets_synced => Quiesced'
    BY <1>0, <2>1 DEF GroupInv, Quiesced, Txg
  <2>3. ASSUME NEW u \in Threads PROVE P(u, active', pc', tx_txg', stable', open')
    <3>1. CASE u = t
      BY <1>0, <1>1, <2>1, <3>1 DEF GroupInv, InTx
    <3>2. CASE u # t
      BY <1>0, <1>1, <2>1, <3>2 DEF GroupInv, InTx
    <3> QED
      BY <3>1, <3>2
  <2> QED
    BY <1>1, <2>1, <2>2, <2>3 DEF GroupInv
<1>2. ASSUME NEW t \in Threads, GC!End(t), UNCHANGED datasets_synced,
             \/ pc' = [pc EXCEPT ![t] = "idle"]
                /\ (tx_txg' = tx_txg \/ tx_txg' = [tx_txg EXCEPT ![t] = 0])
             \/ pc' = [pc EXCEPT ![t] = "wait"] /\ tx_txg' = tx_txg /\ pc[t] = "commit"
      PROVE  GroupInv'
  <2>1. active' = [active EXCEPT ![t] = 0] /\ open' = open /\ stable' = stable
    BY <1>2 DEF GC!End
  <2>2. datasets_synced => Quiesced'
    BY <1>0, <2>1 DEF GroupInv, Quiesced, Txg
  <2>3. ASSUME NEW u \in Threads PROVE P(u, active', pc', tx_txg', stable', open')
    <3>1. CASE u = t
      BY <1>0, <1>2, <2>1, <3>1 DEF GroupInv, InTx
    <3>2. CASE u # t
      BY <1>0, <1>2, <2>1, <3>2 DEF GroupInv, InTx
    <3> QED
      BY <3>1, <3>2
  <2> QED
    BY <1>2, <2>1, <2>2, <2>3 DEF GroupInv
<1>3. ASSUME NEW t \in Threads, UNCHANGED <<open, stable, active, datasets_synced>>,
             \/ pc' = [pc EXCEPT ![t] = "commit"] /\ tx_txg' = tx_txg /\ pc[t] = "check"
             \/ pc' = [pc EXCEPT ![t] = "idle"] /\ tx_txg' = [tx_txg EXCEPT ![t] = 0]
                /\ pc[t] = "wait"
             \/ pc' = [pc EXCEPT ![t] = "defer"] /\ tx_txg' = tx_txg /\ pc[t] = "wait"
             \/ pc' = [pc EXCEPT ![t] = "top"] /\ pc[t] \in {"idle", "defer"}
                /\ (tx_txg' = tx_txg \/ tx_txg' = [tx_txg EXCEPT ![t] = 0])
      PROVE  GroupInv'
  <2>2. datasets_synced => Quiesced'
    BY <1>3 DEF GroupInv, Quiesced, Txg
  <2>3. ASSUME NEW u \in Threads PROVE P(u, active', pc', tx_txg', stable', open')
    <3>1. CASE u = t
      BY <1>0, <1>3, <3>1 DEF GroupInv, InTx
    <3>2. CASE u # t
      BY <1>0, <1>3, <3>2 DEF GroupInv, InTx
    <3> QED
      BY <3>1, <3>2
  <2> QED
    BY <1>3, <2>2, <2>3 DEF GroupInv
<1>4. CASE UNCHANGED <<open, stable, active, datasets_synced, pc, tx_txg>>
  BY <1>4 DEF GroupInv, Quiesced, Txg
<1>5. ASSUME NEW t \in Threads, GroupWaitCheck(t) PROVE GroupInv'
  BY <1>2, <1>3, <1>5 DEF GroupWaitCheck, Return, sync_vars, gc_vars
<1>6. ASSUME NEW t \in Threads, GroupWaitSynced(t) PROVE GroupInv'
  BY <1>3, <1>6 DEF GroupWaitSynced, Return, sync_vars, gc_vars
<1>7. ASSUME NEW t \in Threads, NEW k, NEW n, NEW o, Call(t, k, n, o) PROVE GroupInv'
  BY <1>3, <1>7 DEF Call, sync_vars, gc_vars
<1>8. CASE SyncDatasets
  BY <1>8 DEF SyncDatasets, GroupInv, Quiesced, Txg, gc_vars, wait_vars
<1>9. CASE dsl_sync_task_group_sync
  BY <1>4, <1>9, GroupSyncFacts
<1>10. CASE Stabilize
  <2>1. stable' = stable + 1 /\ open' = open /\ active' = active /\ ~datasets_synced'
    BY <1>10, StabilizeFacts DEF Txg
  <2>2. stable + 1 < open /\ \A t \in Threads : active[t] # stable + 1
    BY <1>10, StabilizeFacts DEF Quiesced, Txg
  <2>3. UNCHANGED <<pc, tx_txg>>
    BY <1>10, StabilizeFacts DEF wait_vars
  <2>4. ASSUME NEW u \in Threads PROVE P(u, active', pc', tx_txg', stable', open')
    BY <1>0, <2>1, <2>2, <2>3 DEF GroupInv
  <2> QED
    BY <1>0, <2>1, <2>2, <2>4 DEF GroupInv
<1>11. CASE Advance
  <2>1. open' = open + 1 /\ UNCHANGED <<stable, active, datasets_synced, pc, tx_txg>> /\ open < stable + 3
    BY <1>11 DEF Advance, GC!Advance, sync_vars, wait_vars
  <2>2. ASSUME NEW u \in Threads PROVE P(u, active', pc', tx_txg', stable', open')
    BY <1>0, <2>1 DEF GroupInv
  <2>3. datasets_synced => Quiesced'
    BY <1>0, <2>1 DEF GroupInv, Quiesced, Txg
  <2> QED
    BY <1>0, <2>1, <2>2, <2>3 DEF GroupInv
<1>12. CASE Crash
  <2>1. ASSUME NEW u \in Threads PROVE P(u, active', pc', tx_txg', stable', open')
    BY <1>12, CrashGroups, CrashThreads DEF InTx
  <2> QED
    BY <1>0, <1>12, <2>1, CrashGroups DEF GroupInv
<1>13. CASE UNCHANGED vars
  BY <1>4, <1>13 DEF vars, gc_vars, sync_vars, wait_vars
<1>14. ASSUME NEW t \in Threads, NEW d \in Datasets, WriteBegin(t, d) PROVE GroupInv'
  BY <1>1, <1>14 DEF WriteBegin, sync_vars
<1>15. ASSUME NEW t \in Threads, WriteEnd(t) PROVE GroupInv'
  BY <1>2, <1>15 DEF WriteEnd, sync_vars
<1>16. ASSUME NEW t \in Threads, dsl_sync_task_group_nowait(t) PROVE GroupInv'
  BY <1>4, <1>16 DEF dsl_sync_task_group_nowait, sync_vars, gc_vars, wait_vars
<1>17. ASSUME NEW t \in Threads, GroupWaitAssign(t) PROVE GroupInv'
  BY <1>1, <1>17 DEF GroupWaitAssign, sync_vars
<1>18. ASSUME NEW t \in Threads, GroupWaitCommit(t) PROVE GroupInv'
  BY <1>2, <1>18 DEF GroupWaitCommit, sync_vars
<1>19. ASSUME NEW t \in Threads, GroupWaitAgain(t) PROVE GroupInv'
  BY <1>3, <1>19 DEF GroupWaitAgain, sync_vars, gc_vars
<1> QED
  BY <1>5, <1>6, <1>7, <1>8, <1>9, <1>10, <1>11, <1>12, <1>13, <1>14, <1>15, <1>16, <1>17,
     <1>18, <1>19
     DEF Next, Progress, WaitStep, SyncStep, dmu_objset_snapshot, dsl_recursive_rename

\* CallInv is inductive.
LEMMA CallInvHolds ==
  ASSUME TypeInv, GroupInv, CallInv, [Next]_vars
  PROVE  CallInv'
<1> USE DEF TypeInv
<1>0. /\ pc \in [Threads -> Pcs] /\ cur \in [Threads -> Nat]
      /\ Len(calls) \in Nat /\ DOMAIN calls = 1 .. Len(calls) /\ DOMAIN res = 1 .. Len(res)
  BY DEF ThreadTypes
<1>1. CASE UNCHANGED <<calls, res, cur, pc>>
  BY <1>1 DEF CallInv
<1>2. ASSUME NEW t \in Threads, NEW y \in Pcs, pc' = [pc EXCEPT ![t] = y],
             UNCHANGED <<calls, res, cur>>, pc[t] \in InCall <=> y \in InCall
      PROVE  CallInv'
  BY <1>0, <1>2 DEF CallInv
<1>3. ASSUME NEW t \in Threads, NEW e, Return(t, e), UNCHANGED calls, pc[t] \in InCall
      PROVE  CallInv'
  <2>1. cur[t] # 0 /\ cur[t] \in DOMAIN calls
    BY <1>3 DEF CallInv
  <2>2. Len(res') = Len(res) /\ \A c \in DOMAIN res : c # cur[t] => res'[c] = res[c]
    BY <1>0, <1>3, <2>1 DEF Return, ThreadTypes, CallInv
  <2>3. /\ pc'[t] = "idle" /\ cur'[t] = 0
        /\ \A u \in Threads : u # t => pc'[u] = pc[u] /\ cur'[u] = cur[u]
    BY <1>0, <1>3 DEF Return
  <2>4. \A u \in Threads : u # t => cur[u] # cur[t]
    BY <2>1 DEF CallInv
  <2>5. ASSUME NEW u \in Threads
        PROVE  /\ cur'[u] # 0 <=> pc'[u] \in InCall
               /\ cur'[u] # 0 => cur'[u] \in DOMAIN calls' /\ res'[cur'[u]] = "none"
               /\ \A v \in Threads : cur'[u] # 0 /\ cur'[v] = cur'[u] => v = u
    <3>1. CASE u = t
      BY <2>3, <3>1 DEF InCall
    <3>2. CASE u # t
      BY <1>0, <1>3, <2>2, <2>3, <2>4, <3>2 DEF CallInv
    <3> QED
      BY <3>1, <3>2
  <2> QED
    BY <1>3, <2>2, <2>5 DEF CallInv
<1>4. ASSUME NEW t \in Threads, NEW k, NEW n, NEW o, Call(t, k, n, o) PROVE CallInv'
  <2> DEFINE x == [kind |-> k, name |-> n, obj |-> o, before |-> Len(writes)]
  <2>1. calls' = Append(calls, x) /\ res' = Append(res, "none")
    BY <1>4 DEF Call
  <2>2. Len(calls') = Len(calls) + 1 /\ DOMAIN calls' = 1 .. Len(calls) + 1
    BY <2>1 DEF ThreadTypes
  <2>3. Len(res') = Len(res) + 1 /\ res'[Len(res) + 1] = "none"
        /\ \A c \in DOMAIN res : res'[c] = res[c]
    BY <2>1 DEF ThreadTypes
  <2>4. /\ pc'[t] = "top" /\ cur'[t] = Len(calls) + 1
        /\ \A u \in Threads : u # t => pc'[u] = pc[u] /\ cur'[u] = cur[u]
    BY <1>0, <1>4 DEF Call
  <2>5. \A u \in Threads : cur[u] \in 0 .. Len(calls)
    BY <1>0 DEF CallInv
  <2>6. ASSUME NEW u \in Threads
        PROVE  /\ cur'[u] # 0 <=> pc'[u] \in InCall
               /\ cur'[u] # 0 => cur'[u] \in DOMAIN calls' /\ res'[cur'[u]] = "none"
               /\ \A v \in Threads : cur'[u] # 0 /\ cur'[v] = cur'[u] => v = u
    <3>1. CASE u = t
      BY <1>0, <2>2, <2>3, <2>4, <2>5, <3>1 DEF InCall, CallInv
    <3>2. CASE u # t
      BY <1>0, <2>2, <2>3, <2>4, <2>5, <3>2 DEF CallInv
    <3> QED
      BY <3>1, <3>2
  <2> QED
    BY <2>2, <2>3, <2>6 DEF CallInv
<1>5. ASSUME NEW t \in Threads, GroupWaitCheck(t) PROVE CallInv'
  <2>1. pc[t] = "check" /\ "commit" \in Pcs
    BY <1>5 DEF GroupWaitCheck, Pcs
  <2>2. CASE pc' = [pc EXCEPT ![t] = "commit"] /\ UNCHANGED <<res, cur>>
    BY <1>2, <1>5, <2>1, <2>2 DEF GroupWaitCheck, InCall
  <2> QED
    BY <1>3, <1>5, <2>1, <2>2 DEF GroupWaitCheck, InCall
<1>6. ASSUME NEW t \in Threads, GroupWaitSynced(t) PROVE CallInv'
  <2>1. pc[t] = "wait" /\ "defer" \in Pcs
    BY <1>6 DEF GroupWaitSynced, Pcs
  <2>2. CASE pc' = [pc EXCEPT ![t] = "defer"] /\ UNCHANGED <<res, cur>>
    BY <1>2, <1>6, <2>1, <2>2 DEF GroupWaitSynced, InCall
  <2> QED
    BY <1>3, <1>6, <2>1, <2>2 DEF GroupWaitSynced, InCall
<1>7. CASE SyncDatasets \/ Advance \/ UNCHANGED vars
  BY <1>1, <1>7 DEF SyncDatasets, Advance, vars, call_vars, wait_vars
<1>8. CASE Stabilize
  BY <1>1, <1>8, StabilizeFacts DEF call_vars, wait_vars
<1>9. CASE dsl_sync_task_group_sync
  BY <1>1, <1>9, GroupSyncFacts
<1>10. CASE Crash
  BY <1>10, CrashThreads DEF CallInv, InCall
<1>11. ASSUME NEW t \in Threads, NEW d \in Datasets, WriteBegin(t, d) PROVE CallInv'
  BY <1>2, <1>11 DEF WriteBegin, call_vars, InCall, Pcs
<1>12. ASSUME NEW t \in Threads, WriteEnd(t) PROVE CallInv'
  BY <1>2, <1>12 DEF WriteEnd, call_vars, InCall, Pcs
<1>13. ASSUME NEW t \in Threads, dsl_sync_task_group_nowait(t) PROVE CallInv'
  BY <1>1, <1>13 DEF dsl_sync_task_group_nowait, call_vars, wait_vars
<1>14. ASSUME NEW t \in Threads, GroupWaitAssign(t) PROVE CallInv'
  BY <1>2, <1>14 DEF GroupWaitAssign, call_vars, InCall, Pcs
<1>15. ASSUME NEW t \in Threads, GroupWaitCommit(t) PROVE CallInv'
  BY <1>2, <1>15 DEF GroupWaitCommit, call_vars, InCall, Pcs
<1>16. ASSUME NEW t \in Threads, GroupWaitAgain(t) PROVE CallInv'
  BY <1>2, <1>16 DEF GroupWaitAgain, call_vars, InCall, Pcs
<1> QED
  BY <1>4, <1>5, <1>6, <1>7, <1>8, <1>9, <1>10, <1>11, <1>12, <1>13, <1>14, <1>15, <1>16
     DEF Next, Progress, WaitStep, SyncStep, dmu_objset_snapshot, dsl_recursive_rename

\* Groups less than TXG_SIZE apart have different slots.
LEMMA SlotsApart ==
  ASSUME NEW a \in Nat, NEW b \in Nat, a <= b, b < a + TXG_SIZE, a % TXG_SIZE = b % TXG_SIZE
  PROVE  a = b
  BY DEF TXG_SIZE

\* txg_list_add() puts the task group first, the others move down.
LEMMA AddFacts ==
  ASSUME GroupTypes, NEW x \in Threads \cup Nat, NEW txg \in Nat, txg_list_add(x, txg)
  PROVE  /\ txg % TXG_SIZE \in DOMAIN dp_sync_tasks
         /\ DOMAIN dp_sync_tasks' = DOMAIN dp_sync_tasks
         /\ \A g \in DOMAIN dp_sync_tasks : g # txg % TXG_SIZE =>
              dp_sync_tasks'[g] = dp_sync_tasks[g]
         /\ DOMAIN dp_sync_tasks[txg % TXG_SIZE] \subseteq Nat
         /\ 1 \in DOMAIN dp_sync_tasks'[txg % TXG_SIZE]
         /\ dp_sync_tasks'[txg % TXG_SIZE][1] = x
         /\ \A i \in DOMAIN dp_sync_tasks'[txg % TXG_SIZE] : i # 1 =>
              /\ i - 1 \in DOMAIN dp_sync_tasks[txg % TXG_SIZE]
              /\ dp_sync_tasks'[txg % TXG_SIZE][i] = dp_sync_tasks[txg % TXG_SIZE][i - 1]
         /\ \A i \in DOMAIN dp_sync_tasks[txg % TXG_SIZE] :
              /\ i + 1 \in DOMAIN dp_sync_tasks'[txg % TXG_SIZE] /\ i # 0
              /\ dp_sync_tasks'[txg % TXG_SIZE][i + 1] = dp_sync_tasks[txg % TXG_SIZE][i]
<1> DEFINE g == txg % TXG_SIZE
           q == dp_sync_tasks[g]
           S == Threads \cup Nat
<1>1. g \in 0 .. TXG_SIZE - 1 /\ DOMAIN dp_sync_tasks = 0 .. TXG_SIZE - 1
  BY SlotTypes DEF GroupTypes
<1>2. dp_sync_tasks' = [dp_sync_tasks EXCEPT ![g] = <<x>> \o q]
  BY DEF txg_list_add
<1>3. q \in Seq(S) /\ <<x>> \in Seq(S) /\ Len(<<x>>) = 1 /\ <<x>>[1] = x
  BY <1>1 DEF GroupTypes
<1>4. dp_sync_tasks'[g] = <<x>> \o q /\ DOMAIN dp_sync_tasks' = DOMAIN dp_sync_tasks
      /\ \A h \in DOMAIN dp_sync_tasks : h # g => dp_sync_tasks'[h] = dp_sync_tasks[h]
  BY <1>1, <1>2
<1> HIDE DEF g, q, S
<1> DEFINE r == <<x>> \o q
<1>5. r \in Seq(S) /\ Len(r) = 1 + Len(q)
      /\ \A i \in 1 .. 1 + Len(q) : r[i] = IF i <= 1 THEN <<x>>[i] ELSE q[i - 1]
  BY <1>3, ConcatProperties
<1>6. DOMAIN q = 1 .. Len(q) /\ Len(q) \in Nat
  BY <1>3
<1>7. DOMAIN r = 1 .. 1 + Len(q)
  BY <1>5
<1> HIDE DEF r
<1>8. /\ DOMAIN q \subseteq Nat /\ 1 \in DOMAIN r /\ r[1] = x
      /\ \A i \in DOMAIN r : i # 1 => i - 1 \in DOMAIN q /\ r[i] = q[i - 1]
      /\ \A i \in DOMAIN q : i + 1 \in DOMAIN r /\ i # 0 /\ r[i + 1] = q[i]
  BY <1>3, <1>5, <1>6, <1>7
<1> QED
  BY <1>1, <1>4, <1>8 DEF g, q, r

\* So only the one that is added is on a list that it was not on.
LEMMA AddOn ==
  ASSUME GroupTypes, NEW x \in Threads \cup Nat, NEW txg \in Nat, txg_list_add(x, txg),
         NEW g \in 0 .. TXG_SIZE - 1, NEW y
  PROVE  /\ y # x => (On(g, y)' <=> On(g, y)) /\ (Unique(g, y) => Unique(g, y)')
         /\ On(g, x)' => On(g, x) \/ g = txg % TXG_SIZE
         /\ On(txg % TXG_SIZE, x)'
         /\ ~On(g, x) => Unique(g, x)'
<1> DEFINE s == txg % TXG_SIZE
           q == dp_sync_tasks[s]
           r == dp_sync_tasks'[s]
<1>1. /\ s \in DOMAIN dp_sync_tasks /\ DOMAIN dp_sync_tasks = 0 .. TXG_SIZE - 1
      /\ g # s => dp_sync_tasks'[g] = dp_sync_tasks[g]
  BY AddFacts DEF GroupTypes
<1>2. /\ DOMAIN q \subseteq Nat /\ 1 \in DOMAIN r /\ r[1] = x
      /\ \A i \in DOMAIN r : i # 1 => i - 1 \in DOMAIN q /\ r[i] = q[i - 1]
      /\ \A i \in DOMAIN q : i + 1 \in DOMAIN r /\ i # 0 /\ r[i + 1] = q[i]
  BY AddFacts
<1>3. DOMAIN r \subseteq Int
  <2>1. r \in Seq(Threads \cup Nat)
    BY <1>1, SlotTypes
  <2> QED
    BY <2>1
<1> HIDE DEF s, q, r
<1>4. CASE g # s
  BY <1>1, <1>2, <1>4 DEF On, Unique, s, r
<1>5. CASE g = s
  <2>1. ASSUME y # x PROVE On(g, y)' <=> On(g, y)
    <3>1. (\E i \in DOMAIN r : r[i] = y) <=> (\E i \in DOMAIN q : q[i] = y)
      <4>1. ASSUME NEW i \in DOMAIN r, r[i] = y PROVE \E k \in DOMAIN q : q[k] = y
        BY <1>2, <2>1, <4>1
      <4>2. ASSUME NEW i \in DOMAIN q, q[i] = y PROVE \E k \in DOMAIN r : r[k] = y
        BY <1>2, <4>2
      <4> QED
        BY <4>1, <4>2
    <3> QED
      BY <1>5, <3>1 DEF On, q, r
  <2>2. ASSUME y # x, Unique(g, y) PROVE Unique(g, y)'
    <3>1. ASSUME NEW i \in DOMAIN r, NEW j \in DOMAIN r, r[i] = y, r[j] = y PROVE i = j
      <4>1. i - 1 \in DOMAIN q /\ q[i - 1] = y /\ j - 1 \in DOMAIN q /\ q[j - 1] = y
        BY <1>2, <2>2, <3>1
      <4>2. i - 1 = j - 1
        BY <1>5, <2>2, <4>1 DEF Unique, q
      <4> QED
        BY <1>3, <4>2
    <3> QED
      BY <1>5, <3>1 DEF Unique, r
  <2>3. ASSUME ~On(g, x) PROVE Unique(g, x)'
    <3>1. \A i \in DOMAIN q : q[i] # x
      BY <1>5, <2>3 DEF On, q
    <3>2. ASSUME NEW i \in DOMAIN r, r[i] = x PROVE i = 1
      BY <1>2, <3>1, <3>2
    <3>3. \A i, j \in DOMAIN r : r[i] = x /\ r[j] = x => i = j
      BY <3>2
    <3> QED
      BY <1>5, <3>3 DEF Unique, r
  <2>4. On(s, x)'
    BY <1>2 DEF On, r
  <2> QED
    BY <1>5, <2>1, <2>2, <2>3, <2>4 DEF s
<1> QED
  BY <1>4, <1>5

\* dsl_sync_task_group_sync() takes its task group, and no other, off the lists.
LEMMA TakeOn ==
  ASSUME GroupTypes, dsl_sync_task_group_sync, NEW g \in 0 .. TXG_SIZE - 1, NEW y
  PROVE  /\ On(g, y)' => On(g, y)
         /\ Unique(g, y) => Unique(g, y)'
         /\ y # Dstg => (On(g, y) => On(g, y)')
         /\ Unique(Slot, Dstg) => ~(\E i \in DOMAIN dp_sync_tasks'[Slot] : dp_sync_tasks'[Slot][i] = Dstg)
<1> DEFINE q == dp_sync_tasks[Slot]
           r == dp_sync_tasks'[Slot]
<1>1. /\ g # Slot => dp_sync_tasks'[g] = dp_sync_tasks[g]
      /\ 1 \in DOMAIN q /\ q[1] = Dstg /\ DOMAIN r \subseteq Nat
      /\ \A i \in DOMAIN r : i + 1 \in DOMAIN q /\ i # 0 /\ r[i] = q[i + 1]
      /\ \A i \in DOMAIN q : i # 1 => i - 1 \in DOMAIN r /\ r[i - 1] = q[i]
  BY HeadIsOn DEF GroupTypes
<1> HIDE DEF q, r
<1>2. ASSUME Unique(Slot, Dstg), NEW i \in DOMAIN r, r[i] = Dstg PROVE FALSE
  <2>1. i + 1 = 1
    BY <1>1, <1>2 DEF Unique, q
  <2> QED
    BY <1>1, <2>1
<1>3. CASE g # Slot
  <2>1. dp_sync_tasks'[g] = dp_sync_tasks[g]
    BY <1>1, <1>3
  <2> QED
    BY <1>2, <2>1 DEF On, Unique, r
<1>4. CASE g = Slot
  <2>1. ASSUME NEW i \in DOMAIN r, r[i] = y PROVE \E k \in DOMAIN q : q[k] = y
    BY <1>1, <2>1
  <2>2. ASSUME y # Dstg, NEW i \in DOMAIN q, q[i] = y PROVE \E k \in DOMAIN r : r[k] = y
    BY <1>1, <2>2
  <2>3. ASSUME \A i, j \in DOMAIN q : q[i] = y /\ q[j] = y => i = j,
               NEW i \in DOMAIN r, NEW j \in DOMAIN r, r[i] = y, r[j] = y
        PROVE  i = j
    <3>1. i + 1 = j + 1
      BY <1>1, <2>3
    <3> QED
      BY <1>1, <3>1
  <2>4. On(g, y)' => On(g, y)
    BY <1>4, <2>1 DEF On, q, r
  <2>5. y # Dstg => (On(g, y) => On(g, y)')
    BY <1>4, <2>2 DEF On, q, r
  <2>6. Unique(g, y) => Unique(g, y)'
    BY <1>4, <2>3 DEF Unique, q, r
  <2> QED
    BY <1>2, <2>4, <2>5, <2>6 DEF r
<1> QED
  BY <1>3, <1>4

\* TasksQueued is inductive: a thread puts its group on a list when it is on none,
\* and is not told the result before the list of that transaction group is empty.
LEMMA TasksQueuedHold ==
  ASSUME TypeInv, GroupInv, TasksQueued, [Next]_vars
  PROVE  TasksQueued'
<1> USE DEF TypeInv
<1>0. /\ open \in Nat /\ stable \in Nat /\ tx_txg \in [Threads -> Nat] /\ pc \in [Threads -> Pcs]
      /\ dstg_err \in [Threads -> Errs]
  BY DEF GroupTypes, ThreadTypes
<1>1. ASSUME UNCHANGED <<dp_sync_tasks, stable>>,
             \A u \in Threads : pc[u] \in {"commit", "wait"} /\ tx_txg[u] > stable =>
               /\ tx_txg'[u] = tx_txg[u] /\ dstg_err'[u] = dstg_err[u]
               /\ pc'[u] \in {"commit", "wait"}
      PROVE  TasksQueued'
  BY <1>1 DEF TasksQueued, On, Unique
<1>2. ASSUME NEW t \in Threads, dsl_sync_task_group_nowait(t) PROVE TasksQueued'
  <2> DEFINE e == Len(events) + 1
  <2>1. e \in Nat /\ e \notin Threads /\ active[t] \in Nat
    BY SyncTaskAssumption DEF ThreadTypes, GroupTypes
  <2>2. txg_list_add(e, active[t])
    BY <1>2 DEF dsl_sync_task_group_nowait
  <2>3. UNCHANGED <<stable, pc, tx_txg, dstg_err>>
    BY <1>2 DEF dsl_sync_task_group_nowait, gc_vars, wait_vars
  <2> HIDE DEF e
  <2>4. \A u \in Threads, g \in 0 .. TXG_SIZE - 1 :
          (On(g, u)' <=> On(g, u)) /\ (Unique(g, u) => Unique(g, u)')
    BY <2>1, <2>2, AddOn
  <2> QED
    BY <2>3, <2>4 DEF TasksQueued
<1>3. ASSUME NEW t \in Threads, GroupWaitCheck(t) PROVE TasksQueued'
  <2>1. pc[t] = "check" /\ UNCHANGED stable
    BY <1>3 DEF GroupWaitCheck, GC!End, gc_vars
  <2>2. CASE UNCHANGED dp_sync_tasks /\ \E e : Return(t, e)
    BY <1>0, <1>1, <2>1, <2>2 DEF Return
  <2>3. CASE /\ pc' = [pc EXCEPT ![t] = "commit"]
             /\ dstg_err' = [dstg_err EXCEPT ![t] = "0"]
             /\ txg_list_add(t, tx_txg[t])
             /\ UNCHANGED tx_txg
    <3>1. \A g \in 0 .. TXG_SIZE - 1 : ~On(g, t)
      BY <2>1 DEF TasksQueued
    <3>2. tx_txg[t] \in Nat /\ t \in Threads \cup Nat
      BY <1>0
    <3>3. \A g \in 0 .. TXG_SIZE - 1 :
            (On(g, t)' => g = tx_txg[t] % TXG_SIZE) /\ Unique(g, t)'
      BY <2>3, <3>1, <3>2, AddOn
    <3>4. \A u \in Threads, g \in 0 .. TXG_SIZE - 1 : u # t =>
            (On(g, u)' <=> On(g, u)) /\ (Unique(g, u) => Unique(g, u)')
      BY <2>3, <3>2, AddOn
    <3>5. tx_txg[t] > stable
      BY <1>0, <2>1 DEF GroupInv, InTx
    <3>6. ASSUME NEW u \in Threads, NEW g \in 0 .. TXG_SIZE - 1, On(g, u)'
          PROVE  /\ g = tx_txg'[u] % TXG_SIZE /\ tx_txg'[u] > stable'
                 /\ pc'[u] \in {"commit", "wait"} /\ dstg_err'[u] = "0"
                 /\ Unique(g, u)'
      <4>1. CASE u = t
        BY <1>0, <2>1, <2>3, <3>3, <3>5, <3>6, <4>1
      <4>2. CASE u # t
        <5>1. On(g, u)
          BY <3>4, <3>6, <4>2
        <5> QED
          BY <1>0, <2>1, <2>3, <3>4, <4>2, <5>1 DEF TasksQueued
      <4> QED
        BY <4>1, <4>2
    <3> QED
      BY <3>6 DEF TasksQueued
  <2> QED
    BY <1>3, <2>2, <2>3 DEF GroupWaitCheck
<1>4. CASE dsl_sync_task_group_sync
  <2>1. Slot \in 0 .. TXG_SIZE - 1 /\ On(Slot, Dstg)
    BY <1>4, HeadIsOn, GroupSyncFacts DEF On
  <2>2. UNCHANGED <<stable, pc, tx_txg>>
    BY <1>4, GroupSyncFacts
  <2>3. \A u \in Threads : u # Dstg => dstg_err'[u] = dstg_err[u]
    BY <1>0, <1>4, GroupSyncFacts DEF GroupRefused, GroupRuns, EventRuns
  <2>4. ASSUME NEW u \in Threads, NEW g \in 0 .. TXG_SIZE - 1, On(g, u)' PROVE u # Dstg
    <3>1. SUFFICES ASSUME u = Dstg PROVE FALSE
      OBVIOUS
    <3>2. Unique(Slot, Dstg) /\ Slot = tx_txg[u] % TXG_SIZE
      BY <2>1, <3>1 DEF TasksQueued
    <3>3. On(g, u)
      BY <1>4, <2>4, TakeOn
    <3>4. g = Slot
      BY <3>2, <3>3 DEF TasksQueued
    <3> QED
      BY <1>4, <2>4, <3>1, <3>2, <3>4, TakeOn DEF On
  <2>5. \A u \in Threads, g \in 0 .. TXG_SIZE - 1 :
          (On(g, u)' => On(g, u)) /\ (Unique(g, u) => Unique(g, u)')
    BY <1>4, TakeOn
  <2> QED
    BY <2>2, <2>3, <2>4, <2>5 DEF TasksQueued
<1>5. CASE Stabilize
  <2>1. UNCHANGED <<dp_sync_tasks, pc, tx_txg, dstg_err>> /\ stable' = stable + 1
    BY <1>5, StabilizeFacts DEF wait_vars, Txg
  <2>2. \A u : ~On(Slot, u)
    BY <1>5, StabilizeFacts DEF On, Slot
  <2>3. ASSUME NEW u \in Threads, NEW g \in 0 .. TXG_SIZE - 1, On(g, u) PROVE tx_txg[u] # stable + 1
    BY <2>2, <2>3 DEF TasksQueued, Slot, Txg
  <2>4. \A u \in Threads, g \in 0 .. TXG_SIZE - 1 :
          (On(g, u)' <=> On(g, u)) /\ (Unique(g, u) <=> Unique(g, u)')
    BY <2>1 DEF On, Unique
  <2>5. ASSUME NEW u \in Threads, NEW g \in 0 .. TXG_SIZE - 1, On(g, u)'
        PROVE  /\ g = tx_txg'[u] % TXG_SIZE /\ tx_txg'[u] > stable'
               /\ pc'[u] \in {"commit", "wait"} /\ dstg_err'[u] = "0"
               /\ Unique(g, u)'
    <3>1. On(g, u)
      BY <2>4, <2>5
    <3>2. tx_txg[u] > stable /\ tx_txg[u] # stable + 1 /\ tx_txg[u] \in Nat
      BY <1>0, <2>3, <3>1 DEF TasksQueued
    <3>3. tx_txg[u] > stable + 1
      BY <1>0, <3>2
    <3> QED
      BY <2>1, <2>4, <3>1, <3>3 DEF TasksQueued
  <2> QED
    BY <2>5 DEF TasksQueued
<1>6. CASE Crash
  <2>1. \A g \in 0 .. TXG_SIZE - 1 : dp_sync_tasks'[g] = <<>>
    BY <1>6, CrashGroups
  <2>2. \A u \in Threads, g \in 0 .. TXG_SIZE - 1 : ~On(g, u)'
    BY <2>1 DEF On
  <2> QED
    BY <2>2 DEF TasksQueued
<1>7. CASE SyncDatasets \/ Advance \/ UNCHANGED vars
  BY <1>1, <1>7 DEF SyncDatasets, Advance, GC!Advance, vars, gc_vars, wait_vars
<1>8. ASSUME NEW t \in Threads, NEW d \in Datasets, WriteBegin(t, d) PROVE TasksQueued'
  BY <1>0, <1>1, <1>8 DEF WriteBegin, GC!Begin
<1>9. ASSUME NEW t \in Threads, WriteEnd(t) PROVE TasksQueued'
  BY <1>0, <1>1, <1>9 DEF WriteEnd, GC!End
<1>10. ASSUME NEW t \in Threads, NEW k, NEW n, NEW o, Call(t, k, n, o) PROVE TasksQueued'
  BY <1>0, <1>1, <1>10 DEF Call, gc_vars
<1>11. ASSUME NEW t \in Threads, GroupWaitAssign(t) PROVE TasksQueued'
  BY <1>0, <1>1, <1>11 DEF GroupWaitAssign, GC!Begin
<1>12. ASSUME NEW t \in Threads, GroupWaitCommit(t) PROVE TasksQueued'
  BY <1>0, <1>1, <1>12 DEF GroupWaitCommit, GC!End
<1>13. ASSUME NEW t \in Threads, GroupWaitSynced(t) PROVE TasksQueued'
  <2>1. UNCHANGED <<dp_sync_tasks, stable>> /\ ~(tx_txg[t] > stable)
    BY <1>0, <1>13 DEF GroupWaitSynced, Synced, gc_vars
  <2>2. \A u \in Threads : u # t => UNCHANGED <<pc[u], tx_txg[u], dstg_err[u]>>
    BY <1>0, <1>13 DEF GroupWaitSynced, Return
  <2> QED
    BY <1>1, <2>1, <2>2
<1>14. ASSUME NEW t \in Threads, GroupWaitAgain(t) PROVE TasksQueued'
  BY <1>0, <1>1, <1>14 DEF GroupWaitAgain, gc_vars
<1> QED
  BY <1>2, <1>3, <1>4, <1>5, <1>6, <1>7, <1>8, <1>9, <1>10, <1>11, <1>12, <1>13, <1>14
     DEF Next, Progress, WaitStep, SyncStep, dmu_objset_snapshot, dsl_recursive_rename

\* And it is QueuedOnce.
LEMMA TasksQueuedOnce ==
  ASSUME GroupTypes, TasksQueued
  PROVE  QueuedOnce
  BY DEF GroupTypes, TasksQueued, QueuedOnce, On, Unique

\* What TypeInv says of one event.
LEMMA EventTypes ==
  ASSUME ThreadTypes, NEW e \in DOMAIN events
  PROVE  events[e].txg \in Nat /\ events[e].live \in BOOLEAN /\ e \in Nat /\ e # 0
<1>1. events[e] \in Events /\ e \in 1 .. Len(events) /\ Len(events) \in Nat
  BY DEF ThreadTypes
<1> QED
  BY <1>1 DEF Events

\* EventInv is inductive.  An event leaves its list with its own group, because
\* the slots of the groups that are not on disk differ.
LEMMA EventInvHolds ==
  ASSUME TypeInv, GroupInv, EventInv, [Next]_vars
  PROVE  EventInv'
<1> USE DEF TypeInv
<1>0. open \in Nat /\ stable \in Nat
  BY DEF GroupTypes
<1>1. ASSUME UNCHANGED <<events, stable, history, mos_disk>>, open' \in Nat, open <= open',
             \A e \in Nat, g \in 0 .. TXG_SIZE - 1 :
               (On(g, e)' <=> On(g, e)) /\ (Unique(g, e) => Unique(g, e)')
      PROVE  EventInv'
  <2>1. EventsQueued'
    BY <1>1 DEF EventInv, EventsQueued
  <2>2. ASSUME NEW e \in DOMAIN events, events[e].live
        PROVE  /\ stable' < events'[e].txg /\ events'[e].txg <= open'
               /\ \A g \in 0 .. TXG_SIZE - 1 : g = events'[e].txg % TXG_SIZE => On(g, e)'
    <3>1. events[e].txg \in Nat /\ e \in Nat
      BY EventTypes
    <3>3. /\ stable < events[e].txg /\ events[e].txg <= open
          /\ \A g \in 0 .. TXG_SIZE - 1 : g = events[e].txg % TXG_SIZE => On(g, e)
      BY <2>2 DEF EventInv
    <3>4. events'[e].txg <= open'
      BY <1>0, <1>1, <3>1, <3>3
    <3>5. \A g \in 0 .. TXG_SIZE - 1 : g = events'[e].txg % TXG_SIZE => On(g, e)'
      BY <1>1, <3>1, <3>3
    <3> QED
      BY <1>1, <3>3, <3>4, <3>5
  <2> QED
    BY <1>1, <2>1, <2>2 DEF EventInv
<1>2. ASSUME UNCHANGED <<dp_sync_tasks, events, stable, history, mos_disk>>,
             open' \in Nat, open <= open'
      PROVE  EventInv'
  <2>1. \A e \in Nat, g \in 0 .. TXG_SIZE - 1 :
          (On(g, e)' <=> On(g, e)) /\ (Unique(g, e) => Unique(g, e)')
    BY <1>2 DEF On, Unique
  <2> QED
    BY <1>1, <1>2, <2>1
<1>3. ASSUME NEW t \in Threads, GroupWaitCheck(t) PROVE EventInv'
  <2>1. UNCHANGED <<events, stable, history, mos_disk, open>>
    BY <1>3 DEF GroupWaitCheck, GC!End, gc_vars, sync_vars, mos_vars
  <2>2. CASE UNCHANGED dp_sync_tasks
    BY <1>0, <1>2, <2>1, <2>2
  <2>3. CASE txg_list_add(t, tx_txg[t])
    <3>1. tx_txg[t] \in Nat /\ t \in Threads \cup Nat /\ t \notin Nat
      BY SyncTaskAssumption DEF ThreadTypes
    <3>2. \A e \in Nat, g \in 0 .. TXG_SIZE - 1 :
            (On(g, e)' <=> On(g, e)) /\ (Unique(g, e) => Unique(g, e)')
      BY <2>3, <3>1, AddOn
    <3> QED
      BY <1>0, <1>1, <2>1, <3>2
  <2> QED
    BY <1>3, <2>2, <2>3 DEF GroupWaitCheck
<1>4. ASSUME NEW t \in Threads, dsl_sync_task_group_nowait(t) PROVE EventInv'
  <2>0. PICK n \in Nat, a \in Nat : n = Len(events) + 1 /\ a = active[t]
    <3>1. Len(events) + 1 \in Nat /\ active[t] \in Nat
      BY DEF ThreadTypes, GroupTypes
    <3> QED
      BY <3>1
  <2> DEFINE ev == [txg |-> a, live |-> TRUE]
  <2>1. n \in Nat /\ n \notin DOMAIN events /\ DOMAIN events \subseteq Nat
    BY <2>0 DEF ThreadTypes
  <2>2. a \in Nat /\ stable < a /\ a <= open
    BY <1>4, <2>0 DEF dsl_sync_task_group_nowait, GroupInv, InTx, GroupTypes
  <2>3. UNCHANGED <<stable, open, history, mos_disk>>
    BY <1>4 DEF dsl_sync_task_group_nowait, gc_vars, sync_vars, mos_vars
  <2>4. events \in Seq(Events) /\ ev \in Events /\ events' = Append(events, ev)
    BY <1>4, <2>0, <2>2 DEF dsl_sync_task_group_nowait, ThreadTypes, Events
  <2>5. DOMAIN events' = DOMAIN events \cup {n} /\ events'[n] = ev
        /\ \A e \in DOMAIN events : events'[e] = events[e]
    BY <2>0, <2>4
  <2>6. txg_list_add(n, a)
    BY <1>4, <2>0 DEF dsl_sync_task_group_nowait
  <2>7. ev.txg = a /\ ev.live = TRUE
    OBVIOUS
  <2> HIDE DEF ev
  <2>8. \A e \in Nat, g \in 0 .. TXG_SIZE - 1 : e # n =>
          (On(g, e)' <=> On(g, e)) /\ (Unique(g, e) => Unique(g, e)')
    BY <2>1, <2>2, <2>6, AddOn
  <2>9. \A g \in 0 .. TXG_SIZE - 1 : ~On(g, n)
    BY <2>1 DEF EventInv, EventsQueued
  <2>10. a % TXG_SIZE \in 0 .. TXG_SIZE - 1
    BY <2>2 DEF TXG_SIZE
  <2>11. \A g \in 0 .. TXG_SIZE - 1 : (On(g, n)' => g = a % TXG_SIZE) /\ Unique(g, n)'
    BY <2>1, <2>2, <2>6, <2>9, AddOn
  <2>12. On(a % TXG_SIZE, n)'
    BY <2>1, <2>2, <2>6, <2>10, AddOn
  <2>13. EventsQueued'
    <3>1. ASSUME NEW e \in Nat, NEW g \in 0 .. TXG_SIZE - 1, On(g, e)'
          PROVE  /\ e \in DOMAIN events' /\ events'[e].live /\ events'[e].txg % TXG_SIZE = g
                 /\ Unique(g, e)'
      <4>1. CASE e = n
        BY <2>5, <2>7, <2>11, <3>1, <4>1
      <4>2. CASE e # n
        <5>1. On(g, e)
          BY <2>8, <3>1, <4>2
        <5>2. e \in DOMAIN events /\ events[e].live /\ events[e].txg % TXG_SIZE = g
              /\ Unique(g, e)
          BY <5>1 DEF EventInv, EventsQueued
        <5> QED
          BY <2>5, <2>8, <4>2, <5>2
      <4> QED
        BY <4>1, <4>2
    <3> QED
      BY <3>1 DEF EventsQueued
  <2>14. history' \subseteq DOMAIN events' /\ mos_disk'.history \subseteq DOMAIN events'
    BY <2>3, <2>5 DEF EventInv
  <2>15. ASSUME NEW e \in DOMAIN events'
         PROVE  /\ events'[e].live => /\ stable' < events'[e].txg /\ events'[e].txg <= open'
                                      /\ \A g \in 0 .. TXG_SIZE - 1 : g = events'[e].txg % TXG_SIZE => On(g, e)'
                /\ ~events'[e].live => events'[e].txg <= stable' + 1
                /\ e \in history' <=> ~events'[e].live /\ events'[e].txg # 0
                /\ e \in mos_disk'.history <=> events'[e].txg \in 1 .. stable'
    <3>1. CASE e = n
      <4>1. n \notin history' /\ n \notin mos_disk'.history
        BY <2>1, <2>3 DEF EventInv
      <4>2. a \notin 1 .. stable'
        BY <1>0, <2>2, <2>3
      <4> QED
        BY <2>2, <2>3, <2>5, <2>7, <2>12, <3>1, <4>1, <4>2
    <3>2. CASE e # n
      <4>1. e \in DOMAIN events /\ events'[e] = events[e] /\ e \in Nat
        BY <2>1, <2>5, <3>2
      <4>2. events[e].txg \in Nat
        BY <4>1, EventTypes
      <4>4. events[e].live =>
              \A g \in 0 .. TXG_SIZE - 1 : g = events[e].txg % TXG_SIZE => On(g, e)'
        BY <2>8, <3>2, <4>1 DEF EventInv
      <4>5. events'[e].live =>
              \A g \in 0 .. TXG_SIZE - 1 : g = events'[e].txg % TXG_SIZE => On(g, e)'
        BY <4>1, <4>4
      <4> QED
        BY <2>3, <4>1, <4>5 DEF EventInv
    <3> QED
      BY <3>1, <3>2
  <2> QED
    BY <2>13, <2>14, <2>15 DEF EventInv
<1>5. CASE dsl_sync_task_group_sync
  <2>1. UNCHANGED <<stable, open, mos_disk>> /\ Slot \in 0 .. TXG_SIZE - 1
    BY <1>5, GroupSyncFacts
  <2>2. On(Slot, Dstg) /\ Dstg \in Threads \cup Nat
    BY <1>5, HeadIsOn DEF On
  <2>3. CASE Dstg \in Threads
    <3>1. \A e \in Nat : e # Dstg
      BY <2>3, SyncTaskAssumption
    <3>2. \A e \in Nat, g \in 0 .. TXG_SIZE - 1 :
            (On(g, e)' <=> On(g, e)) /\ (Unique(g, e) => Unique(g, e)')
      BY <1>5, <3>1, TakeOn
    <3>3. UNCHANGED <<events, history>>
      BY <1>5, <2>3, GroupSyncFacts DEF GroupRefused, GroupRuns, mos_vars
    <3> QED
      BY <1>0, <1>1, <2>1, <3>2, <3>3
  <2>4. CASE Dstg \notin Threads
    <3>0. PICK n \in Nat, s \in 0 .. TXG_SIZE - 1 : n = Dstg /\ s = Slot
      BY <2>1, <2>2, <2>4
    <3>1. EventRuns(n)
      BY <1>5, <2>2, <2>4, <3>0, GroupSyncFacts DEF GroupRefused, MayRefuse
    <3>2. n \in DOMAIN events /\ events[n].live /\ events[n].txg % TXG_SIZE = s
          /\ Unique(s, n)
      BY <2>2, <3>0 DEF EventInv, EventsQueued
    <3>3. events[n].txg \in Nat
      BY <3>2, EventTypes
    <3>4. events[n].txg = stable + 1
      <4>1. stable < events[n].txg /\ events[n].txg <= open /\ open <= stable + 3
        BY <3>2 DEF EventInv, GroupInv
      <4>2. stable + 1 \in Nat /\ stable + 1 <= events[n].txg
            /\ events[n].txg < stable + 1 + TXG_SIZE
        BY <1>0, <3>3, <4>1 DEF TXG_SIZE
      <4> QED
        BY <3>0, <3>2, <3>3, <4>2, SlotsApart DEF Slot, Txg
    <3>5. /\ DOMAIN events' = DOMAIN events
          /\ events'[n].live = FALSE /\ events'[n].txg = events[n].txg
          /\ \A e \in DOMAIN events : e # n => events'[e] = events[e]
      BY <3>1, <3>2, EventRunsFacts
    <3>6. history' = history \cup {n}
      BY <3>1 DEF EventRuns
    <3>7. \A e \in Nat, g \in 0 .. TXG_SIZE - 1 :
            /\ On(g, e)' => On(g, e)
            /\ Unique(g, e) => Unique(g, e)'
            /\ e # n => (On(g, e) => On(g, e)')
      BY <1>5, <3>0, TakeOn
    <3>8. ~On(s, n)'
      BY <1>5, <2>1, <3>0, <3>2, TakeOn DEF On
    <3>9. EventsQueued'
      <4>1. ASSUME NEW e \in Nat, NEW g \in 0 .. TXG_SIZE - 1, On(g, e)'
            PROVE  /\ e \in DOMAIN events' /\ events'[e].live /\ events'[e].txg % TXG_SIZE = g
                   /\ Unique(g, e)'
        <5>1. On(g, e)
          BY <3>7, <4>1
        <5>2. e \in DOMAIN events /\ events[e].live /\ events[e].txg % TXG_SIZE = g
              /\ Unique(g, e)
          BY <5>1 DEF EventInv, EventsQueued
        <5>3. e # n
          BY <3>2, <3>8, <4>1, <5>2
        <5> QED
          BY <3>5, <3>7, <5>2, <5>3
      <4> QED
        BY <4>1 DEF EventsQueued
    <3>10. history' \subseteq DOMAIN events' /\ mos_disk'.history \subseteq DOMAIN events'
      BY <2>1, <3>2, <3>5, <3>6 DEF EventInv
    <3>11. ASSUME NEW e \in DOMAIN events
           PROVE  /\ events'[e].live => /\ stable' < events'[e].txg /\ events'[e].txg <= open'
                                        /\ \A g \in 0 .. TXG_SIZE - 1 : g = events'[e].txg % TXG_SIZE => On(g, e)'
                  /\ ~events'[e].live => events'[e].txg <= stable' + 1
                  /\ e \in history' <=> ~events'[e].live /\ events'[e].txg # 0
                  /\ e \in mos_disk'.history <=> events'[e].txg \in 1 .. stable'
      <4>1. CASE e = n
        <5>1. e \in mos_disk.history <=> events[e].txg \in 1 .. stable
          BY DEF EventInv
        <5>2. events[n].txg # 0 /\ events[n].txg <= stable + 1
          BY <1>0, <3>4
        <5> QED
          BY <2>1, <3>5, <3>6, <4>1, <5>1, <5>2
      <4>2. CASE e # n
        <5>1. events'[e] = events[e] /\ events[e].txg \in Nat /\ e \in Nat
          BY <3>5, <4>2, EventTypes
        <5>3. events[e].live =>
                \A g \in 0 .. TXG_SIZE - 1 : g = events[e].txg % TXG_SIZE => On(g, e)'
          BY <3>7, <4>2, <5>1 DEF EventInv
        <5>4. events'[e].live =>
                \A g \in 0 .. TXG_SIZE - 1 : g = events'[e].txg % TXG_SIZE => On(g, e)'
          BY <5>1, <5>3
        <5> QED
          BY <2>1, <3>6, <4>2, <5>1, <5>4 DEF EventInv
      <4> QED
        BY <4>1, <4>2
    <3> QED
      BY <3>5, <3>9, <3>10, <3>11 DEF EventInv
  <2> QED
    BY <2>3, <2>4
<1>6. CASE Stabilize
  <2>1. /\ UNCHANGED <<dp_sync_tasks, events, open, history>> /\ stable' = stable + 1
        /\ mos_disk'.history = history
    BY <1>6, StabilizeFacts DEF Txg
  <2>2. \A e : ~On(Slot, e)
    BY <1>6, StabilizeFacts DEF On, Slot
  <2>3. EventsQueued'
    BY <2>1 DEF EventInv, EventsQueued, On, Unique
  <2>4. ASSUME NEW e \in DOMAIN events
        PROVE  /\ events'[e].live => /\ stable' < events'[e].txg /\ events'[e].txg <= open'
                                     /\ \A g \in 0 .. TXG_SIZE - 1 : g = events'[e].txg % TXG_SIZE => On(g, e)'
               /\ ~events'[e].live => events'[e].txg <= stable' + 1
               /\ e \in history' <=> ~events'[e].live /\ events'[e].txg # 0
               /\ e \in mos_disk'.history <=> events'[e].txg \in 1 .. stable'
    <3>1. events[e].txg \in Nat /\ events[e].live \in BOOLEAN
      BY EventTypes
    <3>2. events[e].live => events[e].txg # stable + 1
      <4>1. Slot \in 0 .. TXG_SIZE - 1 /\ Slot = (stable + 1) % TXG_SIZE
        BY <1>0 DEF Slot, Txg, TXG_SIZE
      <4> QED
        BY <2>2, <4>1 DEF EventInv
    <3>3. /\ events[e].live => stable < events[e].txg /\ events[e].txg <= open
          /\ ~events[e].live => events[e].txg <= stable + 1
          /\ e \in history <=> ~events[e].live /\ events[e].txg # 0
      BY DEF EventInv
    <3>4. events[e].live =>
            \A g \in 0 .. TXG_SIZE - 1 : g = events'[e].txg % TXG_SIZE => On(g, e)'
      BY <2>1 DEF EventInv, On
    <3>5. events[e].live => stable + 1 < events[e].txg
      BY <1>0, <3>1, <3>2, <3>3
    <3>6. ~events[e].live => events[e].txg <= stable + 1 + 1
      BY <1>0, <3>1, <3>3
    <3>7. e \in history <=> events[e].txg \in 1 .. stable + 1
      BY <1>0, <3>1, <3>3, <3>5
    <3> QED
      BY <2>1, <3>3, <3>4, <3>5, <3>6, <3>7
  <2> QED
    BY <2>1, <2>3, <2>4 DEF EventInv
<1>7. CASE Crash
  <2>1. \A g \in 0 .. TXG_SIZE - 1 : dp_sync_tasks'[g] = <<>>
    BY <1>7, CrashGroups
  <2>2. EventsQueued'
    BY <2>1 DEF EventsQueued, On
  <2>3. stable' = stable /\ history' = mos_disk.history /\ mos_disk' = mos_disk
    BY <1>7, CrashGroups
  <2>4. DOMAIN events' = DOMAIN events
        /\ \A e \in DOMAIN events :
              /\ ~events'[e].live
              /\ events'[e].txg = IF events[e].txg <= stable THEN events[e].txg ELSE 0
    BY <1>7, CrashEvents
  <2>5. ASSUME NEW e \in DOMAIN events
        PROVE  /\ ~events'[e].live
               /\ events'[e].txg <= stable' + 1
               /\ e \in history' <=> events'[e].txg # 0
               /\ e \in mos_disk'.history <=> events'[e].txg \in 1 .. stable'
    <3>1. events[e].txg \in Nat
      BY EventTypes
    <3>2. e \in mos_disk.history <=> events[e].txg \in 1 .. stable
      BY DEF EventInv
    <3>3. events'[e].txg \in Nat /\ events'[e].txg <= stable
          /\ (events'[e].txg # 0 <=> events[e].txg \in 1 .. stable)
          /\ (events'[e].txg \in 1 .. stable <=> events[e].txg \in 1 .. stable)
      BY <1>0, <2>4, <3>1
    <3> QED
      BY <1>0, <2>3, <2>4, <3>2, <3>3
  <2>6. history' \subseteq DOMAIN events' /\ mos_disk'.history \subseteq DOMAIN events'
    BY <2>3, <2>4 DEF EventInv
  <2> QED
    BY <2>2, <2>4, <2>5, <2>6 DEF EventInv
<1>8. CASE SyncDatasets \/ UNCHANGED vars
  BY <1>0, <1>2, <1>8 DEF SyncDatasets, vars, gc_vars, sync_vars, mos_vars
<1>9. CASE Advance
  BY <1>0, <1>2, <1>9 DEF Advance, GC!Advance, sync_vars, mos_vars
<1>10. ASSUME NEW t \in Threads, NEW d \in Datasets, WriteBegin(t, d) PROVE EventInv'
  BY <1>0, <1>2, <1>10 DEF WriteBegin, GC!Begin, sync_vars, mos_vars
<1>11. ASSUME NEW t \in Threads, WriteEnd(t) PROVE EventInv'
  BY <1>0, <1>2, <1>11 DEF WriteEnd, GC!End, sync_vars, mos_vars
<1>12. ASSUME NEW t \in Threads, NEW k, NEW n, NEW o, Call(t, k, n, o) PROVE EventInv'
  BY <1>0, <1>2, <1>12 DEF Call, gc_vars, sync_vars, mos_vars
<1>13. ASSUME NEW t \in Threads, GroupWaitAssign(t) PROVE EventInv'
  BY <1>0, <1>2, <1>13 DEF GroupWaitAssign, GC!Begin, sync_vars, mos_vars
<1>14. ASSUME NEW t \in Threads, GroupWaitCommit(t) PROVE EventInv'
  BY <1>0, <1>2, <1>14 DEF GroupWaitCommit, GC!End, sync_vars, mos_vars
<1>15. ASSUME NEW t \in Threads, GroupWaitSynced(t) PROVE EventInv'
  BY <1>0, <1>2, <1>15 DEF GroupWaitSynced, gc_vars, sync_vars, mos_vars
<1>16. ASSUME NEW t \in Threads, GroupWaitAgain(t) PROVE EventInv'
  BY <1>0, <1>2, <1>16 DEF GroupWaitAgain, gc_vars, sync_vars, mos_vars
<1> QED
  BY <1>3, <1>4, <1>5, <1>6, <1>7, <1>8, <1>9, <1>10, <1>11, <1>12, <1>13, <1>14, <1>15,
     <1>16
     DEF Next, Progress, WaitStep, SyncStep, dmu_objset_snapshot, dsl_recursive_rename

----------------------------------------------------------------------------
\* The tasks of t's group have run, all of them.
Done(t) ==
  /\ pc[t] \in {"commit", "wait"} /\ dstg_err[t] = "0"
  /\ \A g \in 0 .. TXG_SIZE - 1 : ~On(g, t)

\* The check functions of a group pass all, and all its sync functions run, or
\* one does not, and none runs.
LEMMA AllPassOrNoneRuns ==
  ASSUME NEW c, NEW err \in SyncErrors(c)
  PROVE  \/ err = "0" /\ RunsTasks(c) = Tasks(c)
            /\ \A d \in Tasks(c) : checkfunc(c, d, Txg) = "0"
         \/ err # "0" /\ RunsTasks(c) = {}
<1> DEFINE bad == {d \in Tasks(c) : checkfunc(c, d, Txg) # "0"}
<1>1. CASE bad = {}
  <2>1. SyncErrors(c) = {"0"}
    BY <1>1 DEF SyncErrors, GroupErrors
  <2> QED
    BY <1>1, <2>1 DEF RunsTasks
<1>2. CASE bad # {}
  <2>1. SyncErrors(c) = {checkfunc(c, d, Txg) : d \in bad}
    BY <1>2 DEF SyncErrors, GroupErrors
  <2>2. "0" \notin SyncErrors(c) /\ SyncErrors(c) # {"0"}
    BY <2>1
  <2> QED
    BY <2>2 DEF RunsTasks
<1> QED
  BY <1>1, <1>2

\* What running a task group does, by the kind of group and by what its check
\* functions say.
LEMMA RunFacts ==
  ASSUME TypeInv, GroupInv, CallInv, TasksQueued, dsl_sync_task_group_sync
  PROVE  \/ /\ Dstg \in Nat /\ UNCHANGED <<prev_snap_txg, snapnames, objs, dstg_err>>
            /\ EventRuns(Dstg)
         \/ \E t \in Threads :
              /\ t = Dstg /\ pc[t] \in {"commit", "wait"} /\ dstg_err[t] = "0"
              /\ cur[t] \in DOMAIN calls /\ res[cur[t]] = "none" /\ tx_txg[t] = Txg
              /\ \E g \in 0 .. TXG_SIZE - 1 : On(g, t)
              /\ \A g \in 0 .. TXG_SIZE - 1 : ~On(g, t)'
              /\ \A u \in Threads : u # t => dstg_err'[u] = dstg_err[u]
              /\ UNCHANGED <<history, events>>
              /\ \/ dstg_err'[t] # "0" /\ UNCHANGED <<prev_snap_txg, snapnames, objs>>
                 \/ /\ dstg_err'[t] = "0"
                    /\ \A d \in Tasks(cur[t]) : checkfunc(cur[t], d, Txg) = "0"
                    /\ \/ calls[cur[t]].kind = "snapshot"
                          /\ SnapshotSync(cur[t], Tasks(cur[t]))
                       \/ calls[cur[t]].kind = "rename"
                          /\ RenameSync(cur[t], Tasks(cur[t]))
<1> USE DEF TypeInv
<1>1. Slot \in 0 .. TXG_SIZE - 1 /\ On(Slot, Dstg) /\ Dstg \in Threads \cup Nat
  BY HeadIsOn, GroupSyncFacts DEF On
<1>2. CASE Dstg \notin Threads
  <2>1. EventRuns(Dstg)
    BY <1>2, GroupSyncFacts DEF GroupRefused, MayRefuse
  <2> QED
    BY <1>1, <1>2, <2>1 DEF EventRuns, names_vars
<1>3. CASE Dstg \in Threads
  <2>0. PICK t \in Threads, s \in 0 .. TXG_SIZE - 1 : t = Dstg /\ s = Slot
    BY <1>1, <1>3
  <2>1. On(s, t) /\ s = tx_txg[t] % TXG_SIZE /\ tx_txg[t] > stable
        /\ pc[t] \in {"commit", "wait"} /\ dstg_err[t] = "0" /\ Unique(s, t)
    BY <1>1, <2>0 DEF TasksQueued
  <2>2. tx_txg[t] = Txg
    <3>1. tx_txg[t] \in Nat /\ stable \in Nat /\ open \in Nat /\ active[t] \in Nat
      BY DEF ThreadTypes, GroupTypes
    <3>2. tx_txg[t] <= open /\ open <= stable + 3
      BY <2>1 DEF GroupInv, InTx
    <3>3. stable + 1 \in Nat /\ stable + 1 <= tx_txg[t] /\ tx_txg[t] < stable + 1 + TXG_SIZE
      BY <2>1, <3>1, <3>2 DEF TXG_SIZE
    <3> QED
      BY <2>0, <2>1, <3>1, <3>3, SlotsApart DEF Slot, Txg
  <2>3. cur[t] \in DOMAIN calls /\ res[cur[t]] = "none"
    BY <2>1 DEF CallInv, InCall
  <2>4. ASSUME NEW g \in 0 .. TXG_SIZE - 1, On(g, t)' PROVE FALSE
    <3>1. On(g, t)
      BY <2>4, TakeOn
    <3>2. g = s
      BY <2>1, <3>1 DEF TasksQueued
    <3> QED
      BY <2>0, <2>1, <2>4, <3>2, TakeOn DEF On
  <2>5. GroupRefused(t) \/ GroupRuns(t)
    BY <2>0, GroupSyncFacts
  <2>6. (\A u \in Threads : u # t => dstg_err'[u] = dstg_err[u]) /\ UNCHANGED <<history, events>>
    BY <2>5 DEF GroupRefused, GroupRuns, ThreadTypes, mos_vars
  <2>7. \/ dstg_err'[t] # "0" /\ UNCHANGED <<prev_snap_txg, snapnames, objs>>
        \/ /\ dstg_err'[t] = "0"
           /\ \A d \in Tasks(cur[t]) : checkfunc(cur[t], d, Txg) = "0"
           /\ \/ calls[cur[t]].kind = "snapshot" /\ SnapshotSync(cur[t], Tasks(cur[t]))
              \/ calls[cur[t]].kind = "rename" /\ RenameSync(cur[t], Tasks(cur[t]))
    <3>1. CASE GroupRefused(t)
      <4>1. dstg_err'[t] \in {"EAGAIN", "ENOSPC"}
        BY <3>1 DEF GroupRefused, ThreadTypes
      <4> QED
        BY <3>1, <4>1 DEF GroupRefused, mos_vars, names_vars
    <3>2. CASE GroupRuns(t)
      <4>1. PICK err \in SyncErrors(cur[t]) : dstg_err'[t] = err
        BY <3>2 DEF GroupRuns, ThreadTypes
      <4>2. CASE err = "0"
        <5>1. RunsTasks(cur[t]) = Tasks(cur[t])
              /\ \A d \in Tasks(cur[t]) : checkfunc(cur[t], d, Txg) = "0"
          BY <4>2, AllPassOrNoneRuns
        <5>2. calls[cur[t]].kind \in {"snapshot", "rename"}
          BY <2>3, TaskTypes
        <5> QED
          BY <3>2, <4>1, <4>2, <5>1, <5>2 DEF GroupRuns, syncfuncs
      <4>3. CASE err # "0"
        <5>1. RunsTasks(cur[t]) = {}
          BY <4>3, AllPassOrNoneRuns
        <5>2. SnapshotSync(cur[t], {}) \/ RenameSync(cur[t], {})
          BY <3>2, <5>1 DEF GroupRuns, syncfuncs
        <5>3. objs' = objs
          BY <5>2 DEF SnapshotSync, RenameSync
        <5>4. prev_snap_txg' = prev_snap_txg
          BY <5>2 DEF SnapshotSync, RenameSync, MosTypes
        <5>5. snapnames' = snapnames
          BY <5>2 DEF SnapshotSync, RenameSync, MosTypes
        <5> QED
          BY <4>1, <4>3, <5>3, <5>4, <5>5
      <4> QED
        BY <4>2, <4>3
    <3> QED
      BY <2>5, <3>1, <3>2
  <2> QED
    BY <2>0, <2>1, <2>2, <2>3, <2>4, <2>6, <2>7
<1> QED
  BY <1>2, <1>3

\* What is in memory and on disk of the pool's configuration keeps its types.
LEMMA MosTypesHold ==
  ASSUME TypeInv, GroupInv, CallInv, TasksQueued, [Next]_vars
  PROVE  MosTypes'
<1> USE DEF TypeInv
<1>1. CASE UNCHANGED <<mos_vars, mos_disk>>
  BY <1>1 DEF mos_vars, names_vars, MosTypes
<1>2. CASE SyncDatasets
  <2>1. DOMAIN writes \subseteq Nat
    BY DEF ThreadTypes
  <2>2. bp' \in [Datasets -> SUBSET Nat]
    BY <1>2, <2>1 DEF SyncDatasets, MosTypes
  <2> QED
    BY <1>2, <2>2 DEF SyncDatasets, names_vars, MosTypes
<1>3. CASE dsl_sync_task_group_sync
  <2>1. CASE GroupRefused(Dstg)
    BY <1>3, <2>1, GroupSyncFacts DEF GroupRefused, mos_vars, names_vars, MosTypes
  <2>2. CASE Dstg \in Threads /\ GroupRuns(Dstg)
    <3>0. cur[Dstg] \in DOMAIN calls
      BY <1>3, <2>2, RunFacts, SyncTaskAssumption
    <3>1. UNCHANGED <<bp, history>>
      BY <2>2 DEF GroupRuns
    <3> QED
      BY <1>3, <2>2, <3>0, <3>1, GroupSyncFacts, SyncfuncTypes DEF MosTypes
  <2>3. CASE Dstg \notin Threads /\ EventRuns(Dstg)
    BY <1>3, <2>3, GroupSyncFacts, HeadIsOn DEF EventRuns, names_vars, MosTypes
  <2> QED
    BY <1>3, <2>1, <2>2, <2>3, GroupSyncFacts
<1>4. CASE Stabilize
  <2>1. mos_disk' = mos
    BY <1>4 DEF Stabilize
  <2>2. mos \in Mos
    BY DEF mos, Mos, MosTypes
  <2> QED
    BY <1>4, <2>1, <2>2, StabilizeFacts DEF MosTypes
<1>5. CASE Crash
  BY <1>5 DEF Crash, MosTypes, Mos
<1> QED
  BY <1>1, <1>2, <1>3, <1>4, <1>5
     DEF Next, Progress, WaitStep, SyncStep, dmu_objset_snapshot, dsl_recursive_rename,
         WriteBegin, WriteEnd, dsl_sync_task_group_nowait, Call, GroupWaitAssign, GroupWaitCheck,
         GroupWaitCommit, GroupWaitSynced, GroupWaitAgain, Advance, sync_vars, vars

\* When each data set had its last snapshot, in memory and on disk.
SnapTimes ==
  \A d \in Datasets :
    /\ prev_snap_txg[d] <= stable + 1
    /\ ~datasets_synced => prev_snap_txg[d] <= stable
    /\ mos_disk.prev_snap_txg[d] <= stable

\* The snapshots are of calls that asked for them, and those of the groups on
\* disk are on disk.
SnapObjs ==
  /\ mos_disk.objs \subseteq objs
  /\ \A o \in objs :
       /\ o.call \in DOMAIN calls /\ calls[o.call].kind = "snapshot" /\ o.ds \in Tasks(o.call)
       /\ o.txg <= prev_snap_txg[o.ds]
       /\ o.txg <= stable => o \in mos_disk.objs
  /\ \A o \in mos_disk.objs : o.txg <= mos_disk.prev_snap_txg[o.ds]

\* AllOrNone, of the snapshots in os.
Whole(os) ==
  \A c \in DOMAIN calls :
    /\ {o.ds : o \in SnapsOf(os, c)} \in {{}, Tasks(c)}
    /\ \A o, q \in SnapsOf(os, c) : o.txg = q.txg

\* A thread in the middle of a call has its snapshots when its tasks have run.
SnapThreads ==
  \A t \in Threads : cur[t] # 0 /\ calls[cur[t]].kind = "snapshot" =>
    /\ Done(t) => /\ {o.ds : o \in SnapsOf(objs, cur[t])} = Tasks(cur[t])
                  /\ \A o \in SnapsOf(objs, cur[t]) : o.txg = tx_txg[t]
    /\ ~Done(t) => SnapsOf(objs, cur[t]) = {}

\* The types of what is on disk.
LEMMA DiskTypes ==
  ASSUME MosTypes
  PROVE  /\ mos_disk.bp \in [Datasets -> SUBSET Nat]
         /\ mos_disk.prev_snap_txg \in [Datasets -> Nat]
         /\ mos_disk.snapnames \in [Datasets -> [Names -> Snapshots \cup {NoSnap}]]
         /\ mos_disk.objs \subseteq Snapshots
  BY DEF MosTypes, Mos

\* The types of one snapshot.
LEMMA ObjTypes ==
  ASSUME NEW o \in Snapshots
  PROVE  o.ds \in Datasets /\ o.call \in Nat /\ o.txg \in Nat /\ o.bp \subseteq Nat
  BY DEF Snapshots

\* SnapTimes is inductive: the sync functions write the group that is being
\* written, and only after its data sets are.
LEMMA SnapTimesHold ==
  ASSUME TypeInv, GroupInv, CallInv, TasksQueued, SnapTimes, [Next]_vars
  PROVE  SnapTimes'
<1> USE DEF TypeInv
<1>0. stable \in Nat /\ \A d \in Datasets : prev_snap_txg[d] \in Nat
  BY DEF GroupTypes, MosTypes
<1>1. CASE UNCHANGED <<stable, datasets_synced, prev_snap_txg, mos_disk>>
  BY <1>1 DEF SnapTimes
<1>2. CASE SyncDatasets
  BY <1>2 DEF SyncDatasets, SnapTimes, gc_vars, names_vars
<1>3. CASE dsl_sync_task_group_sync
  <2>1. UNCHANGED <<stable, datasets_synced, mos_disk>> /\ datasets_synced
    BY <1>3, GroupSyncFacts
  <2>2. \A d \in Datasets : prev_snap_txg'[d] \in {prev_snap_txg[d], Txg}
    BY <1>3, RunFacts DEF SnapshotSync, RenameSync
  <2> QED
    BY <1>0, <2>1, <2>2 DEF SnapTimes, Txg
<1>4. CASE Stabilize
  <2>1. stable' = stable + 1 /\ ~datasets_synced' /\ prev_snap_txg' = prev_snap_txg
        /\ mos_disk'.prev_snap_txg = prev_snap_txg
    BY <1>4, StabilizeFacts DEF Txg
  <2> QED
    BY <1>0, <2>1 DEF SnapTimes
<1>5. CASE Crash
  <2>1. stable' = stable /\ prev_snap_txg' = mos_disk.prev_snap_txg /\ mos_disk' = mos_disk
    BY <1>5, CrashGroups
  <2>2. \A d \in Datasets : mos_disk.prev_snap_txg[d] \in Nat
    BY DiskTypes
  <2> QED
    BY <1>0, <2>1, <2>2 DEF SnapTimes
<1> QED
  BY <1>1, <1>2, <1>3, <1>4, <1>5
     DEF Next, Progress, WaitStep, SyncStep, dmu_objset_snapshot, dsl_recursive_rename,
         WriteBegin, WriteEnd, dsl_sync_task_group_nowait, Call, GroupWaitAssign, GroupWaitCheck,
         GroupWaitCommit, GroupWaitSynced, GroupWaitAgain, Advance, GC!Begin, GC!End, GC!Advance,
         sync_vars, mos_vars, names_vars, gc_vars, vars

\* What a snapshot that was just taken is like.
LEMMA SnapshotFacts ==
  ASSUME TypeInv, SnapTimes, NEW c \in DOMAIN calls, calls[c].kind = "snapshot",
         \A d \in Tasks(c) : checkfunc(c, d, Txg) = "0", SnapshotSync(c, Tasks(c))
  PROVE  /\ \A d \in Tasks(c) : d \in Datasets /\ prev_snap_txg[d] <= stable
                                /\ snapnames[d][calls[c].name] = NoSnap
         /\ \A d \in Datasets : prev_snap_txg[d] <= prev_snap_txg'[d]
         /\ \A d \in Tasks(c) : prev_snap_txg'[d] = Txg
         /\ \A o \in objs' \ objs : \E d \in Tasks(c) : o = SnapshotOf(c, d)
         /\ \A d \in Tasks(c) : SnapshotOf(c, d) \in objs'
         /\ objs \subseteq objs'
         /\ \A d : /\ SnapshotOf(c, d).ds = d /\ SnapshotOf(c, d).call = c
                   /\ SnapshotOf(c, d).txg = Txg /\ SnapshotOf(c, d).bp = bp[d]
<1> USE DEF TypeInv
<1>0. stable \in Nat /\ \A d \in Datasets : prev_snap_txg[d] \in Nat
  BY DEF GroupTypes, MosTypes
<1>1. Tasks(c) \subseteq Datasets
  BY TaskTypes
<1>2. \A d \in Tasks(c) : ~(prev_snap_txg[d] >= Txg) /\ snapnames[d][calls[c].name] = NoSnap
  BY DEF checkfunc, SnapshotTooSoon
<1>3. \A d \in Tasks(c) : d \in Datasets /\ prev_snap_txg[d] <= stable
  BY <1>0, <1>1, <1>2 DEF Txg
<1>4. \A d \in Datasets : prev_snap_txg'[d] = IF d \in Tasks(c) THEN Txg ELSE prev_snap_txg[d]
  BY DEF SnapshotSync
<1>5. \A d \in Datasets : prev_snap_txg[d] <= prev_snap_txg'[d]
  BY <1>0, <1>4 DEF SnapTimes, Txg
<1>6. \A d : /\ SnapshotOf(c, d).ds = d /\ SnapshotOf(c, d).call = c
             /\ SnapshotOf(c, d).txg = Txg /\ SnapshotOf(c, d).bp = bp[d]
  BY DEF SnapshotOf
<1>7. objs' = objs \cup {SnapshotOf(c, d) : d \in Tasks(c)}
  BY DEF SnapshotSync
<1> QED
  BY <1>1, <1>2, <1>3, <1>4, <1>5, <1>6, <1>7

\* SnapObjs is inductive.
LEMMA SnapObjsHold ==
  ASSUME TypeInv, GroupInv, CallInv, TasksQueued, SnapTimes, SnapObjs, [Next]_vars
  PROVE  SnapObjs'
<1> USE DEF TypeInv
<1>0. stable \in Nat /\ (\A d \in Datasets : prev_snap_txg[d] \in Nat) /\ objs \subseteq Snapshots
  BY DEF GroupTypes, MosTypes
<1>1. CASE UNCHANGED <<stable, prev_snap_txg, objs, mos_disk, calls>>
  BY <1>1 DEF SnapObjs, Tasks
<1>2. ASSUME NEW t \in Threads, NEW k, NEW n, NEW o, Call(t, k, n, o) PROVE SnapObjs'
  <2>1. calls \in Seq(Calls)
    BY DEF ThreadTypes
  <2>2. DOMAIN calls \subseteq DOMAIN calls' /\ \A c \in DOMAIN calls : calls'[c] = calls[c]
    BY <1>2, <2>1 DEF Call
  <2>3. UNCHANGED <<stable, prev_snap_txg, objs, mos_disk>>
    BY <1>2 DEF Call, gc_vars, sync_vars, mos_vars, names_vars
  <2> QED
    BY <2>2, <2>3 DEF SnapObjs, Tasks
<1>3. CASE dsl_sync_task_group_sync
  <2>1. UNCHANGED <<stable, mos_disk, calls>>
    BY <1>3, GroupSyncFacts
  <2>2. CASE UNCHANGED <<objs, prev_snap_txg>>
    BY <1>1, <2>1, <2>2
  <2>3. ASSUME NEW c \in DOMAIN calls, calls[c].kind = "snapshot",
               \A d \in Tasks(c) : checkfunc(c, d, Txg) = "0", SnapshotSync(c, Tasks(c))
        PROVE  SnapObjs'
    <3>1. ASSUME NEW o \in objs
          PROVE  o.txg <= prev_snap_txg'[o.ds]
      <4>1. o.ds \in Datasets /\ o.txg \in Nat
        BY <1>0, ObjTypes
      <4>2. o.txg <= prev_snap_txg[o.ds] /\ prev_snap_txg[o.ds] <= prev_snap_txg'[o.ds]
        BY <2>3, <4>1, SnapshotFacts DEF SnapObjs
      <4>3. prev_snap_txg'[o.ds] \in Nat
        BY <1>0, <2>3, <4>1 DEF SnapshotSync, Txg
      <4> QED
        BY <1>0, <4>1, <4>2, <4>3
    <3>2. ASSUME NEW o \in objs' \ objs
          PROVE  /\ o.call \in DOMAIN calls /\ calls[o.call].kind = "snapshot"
                 /\ o.ds \in Tasks(o.call) /\ o.txg <= prev_snap_txg'[o.ds] /\ ~(o.txg <= stable)
      <4>1. PICK d \in Tasks(c) : o = SnapshotOf(c, d)
        BY <2>3, SnapshotFacts
      <4>2. o.ds = d /\ o.call = c /\ o.txg = Txg /\ prev_snap_txg'[d] = Txg
        BY <2>3, <4>1, SnapshotFacts
      <4> QED
        BY <1>0, <2>3, <4>2 DEF Txg
    <3>3. objs \subseteq objs'
      BY <2>3, SnapshotFacts
    <3> QED
      BY <2>1, <3>1, <3>2, <3>3 DEF SnapObjs, Tasks
  <2> QED
    BY <1>3, <2>2, <2>3, RunFacts DEF RenameSync
<1>4. CASE Stabilize
  <2>1. UNCHANGED <<prev_snap_txg, objs, calls>> /\ mos_disk'.objs = objs
        /\ mos_disk'.prev_snap_txg = prev_snap_txg
    BY <1>4, StabilizeFacts DEF call_vars
  <2> QED
    BY <2>1 DEF SnapObjs, Tasks
<1>5. CASE Crash
  <2>1. stable' = stable /\ prev_snap_txg' = mos_disk.prev_snap_txg /\ mos_disk' = mos_disk
        /\ objs' = mos_disk.objs /\ calls' = calls
    BY <1>5, CrashGroups, CrashThreads
  <2> QED
    BY <2>1 DEF SnapObjs, Tasks
<1> QED
  BY <1>1, <1>2, <1>3, <1>4, <1>5
     DEF Next, Progress, WaitStep, SyncStep, dmu_objset_snapshot, dsl_recursive_rename,
         WriteBegin, WriteEnd, dsl_sync_task_group_nowait, GroupWaitAssign, GroupWaitCheck,
         GroupWaitCommit, GroupWaitSynced, GroupWaitAgain, Advance, GC!Begin, GC!End, GC!Advance,
         SyncDatasets, sync_vars, mos_vars, names_vars, gc_vars, call_vars, vars

\* SnapThreads is inductive: snapshots are only taken for the thread whose
\* group runs, and it is done then.
LEMMA SnapThreadsHold ==
  ASSUME TypeInv, GroupInv, CallInv, TasksQueued, SnapTimes, SnapObjs, SnapThreads,
         [Next]_vars
  PROVE  SnapThreads'
<1> USE DEF TypeInv
<1>0. /\ pc \in [Threads -> Pcs] /\ cur \in [Threads -> Nat] /\ dstg_err \in [Threads -> Errs]
      /\ tx_txg \in [Threads -> Nat] /\ calls \in Seq(Calls)
      /\ \A u \in Threads : cur[u] # 0 => cur[u] \in DOMAIN calls /\ pc[u] \in InCall
      /\ \A u \in Threads : cur[u] = 0 => pc[u] \notin InCall
  BY DEF ThreadTypes, CallInv
<1>1. ASSUME UNCHANGED <<objs, calls>>,
             \A u \in Threads : cur'[u] # 0 =>
               /\ cur'[u] = cur[u] /\ (Done(u)' <=> Done(u))
               /\ Done(u) => tx_txg'[u] = tx_txg[u]
      PROVE  SnapThreads'
  <2>1. ASSUME NEW u \in Threads, cur'[u] # 0, calls'[cur'[u]].kind = "snapshot"
        PROVE  /\ Done(u)' => /\ {o.ds : o \in SnapsOf(objs', cur'[u])} = DOMAIN calls'[cur'[u]].obj
                              /\ \A o \in SnapsOf(objs', cur'[u]) : o.txg = tx_txg'[u]
               /\ ~Done(u)' => SnapsOf(objs', cur'[u]) = {}
    <3>1. cur'[u] = cur[u] /\ cur[u] # 0 /\ calls[cur[u]].kind = "snapshot"
      BY <1>1, <2>1
    <3>2. DOMAIN calls'[cur'[u]].obj = Tasks(cur[u])
      BY <1>1, <3>1 DEF Tasks
    <3> QED
      BY <1>1, <2>1, <3>1, <3>2 DEF SnapThreads, Tasks
  <2> QED
    BY <2>1 DEF SnapThreads, SnapsOf, Tasks
<1>2. ASSUME NEW t \in Threads, UNCHANGED <<objs, calls, dp_sync_tasks>>,
             \A u \in Threads : u # t => UNCHANGED <<pc[u], cur[u], dstg_err[u], tx_txg[u]>>,
             \/ cur'[t] = 0
             \/ /\ cur'[t] = cur[t] /\ pc[t] \notin {"commit", "wait"}
                /\ pc'[t] \notin {"commit", "wait"}
             \/ /\ UNCHANGED <<cur[t], dstg_err[t], tx_txg[t]>>
                /\ \/ pc[t] \in {"commit", "wait"} /\ pc'[t] \in {"commit", "wait"}
                   \/ dstg_err[t] # "0"
      PROVE  SnapThreads'
  <2>1. \A u \in Threads, g \in 0 .. TXG_SIZE - 1 : On(g, u)' <=> On(g, u)
    BY <1>2 DEF On
  <2> QED
    BY <1>1, <1>2, <2>1 DEF Done
<1>3. ASSUME NEW t \in Threads, GroupWaitCheck(t) PROVE SnapThreads'
  <2>1. pc[t] = "check" /\ UNCHANGED <<objs, calls>>
    BY <1>3 DEF GroupWaitCheck, sync_vars, mos_vars, names_vars
  <2>2. CASE UNCHANGED dp_sync_tasks /\ \E e : Return(t, e)
    BY <1>0, <1>2, <2>1, <2>2 DEF Return
  <2>3. CASE /\ pc' = [pc EXCEPT ![t] = "commit"]
             /\ dstg_err' = [dstg_err EXCEPT ![t] = "0"]
             /\ txg_list_add(t, tx_txg[t])
             /\ UNCHANGED <<tx_txg, cur>>
    <3>1. tx_txg[t] \in Nat /\ t \in Threads \cup Nat
      BY <1>0
    <3>2. \A u \in Threads, g \in 0 .. TXG_SIZE - 1 : u # t => (On(g, u)' <=> On(g, u))
      BY <2>3, <3>1, AddOn
    <3>3. PICK x \in Nat, h \in 0 .. TXG_SIZE - 1 : x = tx_txg[t] /\ h = x % TXG_SIZE
      BY <3>1 DEF TXG_SIZE
    <3>4. On(h, t)'
      BY <2>3, <3>1, <3>3, AddOn
    <3>5. ~Done(t)' /\ ~Done(t)
      BY <2>1, <3>4 DEF Done
    <3>6. \A u \in Threads : u # t => (Done(u)' <=> Done(u))
      BY <1>0, <2>3, <3>2 DEF Done
    <3> QED
      BY <1>1, <2>1, <2>3, <3>5, <3>6
  <2> QED
    BY <1>3, <2>2, <2>3 DEF GroupWaitCheck
<1>4. ASSUME NEW t \in Threads, dsl_sync_task_group_nowait(t) PROVE SnapThreads'
  <2>1. PICK n \in Nat, a \in Nat : n = Len(events) + 1 /\ a = active[t]
    <3>1. Len(events) + 1 \in Nat /\ active[t] \in Nat
      BY DEF ThreadTypes, GroupTypes
    <3> QED
      BY <3>1
  <2>2. txg_list_add(n, a) /\ UNCHANGED <<objs, calls, pc, cur, dstg_err, tx_txg>>
    BY <1>4, <2>1
       DEF dsl_sync_task_group_nowait, sync_vars, mos_vars, names_vars, call_vars, wait_vars
  <2>3. \A u \in Threads, g \in 0 .. TXG_SIZE - 1 : On(g, u)' <=> On(g, u)
    <3>1. \A u \in Threads : u # n
      BY SyncTaskAssumption
    <3> QED
      BY <2>2, <3>1, AddOn
  <2>4. \A u \in Threads : Done(u)' <=> Done(u)
    BY <2>2, <2>3 DEF Done
  <2> QED
    BY <1>1, <2>2, <2>4
<1>5. CASE dsl_sync_task_group_sync
  <2>1. UNCHANGED <<calls, pc, cur, tx_txg>>
    BY <1>5, GroupSyncFacts
  <2>2. CASE Dstg \in Nat /\ UNCHANGED <<objs, dstg_err>>
    <3>1. \A u \in Threads : u # Dstg
      BY <2>2, SyncTaskAssumption
    <3>2. \A u \in Threads, g \in 0 .. TXG_SIZE - 1 : On(g, u)' <=> On(g, u)
      BY <1>5, <3>1, TakeOn
    <3>3. \A u \in Threads : Done(u)' <=> Done(u)
      BY <2>1, <2>2, <3>2 DEF Done
    <3> QED
      BY <1>1, <2>1, <2>2, <3>3
  <2>3. ASSUME NEW t \in Threads, t = Dstg, cur[t] \in DOMAIN calls,
               pc[t] \in {"commit", "wait"}, tx_txg[t] = Txg,
               \E g \in 0 .. TXG_SIZE - 1 : On(g, t),
               \A g \in 0 .. TXG_SIZE - 1 : ~On(g, t)',
               \A u \in Threads : u # t => dstg_err'[u] = dstg_err[u]
        PROVE  /\ dstg_err'[t] # "0" /\ UNCHANGED objs => SnapThreads'
               /\ calls[cur[t]].kind = "rename" /\ UNCHANGED objs => SnapThreads'
               /\ (/\ dstg_err'[t] = "0" /\ calls[cur[t]].kind = "snapshot"
                   /\ \A d \in Tasks(cur[t]) : checkfunc(cur[t], d, Txg) = "0"
                   /\ SnapshotSync(cur[t], Tasks(cur[t])))
                  => SnapThreads'
    <3>1. \A u \in Threads, g \in 0 .. TXG_SIZE - 1 : u # t => (On(g, u)' <=> On(g, u))
      BY <1>5, <2>3, TakeOn
    <3>2. \A u \in Threads : u # t => (Done(u)' <=> Done(u))
      BY <2>1, <2>3, <3>1 DEF Done
    <3>3. ~Done(t)
      BY <2>3 DEF Done
    <3>4. ASSUME dstg_err'[t] # "0", UNCHANGED objs PROVE SnapThreads'
      <4>1. ~Done(t)'
        BY <3>4 DEF Done
      <4> QED
        BY <1>1, <2>1, <3>2, <3>3, <3>4, <4>1
    <3>5. ASSUME calls[cur[t]].kind = "rename", UNCHANGED objs PROVE SnapThreads'
      BY <2>1, <3>2, <3>5 DEF SnapThreads, Tasks, SnapsOf
    <3>6. ASSUME dstg_err'[t] = "0", calls[cur[t]].kind = "snapshot",
                 \A d \in Tasks(cur[t]) : checkfunc(cur[t], d, Txg) = "0",
                 SnapshotSync(cur[t], Tasks(cur[t]))
          PROVE  SnapThreads'
      <4>0. PICK c \in DOMAIN calls : c = cur[t]
        BY <2>3
      <4>1. /\ \A o \in objs' \ objs : \E d \in Tasks(c) : o = SnapshotOf(c, d)
            /\ \A d \in Tasks(c) : SnapshotOf(c, d) \in objs'
            /\ objs \subseteq objs'
            /\ \A d : /\ SnapshotOf(c, d).ds = d /\ SnapshotOf(c, d).call = c
                      /\ SnapshotOf(c, d).txg = Txg
        BY <2>3, <3>6, <4>0, SnapshotFacts
      <4>2. SnapsOf(objs, c) = {}
        BY <2>3, <3>3, <3>6, <4>0, <1>0 DEF SnapThreads, InCall, CallInv
      <4>3. SnapsOf(objs', c) = {SnapshotOf(c, d) : d \in Tasks(c)}
        BY <4>1, <4>2 DEF SnapsOf
      <4>4. {o.ds : o \in SnapsOf(objs', c)} = Tasks(c)
            /\ \A o \in SnapsOf(objs', c) : o.txg = Txg
        BY <4>1, <4>3
      <4>5. ASSUME NEW u \in Threads, u # t, cur[u] # 0
            PROVE  SnapsOf(objs', cur[u]) = SnapsOf(objs, cur[u])
        <5>1. cur[u] # c
          BY <2>3, <4>0, <4>5 DEF CallInv, InCall
        <5>2. \A o \in objs' : o.call # c => o \in objs
          BY <4>1
        <5> QED
          BY <4>1, <5>1, <5>2 DEF SnapsOf
      <4>6. ASSUME NEW u \in Threads, cur'[u] # 0, calls'[cur'[u]].kind = "snapshot"
            PROVE  /\ Done(u)' => /\ {o.ds : o \in SnapsOf(objs', cur'[u])} = DOMAIN calls'[cur'[u]].obj
                                  /\ \A o \in SnapsOf(objs', cur'[u]) : o.txg = tx_txg'[u]
                   /\ ~Done(u)' => SnapsOf(objs', cur'[u]) = {}
        <5>1. CASE u = t
          <6>1. Done(t)'
            BY <2>1, <2>3, <3>6 DEF Done
          <6>2. cur'[t] = c /\ tx_txg'[t] = Txg /\ calls' = calls
            BY <2>1, <2>3, <4>0
          <6> QED
            BY <4>4, <5>1, <6>1, <6>2 DEF Tasks
        <5>2. CASE u # t
          <6>1. cur'[u] = cur[u] /\ cur[u] # 0 /\ calls' = calls /\ tx_txg' = tx_txg
            BY <2>1, <4>6
          <6>2. SnapsOf(objs', cur'[u]) = SnapsOf(objs, cur[u]) /\ (Done(u)' <=> Done(u))
            BY <3>2, <4>5, <5>2, <6>1
          <6> QED
            BY <4>6, <6>1, <6>2 DEF SnapThreads, Tasks
        <5> QED
          BY <5>1, <5>2
      <4> QED
        BY <4>6 DEF SnapThreads, SnapsOf, Tasks
    <3> QED
      BY <3>4, <3>5, <3>6
  <2> QED
    BY <1>5, <2>2, <2>3, RunFacts DEF RenameSync
<1>6. ASSUME NEW t \in Threads, NEW k, NEW n, NEW f, Call(t, k, n, f) PROVE SnapThreads'
  <2>1. PICK c \in Nat : c = Len(calls) + 1
    BY <1>0
  <2>2. c \notin DOMAIN calls /\ \A x \in DOMAIN calls : calls'[x] = calls[x]
    BY <1>0, <1>6, <2>1 DEF Call
  <2>3. UNCHANGED <<objs, dp_sync_tasks, dstg_err, tx_txg>>
    BY <1>6 DEF Call, sync_vars, mos_vars, names_vars
  <2>4. \A u \in Threads : u # t => UNCHANGED <<pc[u], cur[u]>>
    BY <1>0, <1>6 DEF Call
  <2>5. cur'[t] = c /\ pc'[t] = "top"
    BY <1>0, <1>6, <2>1 DEF Call
  <2>6. SnapsOf(objs, c) = {}
    BY <2>2 DEF SnapsOf, SnapObjs
  <2>7. \A u \in Threads, g \in 0 .. TXG_SIZE - 1 : On(g, u)' <=> On(g, u)
    BY <2>3 DEF On
  <2>8. ASSUME NEW u \in Threads, cur'[u] # 0, calls'[cur'[u]].kind = "snapshot"
        PROVE  /\ Done(u)' => /\ {o.ds : o \in SnapsOf(objs', cur'[u])} = DOMAIN calls'[cur'[u]].obj
                              /\ \A o \in SnapsOf(objs', cur'[u]) : o.txg = tx_txg'[u]
               /\ ~Done(u)' => SnapsOf(objs', cur'[u]) = {}
    <3>1. CASE u = t
      <4>1. ~Done(t)'
        BY <2>5 DEF Done
      <4> QED
        BY <2>3, <2>5, <2>6, <3>1, <4>1
    <3>2. CASE u # t
      <4>1. cur'[u] = cur[u] /\ cur[u] # 0 /\ cur[u] \in DOMAIN calls
        BY <1>0, <2>4, <2>8, <3>2
      <4>2. calls'[cur[u]] = calls[cur[u]]
        BY <2>2, <4>1
      <4>3. Done(u)' <=> Done(u)
        BY <2>3, <2>4, <2>7, <3>2 DEF Done
      <4>4. DOMAIN calls'[cur'[u]].obj = Tasks(cur[u])
        BY <4>1, <4>2 DEF Tasks
      <4> QED
        BY <2>3, <2>8, <4>1, <4>2, <4>3, <4>4 DEF SnapThreads
    <3> QED
      BY <3>1, <3>2
  <2> QED
    BY <2>8 DEF SnapThreads, SnapsOf, Tasks
<1>7. CASE UNCHANGED <<objs, calls, dp_sync_tasks, pc, cur, dstg_err, tx_txg>>
  <2>1. \A u \in Threads : Done(u)' <=> Done(u)
    BY <1>7 DEF Done, On
  <2> QED
    BY <1>1, <1>7, <2>1
<1>8. CASE SyncDatasets \/ Advance \/ UNCHANGED vars
  BY <1>7, <1>8
     DEF SyncDatasets, Advance, vars, call_vars, wait_vars, sync_vars, mos_vars, names_vars
<1>9. CASE Stabilize
  BY <1>7, <1>9, StabilizeFacts DEF call_vars, wait_vars
<1>10. CASE Crash
  BY <1>10, CrashThreads DEF SnapThreads
<1>11. ASSUME NEW t \in Threads, NEW d \in Datasets, WriteBegin(t, d) PROVE SnapThreads'
  BY <1>0, <1>2, <1>11 DEF WriteBegin, call_vars, sync_vars, mos_vars, names_vars
<1>12. ASSUME NEW t \in Threads, WriteEnd(t) PROVE SnapThreads'
  BY <1>0, <1>2, <1>12 DEF WriteEnd, call_vars, sync_vars, mos_vars, names_vars
<1>13. ASSUME NEW t \in Threads, GroupWaitAssign(t) PROVE SnapThreads'
  BY <1>0, <1>2, <1>13 DEF GroupWaitAssign, call_vars, sync_vars, mos_vars, names_vars
<1>14. ASSUME NEW t \in Threads, GroupWaitCommit(t) PROVE SnapThreads'
  BY <1>0, <1>2, <1>14 DEF GroupWaitCommit, call_vars, sync_vars, mos_vars, names_vars
<1>15. ASSUME NEW t \in Threads, GroupWaitSynced(t) PROVE SnapThreads'
  BY <1>0, <1>2, <1>15 DEF GroupWaitSynced, Return, sync_vars, mos_vars, names_vars
<1>16. ASSUME NEW t \in Threads, GroupWaitAgain(t) PROVE SnapThreads'
  BY <1>0, <1>2, <1>16 DEF GroupWaitAgain, call_vars, sync_vars, mos_vars, names_vars
<1> QED
  BY <1>3, <1>4, <1>5, <1>6, <1>8, <1>9, <1>10, <1>11, <1>12, <1>13, <1>14, <1>15, <1>16
     DEF Next, Progress, WaitStep, SyncStep, dmu_objset_snapshot, dsl_recursive_rename

\* A new call leaves what is known of the others.
LEMMA CallFacts ==
  ASSUME TypeInv, CallInv, NEW t \in Threads, NEW k, NEW n, NEW f, Call(t, k, n, f)
  PROVE  /\ DOMAIN calls' = DOMAIN calls \cup {Len(calls) + 1}
         /\ Len(calls) + 1 \notin DOMAIN calls /\ Len(calls) + 1 \in Nat
         /\ \A c \in DOMAIN calls : calls'[c] = calls[c] /\ res'[c] = res[c]
         /\ res'[Len(calls) + 1] = "none" /\ DOMAIN res' = DOMAIN calls'
         /\ calls'[Len(calls) + 1] = [kind |-> k, name |-> n, obj |-> f, before |-> Len(writes)]
         /\ UNCHANGED <<stable, datasets_synced, bp, prev_snap_txg, snapnames, objs, mos_disk,
                        writes>>
<1>1. calls \in Seq(Calls) /\ res \in Seq(Errs \cup {"none"}) /\ Len(res) = Len(calls)
  BY DEF TypeInv, ThreadTypes, CallInv
<1>2. calls' = Append(calls, [kind |-> k, name |-> n, obj |-> f, before |-> Len(writes)])
      /\ res' = Append(res, "none")
  BY DEF Call
<1>3. /\ DOMAIN calls' = DOMAIN calls \cup {Len(calls) + 1}
      /\ Len(calls) + 1 \notin DOMAIN calls /\ Len(calls) + 1 \in Nat
      /\ \A c \in DOMAIN calls : calls'[c] = calls[c]
      /\ calls'[Len(calls) + 1] = [kind |-> k, name |-> n, obj |-> f, before |-> Len(writes)]
  BY <1>1, <1>2
<1>4. /\ \A c \in DOMAIN calls : res'[c] = res[c]
      /\ res'[Len(calls) + 1] = "none" /\ DOMAIN res' = DOMAIN calls'
  BY <1>1, <1>2
<1> QED
  BY <1>3, <1>4 DEF Call, gc_vars, sync_vars, mos_vars, names_vars

\* The step that takes snapshots takes them for one call, which has none yet and
\* has not returned.
LEMMA TakingFacts ==
  ASSUME TypeInv, GroupInv, CallInv, TasksQueued, SnapTimes, SnapObjs, SnapThreads,
         dsl_sync_task_group_sync
  PROVE  \/ UNCHANGED objs
         \/ \E c \in DOMAIN calls :
              /\ calls[c].kind = "snapshot" /\ SnapsOf(objs, c) = {} /\ res[c] = "none"
              /\ \E t \in Threads : c = cur[t] /\ pc[t] \in {"commit", "wait"}
                                    /\ tx_txg[t] = Txg
              /\ objs \subseteq objs'
              /\ objs' = objs \cup {SnapshotOf(c, d) : d \in Tasks(c)}
              /\ \A d \in Tasks(c) : d \in Datasets /\ prev_snap_txg[d] <= stable
                                     /\ snapnames[d][calls[c].name] = NoSnap
              /\ \A d : /\ SnapshotOf(c, d).ds = d /\ SnapshotOf(c, d).call = c
                        /\ SnapshotOf(c, d).txg = Txg /\ SnapshotOf(c, d).bp = bp[d]
              /\ \A x : x # c => SnapsOf(objs', x) = SnapsOf(objs, x)
              /\ SnapsOf(objs', c) = {SnapshotOf(c, d) : d \in Tasks(c)}
              /\ snapnames' = [d \in Datasets |->
                   IF d \in Tasks(c) THEN zap_add(snapnames[d], calls[c].name, SnapshotOf(c, d))
                                     ELSE snapnames[d]]
<1>1. CASE \E t \in Threads :
             /\ cur[t] \in DOMAIN calls /\ res[cur[t]] = "none" /\ tx_txg[t] = Txg
             /\ pc[t] \in {"commit", "wait"} /\ \E g \in 0 .. TXG_SIZE - 1 : On(g, t)
             /\ \A d \in Tasks(cur[t]) : checkfunc(cur[t], d, Txg) = "0"
             /\ calls[cur[t]].kind = "snapshot" /\ SnapshotSync(cur[t], Tasks(cur[t]))
  <2>1. PICK t \in Threads, c \in DOMAIN calls :
             /\ c = cur[t] /\ res[c] = "none" /\ tx_txg[t] = Txg /\ pc[t] \in {"commit", "wait"}
             /\ \E g \in 0 .. TXG_SIZE - 1 : On(g, t)
             /\ \A d \in Tasks(c) : checkfunc(c, d, Txg) = "0"
             /\ calls[c].kind = "snapshot" /\ SnapshotSync(c, Tasks(c))
    BY <1>1
  <2>2. SnapsOf(objs, c) = {}
    <3>1. ~Done(t) /\ cur[t] # 0
      BY <2>1 DEF Done, CallInv, InCall
    <3> QED
      BY <2>1, <3>1 DEF SnapThreads
  <2>3. objs' = objs \cup {SnapshotOf(c, d) : d \in Tasks(c)}
    BY <2>1 DEF SnapshotSync
  <2>4. \A d : /\ SnapshotOf(c, d).ds = d /\ SnapshotOf(c, d).call = c
               /\ SnapshotOf(c, d).txg = Txg /\ SnapshotOf(c, d).bp = bp[d]
    BY DEF SnapshotOf
  <2>5. \A x : x # c => SnapsOf(objs', x) = SnapsOf(objs, x)
    BY <2>3, <2>4 DEF SnapsOf
  <2>6. SnapsOf(objs', c) = {SnapshotOf(c, d) : d \in Tasks(c)}
    BY <2>2, <2>3, <2>4 DEF SnapsOf
  <2>7. \A d \in Tasks(c) : d \in Datasets /\ prev_snap_txg[d] <= stable
                            /\ snapnames[d][calls[c].name] = NoSnap
    BY <2>1, SnapshotFacts
  <2>8. snapnames' = [d \in Datasets |->
           IF d \in Tasks(c) THEN zap_add(snapnames[d], calls[c].name, SnapshotOf(c, d))
                             ELSE snapnames[d]]
    BY <2>1 DEF SnapshotSync
  <2> QED
    BY <2>1, <2>2, <2>3, <2>4, <2>5, <2>6, <2>7, <2>8
<1> QED
  BY <1>1, RunFacts DEF RenameSync

\* Whole is inductive, in memory and on disk.
LEMMA WholeHold ==
  ASSUME TypeInv, GroupInv, CallInv, TasksQueued, SnapTimes, SnapObjs, SnapThreads,
         Whole(objs), Whole(mos_disk.objs), [Next]_vars
  PROVE  Whole(objs)' /\ Whole(mos_disk.objs)'
<1>1. CASE UNCHANGED <<objs, mos_disk, calls>>
  BY <1>1 DEF Whole, Tasks, SnapsOf
<1>2. ASSUME NEW t \in Threads, NEW k, NEW n, NEW f, Call(t, k, n, f)
      PROVE Whole(objs)' /\ Whole(mos_disk.objs)'
  <2>1. PICK x : x = Len(calls) + 1
    OBVIOUS
  <2>2. /\ DOMAIN calls' = DOMAIN calls \cup {x} /\ x \notin DOMAIN calls
        /\ \A c \in DOMAIN calls : calls'[c] = calls[c]
        /\ UNCHANGED <<objs, mos_disk>>
    BY <1>2, <2>1, CallFacts
  <2>3. SnapsOf(objs, x) = {} /\ SnapsOf(mos_disk.objs, x) = {}
    BY <2>2 DEF SnapsOf, SnapObjs
  <2>4. ASSUME NEW os, Whole(os), SnapsOf(os, x) = {}, NEW c \in DOMAIN calls'
        PROVE  /\ {o.ds : o \in SnapsOf(os, c)} \in {{}, DOMAIN calls'[c].obj}
               /\ \A o, q \in SnapsOf(os, c) : o.txg = q.txg
    <3>1. CASE c = x
      BY <2>4, <3>1
    <3>2. CASE c # x
      <4>1. c \in DOMAIN calls /\ calls'[c] = calls[c]
        BY <2>2, <3>2
      <4> QED
        BY <2>4, <4>1 DEF Whole, Tasks
    <3> QED
      BY <3>1, <3>2
  <2>5. Whole(objs)'
    BY <2>2, <2>3, <2>4 DEF Whole, Tasks, SnapsOf
  <2>6. Whole(mos_disk.objs)'
    BY <2>2, <2>3, <2>4 DEF Whole, Tasks, SnapsOf
  <2> QED
    BY <2>5, <2>6
<1>3. CASE dsl_sync_task_group_sync
  <2>1. UNCHANGED <<mos_disk, calls>>
    BY <1>3, GroupSyncFacts DEF TypeInv
  <2>2. ASSUME NEW c \in DOMAIN calls,
               SnapsOf(objs', c) = {SnapshotOf(c, d) : d \in Tasks(c)},
               \A x : x # c => SnapsOf(objs', x) = SnapsOf(objs, x),
               \A d : SnapshotOf(c, d).ds = d /\ SnapshotOf(c, d).txg = Txg
        PROVE  \A x \in DOMAIN calls :
                 /\ {o.ds : o \in SnapsOf(objs', x)} \in {{}, Tasks(x)}
                 /\ \A o, q \in SnapsOf(objs', x) : o.txg = q.txg
    <3>1. {o.ds : o \in SnapsOf(objs', c)} = Tasks(c)
          /\ \A o, q \in SnapsOf(objs', c) : o.txg = q.txg
      BY <2>2
    <3> QED
      BY <2>2, <3>1 DEF Whole
  <2>3. \A x \in DOMAIN calls :
                 /\ {o.ds : o \in SnapsOf(objs', x)} \in {{}, Tasks(x)}
                 /\ \A o, q \in SnapsOf(objs', x) : o.txg = q.txg
    <3>1. CASE UNCHANGED objs
      BY <3>1 DEF Whole
    <3> QED
      BY <1>3, <2>2, <3>1, TakingFacts
  <2>4. Whole(objs)'
    BY <2>1, <2>3 DEF Whole, Tasks, SnapsOf
  <2>5. Whole(mos_disk.objs)'
    BY <2>1 DEF Whole, Tasks, SnapsOf
  <2> QED
    BY <2>4, <2>5
<1>4. CASE Stabilize
  <2>1. UNCHANGED <<objs, calls>> /\ mos_disk'.objs = objs
    BY <1>4, StabilizeFacts DEF call_vars
  <2> QED
    BY <2>1 DEF Whole, Tasks, SnapsOf
<1>5. CASE Crash
  <2>1. UNCHANGED <<mos_disk, calls>> /\ objs' = mos_disk.objs
    BY <1>5, CrashGroups, CrashThreads
  <2> QED
    BY <2>1 DEF Whole, Tasks, SnapsOf
<1> QED
  BY <1>1, <1>2, <1>3, <1>4, <1>5
     DEF Next, Progress, WaitStep, SyncStep, dmu_objset_snapshot, dsl_recursive_rename,
         WriteBegin, WriteEnd, dsl_sync_task_group_nowait, GroupWaitAssign, GroupWaitCheck,
         GroupWaitCommit, GroupWaitSynced, GroupWaitAgain, Advance, SyncDatasets, sync_vars,
         mos_vars, names_vars, call_vars, vars

\* OneSnapshotPerGroup is inductive.
LEMMA OneSnapshotHolds ==
  ASSUME TypeInv, GroupInv, CallInv, TasksQueued, SnapTimes, SnapObjs, SnapThreads,
         OneSnapshotPerGroup, [Next]_vars
  PROVE  OneSnapshotPerGroup'
<1>1. CASE objs' \subseteq objs
  BY <1>1 DEF OneSnapshotPerGroup
<1>2. CASE dsl_sync_task_group_sync
  <2>1. ASSUME NEW c \in DOMAIN calls, objs' = objs \cup {SnapshotOf(c, d) : d \in Tasks(c)},
               \A d : SnapshotOf(c, d).ds = d /\ SnapshotOf(c, d).txg = Txg,
               \A d \in Tasks(c) : d \in Datasets /\ prev_snap_txg[d] <= stable
        PROVE  OneSnapshotPerGroup'
    <3>1. ASSUME NEW o \in objs, o.ds \in Tasks(c) PROVE o.txg # Txg
      <4>1. o.txg \in Nat /\ prev_snap_txg[o.ds] \in Nat /\ stable \in Nat
        BY <2>1, <3>1, ObjTypes DEF TypeInv, MosTypes, GroupTypes
      <4>2. o.txg <= prev_snap_txg[o.ds] /\ prev_snap_txg[o.ds] <= stable
        BY <2>1, <3>1 DEF SnapObjs
      <4> QED
        BY <4>1, <4>2 DEF Txg
    <3>2. ASSUME NEW o \in objs', NEW q \in objs', o.ds = q.ds, o.txg = q.txg PROVE o = q
      <4>1. CASE o \in objs /\ q \in objs
        BY <3>2, <4>1 DEF OneSnapshotPerGroup
      <4>2. CASE o \notin objs
        <5>1. PICK d \in Tasks(c) : o = SnapshotOf(c, d)
          BY <2>1, <4>2
        <5>2. q \notin objs
          BY <2>1, <3>1, <3>2, <5>1
        <5>3. PICK b \in Tasks(c) : q = SnapshotOf(c, b)
          BY <2>1, <5>2
        <5> QED
          BY <2>1, <3>2, <5>1, <5>3
      <4>3. CASE q \notin objs
        <5>1. PICK d \in Tasks(c) : q = SnapshotOf(c, d)
          BY <2>1, <4>3
        <5>2. o \notin objs
          BY <2>1, <3>1, <3>2, <5>1
        <5>3. PICK b \in Tasks(c) : o = SnapshotOf(c, b)
          BY <2>1, <5>2
        <5> QED
          BY <2>1, <3>2, <5>1, <5>3
      <4> QED
        BY <4>1, <4>2, <4>3
    <3> QED
      BY <3>2 DEF OneSnapshotPerGroup
  <2> QED
    BY <1>1, <1>2, <2>1, TakingFacts
<1>3. CASE Stabilize
  BY <1>1, <1>3, StabilizeFacts
<1>4. CASE Crash
  BY <1>1, <1>4, CrashGroups DEF SnapObjs
<1> QED
  BY <1>1, <1>2, <1>3, <1>4
     DEF Next, Progress, WaitStep, SyncStep, dmu_objset_snapshot, dsl_recursive_rename,
         WriteBegin, WriteEnd, dsl_sync_task_group_nowait, GroupWaitAssign, GroupWaitCheck,
         GroupWaitCommit, GroupWaitSynced, GroupWaitAgain, Advance, SyncDatasets, Call, sync_vars,
         mos_vars, names_vars, call_vars, vars

\* What a call that returns leaves.
LEMMA ReturnFacts ==
  ASSUME TypeInv, CallInv, NEW t \in Threads, cur[t] \in DOMAIN calls, NEW e, Return(t, e)
  PROVE  /\ DOMAIN res' = DOMAIN res /\ cur[t] \in DOMAIN res /\ res'[cur[t]] = e
         /\ \A c \in DOMAIN res : c # cur[t] => res'[c] = res[c]
<1>1. cur[t] \in DOMAIN res
  BY DEF TypeInv, ThreadTypes, CallInv
<1> QED
  BY <1>1 DEF Return

\* The first check cannot find that a data set has a snapshot of this group
\* already: only groups that are closed have snapshots.
LEMMA FirstCheckErrors ==
  ASSUME TypeInv, GroupInv, CallInv, SnapTimes, NEW t \in Threads, pc[t] = "check",
         NEW S \in SUBSET Tasks(cur[t]), NEW e \in GroupErrors(cur[t], tx_txg[t], S)
  PROVE  e # "EAGAIN"
<1>1. cur[t] \in DOMAIN calls
  BY DEF CallInv, InCall
<1>2. ASSUME NEW d \in S PROVE checkfunc(cur[t], d, tx_txg[t]) # "EAGAIN"
  <2>1. d \in Datasets
    BY <1>1, TaskTypes DEF TypeInv
  <2>2. /\ prev_snap_txg[d] \in Nat /\ stable \in Nat /\ tx_txg[t] \in Nat /\ active[t] \in Nat
        /\ datasets_synced \in BOOLEAN
    BY <2>1 DEF TypeInv, GroupTypes, MosTypes, ThreadTypes
  <2>3. tx_txg[t] = active[t] /\ stable < active[t]
    BY DEF GroupInv, InTx
  <2>4. datasets_synced => active[t] # stable + 1
    BY DEF GroupInv, Quiesced, Txg
  <2>5. prev_snap_txg[d] <= stable + 1 /\ (~datasets_synced => prev_snap_txg[d] <= stable)
    BY <2>1 DEF SnapTimes
  <2>6. ~(prev_snap_txg[d] >= tx_txg[t])
    BY <2>2, <2>3, <2>4, <2>5
  <2> QED
    BY <2>6 DEF checkfunc, SnapshotTooSoon
<1> QED
  BY <1>2 DEF GroupErrors

\* NoEagain and DoneIsTrue are inductive.
LEMMA ResultsHold ==
  ASSUME TypeInv, GroupInv, CallInv, TasksQueued, SnapTimes, SnapObjs, SnapThreads,
         NoEagain, DoneIsTrue, [Next]_vars
  PROVE  NoEagain' /\ DoneIsTrue'
<1>0. /\ calls \in Seq(Calls) /\ res \in Seq(Errs \cup {"none"}) /\ DOMAIN res = DOMAIN calls
      /\ stable \in Nat /\ tx_txg \in [Threads -> Nat] /\ objs \subseteq Snapshots
  BY DEF TypeInv, ThreadTypes, GroupTypes, MosTypes, CallInv
<1>1. CASE UNCHANGED <<objs, mos_disk, calls, res>>
  BY <1>1 DEF NoEagain, DoneIsTrue, Tasks, SnapsOf
<1>2. ASSUME NEW t \in Threads, NEW k, NEW n, NEW f, Call(t, k, n, f)
      PROVE NoEagain' /\ DoneIsTrue'
  <2>1. PICK x : x = Len(calls) + 1
    OBVIOUS
  <2>2. /\ DOMAIN calls' = DOMAIN calls \cup {x} /\ x \notin DOMAIN calls
        /\ \A c \in DOMAIN calls : calls'[c] = calls[c] /\ res'[c] = res[c]
        /\ res'[x] = "none" /\ DOMAIN res' = DOMAIN calls'
        /\ UNCHANGED <<objs, mos_disk>>
    BY <1>2, <2>1, CallFacts
  <2>3. NoEagain'
    BY <1>0, <2>2 DEF NoEagain
  <2>4. ASSUME NEW c \in DOMAIN calls', calls'[c].kind = "snapshot"
        PROVE  /\ res'[c] = "0" => {o.ds : o \in SnapsOf(mos_disk'.objs, c)}
                                     = DOMAIN calls'[c].obj
               /\ res'[c] \notin {"0", "none"} => SnapsOf(objs', c) = {}
    BY <2>2, <2>4 DEF DoneIsTrue, Tasks
  <2> QED
    BY <2>3, <2>4 DEF DoneIsTrue, Tasks, SnapsOf
<1>3. ASSUME NEW t \in Threads, cur[t] \in DOMAIN calls, UNCHANGED <<objs, mos_disk, calls>>,
             NEW e, Return(t, e), e # "EAGAIN",
             calls[cur[t]].kind = "snapshot" =>
               /\ e = "0" => {o.ds : o \in SnapsOf(mos_disk.objs, cur[t])} = Tasks(cur[t])
               /\ e # "0" => SnapsOf(objs, cur[t]) = {}
      PROVE  NoEagain' /\ DoneIsTrue'
  <2>0. PICK x \in DOMAIN calls : x = cur[t]
    BY <1>3
  <2>1. /\ DOMAIN res' = DOMAIN res /\ res'[x] = e
        /\ \A c \in DOMAIN res : c # x => res'[c] = res[c]
    BY <1>3, <2>0, ReturnFacts
  <2>2. NoEagain'
    BY <1>3, <2>1 DEF NoEagain
  <2>3. ASSUME NEW c \in DOMAIN calls', calls'[c].kind = "snapshot"
        PROVE  /\ res'[c] = "0" => {o.ds : o \in SnapsOf(mos_disk'.objs, c)}
                                     = DOMAIN calls'[c].obj
               /\ res'[c] \notin {"0", "none"} => SnapsOf(objs', c) = {}
    <3>1. CASE c = x
      BY <1>3, <2>0, <2>1, <2>3, <3>1 DEF Tasks
    <3>2. CASE c # x
      BY <1>0, <1>3, <2>1, <2>3, <3>2 DEF DoneIsTrue, Tasks
    <3> QED
      BY <3>1, <3>2
  <2> QED
    BY <2>2, <2>3 DEF DoneIsTrue, Tasks, SnapsOf
<1>4. ASSUME NEW t \in Threads, GroupWaitCheck(t) PROVE NoEagain' /\ DoneIsTrue'
  <2>1. pc[t] = "check" /\ UNCHANGED <<objs, mos_disk, calls>>
    BY <1>4 DEF GroupWaitCheck, sync_vars, mos_vars, names_vars
  <2>2. cur[t] \in DOMAIN calls /\ cur[t] # 0 /\ ~Done(t)
    BY <2>1 DEF CallInv, InCall, Done
  <2>3. calls[cur[t]].kind = "snapshot" => SnapsOf(objs, cur[t]) = {}
    BY <2>2 DEF SnapThreads
  <2>4. PICK S \in IF ZFS_DEBUG THEN SUBSET Tasks(cur[t]) ELSE {Tasks(cur[t])} :
          \E e \in GroupErrors(cur[t], tx_txg[t], S) :
             \/ e # "0" /\ Return(t, e)
             \/ UNCHANGED res
    BY <1>4 DEF GroupWaitCheck
  <2>5. S \in SUBSET Tasks(cur[t])
    BY <2>4
  <2>6. PICK e \in GroupErrors(cur[t], tx_txg[t], S) :
          (e # "0" /\ Return(t, e)) \/ UNCHANGED res
    BY <2>4
  <2>7. e # "EAGAIN"
    BY <2>1, <2>5, FirstCheckErrors
  <2> QED
    BY <1>1, <1>3, <2>1, <2>2, <2>3, <2>6, <2>7
<1>5. ASSUME NEW t \in Threads, GroupWaitSynced(t) PROVE NoEagain' /\ DoneIsTrue'
  <2>1. pc[t] = "wait" /\ UNCHANGED <<objs, mos_disk, calls>> /\ stable >= tx_txg[t]
    BY <1>5 DEF GroupWaitSynced, Synced, sync_vars, mos_vars, names_vars
  <2>2. cur[t] \in DOMAIN calls /\ cur[t] # 0
    BY <2>1 DEF CallInv, InCall
  <2>3. CASE UNCHANGED res
    BY <1>1, <2>1, <2>3
  <2>4. CASE Return(t, dstg_err[t]) /\ dstg_err[t] # "EAGAIN"
    <3>1. ASSUME calls[cur[t]].kind = "snapshot", dstg_err[t] # "0"
          PROVE  SnapsOf(objs, cur[t]) = {}
      BY <2>2, <3>1 DEF SnapThreads, Done
    <3>2. ASSUME calls[cur[t]].kind = "snapshot", dstg_err[t] = "0"
          PROVE  {o.ds : o \in SnapsOf(mos_disk.objs, cur[t])} = Tasks(cur[t])
      <4>1. \A g \in 0 .. TXG_SIZE - 1 : ~On(g, t)
        BY <1>0, <2>1 DEF TasksQueued
      <4>2. Done(t)
        BY <2>1, <3>2, <4>1 DEF Done
      <4>3. {o.ds : o \in SnapsOf(objs, cur[t])} = Tasks(cur[t])
            /\ \A o \in SnapsOf(objs, cur[t]) : o.txg = tx_txg[t]
        BY <2>2, <3>2, <4>2 DEF SnapThreads
      <4>4. \A o \in SnapsOf(objs, cur[t]) : o.txg <= stable
        BY <2>1, <4>3
      <4>5. SnapsOf(mos_disk.objs, cur[t]) = SnapsOf(objs, cur[t])
        BY <4>4 DEF SnapsOf, SnapObjs
      <4> QED
        BY <4>3, <4>5
    <3> QED
      BY <1>3, <2>1, <2>2, <2>4, <3>1, <3>2
  <2> QED
    BY <1>5, <2>3, <2>4 DEF GroupWaitSynced
<1>6. CASE dsl_sync_task_group_sync
  <2>1. UNCHANGED <<mos_disk, calls, res>>
    BY <1>6, GroupSyncFacts DEF TypeInv
  <2>2. ASSUME NEW c \in DOMAIN calls, res[c] = "none",
               \A x : x # c => SnapsOf(objs', x) = SnapsOf(objs, x)
        PROVE  DoneIsTrue'
    <3>1. \A x \in DOMAIN calls : calls[x].kind = "snapshot" /\ res[x] \notin {"0", "none"} =>
            SnapsOf(objs', x) = {}
      BY <2>2 DEF DoneIsTrue
    <3> QED
      BY <2>1, <3>1 DEF DoneIsTrue, Tasks, SnapsOf
  <2>3. NoEagain'
    BY <2>1 DEF NoEagain
  <2> QED
    BY <1>1, <1>6, <2>1, <2>2, <2>3, TakingFacts
<1>7. CASE Stabilize
  <2>1. UNCHANGED <<objs, calls, res>> /\ mos_disk'.objs = objs
    BY <1>7, StabilizeFacts DEF call_vars
  <2>2. ASSUME NEW c \in DOMAIN calls, calls[c].kind = "snapshot", res[c] = "0"
        PROVE  {o.ds : o \in SnapsOf(objs, c)} = Tasks(c)
    <3>1. {o.ds : o \in SnapsOf(mos_disk.objs, c)} = Tasks(c)
      BY <2>2 DEF DoneIsTrue
    <3>2. SnapsOf(mos_disk.objs, c) \subseteq SnapsOf(objs, c)
          /\ \A o \in SnapsOf(objs, c) : o.ds \in Tasks(c)
      BY DEF SnapObjs, SnapsOf
    <3> QED
      BY <3>1, <3>2
  <2> QED
    BY <2>1, <2>2 DEF DoneIsTrue, NoEagain, Tasks, SnapsOf
<1>8. CASE Crash
  <2>1. UNCHANGED <<mos_disk, calls, res>> /\ objs' = mos_disk.objs
    BY <1>8, CrashGroups, CrashThreads
  <2>2. \A c : SnapsOf(objs', c) \subseteq SnapsOf(objs, c)
    BY <2>1 DEF SnapObjs, SnapsOf
  <2>3. \A c \in DOMAIN calls : calls[c].kind = "snapshot" /\ res[c] \notin {"0", "none"} =>
            SnapsOf(objs', c) = {}
    BY <2>2 DEF DoneIsTrue
  <2> QED
    BY <2>1, <2>3 DEF DoneIsTrue, NoEagain, Tasks, SnapsOf
<1> QED
  BY <1>1, <1>2, <1>4, <1>5, <1>6, <1>7, <1>8
     DEF Next, Progress, WaitStep, SyncStep, dmu_objset_snapshot, dsl_recursive_rename,
         WriteBegin, WriteEnd, dsl_sync_task_group_nowait, GroupWaitAssign,
         GroupWaitCommit, GroupWaitAgain, Advance, SyncDatasets, sync_vars,
         mos_vars, names_vars, call_vars, vars

\* Every snapshot in os has a name.
Named(os, names) == \A o \in os : \E n \in Names : names[o.ds][n] = o

\* Named is inductive, in memory and on disk: a sync function adds a name that
\* its check function has just found to be free.
LEMMA NamedHold ==
  ASSUME TypeInv, GroupInv, CallInv, TasksQueued, SnapTimes, SnapObjs, SnapThreads,
         Named(objs, snapnames), Named(mos_disk.objs, mos_disk.snapnames), [Next]_vars
  PROVE  Named(objs, snapnames)' /\ Named(mos_disk.objs, mos_disk.snapnames)'
<1>0. /\ objs \subseteq Snapshots /\ snapnames \in [Datasets -> [Names -> Snapshots \cup {NoSnap}]]
      /\ \A o \in objs : o.ds \in Datasets /\ o # NoSnap
  BY ObjTypes, SyncTaskAssumption DEF TypeInv, MosTypes
<1>1. CASE UNCHANGED <<objs, snapnames, mos_disk>>
  BY <1>1 DEF Named
<1>2. CASE dsl_sync_task_group_sync
  <2>1. UNCHANGED mos_disk
    BY <1>2, GroupSyncFacts DEF TypeInv
  <2>2. ASSUME NEW c \in DOMAIN calls, calls[c].kind = "snapshot",
               \A d \in Tasks(c) : checkfunc(c, d, Txg) = "0", SnapshotSync(c, Tasks(c))
        PROVE  \A o \in objs' : \E n \in Names : snapnames'[o.ds][n] = o
    <3>1. PICK name \in Names : name = calls[c].name
      BY TaskTypes DEF TypeInv
    <3>2. /\ \A d \in Tasks(c) : d \in Datasets /\ snapnames[d][name] = NoSnap
          /\ \A o \in objs' \ objs : \E d \in Tasks(c) : o = SnapshotOf(c, d) /\ o.ds = d
      BY <2>2, <3>1, SnapshotFacts
    <3>3. \A d \in Datasets : snapnames'[d] =
            IF d \in Tasks(c) THEN zap_add(snapnames[d], name, SnapshotOf(c, d))
                              ELSE snapnames[d]
      BY <2>2, <3>1 DEF SnapshotSync
    <3>4. ASSUME NEW d \in Tasks(c)
          PROVE  /\ snapnames'[d][name] = SnapshotOf(c, d)
                 /\ \A n \in Names : n # name => snapnames'[d][n] = snapnames[d][n]
      <4>1. snapnames'[d] = zap_add(snapnames[d], name, SnapshotOf(c, d))
            /\ snapnames[d] \in [Names -> Snapshots \cup {NoSnap}]
        BY <1>0, <3>2, <3>3
      <4> QED
        BY <3>2, <4>1 DEF zap_add
    <3>5. ASSUME NEW o \in objs PROVE \E n \in Names : snapnames'[o.ds][n] = o
      <4>1. PICK n \in Names : snapnames[o.ds][n] = o
        BY DEF Named
      <4>2. o.ds \in Tasks(c) => n # name
        BY <1>0, <3>2, <4>1
      <4>3. snapnames'[o.ds][n] = snapnames[o.ds][n]
        BY <1>0, <3>3, <3>4, <4>2
      <4> QED
        BY <4>1, <4>3
    <3>6. ASSUME NEW o \in objs' \ objs PROVE \E n \in Names : snapnames'[o.ds][n] = o
      BY <3>2, <3>4
    <3> QED
      BY <3>5, <3>6
  <2>3. ASSUME NEW c \in DOMAIN calls, calls[c].kind = "rename",
               \A d \in Tasks(c) : checkfunc(c, d, Txg) = "0", RenameSync(c, Tasks(c))
        PROVE  \A o \in objs' : \E n \in Names : snapnames'[o.ds][n] = o
    <3>1. PICK name \in Names : name = calls[c].name
      BY TaskTypes DEF TypeInv
    <3>2. \A d \in Tasks(c) : d \in Datasets /\ snapnames[d][name] = NoSnap
      BY <2>3, <3>1, TaskTypes DEF checkfunc, TypeInv
    <3>3. objs' = objs /\ \A d \in Datasets : snapnames'[d] =
            IF d \in Tasks(c) THEN zap_add(zap_remove(snapnames[d], calls[c].obj[d]), name,
                                           calls[c].obj[d])
                              ELSE snapnames[d]
      BY <2>3, <3>1 DEF RenameSync
    <3>4. ASSUME NEW d \in Tasks(c)
          PROVE  /\ snapnames'[d][name] = calls[c].obj[d]
                 /\ \A n \in Names : n # name /\ snapnames[d][n] # calls[c].obj[d] =>
                      snapnames'[d][n] = snapnames[d][n]
      <4> DEFINE z == zap_remove(snapnames[d], calls[c].obj[d])
      <4>1. \A n \in Names : z[n] = IF snapnames[d][n] = calls[c].obj[d] THEN NoSnap
                                    ELSE snapnames[d][n]
        BY DEF zap_remove
      <4>2. DOMAIN z = Names /\ z[name] = NoSnap
        BY <3>2, <4>1 DEF zap_remove
      <4>3. snapnames'[d] = zap_add(z, name, calls[c].obj[d])
        BY <3>2, <3>3
      <4> HIDE DEF z
      <4>4. snapnames'[d][name] = calls[c].obj[d]
            /\ \A n \in Names : n # name => snapnames'[d][n] = z[n]
        BY <4>2, <4>3 DEF zap_add
      <4> QED
        BY <4>1, <4>4
    <3>5. ASSUME NEW o \in objs PROVE \E n \in Names : snapnames'[o.ds][n] = o
      <4>1. PICK n \in Names : snapnames[o.ds][n] = o
        BY DEF Named
      <4>2. CASE o.ds \notin Tasks(c)
        BY <1>0, <3>3, <4>1, <4>2
      <4>3. CASE o.ds \in Tasks(c) /\ o = calls[c].obj[o.ds]
        BY <3>4, <4>3
      <4>4. CASE o.ds \in Tasks(c) /\ o # calls[c].obj[o.ds]
        <5>1. n # name
          BY <1>0, <3>2, <4>1, <4>4
        <5> QED
          BY <3>4, <4>1, <4>4, <5>1
      <4> QED
        BY <4>2, <4>3, <4>4
    <3> QED
      BY <3>3, <3>5
  <2>4. \A o \in objs' : \E n \in Names : snapnames'[o.ds][n] = o
    <3>1. CASE UNCHANGED <<objs, snapnames>>
      BY <3>1 DEF Named
    <3> QED
      BY <1>2, <2>2, <2>3, <3>1, RunFacts
  <2> QED
    BY <2>1, <2>4 DEF Named
<1>3. CASE Stabilize
  <2>1. UNCHANGED <<objs, snapnames>> /\ mos_disk'.objs = objs /\ mos_disk'.snapnames = snapnames
    BY <1>3, StabilizeFacts
  <2> QED
    BY <2>1 DEF Named
<1>4. CASE Crash
  <2>1. UNCHANGED mos_disk /\ objs' = mos_disk.objs /\ snapnames' = mos_disk.snapnames
    BY <1>4, CrashGroups
  <2> QED
    BY <2>1 DEF Named
<1> QED
  BY <1>1, <1>2, <1>3, <1>4
     DEF Next, Progress, WaitStep, SyncStep, dmu_objset_snapshot, dsl_recursive_rename, Call,
         WriteBegin, WriteEnd, dsl_sync_task_group_nowait, GroupWaitAssign, GroupWaitCheck,
         GroupWaitCommit, GroupWaitSynced, GroupWaitAgain, Advance, SyncDatasets, sync_vars,
         mos_vars, names_vars, call_vars, vars

\* Groups go with time: what ended before a write began is in no later group.
WriteOrder ==
  /\ \A w \in DOMAIN writes : writes[w].txg <= open /\ writes[w].before <= Len(writes)
  /\ \A v, w \in DOMAIN writes : writes[v].txg # 0 /\ w <= writes[v].before =>
       writes[w].txg <= writes[v].txg
  /\ \A t \in Threads : pc[t] = "write" =>
       /\ wr[t].before <= Len(writes)
       /\ \A w \in DOMAIN writes : w <= wr[t].before => writes[w].txg <= active[t]

\* And what ended before a call is in no later group than the call's.
CallOrder ==
  /\ \A c \in DOMAIN calls : calls[c].before <= Len(writes)
  /\ \A t \in Threads : pc[t] \in {"check", "commit", "wait"} =>
       \A w \in DOMAIN writes : w <= calls[cur[t]].before => writes[w].txg <= tx_txg[t]
  /\ \A o \in objs : \A w \in DOMAIN writes :
       w <= calls[o.call].before => writes[w].txg <= o.txg

\* The writes to d in the groups up to k.
InGroups(d, k) == {w \in DOMAIN writes : writes[w].ds = d /\ writes[w].txg \in 1 .. k}

\* The last group whose data sets are written.
SyncedTo == IF datasets_synced THEN stable + 1 ELSE stable

\* A data set and a snapshot of it hold the writes of all groups up to theirs.
BpInv ==
  /\ \A d \in Datasets : bp[d] = InGroups(d, SyncedTo) /\ mos_disk.bp[d] = InGroups(d, stable)
  /\ \A o \in objs : o.bp = InGroups(o.ds, o.txg)

\* The types of one write.
LEMMA WriteTypes ==
  ASSUME ThreadTypes, NEW w \in DOMAIN writes
  PROVE  writes[w].txg \in Nat /\ writes[w].before \in Nat /\ w \in Nat
         /\ w <= Len(writes) /\ Len(writes) \in Nat
<1>1. writes[w] \in Writes /\ w \in 1 .. Len(writes) /\ Len(writes) \in Nat
  BY DEF ThreadTypes
<1> QED
  BY <1>1 DEF Writes

\* What the end of a write adds.
LEMMA WriteEndFacts ==
  ASSUME TypeInv, GroupInv, NEW t \in Threads, WriteEnd(t)
  PROVE  /\ Len(writes') = Len(writes) + 1 /\ Len(writes) \in Nat
         /\ DOMAIN writes' = DOMAIN writes \cup {Len(writes) + 1}
         /\ Len(writes) + 1 \notin DOMAIN writes
         /\ \A w \in DOMAIN writes : writes'[w] = writes[w]
         /\ writes'[Len(writes) + 1].ds = wr[t].ds
         /\ writes'[Len(writes) + 1].txg = active[t]
         /\ writes'[Len(writes) + 1].before = wr[t].before
         /\ pc[t] = "write" /\ active[t] \in Nat /\ wr[t].before \in Nat
         /\ stable < active[t] /\ active[t] <= open
         /\ datasets_synced => active[t] # stable + 1
         /\ UNCHANGED <<open, stable>>
<1> DEFINE x == [ds |-> wr[t].ds, txg |-> active[t], before |-> wr[t].before]
<1>1. writes \in Seq(Writes) /\ writes' = Append(writes, x)
  BY DEF TypeInv, ThreadTypes, WriteEnd
<1>2. x.ds = wr[t].ds /\ x.txg = active[t] /\ x.before = wr[t].before
  OBVIOUS
<1> HIDE DEF x
<1>3. /\ Len(writes') = Len(writes) + 1 /\ Len(writes) \in Nat
      /\ DOMAIN writes' = DOMAIN writes \cup {Len(writes) + 1}
      /\ Len(writes) + 1 \notin DOMAIN writes
      /\ \A w \in DOMAIN writes : writes'[w] = writes[w]
      /\ writes'[Len(writes) + 1] = x
  BY <1>1
<1>4. pc[t] = "write" /\ active[t] \in Nat /\ wr[t].before \in Nat
  BY DEF WriteEnd, TypeInv, GroupTypes, ThreadTypes
<1>5. stable < active[t] /\ active[t] <= open /\ (datasets_synced => active[t] # stable + 1)
  BY <1>4 DEF GroupInv, InTx, Quiesced, Txg
<1>6. UNCHANGED <<open, stable>>
  BY DEF WriteEnd, GC!End
<1> QED
  BY <1>2, <1>3, <1>4, <1>5, <1>6

\* WriteOrder is inductive.
LEMMA WriteOrderHolds ==
  ASSUME TypeInv, GroupInv, WriteOrder, [Next]_vars
  PROVE  WriteOrder'
<1> USE DEF TypeInv
<1>0. /\ open \in Nat /\ stable \in Nat /\ active \in [Threads -> Nat]
      /\ pc \in [Threads -> Pcs] /\ Len(writes) \in Nat
      /\ wr \in [Threads -> [ds : Datasets \cup {NoSnap}, before : Nat]]
      /\ \A w \in DOMAIN writes : writes[w].txg \in Nat /\ w \in Nat /\ w <= Len(writes)
  BY WriteTypes DEF GroupTypes, ThreadTypes
<1>1. ASSUME UNCHANGED writes, open' \in Nat, open <= open',
             \A u \in Threads : pc'[u] = "write" =>
               pc[u] = "write" /\ UNCHANGED <<wr[u], active[u]>>
      PROVE  WriteOrder'
  <2>1. \A w \in DOMAIN writes : writes[w].txg <= open'
    BY <1>0, <1>1 DEF WriteOrder
  <2>2. ASSUME NEW t \in Threads, pc'[t] = "write"
        PROVE  /\ wr'[t].before <= Len(writes)
               /\ \A w \in DOMAIN writes : w <= wr'[t].before => writes[w].txg <= active'[t]
    BY <1>1, <2>2 DEF WriteOrder
  <2> QED
    BY <1>1, <2>1, <2>2 DEF WriteOrder
<1>2. ASSUME NEW t \in Threads, NEW d \in Datasets, WriteBegin(t, d) PROVE WriteOrder'
  <2>1. /\ UNCHANGED <<writes, open>>
        /\ \A u \in Threads : u # t => UNCHANGED <<pc[u], wr[u], active[u]>>
        /\ wr'[t].before = Len(writes) /\ active'[t] = open
    BY <1>0, <1>2 DEF WriteBegin, GC!Begin
  <2>2. ASSUME NEW u \in Threads, pc'[u] = "write"
        PROVE  /\ wr'[u].before <= Len(writes)
               /\ \A w \in DOMAIN writes : w <= wr'[u].before => writes[w].txg <= active'[u]
    <3>1. CASE u = t
      BY <1>0, <2>1, <3>1 DEF WriteOrder
    <3>2. CASE u # t
      BY <2>1, <2>2, <3>2 DEF WriteOrder
    <3> QED
      BY <3>1, <3>2
  <2> QED
    BY <2>1, <2>2 DEF WriteOrder
<1>3. ASSUME NEW t \in Threads, WriteEnd(t) PROVE WriteOrder'
  <2>1. PICK n \in Nat : n = Len(writes) + 1 /\ Len(writes) < n
    <3>1. Len(writes) \in Nat
      BY <1>0
    <3>2. Len(writes) + 1 \in Nat /\ Len(writes) < Len(writes) + 1
      BY <3>1
    <3> QED
      BY <3>2
  <2>2. /\ Len(writes') = n /\ n \in Nat /\ Len(writes) < n
        /\ DOMAIN writes' = DOMAIN writes \cup {n} /\ n \notin DOMAIN writes
        /\ \A w \in DOMAIN writes : writes'[w] = writes[w]
        /\ writes'[n].txg = active[t] /\ writes'[n].before = wr[t].before
        /\ pc[t] = "write" /\ active[t] <= open /\ open' = open
    BY <1>3, <2>1, WriteEndFacts
  <2>3. \A u \in Threads : pc'[u] = "write" => u # t /\ pc[u] = "write"
                                              /\ UNCHANGED <<wr[u], active[u]>>
    BY <1>0, <1>3 DEF WriteEnd, GC!End
  <2>4. wr[t].before \in Nat /\ wr[t].before <= Len(writes)
        /\ \A w \in DOMAIN writes : w <= wr[t].before => writes[w].txg <= active[t]
    BY <1>0, <2>2 DEF WriteOrder
  <2>5. ASSUME NEW w \in DOMAIN writes'
        PROVE  writes'[w].txg <= open' /\ writes'[w].before <= Len(writes')
    <3>1. CASE w = n
      BY <1>0, <2>2, <2>4, <3>1
    <3>2. CASE w # n
      <4>1. w \in DOMAIN writes /\ writes'[w] = writes[w] /\ writes[w].before \in Nat
        BY <2>2, <3>2, WriteTypes
      <4> QED
        BY <1>0, <2>2, <4>1 DEF WriteOrder
    <3> QED
      BY <3>1, <3>2
  <2>6. ASSUME NEW v \in DOMAIN writes', NEW w \in DOMAIN writes', writes'[v].txg # 0,
               w <= writes'[v].before
        PROVE  writes'[w].txg <= writes'[v].txg
    <3>1. writes'[v].before \in Nat /\ writes'[v].before <= Len(writes)
      BY <2>2, <2>4, WriteTypes DEF WriteOrder
    <3>2. w \in DOMAIN writes /\ writes'[w] = writes[w]
      BY <1>0, <2>2, <2>6, <3>1
    <3>3. CASE v = n
      BY <2>2, <2>4, <2>6, <3>2, <3>3
    <3>4. CASE v # n
      BY <2>2, <2>6, <3>2, <3>4 DEF WriteOrder
    <3> QED
      BY <3>3, <3>4
  <2>7. ASSUME NEW u \in Threads, pc'[u] = "write"
        PROVE  /\ wr'[u].before <= Len(writes')
               /\ \A w \in DOMAIN writes' : w <= wr'[u].before => writes'[w].txg <= active'[u]
    <3>1. pc[u] = "write" /\ wr'[u] = wr[u] /\ active'[u] = active[u]
      BY <2>3, <2>7
    <3>2. wr[u].before \in Nat /\ wr[u].before <= Len(writes)
          /\ \A w \in DOMAIN writes : w <= wr[u].before => writes[w].txg <= active[u]
      BY <1>0, <3>1 DEF WriteOrder
    <3>3. ~(n <= wr[u].before) /\ wr[u].before <= n
      BY <1>0, <2>2, <3>2
    <3> QED
      BY <2>2, <3>1, <3>2, <3>3
  <2> QED
    BY <2>5, <2>6, <2>7 DEF WriteOrder
<1>4. CASE Crash
  <2>1. /\ open' = stable + 1 /\ Len(writes') = Len(writes) /\ DOMAIN writes' = DOMAIN writes
        /\ \A w \in DOMAIN writes :
              /\ writes'[w].before = writes[w].before
              /\ writes'[w].txg = IF writes[w].txg <= stable THEN writes[w].txg ELSE 0
    BY <1>4, CrashGroups, CrashWrites
  <2>2. \A u \in Threads : pc'[u] # "write"
    BY <1>4, CrashThreads
  <2>3. ASSUME NEW w \in DOMAIN writes
        PROVE  writes'[w].txg <= open' /\ writes'[w].before <= Len(writes')
    BY <1>0, <2>1 DEF WriteOrder
  <2>4. ASSUME NEW v \in DOMAIN writes, NEW w \in DOMAIN writes, writes'[v].txg # 0,
               w <= writes'[v].before
        PROVE  writes'[w].txg <= writes'[v].txg
    <3>1. writes[v].txg <= stable /\ writes'[v].txg = writes[v].txg /\ writes[v].txg # 0
      BY <2>1, <2>4
    <3>2. writes[w].txg <= writes[v].txg
      BY <2>1, <2>4, <3>1 DEF WriteOrder
    <3>3. writes'[w].txg = writes[w].txg
      BY <1>0, <2>1, <3>1, <3>2
    <3> QED
      BY <3>1, <3>2, <3>3
  <2> QED
    BY <2>1, <2>2, <2>3, <2>4 DEF WriteOrder
<1>5. CASE UNCHANGED <<writes, pc, wr, active, open>>
  BY <1>0, <1>1, <1>5
<1>6. CASE SyncDatasets \/ UNCHANGED vars
  BY <1>5, <1>6 DEF SyncDatasets, vars, gc_vars, wait_vars
<1>7. CASE dsl_sync_task_group_sync
  BY <1>5, <1>7, GroupSyncFacts
<1>8. CASE Stabilize
  BY <1>5, <1>8, StabilizeFacts DEF wait_vars
<1>9. CASE Advance
  BY <1>0, <1>1, <1>9 DEF Advance, GC!Advance, wait_vars
<1>10. ASSUME NEW t \in Threads, dsl_sync_task_group_nowait(t) PROVE WriteOrder'
  BY <1>5, <1>10 DEF dsl_sync_task_group_nowait, gc_vars, wait_vars
<1>11. ASSUME NEW t \in Threads, NEW k, NEW n, NEW o, Call(t, k, n, o) PROVE WriteOrder'
  BY <1>0, <1>1, <1>11 DEF Call, gc_vars
<1>12. ASSUME NEW t \in Threads, GroupWaitAssign(t) PROVE WriteOrder'
  BY <1>0, <1>1, <1>12 DEF GroupWaitAssign, GC!Begin
<1>13. ASSUME NEW t \in Threads, GroupWaitCheck(t) PROVE WriteOrder'
  <2>1. UNCHANGED <<writes, wr, open>>
        /\ \A u \in Threads : u # t => UNCHANGED active[u]
    BY <1>0, <1>13 DEF GroupWaitCheck, GC!End, gc_vars
  <2>2. \A u \in Threads : pc'[u] = "write" => u # t /\ pc[u] = "write"
    BY <1>0, <1>13 DEF GroupWaitCheck, Return
  <2> QED
    BY <1>0, <1>1, <2>1, <2>2
<1>14. ASSUME NEW t \in Threads, GroupWaitCommit(t) PROVE WriteOrder'
  BY <1>0, <1>1, <1>14 DEF GroupWaitCommit, GC!End
<1>15. ASSUME NEW t \in Threads, GroupWaitSynced(t) PROVE WriteOrder'
  BY <1>0, <1>1, <1>15 DEF GroupWaitSynced, Return, gc_vars
<1>16. ASSUME NEW t \in Threads, GroupWaitAgain(t) PROVE WriteOrder'
  BY <1>0, <1>1, <1>16 DEF GroupWaitAgain, gc_vars
<1> QED
  BY <1>2, <1>3, <1>4, <1>6, <1>7, <1>8, <1>9, <1>10, <1>11, <1>12, <1>13, <1>14, <1>15, <1>16
     DEF Next, Progress, WaitStep, SyncStep, dmu_objset_snapshot, dsl_recursive_rename

\* CallOrder is inductive.
LEMMA CallOrderHolds ==
  ASSUME TypeInv, GroupInv, CallInv, TasksQueued, SnapTimes, SnapObjs, SnapThreads,
         WriteOrder, CallOrder, [Next]_vars
  PROVE  CallOrder'
<1> USE DEF TypeInv
<1>0. /\ pc \in [Threads -> Pcs] /\ cur \in [Threads -> Nat] /\ tx_txg \in [Threads -> Nat]
      /\ calls \in Seq(Calls) /\ Len(writes) \in Nat /\ open \in Nat /\ stable \in Nat
      /\ \A t \in Threads : pc[t] \in {"check", "commit", "wait"} => cur[t] \in DOMAIN calls
      /\ \A c \in DOMAIN calls : calls[c].before \in Nat
      /\ \A w \in DOMAIN writes : writes[w].txg \in Nat /\ w \in Nat /\ w <= Len(writes)
      /\ \A o \in objs : o.txg \in Nat /\ o.call \in DOMAIN calls
  <2>1. \A o \in objs : o.txg \in Nat /\ o.call \in DOMAIN calls
    BY ObjTypes DEF MosTypes, SnapObjs
  <2>2. \A w \in DOMAIN writes : writes[w].txg \in Nat /\ w \in Nat /\ w <= Len(writes)
    BY WriteTypes
  <2>3. \A c \in DOMAIN calls : calls[c].before \in Nat
    BY TaskTypes
  <2>4. Len(writes) \in Nat
    BY DEF ThreadTypes
  <2> QED
    BY <2>1, <2>2, <2>3, <2>4 DEF GroupTypes, ThreadTypes, CallInv, InCall
<1>1. ASSUME UNCHANGED <<writes, calls>>, objs' \subseteq objs,
             \A u \in Threads : pc'[u] \in {"check", "commit", "wait"} =>
               pc[u] \in {"check", "commit", "wait"} /\ UNCHANGED <<cur[u], tx_txg[u]>>
      PROVE  CallOrder'
  <2>1. ASSUME NEW t \in Threads, pc'[t] \in {"check", "commit", "wait"}
        PROVE  \A w \in DOMAIN writes : w <= calls[cur'[t]].before => writes[w].txg <= tx_txg'[t]
    BY <1>1, <2>1 DEF CallOrder
  <2> QED
    BY <1>1, <2>1 DEF CallOrder
<1>2. ASSUME NEW t \in Threads, NEW k, NEW n, NEW f, Call(t, k, n, f) PROVE CallOrder'
  <2>1. PICK x : x = Len(calls) + 1
    OBVIOUS
  <2>2. /\ DOMAIN calls' = DOMAIN calls \cup {x}
        /\ \A c \in DOMAIN calls : calls'[c] = calls[c]
        /\ calls'[x].before = Len(writes) /\ UNCHANGED <<objs, writes>>
    <3>1. calls'[x] = [kind |-> k, name |-> n, obj |-> f, before |-> Len(writes)]
      BY <1>2, <2>1, CallFacts
    <3>2. calls'[x].before = Len(writes)
      BY <3>1
    <3>3. /\ DOMAIN calls' = DOMAIN calls \cup {x}
          /\ \A c \in DOMAIN calls : calls'[c] = calls[c]
          /\ UNCHANGED <<objs, writes>>
      BY <1>2, <2>1, CallFacts
    <3> QED
      BY <3>2, <3>3
  <2>3. \A u \in Threads : pc'[u] \in {"check", "commit", "wait"} =>
          pc[u] \in {"check", "commit", "wait"} /\ UNCHANGED <<cur[u], tx_txg[u]>>
    BY <1>0, <1>2 DEF Call
  <2>4. \A c \in DOMAIN calls' : calls'[c].before <= Len(writes)
    BY <1>0, <2>2 DEF CallOrder
  <2>5. ASSUME NEW u \in Threads, pc'[u] \in {"check", "commit", "wait"}
        PROVE  \A w \in DOMAIN writes : w <= calls'[cur'[u]].before => writes[w].txg <= tx_txg'[u]
    <3>1. pc[u] \in {"check", "commit", "wait"} /\ cur'[u] = cur[u] /\ tx_txg'[u] = tx_txg[u]
      BY <2>3, <2>5
    <3>2. calls'[cur[u]] = calls[cur[u]]
      BY <1>0, <2>2, <3>1
    <3> QED
      BY <3>1, <3>2 DEF CallOrder
  <2>6. ASSUME NEW o \in objs, NEW w \in DOMAIN writes, w <= calls'[o.call].before
        PROVE  writes[w].txg <= o.txg
    <3>1. calls'[o.call] = calls[o.call]
      BY <1>0, <2>2
    <3> QED
      BY <2>6, <3>1 DEF CallOrder
  <2> QED
    BY <2>2, <2>4, <2>5, <2>6 DEF CallOrder
<1>3. ASSUME NEW t \in Threads, WriteEnd(t) PROVE CallOrder'
  <2>1. PICK n \in Nat : n = Len(writes) + 1 /\ Len(writes) < n
    <3>1. Len(writes) \in Nat
      BY <1>0
    <3>2. Len(writes) + 1 \in Nat /\ Len(writes) < Len(writes) + 1
      BY <3>1
    <3> QED
      BY <3>2
  <2>2. /\ Len(writes') = n /\ DOMAIN writes' = DOMAIN writes \cup {n}
        /\ \A w \in DOMAIN writes : writes'[w] = writes[w]
    BY <1>3, <2>1, WriteEndFacts
  <2>3. UNCHANGED <<calls, objs, cur, tx_txg>>
        /\ \A u \in Threads : pc'[u] \in {"check", "commit", "wait"} => pc'[u] = pc[u]
    BY <1>0, <1>3 DEF WriteEnd, call_vars, sync_vars, mos_vars, names_vars
  <2>4. \A c \in DOMAIN calls : calls[c].before <= Len(writes) /\ ~(n <= calls[c].before)
                                /\ calls[c].before <= n
    BY <1>0, <2>1 DEF CallOrder
  <2>5. ASSUME NEW u \in Threads, pc'[u] \in {"check", "commit", "wait"}
        PROVE  \A w \in DOMAIN writes' : w <= calls[cur[u]].before => writes'[w].txg <= tx_txg[u]
    <3>1. cur[u] \in DOMAIN calls
      BY <1>0, <2>3, <2>5
    <3> QED
      BY <2>2, <2>3, <2>4, <2>5, <3>1 DEF CallOrder
  <2>6. ASSUME NEW o \in objs, NEW w \in DOMAIN writes', w <= calls[o.call].before
        PROVE  writes'[w].txg <= o.txg
    <3>1. o.call \in DOMAIN calls
      BY <1>0
    <3> QED
      BY <2>2, <2>4, <2>6, <3>1 DEF CallOrder
  <2> QED
    BY <2>2, <2>3, <2>4, <2>5, <2>6 DEF CallOrder
<1>4. ASSUME NEW t \in Threads, GroupWaitAssign(t) PROVE CallOrder'
  <2>1. UNCHANGED <<writes, calls, objs, cur>> /\ tx_txg'[t] = open
        /\ \A u \in Threads : u # t => UNCHANGED <<pc[u], tx_txg[u]>>
    BY <1>0, <1>4 DEF GroupWaitAssign, call_vars, sync_vars, mos_vars, names_vars
  <2>2. ASSUME NEW u \in Threads, pc'[u] \in {"check", "commit", "wait"}
        PROVE  \A w \in DOMAIN writes : w <= calls[cur[u]].before => writes[w].txg <= tx_txg'[u]
    <3>1. CASE u = t
      BY <2>1, <3>1 DEF WriteOrder
    <3>2. CASE u # t
      BY <2>1, <2>2, <3>2 DEF CallOrder
    <3> QED
      BY <3>1, <3>2
  <2> QED
    BY <2>1, <2>2 DEF CallOrder
<1>5. CASE dsl_sync_task_group_sync
  <2>1. UNCHANGED <<writes, calls, pc, cur, tx_txg>>
    BY <1>5, GroupSyncFacts
  <2>2. ASSUME NEW c \in DOMAIN calls,
               \E t \in Threads : c = cur[t] /\ pc[t] \in {"commit", "wait"} /\ tx_txg[t] = Txg,
               objs' = objs \cup {SnapshotOf(c, d) : d \in Tasks(c)},
               \A d : SnapshotOf(c, d).call = c /\ SnapshotOf(c, d).txg = Txg
        PROVE  CallOrder'
    <3>1. \A w \in DOMAIN writes : w <= calls[c].before => writes[w].txg <= Txg
      BY <2>2 DEF CallOrder
    <3>2. \A o \in objs' : \A w \in DOMAIN writes :
            w <= calls[o.call].before => writes[w].txg <= o.txg
      BY <2>2, <3>1 DEF CallOrder
    <3> QED
      BY <2>1, <3>2 DEF CallOrder
  <2> QED
    BY <1>1, <1>5, <2>1, <2>2, TakingFacts
<1>6. CASE Crash
  <2>1. /\ Len(writes') = Len(writes) /\ DOMAIN writes' = DOMAIN writes
        /\ \A w \in DOMAIN writes :
              writes'[w].txg = IF writes[w].txg <= stable THEN writes[w].txg ELSE 0
        /\ calls' = calls /\ objs' \subseteq objs
        /\ \A u \in Threads : pc'[u] = "idle"
    BY <1>6, CrashGroups, CrashThreads, CrashWrites DEF SnapObjs
  <2>2. ASSUME NEW o \in objs', NEW w \in DOMAIN writes, w <= calls[o.call].before
        PROVE  writes'[w].txg <= o.txg
    <3>1. o \in objs /\ writes[w].txg <= o.txg /\ o.txg \in Nat /\ writes[w].txg \in Nat
      BY <1>0, <2>1, <2>2 DEF CallOrder
    <3> QED
      BY <1>0, <2>1, <3>1
  <2> QED
    BY <2>1, <2>2 DEF CallOrder
<1>7. CASE SyncDatasets \/ Advance \/ UNCHANGED vars
  BY <1>1, <1>7
     DEF SyncDatasets, Advance, vars, call_vars, wait_vars, sync_vars, mos_vars, names_vars
<1>8. CASE Stabilize
  BY <1>1, <1>8, StabilizeFacts DEF call_vars, wait_vars
<1>9. ASSUME NEW t \in Threads, NEW d \in Datasets, WriteBegin(t, d) PROVE CallOrder'
  BY <1>0, <1>1, <1>9 DEF WriteBegin, call_vars, sync_vars, mos_vars, names_vars
<1>10. ASSUME NEW t \in Threads, dsl_sync_task_group_nowait(t) PROVE CallOrder'
  BY <1>1, <1>10
     DEF dsl_sync_task_group_nowait, call_vars, wait_vars, sync_vars, mos_vars, names_vars
<1>11. ASSUME NEW t \in Threads, GroupWaitCheck(t) PROVE CallOrder'
  <2>1. pc[t] = "check" /\ UNCHANGED <<writes, calls, objs>>
    BY <1>11 DEF GroupWaitCheck, sync_vars, mos_vars, names_vars
  <2>2. \A u \in Threads : pc'[u] \in {"check", "commit", "wait"} =>
          pc[u] \in {"check", "commit", "wait"} /\ UNCHANGED <<cur[u], tx_txg[u]>>
    BY <1>0, <1>11, <2>1 DEF GroupWaitCheck, Return
  <2> QED
    BY <1>1, <2>1, <2>2
<1>12. ASSUME NEW t \in Threads, GroupWaitCommit(t) PROVE CallOrder'
  BY <1>0, <1>1, <1>12 DEF GroupWaitCommit, call_vars, sync_vars, mos_vars, names_vars
<1>13. ASSUME NEW t \in Threads, GroupWaitSynced(t) PROVE CallOrder'
  BY <1>0, <1>1, <1>13 DEF GroupWaitSynced, Return, sync_vars, mos_vars, names_vars
<1>14. ASSUME NEW t \in Threads, GroupWaitAgain(t) PROVE CallOrder'
  BY <1>0, <1>1, <1>14 DEF GroupWaitAgain, call_vars, sync_vars, mos_vars, names_vars
<1> QED
  BY <1>2, <1>3, <1>4, <1>5, <1>6, <1>7, <1>8, <1>9, <1>10, <1>11, <1>12, <1>13, <1>14
     DEF Next, Progress, WaitStep, SyncStep, dmu_objset_snapshot, dsl_recursive_rename

\* BpInv is inductive: a write ends in a group whose data sets are not written
\* yet.
LEMMA BpInvHolds ==
  ASSUME TypeInv, GroupInv, CallInv, TasksQueued, SnapTimes, SnapObjs, SnapThreads, BpInv,
         [Next]_vars
  PROVE  BpInv'
<1> USE DEF TypeInv
<1>0. /\ stable \in Nat /\ datasets_synced \in BOOLEAN
      /\ \A w \in DOMAIN writes : writes[w].txg \in Nat
      /\ \A o \in objs : o.txg \in Nat /\ o.txg <= SyncedTo
  <2>1. ASSUME NEW o \in objs PROVE o.txg \in Nat /\ o.txg <= SyncedTo
    <3>1. o.txg \in Nat /\ o.ds \in Datasets
      BY ObjTypes DEF MosTypes
    <3>2. o.txg <= prev_snap_txg[o.ds] /\ prev_snap_txg[o.ds] \in Nat
      BY <3>1 DEF SnapObjs, MosTypes
    <3>3. /\ prev_snap_txg[o.ds] <= stable + 1
          /\ ~datasets_synced => prev_snap_txg[o.ds] <= stable
      BY <3>1 DEF SnapTimes
    <3> QED
      BY <3>1, <3>2, <3>3 DEF SyncedTo, GroupTypes
  <2> QED
    BY <2>1, WriteTypes DEF GroupTypes
<1>1. CASE UNCHANGED <<writes, bp, objs, mos_disk, stable, datasets_synced>>
  BY <1>1 DEF BpInv, InGroups, SyncedTo
<1>2. ASSUME NEW t \in Threads, WriteEnd(t) PROVE BpInv'
  <2>1. PICK n : n = Len(writes) + 1
    OBVIOUS
  <2>2. /\ DOMAIN writes' = DOMAIN writes \cup {n} /\ n \notin DOMAIN writes
        /\ \A w \in DOMAIN writes : writes'[w] = writes[w]
        /\ writes'[n].txg = active[t] /\ active[t] \in Nat /\ stable < active[t]
        /\ datasets_synced => active[t] # stable + 1
    BY <1>2, <2>1, WriteEndFacts
  <2>3. UNCHANGED <<bp, objs, mos_disk, stable, datasets_synced>>
    BY <1>2 DEF WriteEnd, GC!End, sync_vars, mos_vars, names_vars
  <2>4. SyncedTo < active[t]
    BY <1>0, <2>2 DEF SyncedTo
  <2>5. ASSUME NEW d, NEW k \in Nat, k <= SyncedTo PROVE InGroups(d, k)' = InGroups(d, k)
    <3>1. writes'[n].txg \notin 1 .. k
      BY <1>0, <2>2, <2>4, <2>5 DEF SyncedTo
    <3> QED
      BY <2>2, <3>1 DEF InGroups
  <2>6. stable <= SyncedTo /\ SyncedTo \in Nat
    BY <1>0 DEF SyncedTo
  <2>7. PICK k \in Nat, st \in Nat : k = SyncedTo /\ st = stable
    BY <1>0, <2>6
  <2>8. \A d \in Datasets : bp'[d] = InGroups(d, k)' /\ mos_disk'.bp[d] = InGroups(d, st)'
    BY <2>3, <2>5, <2>6, <2>7 DEF BpInv
  <2>9. \A o \in objs : o.bp = InGroups(o.ds, o.txg)'
    BY <1>0, <2>5 DEF BpInv
  <2>10. SyncedTo' = k /\ stable' = st
    BY <2>3, <2>7 DEF SyncedTo
  <2> QED
    BY <2>3, <2>8, <2>9, <2>10 DEF BpInv, InGroups
<1>3. CASE SyncDatasets
  <2>1. /\ ~datasets_synced /\ datasets_synced' = TRUE
        /\ UNCHANGED <<writes, objs, mos_disk, stable>>
        /\ \A d \in Datasets : bp'[d] = bp[d] \cup
             {w \in DOMAIN writes : writes[w].ds = d /\ writes[w].txg = stable + 1}
    BY <1>3 DEF SyncDatasets, gc_vars, names_vars, Txg
  <2>2. SyncedTo = stable /\ SyncedTo' = stable + 1
    BY <2>1 DEF SyncedTo
  <2>3. ASSUME NEW d \in Datasets PROVE bp'[d] = InGroups(d, stable + 1)
    <3>1. bp[d] = InGroups(d, stable)
      BY <2>2 DEF BpInv
    <3>2. \A w \in DOMAIN writes : writes[w].txg \in 1 .. stable + 1 <=>
            writes[w].txg \in 1 .. stable \/ writes[w].txg = stable + 1
      BY <1>0
    <3> QED
      BY <2>1, <3>1, <3>2 DEF InGroups
  <2> QED
    BY <2>1, <2>2, <2>3 DEF BpInv, InGroups
<1>4. CASE dsl_sync_task_group_sync
  <2>1. UNCHANGED <<writes, bp, mos_disk, stable, datasets_synced>> /\ datasets_synced
    BY <1>4, GroupSyncFacts
  <2>2. ASSUME NEW c \in DOMAIN calls,
               objs' = objs \cup {SnapshotOf(c, d) : d \in Tasks(c)},
               \A d \in Tasks(c) : d \in Datasets,
               \A d : /\ SnapshotOf(c, d).ds = d /\ SnapshotOf(c, d).txg = Txg
                      /\ SnapshotOf(c, d).bp = bp[d]
        PROVE  BpInv'
    <3>1. \A d \in Tasks(c) : bp[d] = InGroups(d, Txg)
      BY <2>1, <2>2 DEF BpInv, SyncedTo, Txg
    <3>2. \A o \in objs' : o.bp = InGroups(o.ds, o.txg)
      BY <2>2, <3>1 DEF BpInv
    <3> QED
      BY <2>1, <3>2 DEF BpInv, InGroups, SyncedTo
  <2> QED
    BY <1>1, <1>4, <2>1, <2>2, TakingFacts
<1>5. CASE Stabilize
  <2>1. /\ datasets_synced /\ datasets_synced' = FALSE /\ stable' = stable + 1
        /\ UNCHANGED <<writes, objs, bp>> /\ mos_disk'.bp = bp
    BY <1>5, StabilizeFacts DEF Txg
  <2>2. SyncedTo' = stable + 1 /\ SyncedTo = stable + 1
    BY <2>1 DEF SyncedTo
  <2> QED
    BY <2>1, <2>2 DEF BpInv, InGroups
<1>6. CASE Crash
  <2>1. /\ stable' = stable /\ datasets_synced' = FALSE /\ mos_disk' = mos_disk
        /\ bp' = mos_disk.bp /\ objs' = mos_disk.objs
    BY <1>6, CrashGroups
  <2>2. /\ DOMAIN writes' = DOMAIN writes
        /\ \A w \in DOMAIN writes :
              /\ writes'[w].ds = writes[w].ds
              /\ writes'[w].txg = IF writes[w].txg <= stable THEN writes[w].txg ELSE 0
    BY <1>6, CrashWrites
  <2>3. ASSUME NEW d, NEW k \in Nat, k <= stable PROVE InGroups(d, k)' = InGroups(d, k)
    <3>1. \A w \in DOMAIN writes : writes'[w].txg \in 1 .. k <=> writes[w].txg \in 1 .. k
      BY <1>0, <2>2, <2>3
    <3> QED
      BY <2>2, <3>1 DEF InGroups
  <2>4. ASSUME NEW o \in objs' PROVE o \in objs /\ o.txg <= stable
    <3>1. o \in objs /\ o \in Snapshots /\ o.txg <= mos_disk.prev_snap_txg[o.ds]
      BY <2>1 DEF SnapObjs, MosTypes
    <3>2. o.ds \in Datasets /\ o.txg \in Nat
      BY <3>1, ObjTypes
    <3>3. mos_disk.prev_snap_txg[o.ds] \in Nat /\ mos_disk.prev_snap_txg[o.ds] <= stable
      BY <3>2, DiskTypes DEF SnapTimes
    <3> QED
      BY <1>0, <3>1, <3>2, <3>3
  <2>5. PICK st \in Nat : st = stable
    BY <1>0
  <2>6. \A d \in Datasets : mos_disk.bp[d] = InGroups(d, st)'
    BY <2>3, <2>5 DEF BpInv
  <2>7. \A o \in objs' : o.bp = InGroups(o.ds, o.txg)'
    BY <1>0, <2>3, <2>4 DEF BpInv
  <2>8. SyncedTo' = st /\ stable' = st
    BY <2>1, <2>5 DEF SyncedTo
  <2> QED
    BY <2>1, <2>6, <2>7, <2>8 DEF BpInv, InGroups
<1> QED
  BY <1>1, <1>2, <1>3, <1>4, <1>5, <1>6
     DEF Next, Progress, WaitStep, SyncStep, dmu_objset_snapshot, dsl_recursive_rename, Call,
         WriteBegin, dsl_sync_task_group_nowait, GroupWaitAssign, GroupWaitCheck,
         GroupWaitCommit, GroupWaitSynced, GroupWaitAgain, Advance, GC!Begin, GC!End, GC!Advance,
         gc_vars, sync_vars, mos_vars, names_vars, call_vars, vars

\* What the parts of the invariant say of a snapshot's moment.
LEMMA MomentFollows ==
  ASSUME TypeInv, SnapObjs, Whole(objs), WriteOrder, CallOrder, BpInv
  PROVE  SnapshotIsAMoment
<1> SUFFICES ASSUME NEW o \in objs, NEW q \in objs, o.call = q.call,
                    NEW w \in DOMAIN writes, writes[w].txg # 0, writes[w].ds = o.ds
             PROVE  /\ w <= calls[o.call].before => w \in o.bp
                    /\ \A v \in q.bp : w <= writes[v].before => w \in o.bp
  BY DEF SnapshotIsAMoment
<1>1. o.txg \in Nat /\ q.txg \in Nat /\ writes[w].txg \in Nat
  BY ObjTypes, WriteTypes DEF TypeInv, MosTypes
<1>2. o.txg = q.txg
  BY DEF Whole, SnapsOf, SnapObjs
<1>3. writes[w].txg <= o.txg => w \in o.bp
  <2>1. writes[w].txg <= o.txg => writes[w].txg \in 1 .. o.txg
    BY <1>1
  <2> QED
    BY <2>1 DEF BpInv, InGroups
<1>4. w <= calls[o.call].before => writes[w].txg <= o.txg
  BY DEF CallOrder
<1>5. ASSUME NEW v \in q.bp, w <= writes[v].before PROVE writes[w].txg <= o.txg
  <2>1. v \in DOMAIN writes /\ writes[v].txg \in 1 .. q.txg
    BY DEF BpInv, InGroups
  <2>2. writes[v].txg \in Nat /\ writes[v].txg # 0 /\ writes[v].txg <= q.txg
    BY <1>1, <2>1
  <2>3. writes[w].txg <= writes[v].txg
    BY <1>5, <2>1, <2>2 DEF WriteOrder
  <2> QED
    BY <1>1, <1>2, <2>2, <2>3
<1> QED
  BY <1>3, <1>4, <1>5

----------------------------------------------------------------------------
\* The invariant that all of it rests on.  Its parts are in the order in which
\* each needs those before it.
Inv ==
  /\ TypeInv /\ GroupInv /\ CallInv /\ TasksQueued /\ EventInv
  /\ SnapTimes /\ SnapObjs /\ SnapThreads
  /\ Whole(objs) /\ Whole(mos_disk.objs)
  /\ OneSnapshotPerGroup /\ NoEagain /\ DoneIsTrue
  /\ Named(objs, snapnames) /\ Named(mos_disk.objs, mos_disk.snapnames)
  /\ WriteOrder /\ CallOrder /\ BpInv

\* The state in which the pool is imported satisfies it.
LEMMA InitInv == Init => Inv
<1> SUFFICES ASSUME Init PROVE Inv
  OBVIOUS
<1>1. /\ open = 1 /\ stable = 0 /\ active = [t \in Threads |-> 0]
      /\ dp_sync_tasks = [g \in 0 .. TXG_SIZE - 1 |-> <<>>] /\ datasets_synced = FALSE
      /\ bp = [d \in Datasets |-> {}] /\ prev_snap_txg = [d \in Datasets |-> 0]
      /\ snapnames = [d \in Datasets |-> [n \in Names |-> NoSnap]]
      /\ objs = {} /\ history = {}
      /\ writes = <<>> /\ events = <<>> /\ calls = <<>> /\ res = <<>>
      /\ pc = [t \in Threads |-> "idle"] /\ cur = [t \in Threads |-> 0]
      /\ dstg_err = [t \in Threads |-> "0"] /\ tx_txg = [t \in Threads |-> 0]
      /\ wr = [t \in Threads |-> NoWrite]
  BY Zenon DEF Init, NoStacks
<1>2. mos_disk.bp = bp /\ mos_disk.prev_snap_txg = prev_snap_txg
      /\ mos_disk.snapnames = snapnames /\ mos_disk.objs = objs /\ mos_disk.history = history
  BY DEF Init, mos
<1>3. TypeInv
  <2>1. GroupTypes
    <3>1. <<>> \in Seq(Threads \cup Nat)
      OBVIOUS
    <3>2. dp_sync_tasks \in [0 .. TXG_SIZE - 1 -> Seq(Threads \cup Nat)]
      BY <1>1, <3>1, Zenon
    <3> QED
      BY <1>1, <3>2 DEF GroupTypes
  <2>2. MosTypes
    <3>1. /\ bp \in [Datasets -> SUBSET Nat] /\ prev_snap_txg \in [Datasets -> Nat]
          /\ objs \in SUBSET Snapshots /\ history \in SUBSET Nat
      BY <1>1
    <3>2. snapnames \in [Datasets -> [Names -> Snapshots \cup {NoSnap}]]
      BY <1>1
    <3>3. mos_disk \in Mos
      BY <3>1, <3>2 DEF Init, mos, Mos
    <3> QED
      BY <3>1, <3>2, <3>3 DEF MosTypes
  <2>3. ThreadTypes
    <3>1. writes \in Seq(Writes) /\ events \in Seq(Events)
          /\ calls \in Seq(Calls) /\ res \in Seq(Errs \cup {"none"})
      BY <1>1
    <3>2. pc \in [Threads -> Pcs] /\ cur \in [Threads -> Nat] /\ dstg_err \in [Threads -> Errs]
          /\ tx_txg \in [Threads -> Nat]
      BY <1>1 DEF Pcs, Errs
    <3>3. wr \in [Threads -> [ds : Datasets \cup {NoSnap}, before : Nat]]
      BY <1>1 DEF NoWrite
    <3> QED
      BY <1>1, <3>1, <3>2, <3>3 DEF ThreadTypes
  <2> QED
    BY <2>1, <2>2, <2>3 DEF TypeInv
<1>4. GroupInv /\ CallInv
  <2>1. GroupInv
    BY <1>1 DEF GroupInv, InTx
  <2>2. CallInv
    BY <1>1 DEF CallInv, InCall
  <2> QED
    BY <2>1, <2>2
<1>5. DOMAIN writes = {} /\ DOMAIN events = {} /\ DOMAIN calls = {} /\ DOMAIN res = {}
  BY <1>1
<1>6. TasksQueued /\ EventInv
  <2>1. \A g \in 0 .. TXG_SIZE - 1 : DOMAIN dp_sync_tasks[g] = {}
    BY <1>1
  <2> QED
    BY <1>1, <1>2, <1>5, <2>1 DEF TasksQueued, EventInv, EventsQueued, On
<1>7. SnapTimes /\ SnapObjs /\ SnapThreads
  BY <1>1, <1>2 DEF SnapTimes, SnapObjs, SnapThreads
<1>8. Whole(objs) /\ Whole(mos_disk.objs) /\ OneSnapshotPerGroup /\ NoEagain /\ DoneIsTrue
      /\ Named(objs, snapnames) /\ Named(mos_disk.objs, mos_disk.snapnames)
  BY <1>1, <1>2, <1>5 DEF Whole, OneSnapshotPerGroup, NoEagain, DoneIsTrue, Named
<1>9. WriteOrder /\ CallOrder /\ BpInv
  BY <1>1, <1>2, <1>5 DEF WriteOrder, CallOrder, BpInv, InGroups
<1> QED
  BY <1>3, <1>4, <1>6, <1>7, <1>8, <1>9 DEF Inv

\* Every step of dsl_synctask.c, of the transaction groups and of a crash keeps it.
LEMMA NextInv == Inv /\ [Next]_vars => Inv'
<1> SUFFICES ASSUME Inv, [Next]_vars PROVE Inv'
  OBVIOUS
<1>1. EventsQueued
  BY DEF Inv, EventInv
<1>2. TypeInv'
  BY <1>1, GroupTypesHold, MosTypesHold, ThreadTypesHold DEF Inv, TypeInv
<1>3. GroupInv' /\ CallInv' /\ TasksQueued' /\ EventInv'
  BY GroupInvHolds, CallInvHolds, TasksQueuedHold, EventInvHolds DEF Inv
<1>4. SnapTimes' /\ SnapObjs' /\ SnapThreads'
  BY SnapTimesHold, SnapObjsHold, SnapThreadsHold DEF Inv
<1>5. Whole(objs)' /\ Whole(mos_disk.objs)' /\ OneSnapshotPerGroup' /\ NoEagain' /\ DoneIsTrue'
  BY WholeHold, OneSnapshotHolds, ResultsHold DEF Inv
<1>6. Named(objs, snapnames)' /\ Named(mos_disk.objs, mos_disk.snapnames)'
  BY NamedHold DEF Inv
<1>7. WriteOrder' /\ CallOrder' /\ BpInv'
  BY WriteOrderHolds, CallOrderHolds, BpInvHolds DEF Inv
<1> QED
  BY <1>2, <1>3, <1>4, <1>5, <1>6, <1>7 DEF Inv

\* Inv holds in every state of every behaviour.
THEOREM SyncTaskInvariant == Spec => []Inv
  BY InitInv, NextInv, PTL DEF Spec

\* A group of tasks is on the list of one transaction group that is not on disk
\* yet, once, whatever the crashes and retries: dsl_sync_task_group_wait() may
\* free its group when txg_wait_synced() returns.
THEOREM TasksAreQueuedOnce == Spec => []QueuedOnce
<1>1. Inv => QueuedOnce
  BY TasksQueuedOnce DEF Inv, TypeInv
<1> QED
  BY <1>1, SyncTaskInvariant, PTL

\* An event of log_internal() is on disk with the transaction that logged it.
THEOREM EventsGoWithTheirTransaction == Spec => []EventsGoWithTheirGroup
<1>1. Inv => EventsGoWithTheirGroup
  BY DEF Inv, EventInv, EventsGoWithTheirGroup
<1> QED
  BY <1>1, SyncTaskInvariant, PTL

\* dsl_sync_task_group_sync() takes the snapshots of a call all or not at all.
THEOREM SnapshotsAllOrNone == Spec => []AllOrNone
<1>1. Inv => AllOrNone
  BY DEF Inv, Whole, AllOrNone
<1> QED
  BY <1>1, SyncTaskInvariant, PTL

\* dsl_sync_task_group_wait() does not lie, on success or on failure.
THEOREM ResultsAreTrue == Spec => []ResultIsTrue
<1>1. Inv => ResultIsTrue
  BY DEF Inv, ResultIsTrue
<1> QED
  BY <1>1, SyncTaskInvariant, PTL

\* And never returns EAGAIN, which is between it and the sync thread.
THEOREM CallersNeverSeeEagain == Spec => []NoEagain
<1>1. Inv => NoEagain
  BY DEF Inv
<1> QED
  BY <1>1, SyncTaskInvariant, PTL

\* dsl_dataset_snapshot_check() keeps snapshots of one data set in groups of
\* their own.
THEOREM SnapshotsOfOwnGroups == Spec => []OneSnapshotPerGroup
<1>1. Inv => OneSnapshotPerGroup
  BY DEF Inv
<1> QED
  BY <1>1, SyncTaskInvariant, PTL

\* The second run of the check functions, in syncing context, is enough for no
\* snapshot to lose its name to another.
THEOREM SnapshotNamesLast == Spec => []SnapshotsKeepTheirNames
<1>1. Inv => SnapshotsKeepTheirNames
  BY DEF Inv, Named, SnapshotsKeepTheirNames
<1> QED
  BY <1>1, SyncTaskInvariant, PTL

\* dsl_pool_sync() syncs the data sets before the tasks, so the snapshots of a
\* call are of one moment, and not of one before the call.
THEOREM SnapshotsAreMoments == Spec => []SnapshotIsAMoment
<1>1. Inv => SnapshotIsAMoment
  BY MomentFollows DEF Inv
<1> QED
  BY <1>1, SyncTaskInvariant, PTL

=============================================================================
