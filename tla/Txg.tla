-------------------------------- MODULE Txg --------------------------------
(***************************************************************************)
(* Pool-wide transaction groups of ZFS, uts/common/fs/zfs/txg.c.           *)
(*                                                                         *)
(* Two kernel threads serve a pool.  The quiesce thread closes the open    *)
(* group and waits for every transaction in it to end; the sync thread     *)
(* writes the quiesced group to disk.  Client threads enter the open group *)
(* with txg_hold_open() and leave it with txg_rele_to_sync(); others sleep *)
(* in txg_wait_synced() and txg_wait_open().  Groups share four slots of   *)
(* per-CPU state, picked by txg & TXG_MASK.                                *)
(*                                                                         *)
(* One action is one critical section of tx_sync_lock, or one step under   *)
(* a per-CPU tc_lock.  tc_lock is a variable because txg_hold_open()       *)
(* returns with it held; tx_sync_lock is never held between two actions.   *)
(* A thread asleep on a condition variable has a program counter that      *)
(* says so, and cv_broadcast() moves it on.  Local variables go back to a  *)
(* fixed value once they are dead.                                         *)
(***************************************************************************)
EXTENDS Naturals, FiniteSets

CONSTANTS
  Threads,    \* threads that run transactions
  Ctl,        \* the thread that imports and exports the pool
  Quiescer,   \* the quiesce thread, as an owner of tc_lock
  Free,       \* the owner of a tc_lock nobody holds
  NCpus,      \* max_ncpus
  InitTxg,    \* the txg the pool is opened with
  WaitTxgs,   \* bound: the arguments of the wait calls, 0 among them
  MaxTxg      \* bound: the last txg that clients and the timer ask for

TXG_SIZE == 4
TXG_DEFER_SIZE == 2

ASSUME TxgAssumption ==
  /\ IsFiniteSet(Threads)
  /\ Ctl \notin Threads
  /\ Quiescer \notin Threads
  /\ Free \notin Threads \cup {Quiescer}
  /\ NCpus \in Nat \ {0}
  /\ InitTxg \in Nat /\ InitTxg >= TXG_SIZE
  /\ WaitTxgs \subseteq Nat
  /\ MaxTxg \in Nat

Cpus == 1 .. NCpus
Slots == 0 .. TXG_SIZE - 1
Procs == Threads \cup {Ctl}

\* Fault: a mask one bit too short, so that groups two apart share a slot.
Slot_ShortMask(txg) == txg % 2

\* txg & TXG_MASK: TXG_SIZE is a power of two.
Slot(txg) == txg % TXG_SIZE

VARIABLES
  \* the tx_state_t of the pool
  tx_open_txg, tx_quiesced_txg, tx_syncing_txg, tx_synced_txg,
  tx_sync_txg_waiting, tx_quiesce_txg_waiting, tx_threads, tx_exiting,
  \* the tx_cpu_t of each CPU; a callback is named by its thread and its txg
  tc_lock, tc_count, tc_callbacks,
  \* the two service threads
  sync_pc, quiesce_pc, quiesce_txg, quiesce_cpu,
  \* the callers: where they are, their txg_handle_t, the txg they wait for
  pc, th_cpu, th_txg, target

state_vars == <<tx_open_txg, tx_quiesced_txg, tx_syncing_txg, tx_synced_txg>>
waiting_vars == <<tx_sync_txg_waiting, tx_quiesce_txg_waiting>>
thread_vars == <<tx_threads, tx_exiting>>
cpu_vars == <<tc_lock, tc_count, tc_callbacks>>
quiesce_vars == <<quiesce_pc, quiesce_txg, quiesce_cpu>>
client_vars == <<pc, th_cpu, th_txg, target>>
vars == <<state_vars, waiting_vars, thread_vars, cpu_vars, sync_pc,
          quiesce_vars, client_vars>>

SyncPcs == {"none", "top", "moreSleep", "due", "doneSleep", "doneWoken",
            "syncing", "exited"}
QuiescePcs == {"none", "top", "sleep", "lock", "advance", "drain",
               "drainSleep", "handoff", "exited"}
ClientPcs == {"idle", "held", "delay", "delaySleep", "delayLoop", "throttled",
              "assigned", "registered",
              "syncedSleep", "syncedWoken", "openSleep", "openWoken"}
CtlPcs == {"new", "idle", "syncedSleep", "syncedWoken", "stop", "exitSleep",
           "exitWoken", "stopped"}

\* A thread holds its txg, and the tc_lock it took to get it, in these states.
LockedPcs == {"held", "delay", "delaySleep", "delayLoop", "throttled"}
HoldPcs == LockedPcs \cup {"assigned", "registered"}

Holders == {t \in Threads : pc[t] \in HoldPcs}
HoldersOf(c, g) == {t \in Holders : th_cpu[t] = c /\ Slot(th_txg[t]) = g}

Larger(a, b) == IF a < b THEN b ELSE a

(***************************************************************************)
(* cv_broadcast(), one operator per condition variable that service        *)
(* threads and callers sleep on.  Each gives the program counters after    *)
(* the wakeup.                                                             *)
(***************************************************************************)
WakeSync(from, to) == IF sync_pc = from THEN to ELSE sync_pc
WakeQuiesce(from, to) == IF quiesce_pc = from THEN to ELSE quiesce_pc
WakeProcs(p, from, to) == [q \in Procs |-> IF p[q] = from THEN to ELSE p[q]]

----------------------------------------------------------------------------
Init ==
  /\ tx_open_txg = InitTxg
  /\ tx_quiesced_txg = 0
  /\ tx_syncing_txg = 0
  /\ tx_synced_txg = 0
  /\ tx_sync_txg_waiting = 0
  /\ tx_quiesce_txg_waiting = 0
  /\ tx_threads = 0
  /\ tx_exiting = FALSE
  /\ tc_lock = [c \in Cpus |-> Free]
  /\ tc_count = [c \in Cpus |-> [g \in Slots |-> 0]]
  /\ tc_callbacks = [c \in Cpus |-> [g \in Slots |-> {}]]
  /\ sync_pc = "none"
  /\ quiesce_pc = "none"
  /\ quiesce_txg = 0
  /\ quiesce_cpu = 1
  /\ pc = [p \in Procs |-> IF p = Ctl THEN "new" ELSE "idle"]
  /\ th_cpu = [t \in Threads |-> 1]
  /\ th_txg = [t \in Threads |-> 0]
  /\ target = [p \in Procs |-> 0]

txg_sync_start ==
  /\ pc[Ctl] = "new"
  /\ tx_threads = 0
  /\ tx_threads' = 2
  /\ sync_pc' = "top"
  /\ quiesce_pc' = "top"
  /\ pc' = [pc EXCEPT ![Ctl] = "idle"]
  /\ UNCHANGED <<state_vars, waiting_vars, tx_exiting, cpu_vars, quiesce_txg,
                 quiesce_cpu, th_cpu, th_txg, target>>

\* Callers start an operation only while the pool is imported.
InUse == pc[Ctl] = "idle"

(***************************************************************************)
(* Transactions: dmu_tx_assign() ... dmu_tx_commit().                      *)
(***************************************************************************)

\* Returns with tc_lock held, so the open txg cannot change under the caller.
txg_hold_open(t, c) ==
  /\ InUse
  /\ pc[t] = "idle"
  /\ tx_open_txg <= MaxTxg
  /\ tc_lock[c] = Free
  /\ tc_lock' = [tc_lock EXCEPT ![c] = t]
  /\ tc_count' = [tc_count EXCEPT ![c][Slot(tx_open_txg)] = @ + 1]
  /\ th_cpu' = [th_cpu EXCEPT ![t] = c]
  /\ th_txg' = [th_txg EXCEPT ![t] = tx_open_txg]
  /\ pc' = [pc EXCEPT ![t] = "held"]
  /\ UNCHANGED <<state_vars, waiting_vars, thread_vars, tc_callbacks, sync_pc,
                 quiesce_vars, target>>

txg_rele_to_quiesce(t) ==
  /\ pc[t] \in {"held", "throttled"}
  /\ tc_lock' = [tc_lock EXCEPT ![th_cpu[t]] = Free]
  /\ pc' = [pc EXCEPT ![t] = "assigned"]
  /\ UNCHANGED <<state_vars, waiting_vars, thread_vars, tc_count, tc_callbacks,
                 sync_pc, quiesce_vars, th_cpu, th_txg, target>>

txg_register_callbacks(t) ==
  LET c == th_cpu[t] IN
  /\ pc[t] = "assigned"
  /\ tc_lock[c] = Free
  /\ tc_callbacks' = [tc_callbacks EXCEPT
                        ![c][Slot(th_txg[t])] = @ \cup {<<t, th_txg[t]>>}]
  /\ pc' = [pc EXCEPT ![t] = "registered"]
  /\ UNCHANGED <<state_vars, waiting_vars, thread_vars, tc_lock, tc_count,
                 sync_pc, quiesce_vars, th_cpu, th_txg, target>>

\* The last one out of the slot broadcasts tc_cv[g], on which only the
\* quiesce thread sleeps, and only for the CPU and the txg it is draining.
txg_rele_to_sync(t) ==
  LET c == th_cpu[t]
      g == Slot(th_txg[t])
      last == tc_count[c][g] = 1
  IN
  /\ pc[t] \in {"assigned", "registered"}
  /\ tc_lock[c] = Free
  /\ tc_count' = [tc_count EXCEPT ![c][g] = @ - 1]
  /\ quiesce_pc' = IF last /\ quiesce_cpu = c /\ Slot(quiesce_txg) = g
                   THEN WakeQuiesce("drainSleep", "drain")
                   ELSE quiesce_pc
  /\ pc' = [pc EXCEPT ![t] = "idle"]
  /\ th_cpu' = [th_cpu EXCEPT ![t] = 1]
  /\ th_txg' = [th_txg EXCEPT ![t] = 0]
  /\ UNCHANGED <<state_vars, waiting_vars, thread_vars, tc_lock, tc_callbacks,
                 sync_pc, quiesce_txg, quiesce_cpu, target>>

(***************************************************************************)
(* txg_delay(), called by dsl_pool_tempreserve_space() and                 *)
(* dsl_dir_tempreserve_space() inside dmu_tx_assign(), that is, with       *)
(* tc_lock held.  The clock may have passed the timeout at any moment.     *)
(***************************************************************************)
txg_stalled == tx_quiesce_txg_waiting > tx_open_txg

DelayClient(t, from, to) ==
  /\ pc[t] \in from
  /\ pc' = [pc EXCEPT ![t] = to]
  /\ UNCHANGED <<state_vars, waiting_vars, thread_vars, cpu_vars, sync_pc,
                 quiesce_vars, th_cpu, th_txg, target>>

\* The check without a lock; returning from it changes nothing.
txg_delay(t) ==
  /\ ~ \/ tx_open_txg > th_txg[t]
       \/ tx_syncing_txg = th_txg[t] - 1
       \/ tx_synced_txg = th_txg[t] - 1
  /\ DelayClient(t, {"held"}, "delay")

txg_delay_sleep(t) ==
  /\ pc[t] = "delay" => ~ \/ tx_open_txg > th_txg[t]
                          \/ tx_synced_txg = th_txg[t] - 1
  /\ tx_syncing_txg < th_txg[t] - 1
  /\ ~txg_stalled
  /\ DelayClient(t, {"delay", "delayLoop"}, "delaySleep")

txg_delay_return(t) ==
  DelayClient(t, {"delay", "delaySleep", "delayLoop"}, "throttled")

(***************************************************************************)
(* txg_wait_synced() and txg_wait_open().                                  *)
(***************************************************************************)

\* The loop of txg_wait_synced(): sleep on tx_sync_done_cv until the sync
\* thread reports n, and prod it first.
WaitSyncedLoop(p, n) ==
  IF tx_synced_txg < n
  THEN /\ sync_pc' = WakeSync("moreSleep", "top")
       /\ pc' = [pc EXCEPT ![p] = "syncedSleep"]
       /\ target' = [target EXCEPT ![p] = n]
  ELSE /\ UNCHANGED sync_pc
       /\ target' = [target EXCEPT ![p] = 0]
       /\ pc' = [pc EXCEPT ![p] = IF p = Ctl THEN "stop" ELSE "idle"]

txg_wait_synced(p, txg) ==
  LET n == IF txg = 0 THEN tx_open_txg + TXG_DEFER_SIZE ELSE txg IN
  /\ tx_sync_txg_waiting' = Larger(tx_sync_txg_waiting, n)
  /\ WaitSyncedLoop(p, n)
  /\ UNCHANGED <<state_vars, tx_quiesce_txg_waiting, thread_vars, cpu_vars,
                 quiesce_vars, th_cpu, th_txg>>

\* A client waits for a txg, or with 0 for what is open now.
ClientWaitSynced(t, txg) ==
  /\ InUse
  /\ pc[t] = "idle"
  /\ txg = 0 => tx_open_txg <= MaxTxg
  /\ txg_wait_synced(t, txg)

txg_wait_synced_wakeup(p) ==
  /\ pc[p] = "syncedWoken"
  /\ WaitSyncedLoop(p, target[p])
  /\ UNCHANGED <<state_vars, waiting_vars, thread_vars, cpu_vars,
                 quiesce_vars, th_cpu, th_txg>>

\* The loop of txg_wait_open(): the broadcast of tx_quiesce_more_cv reaches
\* the quiesce thread and the threads asleep in txg_delay().
WaitOpenLoop(t, n) ==
  IF tx_open_txg < n
  THEN /\ quiesce_pc' = WakeQuiesce("sleep", "top")
       /\ pc' = [WakeProcs(pc, "delaySleep", "delayLoop")
                   EXCEPT ![t] = "openSleep"]
       /\ target' = [target EXCEPT ![t] = n]
  ELSE /\ UNCHANGED quiesce_pc
       /\ target' = [target EXCEPT ![t] = 0]
       /\ pc' = [pc EXCEPT ![t] = "idle"]

txg_wait_open(t, txg) ==
  LET n == IF txg = 0 THEN tx_open_txg + 1 ELSE txg IN
  /\ InUse
  /\ pc[t] = "idle"
  /\ n <= MaxTxg
  /\ tx_quiesce_txg_waiting' = Larger(tx_quiesce_txg_waiting, n)
  /\ WaitOpenLoop(t, n)
  /\ UNCHANGED <<state_vars, tx_sync_txg_waiting, thread_vars, cpu_vars,
                 sync_pc, quiesce_txg, quiesce_cpu, th_cpu, th_txg>>

txg_wait_open_wakeup(t) ==
  /\ pc[t] = "openWoken"
  /\ WaitOpenLoop(t, target[t])
  /\ UNCHANGED <<state_vars, waiting_vars, thread_vars, cpu_vars, sync_pc,
                 quiesce_txg, quiesce_cpu, th_cpu, th_txg>>

(***************************************************************************)
(* txg_quiesce_thread() and txg_quiesce().                                 *)
(***************************************************************************)
\* Fault: do not wait for the handed-over txg to be consumed.
QuiesceIdle_IgnoreQuiesced == tx_open_txg >= tx_quiesce_txg_waiting

QuiesceIdle == tx_open_txg >= tx_quiesce_txg_waiting \/ tx_quiesced_txg # 0

QuiesceSleep ==
  /\ quiesce_pc = "top"
  /\ ~tx_exiting
  /\ QuiesceIdle
  /\ quiesce_pc' = "sleep"
  /\ UNCHANGED <<state_vars, waiting_vars, thread_vars, cpu_vars, sync_pc,
                 quiesce_txg, quiesce_cpu, client_vars>>

QuiesceStart ==
  /\ quiesce_pc = "top"
  /\ ~tx_exiting
  /\ ~QuiesceIdle
  /\ quiesce_txg' = tx_open_txg
  /\ quiesce_cpu' = 1
  /\ quiesce_pc' = "lock"
  /\ UNCHANGED <<state_vars, waiting_vars, thread_vars, cpu_vars, sync_pc,
                 client_vars>>

\* Fault: the loop stops after one CPU.
QuiesceLock_FirstOnly ==
  /\ quiesce_pc = "lock"
  /\ tc_lock[quiesce_cpu] = Free
  /\ tc_lock' = [tc_lock EXCEPT ![quiesce_cpu] = Quiescer]
  /\ quiesce_pc' = "advance"
  /\ UNCHANGED <<state_vars, waiting_vars, thread_vars, tc_count, tc_callbacks,
                 sync_pc, quiesce_txg, quiesce_cpu, client_vars>>

\* Grab all tc_locks, in order, so that nobody else can get into this txg.
QuiesceLock ==
  /\ quiesce_pc = "lock"
  /\ tc_lock[quiesce_cpu] = Free
  /\ tc_lock' = [tc_lock EXCEPT ![quiesce_cpu] = Quiescer]
  /\ IF quiesce_cpu = NCpus
     THEN quiesce_pc' = "advance" /\ quiesce_cpu' = 1
     ELSE quiesce_cpu' = quiesce_cpu + 1 /\ UNCHANGED quiesce_pc
  /\ UNCHANGED <<state_vars, waiting_vars, thread_vars, tc_count, tc_callbacks,
                 sync_pc, quiesce_txg, client_vars>>

\* Open the next txg and drop all tc_locks.
QuiesceAdvance ==
  /\ quiesce_pc = "advance"
  /\ tx_open_txg' = tx_open_txg + 1
  /\ tc_lock' = [c \in Cpus |-> Free]
  /\ quiesce_pc' = "drain"
  /\ UNCHANGED <<tx_quiesced_txg, tx_syncing_txg, tx_synced_txg, waiting_vars,
                 thread_vars, tc_count, tc_callbacks, sync_pc, quiesce_txg,
                 quiesce_cpu, client_vars>>

\* Fault: wait for the first CPU only.
QuiesceDrain_FirstOnly ==
  /\ quiesce_pc = "drain"
  /\ tc_lock[quiesce_cpu] = Free
  /\ quiesce_pc' = IF tc_count[quiesce_cpu][Slot(quiesce_txg)] # 0
                   THEN "drainSleep" ELSE "handoff"
  /\ UNCHANGED <<state_vars, waiting_vars, thread_vars, cpu_vars, sync_pc,
                 quiesce_txg, quiesce_cpu, client_vars>>

\* Wait, CPU by CPU, for everyone in the txg to leave it.
QuiesceDrain ==
  /\ quiesce_pc = "drain"
  /\ tc_lock[quiesce_cpu] = Free
  /\ IF tc_count[quiesce_cpu][Slot(quiesce_txg)] # 0
     THEN quiesce_pc' = "drainSleep" /\ UNCHANGED quiesce_cpu
     ELSE IF quiesce_cpu = NCpus
          THEN quiesce_pc' = "handoff" /\ UNCHANGED quiesce_cpu
          ELSE quiesce_cpu' = quiesce_cpu + 1 /\ UNCHANGED quiesce_pc
  /\ UNCHANGED <<state_vars, waiting_vars, thread_vars, cpu_vars, sync_pc,
                 quiesce_txg, client_vars>>

\* Fault: no broadcast of tx_quiesce_done_cv to the sync thread.
QuiesceHandoff_WakeClientsOnly ==
  /\ quiesce_pc = "handoff"
  /\ tx_quiesced_txg' = quiesce_txg
  /\ sync_pc' = WakeSync("moreSleep", "top")
  /\ pc' = WakeProcs(pc, "openSleep", "openWoken")
  /\ quiesce_pc' = "top"
  /\ UNCHANGED <<tx_open_txg, tx_syncing_txg, tx_synced_txg, waiting_vars,
                 thread_vars, cpu_vars, quiesce_txg, quiesce_cpu, th_cpu,
                 th_txg, target>>

\* Hand the txg to the sync thread; wake it and those in txg_wait_open().
QuiesceHandoff ==
  /\ quiesce_pc = "handoff"
  /\ tx_quiesced_txg' = quiesce_txg
  /\ sync_pc' = IF sync_pc = "doneSleep" THEN "doneWoken"
                                         ELSE WakeSync("moreSleep", "top")
  /\ pc' = WakeProcs(pc, "openSleep", "openWoken")
  /\ quiesce_pc' = "top"
  /\ quiesce_txg' = 0
  /\ quiesce_cpu' = 1
  /\ UNCHANGED <<tx_open_txg, tx_syncing_txg, tx_synced_txg, waiting_vars,
                 thread_vars, cpu_vars, th_cpu, th_txg, target>>

QuiesceExit ==
  /\ quiesce_pc = "top"
  /\ tx_exiting
  /\ quiesce_pc' = "exited"
  /\ tx_threads' = tx_threads - 1
  /\ pc' = WakeProcs(pc, "exitSleep", "exitWoken")
  /\ UNCHANGED <<state_vars, waiting_vars, tx_exiting, cpu_vars, sync_pc,
                 quiesce_txg, quiesce_cpu, th_cpu, th_txg, target>>

(***************************************************************************)
(* txg_sync_thread().                                                      *)
(***************************************************************************)

\* The sync thread holds tx_sync_lock and decides what to do next.
SyncAwake == sync_pc \in {"top", "due", "doneWoken"}

\* Nobody waits and no txg is ready: sleep until the timer runs out.
SyncSleep ==
  /\ sync_pc = "top"
  /\ ~tx_exiting
  /\ tx_synced_txg >= tx_sync_txg_waiting
  /\ tx_quiesced_txg = 0
  /\ sync_pc' = "moreSleep"
  /\ UNCHANGED <<state_vars, waiting_vars, thread_vars, cpu_vars, quiesce_vars,
                 client_vars>>

\* Fault: the sleep on tx_sync_more_cv has no timeout.
SyncTimeout_Untimed ==
  /\ sync_pc = "top"
  /\ tx_open_txg <= MaxTxg
  /\ sync_pc' = "due"
  /\ UNCHANGED <<state_vars, waiting_vars, thread_vars, cpu_vars, quiesce_vars,
                 client_vars>>

\* zfs_txg_timeout has passed, or a scrub keeps the thread from waiting.
SyncTimeout ==
  /\ sync_pc \in {"top", "moreSleep"}
  /\ tx_open_txg <= MaxTxg
  /\ sync_pc' = "due"
  /\ UNCHANGED <<state_vars, waiting_vars, thread_vars, cpu_vars, quiesce_vars,
                 client_vars>>

\* Ask the quiesce thread for a txg and sleep until it hands one over.
SyncPrompt ==
  /\ SyncAwake
  /\ sync_pc = "top" => tx_synced_txg < tx_sync_txg_waiting
  /\ ~tx_exiting
  /\ tx_quiesced_txg = 0
  /\ tx_quiesce_txg_waiting' = Larger(tx_quiesce_txg_waiting, tx_open_txg + 1)
  /\ quiesce_pc' = WakeQuiesce("sleep", "top")
  /\ pc' = WakeProcs(pc, "delaySleep", "delayLoop")
  /\ sync_pc' = "doneSleep"
  /\ UNCHANGED <<state_vars, tx_sync_txg_waiting, thread_vars, cpu_vars,
                 quiesce_txg, quiesce_cpu, th_cpu, th_txg, target>>

\* Consume the quiesced txg, which lets the quiesce thread go on.
SyncConsume ==
  /\ SyncAwake
  /\ ~tx_exiting
  /\ tx_quiesced_txg # 0
  /\ tx_syncing_txg' = tx_quiesced_txg
  /\ tx_quiesced_txg' = 0
  /\ quiesce_pc' = WakeQuiesce("sleep", "top")
  /\ pc' = WakeProcs(pc, "delaySleep", "delayLoop")
  /\ sync_pc' = "syncing"
  /\ UNCHANGED <<tx_open_txg, tx_synced_txg, waiting_vars, thread_vars,
                 cpu_vars, quiesce_txg, quiesce_cpu, th_cpu, th_txg, target>>

\* Fault: the lists of the group that fills next.
DispatchCallbacks_NextSlot(txg) ==
  tc_callbacks' = [c \in Cpus |-> [tc_callbacks[c] EXCEPT ![Slot(txg + 1)] = {}]]

\* txg_dispatch_callbacks(): every CPU's list of the slot goes to the taskq;
\* no tc_lock is taken.
DispatchCallbacks(txg) ==
  tc_callbacks' = [c \in Cpus |-> [tc_callbacks[c] EXCEPT ![Slot(txg)] = {}]]

\* spa_sync() has returned.
SyncDone ==
  /\ sync_pc = "syncing"
  /\ tx_synced_txg' = tx_syncing_txg
  /\ tx_syncing_txg' = 0
  /\ pc' = WakeProcs(pc, "syncedSleep", "syncedWoken")
  /\ DispatchCallbacks(tx_syncing_txg)
  /\ sync_pc' = "top"
  /\ UNCHANGED <<tx_open_txg, tx_quiesced_txg, waiting_vars, thread_vars,
                 tc_lock, tc_count, quiesce_vars, th_cpu, th_txg, target>>

SyncExit ==
  /\ SyncAwake
  /\ tx_exiting
  /\ sync_pc' = "exited"
  /\ tx_threads' = tx_threads - 1
  /\ pc' = WakeProcs(pc, "exitSleep", "exitWoken")
  /\ UNCHANGED <<state_vars, waiting_vars, tx_exiting, cpu_vars, quiesce_vars,
                 th_cpu, th_txg, target>>

(***************************************************************************)
(* txg_sync_stop(), called by spa_unload() when nobody uses the pool.      *)
(***************************************************************************)
\* Fault: wait for what is closed already and forget the open group.
txg_sync_stop_ClosedOnly ==
  /\ pc[Ctl] = "idle"
  /\ \A t \in Threads : pc[t] = "idle"
  /\ txg_wait_synced(Ctl, tx_open_txg - 1)

txg_sync_stop ==
  /\ pc[Ctl] = "idle"
  /\ \A t \in Threads : pc[t] = "idle"
  /\ txg_wait_synced(Ctl, tx_open_txg + TXG_DEFER_SIZE)

\* Fault: wake the sync thread only.
StopThreads_SyncOnly ==
  /\ pc[Ctl] = "stop"
  /\ tx_exiting' = TRUE
  /\ sync_pc' = WakeSync("moreSleep", "top")
  /\ pc' = [pc EXCEPT ![Ctl] = "exitSleep"]
  /\ UNCHANGED <<state_vars, waiting_vars, tx_threads, cpu_vars, quiesce_vars,
                 th_cpu, th_txg, target>>

\* Everything has been synced: tell both threads to exit, and wake them.
StopThreads ==
  /\ pc[Ctl] = "stop"
  /\ tx_exiting' = TRUE
  /\ quiesce_pc' = WakeQuiesce("sleep", "top")
  /\ sync_pc' = IF sync_pc = "doneSleep" THEN "doneWoken"
                                         ELSE WakeSync("moreSleep", "top")
  /\ pc' = [WakeProcs(WakeProcs(pc, "delaySleep", "delayLoop"),
                      "openSleep", "openWoken")
              EXCEPT ![Ctl] = IF tx_threads = 0 THEN "exitWoken"
                                                ELSE "exitSleep"]
  /\ UNCHANGED <<state_vars, waiting_vars, tx_threads, cpu_vars, quiesce_txg,
                 quiesce_cpu, th_cpu, th_txg, target>>

StopWakeup ==
  /\ pc[Ctl] = "exitWoken"
  /\ IF tx_threads # 0
     THEN pc' = [pc EXCEPT ![Ctl] = "exitSleep"] /\ UNCHANGED tx_exiting
     ELSE pc' = [pc EXCEPT ![Ctl] = "stopped"] /\ tx_exiting' = FALSE
  /\ UNCHANGED <<state_vars, waiting_vars, tx_threads, cpu_vars, sync_pc,
                 quiesce_vars, th_cpu, th_txg, target>>

\* After txg_sync_stop() the pool is closed; nothing moves any more.
Stopped ==
  /\ pc[Ctl] = "stopped"
  /\ UNCHANGED vars

----------------------------------------------------------------------------
ClientNext(t) ==
  \/ \E c \in Cpus : txg_hold_open(t, c)
  \/ txg_rele_to_quiesce(t)
  \/ txg_register_callbacks(t)
  \/ txg_rele_to_sync(t)
  \/ txg_delay(t)
  \/ txg_delay_sleep(t)
  \/ txg_delay_return(t)
  \/ \E txg \in WaitTxgs : ClientWaitSynced(t, txg)
  \/ \E txg \in WaitTxgs : txg_wait_open(t, txg)
  \/ txg_wait_open_wakeup(t)

QuiesceNext ==
  \/ QuiesceSleep
  \/ QuiesceStart
  \/ QuiesceLock
  \/ QuiesceAdvance
  \/ QuiesceDrain
  \/ QuiesceHandoff
  \/ QuiesceExit

SyncNext ==
  \/ SyncSleep
  \/ SyncTimeout
  \/ SyncPrompt
  \/ SyncConsume
  \/ SyncDone
  \/ SyncExit

CtlNext ==
  \/ txg_sync_start
  \/ txg_sync_stop
  \/ StopThreads
  \/ StopWakeup
  \/ Stopped

Next ==
  \/ \E t \in Threads : ClientNext(t)
  \/ \E p \in Procs : txg_wait_synced_wakeup(p)
  \/ QuiesceNext
  \/ SyncNext
  \/ CtlNext

Spec == Init /\ [][Next]_vars

(***************************************************************************)
(* Fairness.  The scheduler runs every thread that can run (WF), and a     *)
(* mutex that is released again and again is at last granted to each       *)
(* thread that wants it (SF).  spa_sync() returns, timers run out, and a   *)
(* thread that has entered a txg goes on to leave it.  Nobody is obliged   *)
(* to begin a transaction, to wait for a txg or to export the pool.        *)
(***************************************************************************)
Fairness ==
  /\ SF_vars(QuiesceLock)
  /\ SF_vars(QuiesceDrain)
  /\ WF_vars(QuiesceSleep \/ QuiesceStart \/ QuiesceAdvance \/ QuiesceHandoff
             \/ QuiesceExit)
  /\ WF_vars(SyncNext)
  /\ WF_vars(SyncTimeout)
  /\ WF_vars(StopThreads \/ StopWakeup)
  /\ \A p \in Procs : WF_vars(txg_wait_synced_wakeup(p))
  /\ \A t \in Threads :
       /\ WF_vars(txg_wait_open_wakeup(t))
       /\ WF_vars(txg_delay_return(t))
       /\ WF_vars(txg_rele_to_quiesce(t))
       /\ SF_vars(txg_rele_to_sync(t))

FairSpec == Spec /\ Fairness

----------------------------------------------------------------------------
(***************************************************************************)
(* Properties.                                                             *)
(***************************************************************************)

\* Every variable has its type; in particular tc_count[] never goes below
\* zero and tx_threads counts the service threads that are alive.
TypeOK ==
  /\ tx_open_txg \in Nat
  /\ tx_quiesced_txg \in Nat
  /\ tx_syncing_txg \in Nat
  /\ tx_synced_txg \in Nat
  /\ tx_sync_txg_waiting \in Nat
  /\ tx_quiesce_txg_waiting \in Nat
  /\ tx_threads \in 0 .. 2
  /\ tx_exiting \in BOOLEAN
  /\ tc_lock \in [Cpus -> Threads \cup {Quiescer, Free}]
  /\ tc_count \in [Cpus -> [Slots -> Nat]]
  /\ tc_callbacks \in [Cpus -> [Slots -> SUBSET (Threads \X Nat)]]
  /\ sync_pc \in SyncPcs
  /\ quiesce_pc \in QuiescePcs
  /\ quiesce_txg \in Nat
  /\ quiesce_cpu \in Cpus
  /\ pc \in [Procs -> ClientPcs \cup CtlPcs]
  /\ th_cpu \in [Threads -> Cpus]
  /\ th_txg \in [Threads -> Nat]
  /\ target \in [Procs -> Nat]

\* The group on disk: before the first sync of this import, the one before
\* the group the pool was opened with.
LastSynced == IF tx_synced_txg = 0 THEN InitTxg - 1 ELSE tx_synced_txg

\* The last group the sync thread has taken.
LastTaken == IF tx_syncing_txg = 0 THEN LastSynced ELSE tx_syncing_txg

Closing == quiesce_pc \in {"drain", "drainSleep", "handoff"}

\* The stages of the pipeline hold consecutive groups and none is skipped or
\* overwritten: what the quiesce thread closes, or has handed over, is the
\* one group between the open one and the last one the sync thread took.
Pipeline ==
  /\ quiesce_pc \in {"lock", "advance"} =>
       quiesce_txg = tx_open_txg /\ tx_quiesced_txg = 0
  /\ Closing => quiesce_txg = tx_open_txg - 1 /\ tx_quiesced_txg = 0
  /\ tx_quiesced_txg # 0 => tx_quiesced_txg = tx_open_txg - 1
  /\ LastTaken = IF Closing \/ tx_quiesced_txg # 0 THEN tx_open_txg - 2
                                                   ELSE tx_open_txg - 1
  /\ tx_syncing_txg # 0 => tx_syncing_txg = LastSynced + 1

\* A transaction's group is open, or is the one whose end the quiesce thread
\* is waiting for: nobody is in a group that was handed over, is being
\* written or is on disk, although txg_rele_to_sync() takes no tx_sync_lock.
HeldIsOpenOrQuiescing ==
  \A t \in Holders :
    \/ th_txg[t] = tx_open_txg
    \/ quiesce_pc \in {"drain", "drainSleep"} /\ th_txg[t] = quiesce_txg

\* Between txg_hold_open() and txg_rele_to_quiesce() the txg stays open, so
\* that dmu_tx_try_assign() may compare and reserve against it.
TcLockPinsOpen ==
  \A t \in Threads : pc[t] \in LockedPcs => th_txg[t] = tx_open_txg

\* tc_count[] is the number of transactions that entered on that CPU and are
\* still in the slot, whichever CPU they run on when they leave.
CountsAreHolders ==
  \A c \in Cpus, g \in Slots : tc_count[c][g] = Cardinality(HoldersOf(c, g))

\* "No need to lock tx_cpu_t at this point" in txg_dispatch_callbacks(): while
\* a group is written nobody can reach its callback lists, and they hold the
\* callbacks of that group only, although slots are reused modulo TXG_SIZE.
DispatchNeedsNoLock ==
  sync_pc = "syncing" =>
    LET g == Slot(tx_syncing_txg) IN
    \A c \in Cpus :
      /\ HoldersOf(c, g) = {}
      /\ \A cb \in tc_callbacks[c][g] : cb[2] = tx_syncing_txg

\* Once txg_sync_stop() has returned no callback is left undelivered and both
\* threads are gone, as txg_fini() asserts.
StopLeavesNothing ==
  pc[Ctl] = "stopped" =>
    /\ tx_threads = 0
    /\ \A c \in Cpus, g \in Slots : tc_count[c][g] = 0 /\ tc_callbacks[c][g] = {}

Pending == UNION {tc_callbacks[c][g] : c \in Cpus, g \in Slots}

\* Groups reach the disk one by one, in order, none of them skipped or
\* written twice.
SyncedInOrder ==
  [][LastSynced' \in {LastSynced, LastSynced + 1}]_vars

\* A commit callback is dispatched only by the step that reports its txg
\* synced, never before and never later.
DispatchedWhenSynced ==
  [][\A cb \in Pending \ Pending' :
        tx_synced_txg' = cb[2] /\ tx_synced_txg # cb[2]]_vars

\* Who sleeps in txg_wait_synced() or txg_wait_open() returns: no wakeup is
\* lost between clients, sync thread and quiesce thread, and nobody keeps a
\* tc_lock for ever.
WaitersReturn ==
  /\ \A p \in Procs :
       pc[p] = "syncedSleep" ~> pc[p] \notin {"syncedSleep", "syncedWoken"}
  /\ \A t \in Threads :
       pc[t] = "openSleep" ~> pc[t] \notin {"openSleep", "openWoken"}

\* txg_sync_stop() returns: both service threads notice tx_exiting.
StopReturns == pc[Ctl] = "stop" ~> pc[Ctl] = "stopped"

\* A registered callback is delivered even if nobody asks for its txg: the
\* timer of the sync thread sees to that.
CallbackDelivered ==
  \A t \in Threads, g \in InitTxg .. MaxTxg :
    <<t, g>> \in Pending ~> <<t, g>> \notin Pending

\* The transaction groups implement GroupCommit.
GC == INSTANCE GroupCommit WITH
        Clients <- Threads,
        First <- InitTxg,
        open <- tx_open_txg,
        stable <- LastSynced,
        active <- [t \in Threads |-> IF pc[t] \in HoldPcs THEN th_txg[t] ELSE 0],
        pending <- Pending

ImplementsGroupCommit == GC!Spec

=============================================================================
