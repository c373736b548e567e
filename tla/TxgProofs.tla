----------------------------- MODULE TxgProofs -----------------------------
(***************************************************************************)
(* Proofs about Txg, for every number of threads, CPUs and groups.         *)
(***************************************************************************)
EXTENDS Txg, FiniteSetTheorems, TLAPS

Alive(p) == p \notin {"none", "exited"}

\* tx_threads counts the service threads that run.
ThreadInv ==
  tx_threads = (IF Alive(sync_pc) THEN 1 ELSE 0)
                 + (IF Alive(quiesce_pc) THEN 1 ELSE 0)

\* The sync thread holds a group exactly while it is inside spa_sync().
SyncingInv ==
  /\ tx_syncing_txg # 0 <=> sync_pc = "syncing"
  /\ tx_open_txg >= InitTxg

\* Who owns which tc_lock: a thread that has just entered a group owns the
\* one of its CPU, and the quiesce thread those it has gone past.
LockInv ==
  /\ \A t \in Threads : pc[t] \in LockedPcs =>
       tc_lock[th_cpu[t]] = t /\ th_txg[t] = tx_open_txg
  /\ quiesce_pc = "lock" =>
       \A c \in Cpus : c < quiesce_cpu => tc_lock[c] = Quiescer
  /\ quiesce_pc = "advance" =>
       quiesce_cpu = 1 /\ \A c \in Cpus : tc_lock[c] = Quiescer

\* HeldIsOpenOrQuiescing, and the CPUs that the quiesce thread has gone past
\* have no transaction of the closing group left.
HolderInv ==
  \A t \in Threads : pc[t] \in HoldPcs =>
    \/ th_txg[t] = tx_open_txg
    \/ /\ quiesce_pc \in {"drain", "drainSleep"}
       /\ th_txg[t] = quiesce_txg
       /\ th_cpu[t] >= quiesce_cpu

\* A callback is in the slot of its group, which is not on disk yet.
CallbackInv ==
  \A c \in Cpus, g \in Slots : \A cb \in tc_callbacks[c][g] :
    /\ Slot(cb[2]) = g
    /\ LastSynced < cb[2]
    /\ cb[2] <= tx_open_txg

\* txg_sync_stop() finds the pool idle and keeps it so; what it waits for
\* covers every callback there is.
StopInv ==
  /\ pc[Ctl] \in CtlPcs
  /\ pc[Ctl] \notin {"new", "idle"} => \A t \in Threads : pc[t] = "idle"
  /\ pc[Ctl] \in {"syncedSleep", "syncedWoken"} =>
       \A c \in Cpus, g \in Slots : \A cb \in tc_callbacks[c][g] :
         cb[2] <= target[Ctl]
  /\ pc[Ctl] \in {"stop", "exitSleep", "exitWoken", "stopped"} =>
       \A c \in Cpus, g \in Slots : tc_callbacks[c][g] = {}
  /\ pc[Ctl] = "stopped" => tx_threads = 0

TxgInv ==
  /\ TypeOK
  /\ ThreadInv
  /\ SyncingInv
  /\ Pipeline
  /\ LockInv
  /\ HolderInv
  /\ CountsAreHolders
  /\ CallbackInv
  /\ StopInv

USE TxgAssumption DEF TXG_SIZE, TXG_DEFER_SIZE

\* What txg_init() sets up satisfies the invariant.
LEMMA InitInv == Init => TxgInv
<1> SUFFICES ASSUME Init PROVE TxgInv
  OBVIOUS
<1>1. TypeOK
  <2>1. 1 \in Cpus
    BY DEF Cpus
  <2>2. /\ tc_lock \in [Cpus -> Threads \cup {Quiescer, Free}]
        /\ tc_count \in [Cpus -> [Slots -> Nat]]
        /\ tc_callbacks \in [Cpus -> [Slots -> SUBSET (Threads \X Nat)]]
        /\ th_cpu \in [Threads -> Cpus]
        /\ tx_exiting \in BOOLEAN
    BY <2>1, Zenon DEF Init
  <2>3. pc \in [Procs -> ClientPcs \cup CtlPcs]
    BY DEF Init, ClientPcs, CtlPcs
  <2> QED
    BY <2>1, <2>2, <2>3 DEF Init, TypeOK, SyncPcs, QuiescePcs
<1>2. ThreadInv /\ SyncingInv /\ StopInv
  BY DEF Init, ThreadInv, SyncingInv, StopInv, Alive, Procs, CtlPcs
<1>3. Pipeline
  BY DEF Init, Pipeline, LastTaken, LastSynced, Closing
<1>4. \A t \in Threads : pc[t] \notin HoldPcs
  BY DEF Init, HoldPcs, LockedPcs, Procs
<1>5. HolderInv /\ LockInv
  BY <1>4 DEF HolderInv, LockInv, HoldPcs, Init
<1>6. CountsAreHolders
  <2> SUFFICES ASSUME NEW c \in Cpus, NEW g \in Slots
               PROVE tc_count[c][g] = Cardinality(HoldersOf(c, g))
    BY DEF CountsAreHolders
  <2>1. HoldersOf(c, g) = {}
    BY <1>4 DEF HoldersOf, Holders
  <2> QED
    BY <2>1, FS_EmptySet DEF Init
<1>7. CallbackInv
  BY DEF Init, CallbackInv
<1> QED
  BY <1>1, <1>2, <1>3, <1>5, <1>6, <1>7 DEF TxgInv

(***************************************************************************)
(* Pipeline.                                                               *)
(***************************************************************************)
LEMMA PipelineStep ==
  ASSUME TxgInv, Next
  PROVE  Pipeline' /\ SyncingInv'
<1> USE DEF TxgInv, TypeOK, Pipeline, SyncingInv, LastTaken, LastSynced, Closing,
            state_vars, waiting_vars, thread_vars, cpu_vars, quiesce_vars,
            client_vars, WakeQuiesce, WakeSync
<1>1. CASE \E t \in Threads : ClientNext(t)
  <2> PICK t \in Threads : ClientNext(t)
    BY <1>1
  <2>1. CASE \E c \in Cpus : txg_hold_open(t, c)
    BY <2>1 DEF txg_hold_open
  <2>2. CASE txg_rele_to_quiesce(t) \/ txg_register_callbacks(t)
    BY <2>2 DEF txg_rele_to_quiesce, txg_register_callbacks
  <2>3. CASE txg_rele_to_sync(t)
    BY <2>3 DEF txg_rele_to_sync
  <2>4. CASE txg_delay(t) \/ txg_delay_sleep(t) \/ txg_delay_return(t)
    BY <2>4 DEF txg_delay, txg_delay_sleep, txg_delay_return, DelayClient
  <2>5. CASE \E txg \in WaitTxgs : ClientWaitSynced(t, txg)
    BY <2>5 DEF ClientWaitSynced, txg_wait_synced, WaitSyncedLoop
  <2>6. CASE \E txg \in WaitTxgs : txg_wait_open(t, txg)
    BY <2>6 DEF txg_wait_open, WaitOpenLoop
  <2>7. CASE txg_wait_open_wakeup(t)
    BY <2>7 DEF txg_wait_open_wakeup, WaitOpenLoop
  <2> QED
    BY <2>1, <2>2, <2>3, <2>4, <2>5, <2>6, <2>7 DEF ClientNext
<1>2. CASE \E p \in Procs : txg_wait_synced_wakeup(p)
  BY <1>2 DEF txg_wait_synced_wakeup, WaitSyncedLoop
<1>3. CASE QuiesceNext
  <2>1. CASE QuiesceSleep \/ QuiesceStart \/ QuiesceLock
    BY <2>1 DEF QuiesceSleep, QuiesceStart, QuiesceLock, QuiesceIdle
  <2>2. CASE QuiesceAdvance
    BY <2>2 DEF QuiesceAdvance
  <2>3. CASE QuiesceDrain
    BY <2>3 DEF QuiesceDrain
  <2>4. CASE QuiesceHandoff
    BY <2>4 DEF QuiesceHandoff
  <2>5. CASE QuiesceExit
    BY <2>5 DEF QuiesceExit
  <2> QED
    BY <1>3, <2>1, <2>2, <2>3, <2>4, <2>5 DEF QuiesceNext
<1>4. CASE SyncNext
  <2>1. CASE SyncSleep \/ SyncTimeout \/ SyncPrompt \/ SyncExit
    BY <2>1 DEF SyncSleep, SyncTimeout, SyncPrompt, SyncExit, SyncAwake
  <2>2. CASE SyncConsume
    <3>1. ~Closing /\ ~Closing' /\ quiesce_pc' \notin {"lock", "advance"}
      BY <2>2 DEF SyncConsume
    <3>2. tx_syncing_txg = 0 /\ LastTaken = tx_open_txg - 2
      BY <2>2 DEF SyncConsume, SyncAwake
    <3> QED
      BY <2>2, <3>1, <3>2 DEF SyncConsume
  <2>3. CASE SyncDone
    BY <2>3 DEF SyncDone
  <2> QED
    BY <1>4, <2>1, <2>2, <2>3 DEF SyncNext
<1>5. CASE CtlNext
  <2>1. CASE txg_sync_start
    BY <2>1 DEF txg_sync_start, ThreadInv, Alive
  <2>2. CASE txg_sync_stop
    BY <2>2 DEF txg_sync_stop, txg_wait_synced, WaitSyncedLoop
  <2>3. CASE StopThreads \/ StopWakeup \/ Stopped
    BY <2>3 DEF StopThreads, StopWakeup, Stopped, vars
  <2> QED
    BY <1>5, <2>1, <2>2, <2>3 DEF CtlNext
<1> QED
  BY <1>1, <1>2, <1>3, <1>4, <1>5 DEF Next

(***************************************************************************)
(* Types.                                                                  *)
(***************************************************************************)
LEMMA SlotType == \A n \in Nat : Slot(n) \in Slots
BY DEF Slot, Slots

\* The transactions in a slot are finitely many.
LEMMA HoldersFinite ==
  \A c, g : IsFiniteSet(HoldersOf(c, g)) /\ Cardinality(HoldersOf(c, g)) \in Nat
<1> TAKE c, g
<1>1. HoldersOf(c, g) \subseteq Threads
  BY DEF HoldersOf, Holders
<1> QED
  BY <1>1, FS_Subset, FS_CardinalityType

\* A transaction is counted, so that txg_rele_to_sync() may decrement.
LEMMA HolderCounted ==
  ASSUME TxgInv, NEW t \in Threads, pc[t] \in HoldPcs
  PROVE  tc_count[th_cpu[t]][Slot(th_txg[t])] \in Nat \ {0}
<1> DEFINE c == th_cpu[t]
           g == Slot(th_txg[t])
<1>1. c \in Cpus /\ g \in Slots
  BY SlotType DEF TxgInv, TypeOK
<1>2. t \in HoldersOf(c, g)
  BY DEF HoldersOf, Holders
<1>3. Cardinality(HoldersOf(c, g)) \in Nat \ {0}
  BY <1>2, HoldersFinite, FS_EmptySet
<1> QED
  BY <1>1, <1>3 DEF TxgInv, CountsAreHolders

\* txg_wait_synced()'s loop keeps types and starts or ends no service thread.
LEMMA WaitSyncedLoopType ==
  ASSUME TypeOK, NEW p \in Procs, NEW n \in Nat, WaitSyncedLoop(p, n)
  PROVE  /\ pc' \in [Procs -> ClientPcs \cup CtlPcs]
         /\ target' \in [Procs -> Nat]
         /\ sync_pc' \in SyncPcs
         /\ Alive(sync_pc') <=> Alive(sync_pc)
<1> USE DEF TypeOK, SyncPcs, ClientPcs, CtlPcs
<1>1. CASE tx_synced_txg < n
  BY <1>1 DEF WaitSyncedLoop, WakeSync, Alive
<1>2. CASE ~(tx_synced_txg < n)
  BY <1>2 DEF WaitSyncedLoop
<1> QED
  BY <1>1, <1>2

\* txg_wait_open()'s loop keeps types and starts or ends no service thread.
LEMMA WaitOpenLoopType ==
  ASSUME TypeOK, NEW t \in Threads, NEW n \in Nat, WaitOpenLoop(t, n)
  PROVE  /\ pc' \in [Procs -> ClientPcs \cup CtlPcs]
         /\ target' \in [Procs -> Nat]
         /\ quiesce_pc' \in QuiescePcs
         /\ Alive(quiesce_pc') <=> Alive(quiesce_pc)
<1>1. /\ pc \in [Procs -> ClientPcs \cup CtlPcs]
      /\ target \in [Procs -> Nat]
      /\ quiesce_pc \in QuiescePcs
      /\ t \in Procs
  BY DEF TypeOK, Procs
<1>2. target' \in [Procs -> Nat]
  BY <1>1 DEF WaitOpenLoop
<1>3. quiesce_pc' \in QuiescePcs /\ (Alive(quiesce_pc') <=> Alive(quiesce_pc))
  BY <1>1 DEF WaitOpenLoop, WakeQuiesce, QuiescePcs, Alive
<1>4. pc' \in [Procs -> ClientPcs \cup CtlPcs]
  BY <1>1 DEF WaitOpenLoop, WakeProcs, ClientPcs
<1> QED
  BY <1>2, <1>3, <1>4

\* Every step keeps the types and the count of live service threads.
LEMMA TypeStep ==
  ASSUME TxgInv, Next
  PROVE  TypeOK' /\ ThreadInv'
<1> USE DEF TxgInv, TypeOK, ThreadInv, Alive,
            state_vars, waiting_vars, thread_vars, cpu_vars, quiesce_vars,
            client_vars, WakeQuiesce, WakeSync, WakeProcs, Larger,
            SyncPcs, QuiescePcs, ClientPcs, CtlPcs
<1> Threads \subseteq Procs /\ Ctl \in Procs
  BY DEF Procs
<1>1. CASE \E t \in Threads : ClientNext(t)
  <2> PICK t \in Threads : ClientNext(t)
    BY <1>1
  <2> DEFINE c0 == th_cpu[t]
             g0 == Slot(th_txg[t])
  <2> c0 \in Cpus /\ g0 \in Slots
    BY SlotType
  <2>1. CASE \E c \in Cpus : txg_hold_open(t, c)
    BY <2>1, SlotType DEF txg_hold_open
  <2>2. CASE txg_rele_to_quiesce(t)
    BY <2>2 DEF txg_rele_to_quiesce
  <2>3. CASE txg_register_callbacks(t)
    <3>1. <<t, th_txg[t]>> \in Threads \X Nat
      OBVIOUS
    <3>2. tc_callbacks' = [tc_callbacks EXCEPT
                             ![c0][g0] = @ \cup {<<t, th_txg[t]>>}]
      BY <2>3 DEF txg_register_callbacks
    <3>3. tc_callbacks' \in [Cpus -> [Slots -> SUBSET (Threads \X Nat)]]
      BY <3>1, <3>2
    <3> QED
      BY <2>3, <3>3 DEF txg_register_callbacks
  <2>4. CASE txg_rele_to_sync(t)
    <3>1. pc[t] \in HoldPcs
      BY <2>4 DEF txg_rele_to_sync, HoldPcs
    <3>2. tc_count[c0][g0] - 1 \in Nat
      BY <3>1, HolderCounted
    <3>3. tc_count' \in [Cpus -> [Slots -> Nat]]
      BY <2>4, <3>2 DEF txg_rele_to_sync
    <3>4. 1 \in Cpus
      BY DEF Cpus
    <3> QED
      BY <2>4, <3>3, <3>4 DEF txg_rele_to_sync
  <2>5. CASE txg_delay(t) \/ txg_delay_sleep(t) \/ txg_delay_return(t)
    BY <2>5 DEF txg_delay, txg_delay_sleep, txg_delay_return, DelayClient
  <2>6. CASE \E txg \in WaitTxgs : ClientWaitSynced(t, txg)
    <3> PICK txg \in WaitTxgs : ClientWaitSynced(t, txg)
      BY <2>6
    <3> DEFINE n == IF txg = 0 THEN tx_open_txg + TXG_DEFER_SIZE ELSE txg
    <3>1. n \in Nat
      BY txg \in Nat, tx_open_txg \in Nat
    <3>2. /\ WaitSyncedLoop(t, n)
          /\ tx_sync_txg_waiting' = Larger(tx_sync_txg_waiting, n)
      BY DEF ClientWaitSynced, txg_wait_synced
    <3> HIDE DEF n
    <3> QED
      BY <3>1, <3>2, WaitSyncedLoopType DEF ClientWaitSynced, txg_wait_synced
  <2>7. CASE \E txg \in WaitTxgs : txg_wait_open(t, txg)
    <3> PICK txg \in WaitTxgs : txg_wait_open(t, txg)
      BY <2>7
    <3> DEFINE n == IF txg = 0 THEN tx_open_txg + 1 ELSE txg
    <3>1. n \in Nat
      BY txg \in Nat, tx_open_txg \in Nat
    <3>2. /\ WaitOpenLoop(t, n)
          /\ tx_quiesce_txg_waiting' = Larger(tx_quiesce_txg_waiting, n)
      BY DEF txg_wait_open
    <3> HIDE DEF n
    <3>3. tx_quiesce_txg_waiting' \in Nat
      BY <3>1, <3>2
    <3> QED
      BY <3>1, <3>2, <3>3, WaitOpenLoopType DEF txg_wait_open
  <2>8. CASE txg_wait_open_wakeup(t)
    <3>1. target[t] \in Nat /\ WaitOpenLoop(t, target[t])
      BY <2>8 DEF txg_wait_open_wakeup
    <3> QED
      BY <2>8, <3>1, WaitOpenLoopType DEF txg_wait_open_wakeup
  <2> QED
    BY <2>1, <2>2, <2>3, <2>4, <2>5, <2>6, <2>7, <2>8 DEF ClientNext
<1>2. CASE \E p \in Procs : txg_wait_synced_wakeup(p)
  <2> PICK p \in Procs : txg_wait_synced_wakeup(p)
    BY <1>2
  <2>1. target[p] \in Nat /\ WaitSyncedLoop(p, target[p])
    BY DEF txg_wait_synced_wakeup
  <2> QED
    BY <2>1, WaitSyncedLoopType DEF txg_wait_synced_wakeup
<1>3. CASE QuiesceNext
  <2> 1 \in Cpus /\ (quiesce_cpu # NCpus => quiesce_cpu + 1 \in Cpus)
    BY DEF Cpus
  <2>1. CASE QuiesceSleep
    BY <2>1 DEF QuiesceSleep
  <2>2. CASE QuiesceStart
    BY <2>2 DEF QuiesceStart
  <2>3. CASE QuiesceLock
    BY <2>3 DEF QuiesceLock
  <2>4. CASE QuiesceAdvance
    BY <2>4 DEF QuiesceAdvance
  <2>5. CASE QuiesceDrain
    BY <2>5 DEF QuiesceDrain
  <2>6. CASE QuiesceHandoff
    BY <2>6 DEF QuiesceHandoff
  <2>7. CASE QuiesceExit
    BY <2>7 DEF QuiesceExit
  <2> QED
    BY <1>3, <2>1, <2>2, <2>3, <2>4, <2>5, <2>6, <2>7 DEF QuiesceNext
<1>4. CASE SyncNext
  <2>1. CASE SyncSleep \/ SyncTimeout
    BY <2>1 DEF SyncSleep, SyncTimeout
  <2>2. CASE SyncPrompt
    BY <2>2 DEF SyncPrompt, SyncAwake
  <2>3. CASE SyncConsume
    BY <2>3 DEF SyncConsume, SyncAwake
  <2>4. CASE SyncDone
    <3>1. tc_callbacks' \in [Cpus -> [Slots -> SUBSET (Threads \X Nat)]]
      BY <2>4 DEF SyncDone, DispatchCallbacks
    <3> QED
      BY <2>4, <3>1 DEF SyncDone
  <2>5. CASE SyncExit
    BY <2>5 DEF SyncExit, SyncAwake
  <2> QED
    BY <1>4, <2>1, <2>2, <2>3, <2>4, <2>5 DEF SyncNext
<1>5. CASE CtlNext
  <2>1. CASE txg_sync_start
    BY <2>1 DEF txg_sync_start
  <2>2. CASE txg_sync_stop
    <3> DEFINE n == tx_open_txg + TXG_DEFER_SIZE
    <3>1. n \in Nat /\ n # 0
      OBVIOUS
    <3>2. WaitSyncedLoop(Ctl, n) /\ tx_sync_txg_waiting' \in Nat
      BY <2>2, <3>1 DEF txg_sync_stop, txg_wait_synced
    <3> HIDE DEF n
    <3> QED
      BY <2>2, <3>1, <3>2, WaitSyncedLoopType DEF txg_sync_stop, txg_wait_synced
  <2>3. CASE StopThreads
    BY <2>3 DEF StopThreads
  <2>4. CASE StopWakeup \/ Stopped
    BY <2>4 DEF StopWakeup, Stopped, vars
  <2> QED
    BY <1>5, <2>1, <2>2, <2>3, <2>4 DEF CtlNext
<1> QED
  BY <1>1, <1>2, <1>3, <1>4, <1>5 DEF Next

(***************************************************************************)
(* Which steps disturb locks, transactions and the quiesce thread's work.  *)
(***************************************************************************)
Busy(p) == p \in {"lock", "advance", "drain", "drainSleep", "handoff"}

HoldsUnchanged ==
  /\ UNCHANGED <<th_cpu, th_txg, tc_count>>
  /\ \A t \in Threads :
       /\ pc'[t] \in HoldPcs <=> pc[t] \in HoldPcs
       /\ pc'[t] \in LockedPcs <=> pc[t] \in LockedPcs

\* Nothing that LockInv and HolderInv speak of.
Neutral ==
  /\ HoldsUnchanged
  /\ UNCHANGED <<tx_open_txg, tc_lock, quiesce_txg, quiesce_cpu>>
  /\ \/ quiesce_pc' = quiesce_pc
     \/ ~Busy(quiesce_pc) /\ ~Busy(quiesce_pc')

QuiesceWork ==
  QuiesceStart \/ QuiesceLock \/ QuiesceAdvance \/ QuiesceDrain \/ QuiesceHandoff

\* A broadcast moves nobody into or out of a group, nor off a tc_lock.
LEMMA WakesHold ==
  ASSUME TypeOK, NEW from, NEW to,
         <<from, to>> \in {<<"delaySleep", "delayLoop">>,
                           <<"openSleep", "openWoken">>,
                           <<"syncedSleep", "syncedWoken">>,
                           <<"exitSleep", "exitWoken">>},
         NEW t \in Threads
  PROVE  /\ WakeProcs(pc, from, to)[t] \in HoldPcs <=> pc[t] \in HoldPcs
         /\ WakeProcs(pc, from, to)[t] \in LockedPcs <=> pc[t] \in LockedPcs
         /\ WakeProcs(pc, from, to) \in [Procs -> ClientPcs \cup CtlPcs]
<1>1. t \in Procs /\ pc \in [Procs -> ClientPcs \cup CtlPcs]
  BY DEF Procs, TypeOK
<1> QED
  BY <1>1 DEF WakeProcs, HoldPcs, LockedPcs, ClientPcs, CtlPcs

\* What a step may do to the holds: enter, release a tc_lock or leave, close a
\* group, or leave holds, locks and the closing of a group alone.
LEMMA StepKinds ==
  ASSUME TxgInv, Next
  PROVE  \/ \E t \in Threads, c \in Cpus : txg_hold_open(t, c)
         \/ \E t \in Threads : txg_rele_to_quiesce(t) \/ txg_rele_to_sync(t)
         \/ QuiesceWork /\ HoldsUnchanged
         \/ Neutral
<1> USE DEF state_vars, waiting_vars, thread_vars, cpu_vars, quiesce_vars,
            client_vars, WakeQuiesce, WakeSync, HoldPcs, LockedPcs
<1> TypeOK
  BY DEF TxgInv
<1> Threads \subseteq Procs /\ Ctl \in Procs /\ Ctl \notin Threads
  BY DEF Procs
<1> pc \in [Procs -> ClientPcs \cup CtlPcs]
  BY DEF TypeOK
<1>1. CASE \E t \in Threads : ClientNext(t)
  <2> PICK t \in Threads : ClientNext(t)
    BY <1>1
  <2>1. CASE txg_register_callbacks(t)
    BY <2>1 DEF txg_register_callbacks, Neutral, HoldsUnchanged
  <2>2. CASE txg_delay(t) \/ txg_delay_sleep(t) \/ txg_delay_return(t)
    BY <2>2 DEF txg_delay, txg_delay_sleep, txg_delay_return, DelayClient,
                Neutral, HoldsUnchanged
  <2>3. CASE \E txg \in WaitTxgs : ClientWaitSynced(t, txg)
    BY <2>3 DEF ClientWaitSynced, txg_wait_synced, WaitSyncedLoop, Neutral,
                HoldsUnchanged
  <2>4. ASSUME NEW n, WaitOpenLoop(t, n), pc[t] \in {"idle", "openWoken"},
               UNCHANGED <<tx_open_txg, cpu_vars, quiesce_txg, quiesce_cpu,
                           th_cpu, th_txg>>
        PROVE  Neutral
    <3>1. quiesce_pc' = quiesce_pc \/ (~Busy(quiesce_pc) /\ ~Busy(quiesce_pc'))
      BY <2>4 DEF WaitOpenLoop, Busy
    <3>2. \A q \in Threads :
            /\ pc'[q] \in HoldPcs <=> pc[q] \in HoldPcs
            /\ pc'[q] \in LockedPcs <=> pc[q] \in LockedPcs
      BY <2>4, WakesHold DEF WaitOpenLoop
    <3> QED
      BY <2>4, <3>1, <3>2 DEF Neutral, HoldsUnchanged
  <2>5. CASE (\E txg \in WaitTxgs : txg_wait_open(t, txg)) \/ txg_wait_open_wakeup(t)
    BY <2>4, <2>5 DEF txg_wait_open, txg_wait_open_wakeup
  <2> QED
    BY <2>1, <2>2, <2>3, <2>5 DEF ClientNext
<1>2. CASE \E p \in Procs : txg_wait_synced_wakeup(p)
  BY <1>2 DEF txg_wait_synced_wakeup, WaitSyncedLoop, Neutral, HoldsUnchanged
<1>3. CASE QuiesceNext
  <2>1. CASE QuiesceSleep
    BY <2>1 DEF QuiesceSleep, Neutral, HoldsUnchanged, Busy
  <2>2. CASE QuiesceStart \/ QuiesceLock \/ QuiesceAdvance \/ QuiesceDrain
    BY <2>2 DEF QuiesceWork, QuiesceStart, QuiesceLock, QuiesceAdvance,
                QuiesceDrain, HoldsUnchanged
  <2>3. CASE QuiesceHandoff
    BY <2>3, WakesHold DEF QuiesceWork, QuiesceHandoff, HoldsUnchanged
  <2>4. CASE QuiesceExit
    BY <2>4, WakesHold DEF QuiesceExit, Neutral, HoldsUnchanged, Busy
  <2> QED
    BY <1>3, <2>1, <2>2, <2>3, <2>4 DEF QuiesceNext
<1>4. CASE SyncNext
  <2>1. CASE SyncSleep \/ SyncTimeout
    BY <2>1 DEF SyncSleep, SyncTimeout, Neutral, HoldsUnchanged
  <2>2. CASE SyncPrompt \/ SyncConsume
    BY <2>2, WakesHold DEF SyncPrompt, SyncConsume, Neutral, HoldsUnchanged, Busy
  <2>3. CASE SyncDone \/ SyncExit
    BY <2>3, WakesHold DEF SyncDone, SyncExit, Neutral, HoldsUnchanged
  <2> QED
    BY <1>4, <2>1, <2>2, <2>3 DEF SyncNext
<1>5. CASE CtlNext
  <2>1. CASE txg_sync_start
    <3>1. quiesce_pc \in {"none", "exited"}
      BY <2>1 DEF txg_sync_start, TxgInv, ThreadInv, Alive
    <3> QED
      BY <2>1, <3>1 DEF txg_sync_start, Neutral, HoldsUnchanged, Busy
  <2>2. CASE txg_sync_stop
    BY <2>2 DEF txg_sync_stop, txg_wait_synced, WaitSyncedLoop, Neutral,
                HoldsUnchanged
  <2>3. CASE StopThreads
    BY <2>3 DEF StopThreads, WakeProcs, Neutral, HoldsUnchanged, Busy
  <2>4. CASE StopWakeup \/ Stopped
    BY <2>4 DEF StopWakeup, Stopped, vars, Neutral, HoldsUnchanged
  <2> QED
    BY <1>5, <2>1, <2>2, <2>3, <2>4 DEF CtlNext
<1> QED
  BY <1>1, <1>2, <1>3, <1>4, <1>5 DEF Next

(***************************************************************************)
(* Locks and transactions.                                                 *)
(***************************************************************************)
LEMMA LockStep ==
  ASSUME TxgInv, Next
  PROVE  LockInv'
<1> USE DEF state_vars, waiting_vars, thread_vars, cpu_vars, quiesce_vars,
            client_vars, LockedPcs
<1> TypeOK /\ LockInv
  BY DEF TxgInv
<1> /\ tc_lock \in [Cpus -> Threads \cup {Quiescer, Free}]
    /\ pc \in [Procs -> ClientPcs \cup CtlPcs]
    /\ th_cpu \in [Threads -> Cpus]
    /\ th_txg \in [Threads -> Nat]
    /\ quiesce_cpu \in Cpus
    /\ Threads \subseteq Procs
    /\ Cpus \subseteq Nat
  BY DEF TypeOK, Procs, Cpus
<1>1. ASSUME NEW t \in Threads, NEW c \in Cpus, txg_hold_open(t, c)
      PROVE  LockInv'
  BY <1>1 DEF txg_hold_open, LockInv
<1>2. ASSUME NEW t \in Threads, txg_rele_to_quiesce(t)
      PROVE  LockInv'
  BY <1>2 DEF txg_rele_to_quiesce, LockInv
<1>3. ASSUME NEW t \in Threads, txg_rele_to_sync(t)
      PROVE  LockInv'
  BY <1>3 DEF txg_rele_to_sync, LockInv, WakeQuiesce
<1>4. CASE QuiesceWork /\ HoldsUnchanged
  <2> USE <1>4 DEF HoldsUnchanged
  <2>1. CASE QuiesceStart
    BY <2>1 DEF QuiesceStart, LockInv, Cpus
  <2>2. CASE QuiesceLock
    <3>1. \A t \in Threads : pc'[t] \in LockedPcs =>
            tc_lock'[th_cpu'[t]] = t /\ th_txg'[t] = tx_open_txg'
      BY <2>2 DEF QuiesceLock, LockInv
    <3>2. \A d \in Cpus : d < quiesce_cpu \/ d = quiesce_cpu => tc_lock'[d] = Quiescer
      BY <2>2 DEF QuiesceLock, LockInv
    <3>3. CASE quiesce_cpu = NCpus
      BY <2>2, <3>1, <3>2, <3>3 DEF QuiesceLock, LockInv, Cpus
    <3>4. CASE quiesce_cpu # NCpus
      BY <2>2, <3>1, <3>2, <3>4 DEF QuiesceLock, LockInv, Cpus
    <3> QED
      BY <3>3, <3>4
  <2>3. CASE QuiesceAdvance
    <3>1. \A t \in Threads : pc[t] \notin LockedPcs
      <4> SUFFICES ASSUME NEW t \in Threads, pc[t] \in LockedPcs PROVE FALSE
        OBVIOUS
      <4>1. tc_lock[th_cpu[t]] = t /\ tc_lock[th_cpu[t]] = Quiescer
        BY <2>3 DEF QuiesceAdvance, LockInv
      <4> QED
        BY <4>1
    <3> QED
      BY <2>3, <3>1 DEF QuiesceAdvance, LockInv
  <2>4. CASE QuiesceDrain \/ QuiesceHandoff
    BY <2>4 DEF QuiesceDrain, QuiesceHandoff, LockInv
  <2> QED
    BY <2>1, <2>2, <2>3, <2>4 DEF QuiesceWork
<1>5. CASE Neutral
  BY <1>5 DEF Neutral, HoldsUnchanged, LockInv, Busy
<1> QED
  BY <1>1, <1>2, <1>3, <1>4, <1>5, StepKinds

\* Nobody is left behind in a group that the drain loop has gone past.
LEMMA HolderStep ==
  ASSUME TxgInv, Next
  PROVE  HolderInv'
<1> USE DEF state_vars, waiting_vars, thread_vars, cpu_vars, quiesce_vars,
            client_vars, HoldPcs, LockedPcs
<1> TypeOK /\ HolderInv /\ CountsAreHolders /\ Pipeline
  BY DEF TxgInv
<1> /\ pc \in [Procs -> ClientPcs \cup CtlPcs]
    /\ th_cpu \in [Threads -> Cpus]
    /\ th_txg \in [Threads -> Nat]
    /\ quiesce_cpu \in Cpus
    /\ quiesce_txg \in Nat
    /\ tx_open_txg \in Nat
    /\ Threads \subseteq Procs
    /\ Cpus \subseteq Nat
  BY DEF TypeOK, Procs, Cpus
<1>1. ASSUME NEW t \in Threads, NEW c \in Cpus, txg_hold_open(t, c)
      PROVE  HolderInv'
  BY <1>1 DEF txg_hold_open, HolderInv
<1>2. ASSUME NEW t \in Threads, txg_rele_to_quiesce(t)
      PROVE  HolderInv'
  BY <1>2 DEF txg_rele_to_quiesce, HolderInv
<1>3. ASSUME NEW t \in Threads, txg_rele_to_sync(t)
      PROVE  HolderInv'
  BY <1>3 DEF txg_rele_to_sync, HolderInv, WakeQuiesce
<1>4. CASE QuiesceWork /\ HoldsUnchanged
  <2> USE <1>4 DEF HoldsUnchanged
  <2>1. CASE QuiesceStart \/ QuiesceLock
    BY <2>1 DEF QuiesceStart, QuiesceLock, HolderInv
  <2>2. CASE QuiesceAdvance
    <3>1. quiesce_txg = tx_open_txg /\ quiesce_cpu' = quiesce_cpu
      BY <2>2 DEF QuiesceAdvance, Pipeline
    <3>2. \A t \in Threads : pc[t] \in HoldPcs => th_txg[t] = tx_open_txg
      BY <2>2 DEF QuiesceAdvance, HolderInv
    <3>3. \A c \in Cpus : c >= quiesce_cpu
      BY <2>2 DEF QuiesceAdvance, TxgInv, LockInv, Cpus
    <3> QED
      BY <2>2, <3>1, <3>2, <3>3 DEF QuiesceAdvance, HolderInv
  <2>3. CASE QuiesceDrain
    <3> DEFINE g == Slot(quiesce_txg)
    <3>1. g \in Slots /\ (quiesce_cpu # NCpus => quiesce_cpu + 1 \in Cpus)
      BY SlotType DEF Cpus
    <3>2. CASE tc_count[quiesce_cpu][g] # 0
      BY <2>3, <3>2 DEF QuiesceDrain, HolderInv
    <3>3. CASE tc_count[quiesce_cpu][g] = 0
      <4>1. HoldersOf(quiesce_cpu, g) = {}
        BY <3>1, <3>3, HoldersFinite, FS_EmptySet DEF CountsAreHolders
      <4>2. \A t \in Threads : pc[t] \in HoldPcs /\ th_cpu[t] = quiesce_cpu =>
              th_txg[t] # quiesce_txg
        BY <4>1 DEF HoldersOf, Holders
      <4>3. CASE quiesce_cpu = NCpus
        <5>1. \A t \in Threads : pc[t] \in HoldPcs => th_txg[t] = tx_open_txg
          BY <4>2, <4>3 DEF HolderInv, Cpus
        <5> QED
          BY <2>3, <3>3, <4>3, <5>1 DEF QuiesceDrain, HolderInv
      <4>4. CASE quiesce_cpu # NCpus
        BY <2>3, <3>1, <3>3, <4>2, <4>4 DEF QuiesceDrain, HolderInv
      <4> QED
        BY <4>3, <4>4
    <3> QED
      BY <3>2, <3>3
  <2>4. CASE QuiesceHandoff
    BY <2>4 DEF QuiesceHandoff, HolderInv
  <2> QED
    BY <2>1, <2>2, <2>3, <2>4 DEF QuiesceWork
<1>5. CASE Neutral
  BY <1>5 DEF Neutral, HoldsUnchanged, HolderInv, Busy
<1> QED
  BY <1>1, <1>2, <1>3, <1>4, <1>5, StepKinds

\* Entering and leaving move tc_count[] with the set of holders.
LEMMA CountStep ==
  ASSUME TxgInv, Next
  PROVE  CountsAreHolders'
<1> USE DEF state_vars, waiting_vars, thread_vars, cpu_vars, quiesce_vars,
            client_vars
<1> TypeOK /\ CountsAreHolders
  BY DEF TxgInv
<1> /\ pc \in [Procs -> ClientPcs \cup CtlPcs]
    /\ th_cpu \in [Threads -> Cpus]
    /\ th_txg \in [Threads -> Nat]
    /\ tc_count \in [Cpus -> [Slots -> Nat]]
    /\ tx_open_txg \in Nat
    /\ Threads \subseteq Procs
  BY DEF TypeOK, Procs
<1> SUFFICES ASSUME NEW d \in Cpus, NEW h \in Slots
             PROVE  tc_count'[d][h] = Cardinality(HoldersOf(d, h)')
  BY DEF CountsAreHolders
<1>0. tc_count[d][h] = Cardinality(HoldersOf(d, h))
  BY DEF CountsAreHolders
<1>1. ASSUME NEW t \in Threads, NEW c \in Cpus, txg_hold_open(t, c)
      PROVE  tc_count'[d][h] = Cardinality(HoldersOf(d, h)')
  <2> USE DEF HoldersOf, Holders, HoldPcs, LockedPcs
  <2>1. t \notin HoldersOf(d, h)
    BY <1>1 DEF txg_hold_open
  <2>2. CASE d = c /\ h = Slot(tx_open_txg)
    <3>1. HoldersOf(d, h)' = HoldersOf(d, h) \cup {t}
      BY <1>1, <2>2 DEF txg_hold_open
    <3>2. tc_count'[d][h] = tc_count[d][h] + 1
      BY <1>1, <2>2 DEF txg_hold_open
    <3> HIDE DEF HoldersOf
    <3> QED
      BY <1>0, <2>1, <3>1, <3>2, HoldersFinite, FS_AddElement
  <2>3. CASE ~(d = c /\ h = Slot(tx_open_txg))
    <3>1. HoldersOf(d, h)' = HoldersOf(d, h)
      BY <1>1, <2>3 DEF txg_hold_open
    <3>2. tc_count'[d][h] = tc_count[d][h]
      BY <1>1, <2>3, SlotType DEF txg_hold_open
    <3> QED
      BY <1>0, <3>1, <3>2
  <2> QED
    BY <2>2, <2>3
<1>2. ASSUME NEW t \in Threads, txg_rele_to_quiesce(t)
      PROVE  tc_count'[d][h] = Cardinality(HoldersOf(d, h)')
  <2>1. HoldersOf(d, h)' = HoldersOf(d, h)
    BY <1>2 DEF txg_rele_to_quiesce, HoldersOf, Holders, HoldPcs, LockedPcs
  <2> QED
    BY <1>0, <1>2, <2>1 DEF txg_rele_to_quiesce
<1>3. ASSUME NEW t \in Threads, txg_rele_to_sync(t)
      PROVE  tc_count'[d][h] = Cardinality(HoldersOf(d, h)')
  <2> USE DEF HoldersOf, Holders, HoldPcs, LockedPcs
  <2>1. CASE d = th_cpu[t] /\ h = Slot(th_txg[t])
    <3>1. t \in HoldersOf(d, h)
      BY <1>3, <2>1 DEF txg_rele_to_sync
    <3>2. HoldersOf(d, h)' = HoldersOf(d, h) \ {t}
      BY <1>3, <2>1 DEF txg_rele_to_sync
    <3>3. tc_count'[d][h] = tc_count[d][h] - 1
      BY <1>3, <2>1 DEF txg_rele_to_sync
    <3> HIDE DEF HoldersOf
    <3>4. \A S : IsFiniteSet(S) /\ t \in S =>
                   Cardinality(S \ {t}) = Cardinality(S) - 1
      BY FS_RemoveElement
    <3>5. Cardinality(HoldersOf(d, h) \ {t}) = Cardinality(HoldersOf(d, h)) - 1
      BY <3>1, <3>4, HoldersFinite
    <3> QED
      BY <1>0, <3>2, <3>3, <3>5
  <2>2. CASE ~(d = th_cpu[t] /\ h = Slot(th_txg[t]))
    <3>1. HoldersOf(d, h)' = HoldersOf(d, h)
      BY <1>3, <2>2 DEF txg_rele_to_sync
    <3>2. tc_count'[d][h] = tc_count[d][h]
      BY <1>3, <2>2, SlotType DEF txg_rele_to_sync
    <3> QED
      BY <1>0, <3>1, <3>2
  <2> QED
    BY <2>1, <2>2
<1>4. CASE HoldsUnchanged
  <2>1. HoldersOf(d, h)' = HoldersOf(d, h)
    BY <1>4 DEF HoldsUnchanged, HoldersOf, Holders
  <2> QED
    BY <1>0, <1>4, <2>1 DEF HoldsUnchanged
<1> QED
  BY <1>1, <1>2, <1>3, <1>4, StepKinds DEF Neutral

(***************************************************************************)
(* Callbacks.                                                              *)
(***************************************************************************)

\* A callback is added by txg_register_callbacks() and taken off by SyncDone;
\* every other step leaves the lists and tx_synced_txg alone.
LEMMA CallbackKinds ==
  ASSUME TxgInv, Next
  PROVE  \/ \E t \in Threads : txg_register_callbacks(t)
         \/ SyncDone
         \/ /\ UNCHANGED <<tc_callbacks, tx_synced_txg>>
            /\ tx_open_txg' \in {tx_open_txg, tx_open_txg + 1}
<1> USE DEF state_vars, waiting_vars, thread_vars, cpu_vars, quiesce_vars,
            client_vars
<1>1. CASE \E t \in Threads : ClientNext(t)
  BY <1>1 DEF ClientNext, txg_hold_open, txg_rele_to_quiesce, txg_rele_to_sync,
              txg_delay, txg_delay_sleep, txg_delay_return, DelayClient,
              ClientWaitSynced, txg_wait_synced, txg_wait_open,
              txg_wait_open_wakeup
<1>2. CASE \E p \in Procs : txg_wait_synced_wakeup(p)
  BY <1>2 DEF txg_wait_synced_wakeup
<1>3. CASE QuiesceNext
  BY <1>3 DEF QuiesceNext, QuiesceSleep, QuiesceStart, QuiesceLock,
              QuiesceAdvance, QuiesceDrain, QuiesceHandoff, QuiesceExit
<1>4. CASE SyncNext
  BY <1>4 DEF SyncNext, SyncSleep, SyncTimeout, SyncPrompt, SyncConsume, SyncExit
<1>5. CASE CtlNext
  BY <1>5 DEF CtlNext, txg_sync_start, txg_sync_stop, txg_wait_synced,
              StopThreads, StopWakeup, Stopped, vars
<1> QED
  BY <1>1, <1>2, <1>3, <1>4, <1>5 DEF Next

\* A transaction is in a group that is not on disk.
LEMMA HeldNotSynced ==
  ASSUME TxgInv, NEW t \in Threads, pc[t] \in HoldPcs
  PROVE  /\ LastTaken < th_txg[t]
         /\ LastSynced < th_txg[t]
         /\ th_txg[t] <= tx_open_txg
<1>1. /\ tx_open_txg \in Nat /\ tx_syncing_txg \in Nat /\ tx_synced_txg \in Nat
      /\ tx_open_txg >= InitTxg
      /\ LastTaken \in Nat /\ LastSynced \in Nat
  BY DEF TxgInv, TypeOK, SyncingInv, LastTaken, LastSynced
<1>2. LastSynced <= LastTaken
  BY <1>1 DEF TxgInv, Pipeline, LastTaken, LastSynced
<1>3. CASE th_txg[t] = tx_open_txg
  <2>1. LastTaken < tx_open_txg
    BY <1>1 DEF TxgInv, Pipeline
  <2> QED
    BY <1>1, <1>2, <1>3, <2>1
<1>4. CASE Closing /\ th_txg[t] = quiesce_txg
  <2>1. LastTaken = tx_open_txg - 2 /\ th_txg[t] = tx_open_txg - 1
    BY <1>4 DEF TxgInv, Pipeline
  <2> QED
    BY <1>1, <1>2, <2>1
<1> QED
  BY <1>3, <1>4 DEF TxgInv, HolderInv, Closing

\* Two groups less than TXG_SIZE apart do not share a slot.
LEMMA SlotsApart ==
  ASSUME NEW a \in Nat, NEW b \in Nat, a <= b, b < a + 4, Slot(a) = Slot(b)
  PROVE  a = b
BY DEF Slot

\* A callback stays in the slot of its group until that group is synced.
LEMMA CallbackStep ==
  ASSUME TxgInv, Next
  PROVE  CallbackInv'
<1> TypeOK /\ CallbackInv /\ Pipeline
  BY DEF TxgInv
<1> /\ tc_callbacks \in [Cpus -> [Slots -> SUBSET (Threads \X Nat)]]
    /\ th_cpu \in [Threads -> Cpus]
    /\ th_txg \in [Threads -> Nat]
    /\ tx_open_txg \in Nat /\ tx_synced_txg \in Nat /\ tx_syncing_txg \in Nat
  BY DEF TypeOK
<1> SUFFICES ASSUME NEW d \in Cpus, NEW h \in Slots,
                    NEW cb \in tc_callbacks'[d][h]
             PROVE  /\ Slot(cb[2]) = h
                    /\ LastSynced' < cb[2]
                    /\ cb[2] <= tx_open_txg'
  BY DEF CallbackInv
<1>1. ASSUME NEW t \in Threads, txg_register_callbacks(t)
      PROVE  /\ Slot(cb[2]) = h
             /\ LastSynced' < cb[2]
             /\ cb[2] <= tx_open_txg'
  <2>1. LastSynced' = LastSynced /\ tx_open_txg' = tx_open_txg
    BY <1>1 DEF txg_register_callbacks, state_vars, LastSynced
  <2>2. CASE cb \in tc_callbacks[d][h]
    BY <2>1, <2>2 DEF CallbackInv
  <2>3. CASE cb \notin tc_callbacks[d][h]
    <3>1. cb = <<t, th_txg[t]>> /\ h = Slot(th_txg[t])
      BY <1>1, <2>3, SlotType DEF txg_register_callbacks
    <3>2. LastSynced < th_txg[t] /\ th_txg[t] <= tx_open_txg
      BY <1>1, HeldNotSynced DEF txg_register_callbacks, HoldPcs
    <3> QED
      BY <2>1, <3>1, <3>2
  <2> QED
    BY <2>2, <2>3
<1>2. CASE SyncDone
  <2>1. cb \in tc_callbacks[d][h] /\ h # Slot(tx_syncing_txg)
    BY <1>2 DEF SyncDone, DispatchCallbacks
  <2>2. cb \in Threads \X Nat
    BY <2>1
  <2>3. Slot(cb[2]) = h /\ LastSynced < cb[2] /\ cb[2] <= tx_open_txg
    BY <2>1 DEF CallbackInv
  <2>4. tx_syncing_txg # 0 /\ tx_syncing_txg = LastSynced + 1
    BY <1>2 DEF SyncDone, TxgInv, SyncingInv, Pipeline
  <2>5. LastSynced' = tx_syncing_txg /\ tx_open_txg' = tx_open_txg
    BY <1>2, <2>4 DEF SyncDone, LastSynced
  <2>6. cb[2] # tx_syncing_txg
    BY <2>1, <2>3
  <2>7. LastSynced \in Nat
    BY DEF LastSynced
  <2> QED
    BY <2>2, <2>3, <2>4, <2>5, <2>6, <2>7
<1>3. CASE /\ UNCHANGED <<tc_callbacks, tx_synced_txg>>
           /\ tx_open_txg' \in {tx_open_txg, tx_open_txg + 1}
  <2>1. cb \in tc_callbacks[d][h] /\ LastSynced' = LastSynced
    BY <1>3 DEF LastSynced
  <2>2. cb \in Threads \X Nat
    BY <2>1
  <2>3. Slot(cb[2]) = h /\ LastSynced < cb[2] /\ cb[2] <= tx_open_txg
    BY <2>1 DEF CallbackInv
  <2> QED
    BY <1>3, <2>1, <2>2, <2>3
<1> QED
  BY <1>1, <1>2, <1>3, CallbackKinds

(***************************************************************************)
(* Export.                                                                 *)
(***************************************************************************)

\* When txg_wait_synced() returns to txg_sync_stop(), no callback is left.
LEMMA StopWaitStep ==
  ASSUME TxgInv, NEW n \in Nat, WaitSyncedLoop(Ctl, n),
         UNCHANGED tc_callbacks,
         \A t \in Threads : pc[t] = "idle",
         \A c \in Cpus, g \in Slots : \A cb \in tc_callbacks[c][g] : cb[2] <= n
  PROVE  StopInv'
<1> /\ pc \in [Procs -> ClientPcs \cup CtlPcs]
    /\ target \in [Procs -> Nat]
    /\ tc_callbacks \in [Cpus -> [Slots -> SUBSET (Threads \X Nat)]]
    /\ tx_synced_txg \in Nat
    /\ Ctl \in Procs /\ Threads \subseteq Procs /\ Ctl \notin Threads
  BY DEF TxgInv, TypeOK, Procs
<1>1. CASE tx_synced_txg < n
  BY <1>1 DEF WaitSyncedLoop, StopInv, CtlPcs
<1>2. CASE ~(tx_synced_txg < n)
  <2>1. \A c \in Cpus, g \in Slots : tc_callbacks[c][g] = {}
    <3> SUFFICES ASSUME NEW c \in Cpus, NEW g \in Slots,
                        NEW cb \in tc_callbacks[c][g]
                 PROVE  FALSE
      OBVIOUS
    <3>1. cb \in Threads \X Nat
      OBVIOUS
    <3>2. LastSynced < cb[2] /\ cb[2] <= n
      BY DEF TxgInv, CallbackInv
    <3>3. LastSynced \in Nat /\ LastSynced >= tx_synced_txg
      BY DEF LastSynced
    <3> QED
      BY <1>2, <3>1, <3>2, <3>3
  <2> QED
    BY <1>2, <2>1 DEF WaitSyncedLoop, StopInv, CtlPcs
<1> QED
  BY <1>1, <1>2

\* Export finds the pool idle and waits for every callback.
LEMMA StopStep ==
  ASSUME TxgInv, Next
  PROVE  StopInv'
<1> USE DEF state_vars, waiting_vars, thread_vars, cpu_vars, quiesce_vars,
            client_vars
<1> TypeOK /\ StopInv /\ ThreadInv
  BY DEF TxgInv
<1> /\ pc \in [Procs -> ClientPcs \cup CtlPcs]
    /\ Ctl \in Procs /\ Threads \subseteq Procs /\ Ctl \notin Threads
  BY DEF TypeOK, Procs
<1>1. CASE \E t \in Threads : ClientNext(t)
  <2> PICK t \in Threads : ClientNext(t)
    BY <1>1
  <2>1. pc[Ctl] \in {"new", "idle"}
    BY DEF StopInv, ClientNext, txg_hold_open, txg_rele_to_quiesce,
           txg_register_callbacks, txg_rele_to_sync, txg_delay, txg_delay_sleep,
           txg_delay_return, DelayClient, ClientWaitSynced, txg_wait_open,
           txg_wait_open_wakeup, InUse
  <2>2. pc'[Ctl] = pc[Ctl]
    BY <2>1 DEF ClientNext, txg_hold_open, txg_rele_to_quiesce,
           txg_register_callbacks, txg_rele_to_sync, txg_delay, txg_delay_sleep,
           txg_delay_return, DelayClient, ClientWaitSynced, txg_wait_synced,
           WaitSyncedLoop, txg_wait_open, txg_wait_open_wakeup, WaitOpenLoop,
           WakeProcs
  <2> QED
    BY <2>1, <2>2 DEF StopInv
<1>2. CASE \E p \in Procs : txg_wait_synced_wakeup(p)
  <2> PICK p \in Procs : txg_wait_synced_wakeup(p)
    BY <1>2
  <2>1. CASE p = Ctl
    <3>1. target[Ctl] \in Nat /\ WaitSyncedLoop(Ctl, target[Ctl])
      BY <2>1 DEF TypeOK, txg_wait_synced_wakeup
    <3>2. UNCHANGED tc_callbacks /\ pc[Ctl] = "syncedWoken"
      BY <2>1 DEF txg_wait_synced_wakeup
    <3> QED
      BY <3>1, <3>2, StopWaitStep DEF StopInv
  <2>2. CASE p # Ctl
    BY <2>2 DEF txg_wait_synced_wakeup, WaitSyncedLoop, StopInv, Procs
  <2> QED
    BY <2>1, <2>2
<1>3. CASE QuiesceNext
  <2>1. CASE QuiesceExit
    BY <2>1 DEF QuiesceExit, StopInv, WakeProcs, CtlPcs, Alive, ThreadInv
  <2>2. CASE QuiesceHandoff
    BY <2>2 DEF QuiesceHandoff, StopInv, WakeProcs, CtlPcs
  <2>3. CASE QuiesceSleep \/ QuiesceStart \/ QuiesceLock \/ QuiesceAdvance
               \/ QuiesceDrain
    BY <2>3 DEF QuiesceSleep, QuiesceStart, QuiesceLock, QuiesceAdvance,
                QuiesceDrain, StopInv
  <2> QED
    BY <1>3, <2>1, <2>2, <2>3 DEF QuiesceNext
<1>4. CASE SyncNext
  <2>1. CASE SyncExit
    BY <2>1 DEF SyncExit, SyncAwake, StopInv, WakeProcs, CtlPcs, Alive, ThreadInv
  <2>2. CASE SyncPrompt \/ SyncConsume
    BY <2>2 DEF SyncPrompt, SyncConsume, StopInv, WakeProcs, CtlPcs
  <2>3. CASE SyncSleep \/ SyncTimeout
    BY <2>3 DEF SyncSleep, SyncTimeout, StopInv
  <2>4. CASE SyncDone
    BY <2>4 DEF SyncDone, DispatchCallbacks, StopInv, WakeProcs, CtlPcs
  <2> QED
    BY <1>4, <2>1, <2>2, <2>3, <2>4 DEF SyncNext
<1>5. CASE CtlNext
  <2>1. CASE txg_sync_start
    BY <2>1 DEF txg_sync_start, StopInv, CtlPcs
  <2>2. CASE txg_sync_stop
    <3> DEFINE n == tx_open_txg + TXG_DEFER_SIZE
    <3>1. tx_open_txg \in Nat /\ n \in Nat \ {0}
      BY DEF TypeOK
    <3>2. WaitSyncedLoop(Ctl, n) /\ UNCHANGED tc_callbacks
      BY <2>2, <3>1 DEF txg_sync_stop, txg_wait_synced
    <3>3. \A c \in Cpus, g \in Slots : \A cb \in tc_callbacks[c][g] : cb[2] <= n
      <4> SUFFICES ASSUME NEW c \in Cpus, NEW g \in Slots,
                          NEW cb \in tc_callbacks[c][g]
                   PROVE  cb[2] <= n
        OBVIOUS
      <4>1. cb \in Threads \X Nat
        BY DEF TypeOK
      <4>2. cb[2] <= tx_open_txg
        BY DEF TxgInv, CallbackInv
      <4> QED
        BY <3>1, <4>1, <4>2
    <3>4. \A t \in Threads : pc[t] = "idle"
      BY <2>2 DEF txg_sync_stop
    <3> HIDE DEF n
    <3> QED
      BY <3>1, <3>2, <3>3, <3>4, StopWaitStep
  <2>3. CASE StopThreads
    BY <2>3 DEF StopThreads, StopInv, WakeProcs, CtlPcs
  <2>4. CASE StopWakeup \/ Stopped
    BY <2>4 DEF StopWakeup, Stopped, vars, StopInv, CtlPcs
  <2> QED
    BY <1>5, <2>1, <2>2, <2>3, <2>4 DEF CtlNext
<1> QED
  BY <1>1, <1>2, <1>3, <1>4, <1>5 DEF Next

(***************************************************************************)
(* The theorems.                                                           *)
(***************************************************************************)

\* TxgInv holds in every reachable state, for every number of threads, CPUs
\* and groups.
THEOREM Invariance == Spec => []TxgInv
<1>1. TxgInv /\ [Next]_vars => TxgInv'
  <2> SUFFICES ASSUME TxgInv, [Next]_vars PROVE TxgInv'
    OBVIOUS
  <2>1. CASE Next
    BY <2>1, TypeStep, PipelineStep, LockStep, HolderStep, CountStep,
       CallbackStep, StopStep DEF TxgInv
  <2>2. CASE UNCHANGED vars
    <3>1. TypeOK' /\ ThreadInv' /\ SyncingInv' /\ Pipeline'
      BY <2>2 DEF vars, state_vars, waiting_vars, thread_vars, cpu_vars,
                  quiesce_vars, client_vars, TxgInv, TypeOK, ThreadInv,
                  SyncingInv, Pipeline, LastTaken, LastSynced, Closing
    <3>2. LockInv' /\ HolderInv' /\ CallbackInv' /\ StopInv'
      BY <2>2 DEF vars, state_vars, waiting_vars, thread_vars, cpu_vars,
                  quiesce_vars, client_vars, TxgInv, LockInv, HolderInv,
                  CallbackInv, StopInv, LastSynced
    <3>3. CountsAreHolders'
      BY <2>2 DEF vars, state_vars, waiting_vars, thread_vars, cpu_vars,
                  quiesce_vars, client_vars, TxgInv, CountsAreHolders,
                  HoldersOf, Holders
    <3> QED
      BY <3>1, <3>2, <3>3 DEF TxgInv
  <2> QED
    BY <2>1, <2>2
<1> QED
  BY <1>1, InitInv, PTL DEF Spec

\* Every variable keeps its type; in particular no tc_count[] entry ever goes
\* below zero.
THEOREM TypeCorrect == Spec => []TypeOK
<1>1. TxgInv => TypeOK
  BY DEF TxgInv
<1> QED
  BY <1>1, Invariance, PTL

\* Consecutive groups fill the pipeline; none is skipped or overwritten.
THEOREM PipelineHolds == Spec => []Pipeline
<1>1. TxgInv => Pipeline
  BY DEF TxgInv
<1> QED
  BY <1>1, Invariance, PTL

\* Nobody is in a group that was handed over, is being written or is on disk.
THEOREM QuiescedIsEmpty == Spec => []HeldIsOpenOrQuiescing
<1>1. TxgInv => HeldIsOpenOrQuiescing
  BY DEF TxgInv, HolderInv, HeldIsOpenOrQuiescing, Holders
<1> QED
  BY <1>1, Invariance, PTL

\* Between txg_hold_open() and txg_rele_to_quiesce() the txg stays open.
THEOREM OpenIsPinned == Spec => []TcLockPinsOpen
<1>1. TxgInv => TcLockPinsOpen
  BY DEF TxgInv, LockInv, TcLockPinsOpen
<1> QED
  BY <1>1, Invariance, PTL

\* tc_count[] counts the transactions in its slot.
THEOREM CountsExact == Spec => []CountsAreHolders
<1>1. TxgInv => CountsAreHolders
  BY DEF TxgInv
<1> QED
  BY <1>1, Invariance, PTL

\* txg_dispatch_callbacks() needs no tc_lock: the four slots keep the group
\* being written apart from those still in use.
THEOREM DispatchSafe == Spec => []DispatchNeedsNoLock
<1>1. ASSUME TxgInv PROVE DispatchNeedsNoLock
  <2> SUFFICES ASSUME sync_pc = "syncing", NEW c \in Cpus
               PROVE  /\ HoldersOf(c, Slot(tx_syncing_txg)) = {}
                      /\ \A cb \in tc_callbacks[c][Slot(tx_syncing_txg)] :
                           cb[2] = tx_syncing_txg
    BY DEF DispatchNeedsNoLock
  <2> DEFINE n == tx_syncing_txg
  <2>1. /\ n \in Nat /\ tx_open_txg \in Nat /\ th_txg \in [Threads -> Nat]
        /\ tc_callbacks \in [Cpus -> [Slots -> SUBSET (Threads \X Nat)]]
    BY <1>1 DEF TxgInv, TypeOK
  <2>2. n # 0 /\ LastTaken = n /\ n = LastSynced + 1 /\ LastSynced \in Nat
    BY <1>1 DEF TxgInv, TypeOK, SyncingInv, Pipeline, LastTaken, LastSynced
  <2>3. tx_open_txg < n + 3
    BY <1>1, <2>1, <2>2 DEF TxgInv, Pipeline
  <2>4. \A t \in Threads : pc[t] \in HoldPcs => Slot(th_txg[t]) # Slot(n)
    <3> SUFFICES ASSUME NEW t \in Threads, pc[t] \in HoldPcs
                 PROVE  Slot(th_txg[t]) # Slot(n)
      OBVIOUS
    <3>1. n < th_txg[t] /\ th_txg[t] <= tx_open_txg /\ th_txg[t] \in Nat
      BY <1>1, <2>1, <2>2, HeldNotSynced
    <3> QED
      BY <2>1, <2>3, <3>1, SlotsApart
  <2>5. \A cb \in tc_callbacks[c][Slot(n)] : cb[2] = n
    <3> SUFFICES ASSUME NEW cb \in tc_callbacks[c][Slot(n)]
                 PROVE  cb[2] = n
      OBVIOUS
    <3>1. Slot(n) \in Slots /\ cb \in Threads \X Nat
      BY <2>1, SlotType
    <3>2. Slot(cb[2]) = Slot(n) /\ LastSynced < cb[2] /\ cb[2] <= tx_open_txg
      BY <1>1, <3>1 DEF TxgInv, CallbackInv
    <3> QED
      BY <2>1, <2>2, <2>3, <3>1, <3>2, SlotsApart
  <2> QED
    BY <2>4, <2>5 DEF HoldersOf, Holders
<1> QED
  BY <1>1, Invariance, PTL

\* After txg_sync_stop() no thread, no transaction and no callback is left.
THEOREM StopIsClean == Spec => []StopLeavesNothing
<1>1. ASSUME TxgInv PROVE StopLeavesNothing
  <2> SUFFICES ASSUME pc[Ctl] = "stopped", NEW c \in Cpus, NEW g \in Slots
               PROVE  tx_threads = 0 /\ tc_count[c][g] = 0 /\ tc_callbacks[c][g] = {}
    BY <1>1 DEF StopLeavesNothing, TxgInv, StopInv
  <2>1. tx_threads = 0 /\ tc_callbacks[c][g] = {}
    BY <1>1 DEF TxgInv, StopInv
  <2>2. HoldersOf(c, g) = {}
    BY <1>1 DEF TxgInv, StopInv, HoldersOf, Holders, HoldPcs, LockedPcs
  <2>3. tc_count[c][g] = 0
    BY <1>1, <2>2, FS_EmptySet DEF TxgInv, CountsAreHolders
  <2> QED
    BY <2>1, <2>3
<1> QED
  BY <1>1, Invariance, PTL

(***************************************************************************)
(* What a step does to the lists and to the group on disk.                 *)
(***************************************************************************)
LEMMA PendingMember ==
  \A cb : cb \in Pending <=> \E c \in Cpus, g \in Slots : cb \in tc_callbacks[c][g]
BY DEF Pending

\* SyncDone makes the next group the one on disk and takes off the lists the
\* callbacks of that group, all of them and no other.
LEMMA SyncDoneEffect ==
  ASSUME TxgInv, SyncDone
  PROVE  /\ tx_syncing_txg # 0
         /\ tx_syncing_txg = LastSynced + 1
         /\ LastSynced' = tx_syncing_txg
         /\ tx_synced_txg' = tx_syncing_txg
         /\ Pending' = {cb \in Pending : cb[2] # tx_syncing_txg}
         /\ tx_syncing_txg < tx_open_txg
<1> DEFINE n == tx_syncing_txg
<1>1. /\ tc_callbacks \in [Cpus -> [Slots -> SUBSET (Threads \X Nat)]]
      /\ tx_open_txg \in Nat /\ n \in Nat /\ tx_synced_txg \in Nat
      /\ LastSynced \in Nat
  BY DEF TxgInv, TypeOK, LastSynced
<1>2. n # 0 /\ n = LastSynced + 1 /\ LastTaken = n
  BY DEF SyncDone, TxgInv, SyncingInv, Pipeline, LastTaken
<1>3. LastSynced' = n /\ tx_synced_txg' = n
  BY <1>2 DEF SyncDone, LastSynced
<1>4. n < tx_open_txg /\ tx_open_txg < n + 3
  BY <1>1, <1>2 DEF TxgInv, Pipeline
<1>5. \A c \in Cpus, g \in Slots :
        tc_callbacks'[c][g] = {cb \in tc_callbacks[c][g] : cb[2] # n}
  <2> SUFFICES ASSUME NEW c \in Cpus, NEW g \in Slots
               PROVE  tc_callbacks'[c][g] = {cb \in tc_callbacks[c][g] : cb[2] # n}
    OBVIOUS
  <2>1. \A cb \in tc_callbacks[c][g] : cb[2] # n <=> g # Slot(n)
    <3> SUFFICES ASSUME NEW cb \in tc_callbacks[c][g]
                 PROVE  cb[2] # n <=> g # Slot(n)
      OBVIOUS
    <3>1. cb \in Threads \X Nat
      BY <1>1
    <3>2. Slot(cb[2]) = g /\ LastSynced < cb[2] /\ cb[2] <= tx_open_txg
      BY DEF TxgInv, CallbackInv
    <3> QED
      BY <1>1, <1>2, <1>4, <3>1, <3>2, SlotsApart
  <2>2. tc_callbacks'[c][g] = IF g = Slot(n) THEN {} ELSE tc_callbacks[c][g]
    BY <1>1, SlotType DEF SyncDone, DispatchCallbacks
  <2> QED
    BY <2>1, <2>2
<1>6. Pending' = {cb \in Pending : cb[2] # n}
  <2>1. \A cb : cb \in Pending' <=>
                 \E c \in Cpus, g \in Slots : cb \in tc_callbacks'[c][g]
    BY DEF Pending
  <2> QED
    BY <1>5, <2>1, PendingMember
<1> QED
  BY <1>2, <1>3, <1>4, <1>6

\* txg_register_callbacks() adds one callback.
LEMMA RegisterEffect ==
  ASSUME TxgInv, NEW t \in Threads, txg_register_callbacks(t)
  PROVE  Pending' = Pending \cup {<<t, th_txg[t]>>}
<1> DEFINE c0 == th_cpu[t]
           g0 == Slot(th_txg[t])
           new == <<t, th_txg[t]>>
<1>1. /\ tc_callbacks \in [Cpus -> [Slots -> SUBSET (Threads \X Nat)]]
      /\ c0 \in Cpus /\ g0 \in Slots
  BY SlotType DEF TxgInv, TypeOK
<1>2. tc_callbacks' = [tc_callbacks EXCEPT ![c0][g0] = @ \cup {new}]
  BY DEF txg_register_callbacks
<1>3. \A cb : cb \in Pending' <=>
               \E c \in Cpus, g \in Slots : cb \in tc_callbacks'[c][g]
  BY DEF Pending
<1> HIDE DEF new, c0, g0
<1>4. ASSUME NEW cb
      PROVE  cb \in Pending' <=> cb \in Pending \cup {new}
  <2>1. new \in tc_callbacks'[c0][g0]
    BY <1>1, <1>2
  <2>2. \A c \in Cpus, g \in Slots :
          /\ cb \in tc_callbacks[c][g] => cb \in tc_callbacks'[c][g]
          /\ cb \in tc_callbacks'[c][g] => cb \in tc_callbacks[c][g] \/ cb = new
    BY <1>1, <1>2
  <2> QED
    BY <1>1, <1>3, <2>1, <2>2, PendingMember
<1> QED
  BY <1>4 DEF new

\* Groups reach the disk one by one and in order.
THEOREM SyncedInOrderHolds == Spec => SyncedInOrder
<1>1. ASSUME TxgInv, [Next]_vars
      PROVE  [LastSynced' \in {LastSynced, LastSynced + 1}]_vars
  <2>1. CASE UNCHANGED vars
    BY <2>1
  <2>2. CASE Next
    <3>1. CASE SyncDone
      BY <1>1, <3>1, SyncDoneEffect
    <3>2. CASE UNCHANGED tx_synced_txg
      BY <3>2 DEF LastSynced
    <3>3. ASSUME NEW t \in Threads, txg_register_callbacks(t)
          PROVE  UNCHANGED tx_synced_txg
      BY <3>3 DEF txg_register_callbacks, state_vars
    <3> QED
      BY <1>1, <2>2, <3>1, <3>2, <3>3, CallbackKinds
  <2> QED
    BY <1>1, <2>1, <2>2
<1> QED
  BY <1>1, Invariance, PTL DEF Spec, SyncedInOrder

\* A callback is dispatched by the step that reports its group synced.
THEOREM DispatchedWhenSyncedHolds == Spec => DispatchedWhenSynced
<1> DEFINE Late == \A cb \in Pending \ Pending' :
                     tx_synced_txg' = cb[2] /\ tx_synced_txg # cb[2]
<1>1. ASSUME TxgInv, [Next]_vars
      PROVE  [Late]_vars
  <2>1. CASE UNCHANGED vars
    BY <2>1
  <2>2. CASE Next
    <3>1. CASE SyncDone
      <4>1. tx_synced_txg # tx_syncing_txg
        BY <1>1, <3>1, SyncDoneEffect DEF TxgInv, TypeOK, LastSynced
      <4> QED
        BY <1>1, <3>1, <4>1, SyncDoneEffect
    <3>2. CASE UNCHANGED tc_callbacks
      BY <3>2 DEF Pending
    <3>3. ASSUME NEW t \in Threads, txg_register_callbacks(t)
          PROVE  Late
      BY <1>1, <3>3, RegisterEffect
    <3> QED
      BY <1>1, <2>2, <3>1, <3>2, <3>3, CallbackKinds
  <2> QED
    BY <1>1, <2>1, <2>2
<1> QED
  BY <1>1, Invariance, PTL DEF Spec, DispatchedWhenSynced

(***************************************************************************)
(* Refinement: entering, registering, leaving, closing a group and         *)
(* reporting one synced are the steps of GroupCommit; all others stutter.  *)
(***************************************************************************)
Active == [t \in Threads |-> IF pc[t] \in HoldPcs THEN th_txg[t] ELSE 0]

\* A step that leaves the holds alone leaves the abstract transactions alone.
LEMMA ActiveFrame ==
  ASSUME HoldsUnchanged
  PROVE  Active' = Active
BY DEF HoldsUnchanged, Active

\* Only the quiesce thread opens a group.
LEMMA OpenFrame ==
  ASSUME TxgInv, Next, ~QuiesceAdvance
  PROVE  tx_open_txg' = tx_open_txg
<1> USE DEF state_vars, QuiesceWork
<1>1. ASSUME NEW t \in Threads, NEW c \in Cpus, txg_hold_open(t, c)
      PROVE  tx_open_txg' = tx_open_txg
  BY <1>1 DEF txg_hold_open
<1>2. ASSUME NEW t \in Threads, txg_rele_to_quiesce(t) \/ txg_rele_to_sync(t)
      PROVE  tx_open_txg' = tx_open_txg
  BY <1>2 DEF txg_rele_to_quiesce, txg_rele_to_sync
<1>3. CASE QuiesceWork
  BY <1>3 DEF QuiesceStart, QuiesceLock, QuiesceDrain, QuiesceHandoff
<1> QED
  BY <1>1, <1>2, <1>3, StepKinds DEF Neutral

\* The transaction groups of txg.c implement GroupCommit.
THEOREM Refinement == Spec => ImplementsGroupCommit
<1> USE DEF Active
<1>1. Init => GC!Init
  <2> SUFFICES ASSUME Init PROVE GC!Init
    OBVIOUS
  <2>1. Pending = {}
    BY DEF Init, Pending
  <2>2. \A t \in Threads : pc[t] \notin HoldPcs
    BY DEF Init, HoldPcs, LockedPcs, Procs
  <2> QED
    BY <2>1, <2>2 DEF Init, GC!Init, LastSynced
<1>2. ASSUME TxgInv, Next
      PROVE  GC!Next \/ UNCHANGED GC!gc_vars
  <2> USE <1>2
  <2>0. /\ pc \in [Procs -> ClientPcs \cup CtlPcs] /\ Threads \subseteq Procs
        /\ th_txg \in [Threads -> Nat] /\ tx_open_txg \in Nat
        /\ tx_open_txg >= InitTxg
    BY DEF TxgInv, TypeOK, Procs, SyncingInv
  <2>1. ASSUME NEW t \in Threads, NEW c \in Cpus, txg_hold_open(t, c)
        PROVE  GC!Begin(t)
    <3>1. UNCHANGED <<tx_open_txg, LastSynced, Pending>>
      BY <2>1 DEF txg_hold_open, state_vars, LastSynced, Pending
    <3>2. Active[t] = 0 /\ Active' = [Active EXCEPT ![t] = tx_open_txg]
      BY <2>0, <2>1 DEF txg_hold_open, HoldPcs, LockedPcs
    <3> QED
      BY <3>1, <3>2 DEF GC!Begin
  <2>2. ASSUME NEW t \in Threads, txg_register_callbacks(t)
        PROVE  GC!Register(t)
    <3>1. UNCHANGED <<tx_open_txg, LastSynced>>
      BY <2>2 DEF txg_register_callbacks, state_vars, LastSynced
    <3>2. Active' = Active
      BY <2>0, <2>2 DEF txg_register_callbacks, HoldPcs
    <3>3. pc[t] \in HoldPcs /\ th_txg[t] # 0
      BY <2>2, HeldNotSynced DEF txg_register_callbacks, HoldPcs, TxgInv, TypeOK,
                                 LastSynced
    <3>4. Pending' = Pending \cup {<<t, th_txg[t]>>}
      BY <2>2, RegisterEffect
    <3> QED
      BY <3>1, <3>2, <3>3, <3>4 DEF GC!Register
  <2>3. ASSUME NEW t \in Threads, txg_rele_to_sync(t)
        PROVE  GC!End(t)
    <3>1. UNCHANGED <<tx_open_txg, LastSynced, Pending>>
      BY <2>3 DEF txg_rele_to_sync, state_vars, LastSynced, Pending
    <3>2. Active' = [Active EXCEPT ![t] = 0]
      BY <2>0, <2>3 DEF txg_rele_to_sync, HoldPcs, LockedPcs
    <3>3. pc[t] \in HoldPcs /\ th_txg[t] # 0
      BY <2>3, HeldNotSynced DEF txg_rele_to_sync, HoldPcs, TxgInv, TypeOK,
                                 LastSynced
    <3> QED
      BY <3>1, <3>2, <3>3 DEF GC!End
  <2>4. ASSUME NEW t \in Threads, txg_rele_to_quiesce(t)
        PROVE  UNCHANGED GC!gc_vars
    <3>1. UNCHANGED <<tx_open_txg, LastSynced, Pending>>
      BY <2>4 DEF txg_rele_to_quiesce, state_vars, LastSynced, Pending
    <3>2. Active' = Active
      BY <2>0, <2>4 DEF txg_rele_to_quiesce, HoldPcs, LockedPcs
    <3> QED
      BY <3>1, <3>2 DEF GC!gc_vars
  <2>5. CASE QuiesceAdvance
    <3>1. UNCHANGED <<LastSynced, Pending>> /\ tx_open_txg' = tx_open_txg + 1
      BY <2>5 DEF QuiesceAdvance, LastSynced, Pending
    <3>2. Active' = Active
      BY <2>5 DEF QuiesceAdvance, client_vars
    <3>3. \A t \in Threads : Active[t] \in {0, tx_open_txg}
      BY <2>5 DEF QuiesceAdvance, TxgInv, HolderInv
    <3> QED
      BY <3>1, <3>2, <3>3 DEF GC!Next, GC!Advance
  <2>6. CASE SyncDone
    <3>1. UNCHANGED tx_open_txg
      BY <2>6 DEF SyncDone
    <3>2. Active' = Active
      BY <2>6, StepKinds, ActiveFrame DEF SyncDone, Neutral, HoldsUnchanged,
         WakeProcs, HoldPcs, LockedPcs, TxgInv, TypeOK, Procs
    <3>3. \A t \in Threads : Active[t] # LastSynced + 1
      <4>1. LastTaken = LastSynced + 1 /\ LastSynced \in Nat
        BY <2>6, SyncDoneEffect DEF LastTaken, LastSynced, TxgInv, TypeOK
      <4> QED
        BY <2>0, <4>1, HeldNotSynced
    <3> QED
      BY <2>6, <3>1, <3>2, <3>3, SyncDoneEffect DEF GC!Next, GC!Stabilize
  <2>7. CASE UNCHANGED <<tc_callbacks, tx_synced_txg>> /\ ~QuiesceAdvance
                /\ HoldsUnchanged
    BY <2>7, ActiveFrame, OpenFrame DEF LastSynced, Pending, GC!gc_vars
  <2> QED
    BY <2>1, <2>2, <2>3, <2>4, <2>5, <2>6, <2>7, StepKinds, CallbackKinds
       DEF GC!Next, Neutral
<1>3. UNCHANGED vars => UNCHANGED GC!gc_vars
  BY DEF vars, state_vars, cpu_vars, client_vars, GC!gc_vars, LastSynced, Pending
<1>4. TxgInv /\ [Next]_vars => [GC!Next]_(GC!gc_vars)
  BY <1>2, <1>3
<1> QED
  BY <1>1, <1>4, Invariance, PTL DEF Spec, ImplementsGroupCommit, GC!Spec

=============================================================================
