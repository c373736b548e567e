-------------------------------- MODULE Zil --------------------------------
(***************************************************************************)
(* The ZFS intent log of one file system, uts/common/fs/zfs/zil.c, above   *)
(* the transaction groups of GroupCommit and below a system that crashes.  *)
(*                                                                         *)
(* A system call runs in a transaction and leaves a record in memory.      *)
(* zil_commit() packs records into a chain of log blocks that is anchored  *)
(* in a header; the header changes only when a group reaches the disk, and *)
(* that is also when the blocks that are needed no more are freed.  After  *)
(* a crash the chain is claimed and the records in it that no group on     *)
(* disk contains are replayed.                                             *)
(*                                                                         *)
(* Records are numbered by their itx sequence number.  home[i] is the      *)
(* group that holds the effect of record i, 0 when a crash has undone it.  *)
(* zl_writer makes one thread at a time the log writer; what it does       *)
(* between two points where others can interfere is one action.            *)
(***************************************************************************)
EXTENDS Integers, Sequences, FiniteSets, SequencesExt

CONSTANTS
  Threads,      \* threads that make system calls
  Suspenders,   \* threads that take snapshots
  Kinds,        \* what they log: [foid, ooo, sync]; see zil_itx_assign()
  NBlocks,      \* bound: log blocks in the pool
  BlkRecs,      \* records that fit in a log block
  LogErrors,    \* whether writing a log block may fail
  MaxRec,       \* bound: records
  MaxTxg,       \* bound: the last group in which calls are made
  MaxCrash,     \* bound: crashes
  MaxWork       \* bound: records and crashes together

NULL == 0
Blocks == 1 .. NBlocks
Procs == Threads \cup Suspenders
TXG_DEFER_SIZE == 2
TXG_SIZE == 4
NoItx == MaxRec + 1

\* A thread is neither NULL nor a block, and there are finitely many.
ASSUME ZilAssumption ==
  /\ Threads \cap Suspenders = {} /\ Procs \cap Nat = {} /\ IsFiniteSet(Procs)
  /\ \A k \in Kinds : k.foid # 0 /\ k.ooo \in BOOLEAN /\ k.sync \in BOOLEAN
  /\ NBlocks \in Nat /\ BlkRecs \in Nat \ {0} /\ LogErrors \in BOOLEAN
  /\ {MaxRec, MaxTxg, MaxCrash, MaxWork} \subseteq Nat

VARIABLES
  open, stable, active,   \* the transaction groups, as in GroupCommit
  dirty,     \* the groups in which the objset is dirty, not on disk yet
  zsynced,   \* zil_sync() has run for the group that is being written
  zl,        \* zilog_t
  blk,       \* the log blocks, on disk and in lwb_t
  zh,        \* zil_header_t in memory
  zh_disk,   \* zil_header_t of the last group on disk
  rec, home, \* the records and where their effects are
  acked,     \* records that a zil_commit() that has returned promised
  moot,      \* records the log writer dropped, their file being gone
  p,         \* the threads: program counter and arguments
  w,         \* the log writer's locals
  mode,      \* the file system is up, down, or on its way up
  r,         \* locals of the import: the group it waits for, log position
  crashes

gc_vars == <<open, stable, active>>
fs_vars == <<rec, home, acked, moot>>
import_vars == <<mode, r, crashes>>
vars == <<gc_vars, dirty, zsynced, zl, blk, zh, zh_disk, fs_vars, p, w,
          import_vars>>

\* A transaction is held by the thread that runs it, or by the log block
\* whose write must end first.
GC == INSTANCE GroupCommit WITH Clients <- Procs \cup Blocks, First <- 1,
                                pending <- {}

NoBlk == [birth |-> 0, freed |-> 0, recs |-> <<>>, max_txg |-> 0,
          io |-> "none", next |-> NULL, content |-> "none"]
NoHeader == [log |-> NULL, claim_txg |-> 0, replay_seq |-> 0, needed |-> FALSE]
NoLog == [itx |-> <<>>, commit_seq |-> 0, writer |-> NULL, suspend |-> 0,
          suspending |-> FALSE, destroy_txg |-> 0, keep_first |-> FALSE,
          lr_seq |-> 0, replayed |-> [g \in 0 .. TXG_SIZE - 1 |-> 0],
          lwb |-> <<>>, clean |-> FALSE]
Idle == [pc |-> "idle", seq |-> 0, foid |-> 0, kind |-> NULL, txg |-> 0]
NoWriter == [lwb |-> NULL, itx |-> 0, next |-> 0, commit_seq |-> 0]

Init ==
  /\ open = 1 /\ stable = 0 /\ active = [c \in Procs \cup Blocks |-> 0]
  /\ dirty = {} /\ zsynced = FALSE
  /\ zl = NoLog
  /\ blk = [b \in Blocks |-> NoBlk]
  /\ zh = NoHeader /\ zh_disk = NoHeader
  /\ rec = <<>> /\ home = <<>> /\ acked = {} /\ moot = {}
  /\ p = [t \in Procs |-> Idle]
  /\ w = NoWriter
  /\ mode = "up" /\ r = [txg |-> 0, pos |-> 0] /\ crashes = 0

(***************************************************************************)
(* The chain on disk.                                                      *)
(***************************************************************************)

\* zil_read_log_block(): the block has been written and points to a next one.
Valid(f, b) == f[b].content = "disk" /\ f[b].next # NULL

\* The blocks that zil_parse() visits from block b; the last is not valid.
Chain(f, b) ==
  LET walk[n \in 0 .. NBlocks] ==
        IF n = 0 THEN IF b = NULL THEN <<>> ELSE <<b>>
        ELSE LET c == walk[n - 1] IN
             IF c # <<>> /\ Valid(f, Last(c)) THEN Append(c, f[Last(c)].next) ELSE c
  IN walk[NBlocks]

\* The records it finds there.
LogRecords(f, b) ==
  LET c == Chain(f, b)
  IN FlattenSeq([n \in DOMAIN c |-> IF Valid(f, c[n]) THEN f[c[n]].recs ELSE <<>>])

(***************************************************************************)
(* System calls.                                                           *)
(***************************************************************************)

\* The records that there are, and those that are being made.
Recs == Len(rec) + Cardinality({u \in Threads : p[u].pc = "call"})

\* Lock the file, then enter the open group: dmu_tx_assign().
CallBegin(t, k) ==
  /\ mode = "up"
  /\ p[t].pc = "idle"
  /\ open <= MaxTxg
  /\ Recs < MaxRec /\ Recs + crashes < MaxWork
  /\ \A u \in Threads : p[u].pc = "call" => p[u].kind.foid # k.foid
  /\ GC!Begin(t)
  /\ p' = [p EXCEPT ![t].pc = "call", ![t].kind = k]
  /\ UNCHANGED <<dirty, zsynced, zl, blk, zh, zh_disk, fs_vars, w, import_vars>>

\* zil_itx_assign() by zfs_log_*(), then dmu_tx_commit().
zil_itx_assign(t) ==
  /\ p[t].pc = "call"
  /\ rec' = Append(rec, [foid |-> p[t].kind.foid, ooo |-> p[t].kind.ooo,
                         sync |-> p[t].kind.sync, txg |-> active[t], boot |-> crashes])
  /\ home' = Append(home, active[t])
  /\ zl' = [zl EXCEPT !.itx = Append(@, Len(rec) + 1)]
  /\ dirty' = dirty \cup {active[t]}
  /\ p' = [p EXCEPT ![t] = Idle]
  /\ GC!End(t)
  /\ UNCHANGED <<zsynced, blk, zh, zh_disk, acked, moot, w, import_vars>>

(***************************************************************************)
(* zil_commit().                                                           *)
(***************************************************************************)

\* Fault: cv_broadcast() is left out.
Wake_NoBroadcast(q) == q

\* cv_broadcast(&zilog->zl_cv_writer)
Wake(q) ==
  [t \in Procs |->
     IF q[t].pc = "cvWait" THEN [q[t] EXCEPT !.pc = "cvWoken"]
     ELSE IF q[t].pc = "drainWait" THEN [q[t] EXCEPT !.pc = "drain"] ELSE q[t]]

\* What zil_commit(zilog, seq, foid) has put on stable storage on return.
Promised(seq, foid) ==
  {i \in 1 .. seq : rec[i].boot = crashes /\ (foid = 0 \/ rec[i].foid = foid \/ ~rec[i].ooo)}

\* zil_commit() of t returns, the state of the threads being q.
Return(t, q) ==
  /\ acked' = acked \cup Promised(q[t].seq, q[t].foid)
  /\ p' = [q EXCEPT ![t] = IF t \in Suspenders THEN [Idle EXCEPT !.pc = "drain"]
                                               ELSE Idle]

\* list_next() of record i in zl_itx_list; of 0, list_head().
After(i) == Min({j \in Range(zl.itx) : j > i} \cup {NoItx}) % NoItx

\* Fault: only while the suspension is in progress.
LogClosed_Suspending == zl.suspending

\* if (zilog->zl_suspend)
LogClosed == zl.suspend # 0

\* The start of zil_commit_writer().
BecomeWriter(t, q) ==
  IF ~LogClosed /\ zl.lwb = <<>> /\ zl.itx = <<>>
  THEN Return(t, Wake(q)) /\ UNCHANGED <<zl, w>>
  ELSE /\ zl' = [zl EXCEPT !.writer = t]
       /\ IF LogClosed \/ zl.lwb # <<>>
          THEN /\ w' = [NoWriter EXCEPT !.lwb = IF LogClosed THEN NULL ELSE Last(zl.lwb),
                                        !.next = After(0)]
               /\ p' = [q EXCEPT ![t].pc = "push"]
          ELSE /\ p' = [q EXCEPT ![t].pc = "create"]
               /\ UNCHANGED w
       /\ UNCHANGED acked

\* The last record of file f since the import, or of any file for 0.
LastItx(f) ==
  Max({i \in DOMAIN rec : rec[i].boot = crashes /\ f \in {0, rec[i].foid}} \cup {0})

\* Callers ask for the last record of their file (fsync, O_DSYNC), or for
\* all records so far but with a file's foid (putpage).
zil_commit(t, f, seq) ==
  LET q == [p EXCEPT ![t].seq = seq, ![t].foid = f] IN
  /\ mode = "up"
  /\ IF t \in Threads THEN p[t].pc = "idle" /\ open <= MaxTxg /\ seq # 0
                      ELSE p[t].pc = "suspCommit" /\ f = 0
  /\ seq \in {LastItx(f), LastItx(0)}
  /\ IF zl.writer # NULL
     THEN p' = [q EXCEPT ![t].pc = "cvWait"] /\ UNCHANGED <<zl, w, acked>>
     ELSE BecomeWriter(t, q)
  /\ UNCHANGED <<gc_vars, dirty, zsynced, blk, zh, zh_disk, rec, home, moot,
                 import_vars>>

zil_commit_wakeup(t) ==
  /\ p[t].pc = "cvWoken"
  /\ IF p[t].seq <= zl.commit_seq
     THEN Return(t, p) /\ UNCHANGED <<zl, w>>
     ELSE IF zl.writer # NULL
     THEN p' = [p EXCEPT ![t].pc = "cvWait"] /\ UNCHANGED <<zl, w, acked>>
     ELSE BecomeWriter(t, p)
  /\ UNCHANGED <<gc_vars, dirty, zsynced, blk, zh, zh_disk, rec, home, moot,
                 import_vars>>

\* zio_alloc_zil(): a free block, or NULL when the allocation fails.
Alloc ==
  LET free == {b \in Blocks : blk[b] = NoBlk}
  IN {NULL} \cup {b \in free : \A c \in free : b <= c}

NewLwb(b, txg) == [NoBlk EXCEPT !.birth = txg, !.max_txg = txg]

\* Fault: no wait for the last zil_destroy().
DestroyDone_NoWait == TRUE

\* txg_wait_synced(zilog->zl_dmu_pool, zilog->zl_destroy_txg)
DestroyDone == stable >= zl.destroy_txg

\* zil_create(): the first block of a chain, or the one that the header of
\* an earlier chain has kept.
zil_create(t) ==
  /\ p[t].pc = "create"
  /\ DestroyDone
  /\ IF zh.log # NULL
     THEN /\ zl' = [zl EXCEPT !.lwb = <<zh.log>>]
          /\ blk' = [blk EXCEPT ![zh.log] = [NoBlk EXCEPT !.birth = blk[zh.log].birth]]
          /\ p' = [p EXCEPT ![t].pc = "created"]
          /\ UNCHANGED dirty
     ELSE /\ \E n \in Alloc :
               IF n = NULL THEN UNCHANGED <<zl, blk>>
               ELSE /\ zl' = [zl EXCEPT !.lwb = <<n>>]
                    /\ blk' = [blk EXCEPT ![n] = NewLwb(n, open)]
          /\ dirty' = dirty \cup {open}
          /\ p' = [p EXCEPT ![t].pc = "created", ![t].txg = open]
  /\ UNCHANGED <<gc_vars, zsynced, zh, zh_disk, fs_vars, w, import_vars>>

zil_created(t) ==
  /\ p[t].pc = "created"
  /\ stable >= p[t].txg
  /\ w' = [NoWriter EXCEPT !.lwb = IF zl.lwb = <<>> THEN NULL ELSE Last(zl.lwb),
                           !.next = After(0)]
  /\ p' = [p EXCEPT ![t].pc = "push", ![t].txg = 0]
  /\ UNCHANGED <<gc_vars, dirty, zsynced, zl, blk, zh, zh_disk, fs_vars,
                 import_vars>>

\* Fault: synchronous records are left out too.
Skip_Sync(t, i) == p[t].foid # 0 /\ rec[i].ooo /\ rec[i].foid # p[t].foid

\* A record of another file that may be logged out of order.
Skip(t, i) ==
  p[t].foid # 0 /\ ~rec[i].sync /\ rec[i].ooo /\ rec[i].foid # p[t].foid

Full(b) == Len(blk[b].recs) + 1 > BlkRecs

\* The record that the loop of zil_commit_writer() takes next, 0 at its end.
NextItx(t) ==
  LET left == {i \in Range(zl.itx) : w.next \in 1 .. i /\ ~Skip(t, i)}
      i == Min(left)
  IN IF \/ left = {}
        \/ i > p[t].seq /\ (\/ w.lwb = NULL \/ blk[w.lwb].recs = <<>> \/ Full(w.lwb))
     THEN 0 ELSE i

\* list_remove(&zilog->zl_itx_list, itx)
RemoveItx(s, i) == RemoveAt(s, CHOOSE n \in DOMAIN s : s[n] = i)

\* Take it off the list; spa_sync() may have got there first.
TakeItx(t) ==
  /\ p[t].pc = "push"
  /\ NextItx(t) # 0
  /\ zl' = [zl EXCEPT !.itx = RemoveItx(@, NextItx(t))]
  /\ IF rec[NextItx(t)].txg > stable
     THEN /\ p' = [p EXCEPT ![t].pc = "log"]
          /\ w' = [w EXCEPT !.itx = NextItx(t), !.next = After(NextItx(t))]
     ELSE /\ w' = [w EXCEPT !.next = After(NextItx(t))]
          /\ UNCHANGED p
  /\ UNCHANGED <<gc_vars, dirty, zsynced, blk, zh, zh_disk, fs_vars, import_vars>>

\* zil_lwb_write_start() of block b, n being the next block that it got.  The
\* transaction that allocates n is held until b has been written.
Start(b, n) ==
  [c \in Blocks |->
     IF c = b THEN [blk[b] EXCEPT !.io = "issued", !.next = n]
     ELSE IF c = n THEN NewLwb(n, open) ELSE blk[c]]

\* Fault: dmu_tx_commit() as soon as the write has been issued.
HoldTx_Committed(b) == UNCHANGED gc_vars

\* dmu_tx_assign() for lwb_tx.
HoldTx(b) == GC!Begin(b)

Larger(a, b) == IF a < b THEN b ELSE a

\* The record goes to block b, the blocks being f.
AddRecord(f, b) ==
  [f EXCEPT ![b].io = "init",
            ![b].recs = Append(@, [itx |-> w.itx, seq |-> zl.lr_seq + 1]),
            ![b].max_txg = Larger(@, rec[w.itx].txg)]

\* zil_lwb_commit() once there is room for the record in block b: log it, or
\* for a write that no block can hold or whose data cannot be had (EIO), wait for
\* its group, or let it go (the file has been removed or truncated).
LogRecord(t, f, b) ==
  \/ /\ blk' = AddRecord(f, b)
     /\ zl' = [zl EXCEPT !.lr_seq = @ + 1, !.lwb = IF b = w.lwb THEN @ ELSE Append(@, b)]
     /\ p' = [p EXCEPT ![t].pc = "push"]
     /\ UNCHANGED moot
  \/ /\ rec[w.itx].ooo
     /\ blk' = [f EXCEPT ![b].io = "init"]
     /\ zl' = [zl EXCEPT !.lwb = IF b = w.lwb THEN @ ELSE Append(@, b)]
     /\ \/ /\ p' = [p EXCEPT ![t].pc = "recWait", ![t].txg = rec[w.itx].txg]
           /\ UNCHANGED moot
        \/ /\ p' = [p EXCEPT ![t].pc = "push"]
           /\ moot' = moot \cup {w.itx}

zil_lwb_commit(t) ==
  /\ p[t].pc = "log"
  /\ \/ /\ w.lwb = NULL
        /\ p' = [p EXCEPT ![t].pc = "push"]
        /\ w' = [w EXCEPT !.itx = 0]
        /\ UNCHANGED <<gc_vars, dirty, zl, blk, moot>>
     \/ /\ w.lwb # NULL /\ ~Full(w.lwb)
        /\ LogRecord(t, blk, w.lwb)
        /\ w' = [w EXCEPT !.itx = 0]
        /\ UNCHANGED <<gc_vars, dirty>>
     \/ /\ w.lwb # NULL /\ Full(w.lwb)
        /\ HoldTx(w.lwb)
        /\ dirty' = dirty \cup {open}
        /\ \E n \in Alloc :
             /\ w' = [w EXCEPT !.lwb = n, !.itx = 0]
             /\ IF n # NULL THEN LogRecord(t, Start(w.lwb, n), n)
                ELSE /\ blk' = Start(w.lwb, NULL)
                     /\ p' = [p EXCEPT ![t].pc = "push"]
                     /\ UNCHANGED <<zl, moot>>
  /\ UNCHANGED <<zsynced, zh, zh_disk, rec, home, acked, import_vars>>

\* txg_wait_synced() returns to the loop.
RecordSynced(t) ==
  /\ p[t].pc = "recWait"
  /\ stable >= p[t].txg
  /\ p' = [p EXCEPT ![t].pc = "push", ![t].txg = 0]
  /\ UNCHANGED <<gc_vars, dirty, zsynced, zl, blk, zh, zh_disk, fs_vars, w,
                 import_vars>>

\* The end of the loop: the commit sequence number, and the last block.
WriteLast(t) ==
  LET b == w.lwb
      seq == IF zl.itx = <<>> THEN Len(rec) ELSE Head(zl.itx) - 1
  IN
  /\ p[t].pc = "push"
  /\ NextItx(t) = 0
  /\ IF b = NULL \/ blk[b].io # "init"
     THEN /\ w' = [w EXCEPT !.commit_seq = seq, !.next = 0]
          /\ UNCHANGED <<gc_vars, dirty, zl, blk>>
     ELSE /\ HoldTx(b)
          /\ dirty' = dirty \cup {open}
          /\ \E n \in Alloc :
               /\ w' = [w EXCEPT !.commit_seq = seq, !.lwb = n, !.next = 0]
               /\ blk' = Start(b, n)
               /\ zl' = IF n = NULL THEN zl ELSE [zl EXCEPT !.lwb = Append(@, n)]
  /\ p' = [p EXCEPT ![t].pc = "io"]
  /\ UNCHANGED <<zsynced, zh, zh_disk, fs_vars, import_vars>>

\* Fault: the transaction is not committed.
zil_lwb_write_done_KeepsTx(b, ok) ==
  /\ blk[b].io = "issued"
  /\ LogErrors \/ ok
  /\ blk' = [blk EXCEPT ![b].io = "done", ![b].content = IF ok THEN "cache" ELSE "none"]
  /\ UNCHANGED <<gc_vars, dirty, zsynced, zl, zh, zh_disk, fs_vars, p, w, import_vars>>

\* zil_lwb_write_done()
zil_lwb_write_done(b, ok) ==
  /\ blk[b].io = "issued"
  /\ LogErrors \/ ok
  /\ blk' = [blk EXCEPT ![b].io = "done", ![b].content = IF ok THEN "cache" ELSE "none"]
  /\ GC!End(b)
  /\ UNCHANGED <<dirty, zsynced, zl, zh, zh_disk, fs_vars, p, w, import_vars>>

Flushed == [b \in Blocks |-> [blk[b] EXCEPT !.content = IF @ = "cache" THEN "disk" ELSE @]]

\* Fault: the writes are not waited for.
WritesDone_NoWait == TRUE

\* zio_wait(zilog->zl_root_zio)
WritesDone == \A b \in Blocks : blk[b].io # "issued"

\* The log writer has no block: an allocation failed, or the log is closed.
NeedsSync == w.lwb = NULL

Publish(t) ==
  /\ zl' = [zl EXCEPT !.writer = NULL, !.commit_seq = w.commit_seq]
  /\ w' = NoWriter
  /\ Return(t, Wake(p))

\* zio_wait(zl_root_zio) and zil_flush_vdevs(); the log block writes carry
\* ZIO_FLAG_DONT_PROPAGATE, so that the root zio reports no error of theirs.
WaitForWrites(t) ==
  /\ p[t].pc = "io"
  /\ WritesDone
  /\ blk' = Flushed
  /\ IF ~NeedsSync THEN Publish(t)
     ELSE /\ p' = [p EXCEPT ![t].pc = "sync", ![t].txg = open + TXG_DEFER_SIZE]
          /\ UNCHANGED <<zl, w, acked>>
  /\ UNCHANGED <<gc_vars, dirty, zsynced, zh, zh_disk, rec, home, moot, import_vars>>

\* txg_wait_synced(zl_dmu_pool, 0) returns: no log block was to be had.
WaitForSync(t) ==
  /\ p[t].pc = "sync"
  /\ stable >= p[t].txg
  /\ Publish(t)
  /\ UNCHANGED <<gc_vars, dirty, zsynced, blk, zh, zh_disk, rec, home, moot,
                 import_vars>>

\* Dispatched by zil_clean(); waits for the log writer to finish.
zil_itx_clean ==
  LET synced == {n \in DOMAIN zl.itx : \A m \in 1 .. n : rec[zl.itx[m]].txg <= stable} IN
  /\ zl.clean
  /\ zl.writer = NULL
  /\ zl' = [zl EXCEPT !.clean = FALSE,
                      !.itx = SubSeq(@, Cardinality(synced) + 1, Len(@))]
  /\ p' = Wake(p)
  /\ UNCHANGED <<gc_vars, dirty, zsynced, blk, zh, zh_disk, fs_vars, w, import_vars>>

(***************************************************************************)
(* Groups and the header.                                                  *)
(***************************************************************************)

\* The next group can be written: it is closed and nobody is in it.
Quiesced == stable + 1 < open /\ \A c \in Procs \cup Blocks : active[c] # stable + 1

\* The log blocks whose records are on disk with group txg.
Obsolete(txg) ==
  {n \in DOMAIN zl.lwb :
     \A m \in 1 .. n : LET b == blk[zl.lwb[m]] IN b.io = "done" /\ b.max_txg <= txg}

FreeBlocks(bs, txg) ==
  [b \in Blocks |-> IF b \in bs THEN [blk[b] EXCEPT !.freed = txg] ELSE blk[b]]

\* Fault: the header keeps the last block when no block is left.
LogHead_Kept(h, rest) == IF rest = <<>> THEN h.log ELSE Head(rest)

\* zh_log when the blocks in rest are left.
LogHead(h, rest) == IF rest = <<>> THEN NULL ELSE Head(rest)

\* zil_sync() in the group that is being written.
zil_sync ==
  LET txg == stable + 1
      g == txg % TXG_SIZE
      gone == Cardinality(Obsolete(txg))
      destroyed == zl.destroy_txg = txg
      h1 == IF zl.replayed[g] = 0 THEN zh ELSE [zh EXCEPT !.replay_seq = zl.replayed[g]]
      h2 == IF ~destroyed THEN h1
            ELSE [NoHeader EXCEPT !.log = IF zl.keep_first THEN zh.log ELSE NULL]
      rest == SubSeq(zl.lwb, gone + 1, Len(zl.lwb))
  IN
  /\ mode # "down"
  /\ Quiesced /\ txg \in dirty /\ ~zsynced
  /\ zh' = IF zl.lwb = <<>> THEN h2
           ELSE [h2 EXCEPT !.log = LogHead(h2, rest)]
  /\ zl' = [zl EXCEPT !.lwb = rest,
                      !.replayed = IF destroyed THEN NoLog.replayed ELSE [@ EXCEPT ![g] = 0]]
  /\ blk' = FreeBlocks({zl.lwb[n] : n \in 1 .. gone}, txg)
  /\ zsynced' = TRUE
  /\ UNCHANGED <<gc_vars, dirty, zh_disk, fs_vars, p, w, import_vars>>

\* The uberblock of the group is written, after a flush of the caches.  What
\* the group freed may be allocated again, and zil_clean() has its turn.
Stabilize ==
  LET txg == stable + 1 IN
  /\ mode # "down"
  /\ GC!Stabilize
  /\ txg \in dirty => zsynced
  /\ zh_disk' = IF txg \in dirty THEN zh ELSE zh_disk
  /\ blk' = [b \in Blocks |-> IF blk[b].freed = txg THEN NoBlk ELSE Flushed[b]]
  /\ zl' = [zl EXCEPT !.clean = \/ @
                                \/ /\ txg \in dirty /\ zl.itx # <<>>
                                   /\ rec[Head(zl.itx)].txg <= txg]
  /\ dirty' = dirty \ {txg}
  /\ zsynced' = FALSE
  /\ UNCHANGED <<zh, fs_vars, p, w, import_vars>>

\* Somebody sleeps in txg_wait_synced().
SyncWanted ==
  \/ \E t \in Procs : p[t].txg >= open \/ (p[t].pc = "create" /\ zl.destroy_txg >= open)
  \/ \E t \in Suspenders : p[t].pc = "destroy" /\ zl.destroy_txg >= open
  \/ mode # "up" /\ r.txg >= open

\* By itself after a while up to MaxTxg (and once during a replay, a bound), or
\* because it is waited for.
Advance ==
  /\ mode # "down"
  /\ open < MaxTxg \/ SyncWanted \/ (mode = "replay" /\ open <= r.txg + 1)
  /\ open < stable + 3   \* one group is open, one quiesced, one being written
  /\ GC!Advance
  /\ UNCHANGED <<dirty, zsynced, zl, blk, zh, zh_disk, fs_vars, p, w, import_vars>>

(***************************************************************************)
(* zil_suspend() and zil_resume(), around a snapshot.                      *)
(***************************************************************************)
zil_suspend(t) ==
  /\ mode = "up"
  /\ p[t].pc = "idle"
  /\ open <= MaxTxg
  /\ ~zh.needed
  /\ zl' = [zl EXCEPT !.suspend = @ + 1, !.suspending = @ \/ zl.suspend = 0]
  /\ p' = [p EXCEPT ![t].pc = IF zl.suspend = 0 THEN "suspCommit"
                              ELSE IF zl.suspending THEN "suspWait" ELSE "suspended"]
  /\ UNCHANGED <<gc_vars, dirty, zsynced, blk, zh, zh_disk, fs_vars, w, import_vars>>

\* Wait for in-flight log writes.
SuspendDrain(t) ==
  /\ p[t].pc = "drain"
  /\ p' = [p EXCEPT ![t].pc = IF zl.writer # NULL THEN "drainWait" ELSE "destroy"]
  /\ UNCHANGED <<gc_vars, dirty, zsynced, zl, blk, zh, zh_disk, fs_vars, w,
                 import_vars>>

\* Fault: the blocks stay on zl_lwb_list.
Destroyed_KeepsBlocks(z, keep) == [z EXCEPT !.destroy_txg = open, !.keep_first = keep]

\* What zil_destroy() leaves for zil_sync().
Destroyed(z, keep) ==
  [z EXCEPT !.destroy_txg = open, !.keep_first = keep, !.lwb = <<>>]

\* zil_destroy(): free the chain in one transaction, and clear the header
\* when that one is written.  z is the rest of the caller's change to zl.
Destroy(keep, z) ==
  IF zh.log = NULL THEN zl' = z /\ UNCHANGED <<dirty, blk>>
  ELSE /\ zl' = Destroyed(z, keep)
       /\ dirty' = dirty \cup {open}
       /\ blk' = FreeBlocks(IF zl.lwb # <<>> THEN Range(zl.lwb)
                            ELSE IF keep THEN {} ELSE Range(Chain(blk, zh.log)), open)

SuspendDestroy(t) ==
  /\ p[t].pc = "destroy"
  /\ DestroyDone
  /\ Destroy(FALSE, [zl EXCEPT !.suspending = FALSE])
  /\ p' = [u \in Procs |-> IF u = t \/ p[u].pc = "suspWait"
                           THEN [Idle EXCEPT !.pc = "suspended"] ELSE p[u]]
  /\ UNCHANGED <<gc_vars, zsynced, zh, zh_disk, fs_vars, w, import_vars>>

zil_resume(t) ==
  /\ p[t].pc = "suspended"
  /\ zl' = [zl EXCEPT !.suspend = @ - 1]
  /\ p' = [p EXCEPT ![t] = Idle]
  /\ UNCHANGED <<gc_vars, dirty, zsynced, blk, zh, zh_disk, fs_vars, w, import_vars>>

(***************************************************************************)
(* Crash, claim and replay.                                                *)
(***************************************************************************)

\* What the disk says is allocated.
OnDisk(b) == blk[b].birth # 0 /\ blk[b].birth <= stable

\* Of the log blocks in flight or in a cache those in kept have got to disk.
Crash ==
  /\ mode # "down"
  /\ crashes < MaxCrash /\ Len(rec) + crashes < MaxWork
  /\ crashes' = crashes + 1
  /\ \E kept \in SUBSET {b \in Blocks : blk[b].io = "issued" \/ blk[b].content = "cache"} :
       LET f == [b \in Blocks |->
                   [blk[b] EXCEPT !.freed = 0, !.max_txg = 0, !.io = "done",
                      !.content = IF b \in kept \/ @ = "disk" THEN "disk" ELSE "none"]]
           here == {b \in Blocks : OnDisk(b)} \cup Range(Chain(f, zh_disk.log))
       IN blk' = [b \in Blocks |-> IF b \in here THEN f[b] ELSE NoBlk]
  /\ open' = stable + 1
  /\ active' = [c \in Procs \cup Blocks |-> 0]
  /\ home' = [i \in DOMAIN home |-> IF home[i] > stable THEN 0 ELSE home[i]]
  /\ zl' = NoLog /\ zh' = zh_disk /\ dirty' = {} /\ zsynced' = FALSE
  /\ p' = [t \in Procs |-> Idle] /\ w' = NoWriter
  /\ mode' = "down" /\ r' = [txg |-> 0, pos |-> 0]
  /\ UNCHANGED <<stable, zh_disk, rec, acked, moot>>

Claimed == {b \in Range(Chain(blk, zh.log)) : blk[b].birth > stable}

\* zil_claim() in the first group of the import, which then waits until no
\* claimed block is from the future.
zil_claim ==
  /\ mode = "down"
  /\ mode' = "claimed"
  /\ IF zh.claim_txg = 0 /\ zh.log # NULL
     THEN /\ zh' = [zh EXCEPT !.claim_txg = open,
                      !.needed = LogRecords(blk, zh.log) # <<>> \/ Len(Chain(blk, zh.log)) > 1]
          /\ blk' = [b \in Blocks |-> IF b \in Claimed THEN [blk[b] EXCEPT !.birth = open]
                                                       ELSE blk[b]]
          /\ r' = [r EXCEPT !.txg = Max({blk[b].birth : b \in Claimed} \cup {0})]
          /\ dirty' = dirty \cup {open}
     ELSE UNCHANGED <<zh, blk, r, dirty>>
  /\ UNCHANGED <<gc_vars, zsynced, zl, zh_disk, fs_vars, p, w, crashes>>

\* zil_replay() up to the wait for what is in flight.
zil_replay ==
  /\ mode = "claimed"
  /\ stable >= r.txg
  /\ IF zh.needed
     THEN /\ mode' = "replay"
          /\ r' = [r EXCEPT !.txg = open + TXG_DEFER_SIZE]
          /\ UNCHANGED <<zl, dirty, blk>>
     ELSE /\ mode' = "up"
          /\ r' = [txg |-> 0, pos |-> 0]
          /\ Destroy(TRUE, zl)
  /\ UNCHANGED <<gc_vars, zsynced, zh, zh_disk, fs_vars, p, w, crashes>>

Log == LogRecords(blk, zh.log)

\* Already replayed, or in a group that was on disk before the crash.
NotNeeded(lr) == lr.seq <= zh.replay_seq \/ rec[lr.itx].txg < zh.claim_txg

\* Fault: a record that has been replayed is parsed again.
NextPos_Retry(lr) == IF NotNeeded(lr) THEN r.pos + 1 ELSE r.pos

\* Fault: a record that is not needed is parsed again.
NextPos_Stuck(lr) == IF NotNeeded(lr) THEN r.pos ELSE r.pos + 1

\* Where zil_parse() goes after a record.
NextPos(lr) == r.pos + 1

\* One record, in a transaction that also notes how far the replay has got.
zil_replay_log_record ==
  LET lr == Log[r.pos + 1] IN
  /\ mode = "replay"
  /\ stable >= r.txg
  /\ r.pos < Len(Log)
  /\ r' = [r EXCEPT !.pos = NextPos(lr)]
  /\ IF NotNeeded(lr) THEN UNCHANGED <<home, zl, dirty>>
     ELSE /\ home' = [home EXCEPT ![lr.itx] = open]
          /\ zl' = [zl EXCEPT !.replayed[open % TXG_SIZE] = lr.seq]
          /\ dirty' = dirty \cup {open}
  /\ UNCHANGED <<gc_vars, zsynced, blk, zh, zh_disk, rec, acked, moot, p, w, mode, crashes>>

ReplayDestroy ==
  /\ mode = "replay"
  /\ stable >= r.txg
  /\ r.pos = Len(Log)
  /\ Destroy(FALSE, zl)
  /\ mode' = "replayed"
  /\ r' = [txg |-> open, pos |-> 0]
  /\ UNCHANGED <<gc_vars, zsynced, zh, zh_disk, fs_vars, p, w, crashes>>

ReplayDone ==
  /\ mode = "replayed"
  /\ stable >= r.txg
  /\ mode' = "up"
  /\ r' = [txg |-> 0, pos |-> 0]
  /\ UNCHANGED <<gc_vars, dirty, zsynced, zl, blk, zh, zh_disk, fs_vars, p, w, crashes>>

----------------------------------------------------------------------------
CommitStep(t) ==
  \/ zil_commit_wakeup(t)
  \/ zil_create(t)
  \/ zil_created(t)
  \/ TakeItx(t)
  \/ zil_lwb_commit(t)
  \/ RecordSynced(t)
  \/ WriteLast(t)
  \/ WaitForWrites(t)
  \/ WaitForSync(t)

SuspendStep(t) ==
  zil_commit(t, 0, LastItx(0)) \/ SuspendDrain(t) \/ SuspendDestroy(t) \/ zil_resume(t)

SyncStep == zil_sync \/ Stabilize \/ Advance

ImportStep == zil_claim \/ zil_replay \/ zil_replay_log_record \/ ReplayDestroy \/ ReplayDone

Next ==
  \/ \E t \in Threads :
       \/ \E k \in Kinds : CallBegin(t, k)
       \/ zil_itx_assign(t)
       \/ \E f \in {0} \cup {k.foid : k \in Kinds}, seq \in DOMAIN rec : zil_commit(t, f, seq)
  \/ \E t \in Procs : CommitStep(t)
  \/ \E t \in Suspenders : zil_suspend(t) \/ SuspendStep(t)
  \/ \E b \in Blocks, ok \in BOOLEAN : zil_lwb_write_done(b, ok)
  \/ zil_itx_clean
  \/ SyncStep
  \/ ImportStep
  \/ Crash

Spec == Init /\ [][Next]_vars

\* The threads run, I/O completes, and groups are written when somebody waits.
Fairness ==
  /\ \A t \in Threads : WF_vars(zil_itx_assign(t))
  /\ \A t \in Procs : WF_vars(CommitStep(t))
  /\ \A t \in Suspenders : WF_vars(SuspendStep(t))
  /\ \A b \in Blocks : WF_vars(\E ok \in BOOLEAN : zil_lwb_write_done(b, ok))
  /\ WF_vars(zil_itx_clean)
  /\ WF_vars(zil_sync) /\ WF_vars(Stabilize) /\ WF_vars(Advance)
  /\ WF_vars(ImportStep)

FairSpec == Spec /\ Fairness

----------------------------------------------------------------------------
\* What zil_commit() has promised outlives crashes: whenever the file system
\* is up, the effect of every record it promised is in memory or on disk,
\* unless the file itself is gone.
AckedSurvive == mode = "up" => \A i \in acked \ moot : home[i] # 0

\* A record is replayed only if the crash undid it: never one whose group
\* was on disk before, and never one that an earlier replay, cut short by a
\* second crash, has put there.
ReplayOnce ==
  [][\A i \in DOMAIN home : home'[i] \notin {0, home[i]} => home[i] = 0]_vars

\* A record that the zil_commit() of another file leaves out.
Loose(i) == rec[i].ooo /\ ~rec[i].sync

\* Record j relies on record i, which came first: i changed the name space or
\* is synchronous, or both are loose records of one file.  If only the earlier of
\* two records of a file is loose, the commit of another file logs the later one
\* without it (LogInOrder).
ReliesOn(j, i) ==
  /\ i < j
  /\ rec[i].txg <= rec[j].txg /\ rec[i].boot = rec[j].boot
  /\ ~Loose(i) \/ (Loose(j) /\ rec[i].foid = rec[j].foid)

\* A crash loses no record that one it keeps relies on, in whatever order files
\* are committed, records are left out and log writes end.
SurvivorsClosed ==
  mode = "up" => \A j \in DOMAIN rec : \A i \in DOMAIN rec \ moot :
                   home[j] # 0 /\ ReliesOn(j, i) => home[i] # 0

\* "This ensures that the ordering of events in the intent log matches the
\* order in which they actually occurred" (zfs_vnops.c): of the records of
\* one file in the log, the older one comes first.
LogInOrder ==
  LET log == LogRecords(blk, zh.log) IN
  \A n \in DOMAIN log : \A m \in 1 .. n - 1 :
    rec[log[m].itx].foid = rec[log[n].itx].foid => log[m].itx < log[n].itx

\* The blocks as they are after a crash in which the writes in flight and the
\* caches are lost, or made it to disk.
Platter(made) ==
  [b \in Blocks |->
     [blk[b] EXCEPT !.content =
        IF @ = "disk" \/ (made /\ (@ = "cache" \/ blk[b].io = "issued"))
        THEN "disk" ELSE "none"]]

\* "If the allocation of nlwb synced before we wrote the block that points at
\* it (lwb), we'd leak it if we crashed": what the groups on disk allocate to
\* the log can be reached from the header on disk.
NoLeak ==
  {b \in Blocks : OnDisk(b)} \subseteq Range(Chain(Platter(FALSE), zh_disk.log))

\* The log on disk never runs into a block that has been freed, and may
\* hold something else by now.
NoDangling ==
  \A b \in Range(Chain(Platter(TRUE), zh_disk.log)) : blk[b] # NoBlk

\* No log block is freed twice, by zil_sync(), zil_destroy() or both.
FreedOnce ==
  [][\A b \in Blocks : blk[b].freed # 0 \/ blk[b] = NoBlk
       => blk'[b].freed \in {0, blk[b].freed}]_vars

\* The assertions of zil_create() and zil_sync(): a log is created once the
\* last one is destroyed, replayed or not, and its first block is then in the
\* header; nobody adds blocks to a log whose destruction is being written.
CreateAfterDestroy ==
  /\ \A t \in Procs : p[t].pc = "created" =>
       /\ zh.claim_txg = 0 /\ zh.replay_seq = 0
       /\ stable >= p[t].txg => zh.log = (IF zl.lwb = <<>> THEN NULL ELSE Head(zl.lwb))
  /\ zl.destroy_txg > stable => zl.lwb = <<>>

\* "... so that the snapshot contains all the data it's supposed to, and has
\* an empty intent log": while the log is suspended it takes no blocks, and the
\* groups that are still to come leave its header empty.
SuspendedEmpty ==
  (\E t \in Suspenders : p[t].pc = "suspended")
    => /\ zl.lwb = <<>>
       /\ zh.log # NULL => zl.destroy_txg > stable /\ ~(zl.destroy_txg = stable + 1 /\ zsynced)

\* The log writer finishes: it waits for groups, groups wait for log blocks
\* and log blocks wait for nobody.
WriterFinishes == zl.writer # NULL ~> zl.writer = NULL

\* Nobody sleeps on zl_cv_writer for ever: the wake-up is not lost.  Whether
\* the commit then returns or sleeps again is not said.
SleepersWake ==
  \A t \in Procs : p[t].pc \in {"cvWait", "drainWait"} ~> p[t].pc \notin {"cvWait", "drainWait"}

\* An import ends, through all its waits for groups.
ImportFinishes == mode # "up" ~> mode = "up"

=============================================================================
