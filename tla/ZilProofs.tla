----------------------------- MODULE ZilProofs -----------------------------
(***************************************************************************)
(* Proofs about the intent log of Zil.                                     *)
(***************************************************************************)
EXTENDS Zil, FiniteSetTheorems, WellFoundedInduction, TLAPS

----------------------------------------------------------------------------
\* The inductive invariant.

\* zil_sync() has run for group g.
SyncedIn(g, s, z) == g <= s \/ (g = s + 1 /\ z)
Synced(g) == SyncedIn(g, stable, zsynced)

\* A zil_destroy() that zil_sync() has still to carry out.
Destroying == ~Synced(zl.destroy_txg)

WriterPcs == {"create", "created", "push", "log", "recWait", "io", "sync"}
SuspPcs == {"suspCommit", "suspWait", "drain", "drainWait", "destroy", "suspended"}
AllPcs == {"idle", "call", "cvWait", "cvWoken"} \cup WriterPcs \cup SuspPcs
Modes == {"up", "down", "claimed", "replay", "replayed"}

\* The records have their fields.
IsZl(z) ==
  DOMAIN z = {"itx", "commit_seq", "writer", "suspend", "suspending", "destroy_txg",
              "keep_first", "lr_seq", "replayed", "lwb", "clean"}

IsBlk(k) ==
  DOMAIN k = {"birth", "freed", "recs", "max_txg", "io", "next", "content"}

IsHeader(h) ==
  /\ DOMAIN h = {"log", "claim_txg", "replay_seq", "needed"}
  /\ h.log \in Blocks \cup {NULL} /\ h.needed \in BOOLEAN

IsProc(q) ==
  /\ DOMAIN q = {"pc", "seq", "foid", "kind", "txg"}
  /\ q.pc \in AllPcs

IsWriter(x) ==
  /\ DOMAIN x = {"lwb", "itx", "next", "commit_seq"}
  /\ x.lwb \in Blocks \cup {NULL}

\* The group that is open, the last one on disk, and the one being written.
GroupInv ==
  /\ open \in Nat /\ stable \in Nat /\ stable < open
  /\ zsynced \in BOOLEAN /\ (zsynced => stable + 1 < open)

ShapeInv ==
  /\ IsZl(zl)
  /\ zl.lwb \in Seq(Blocks) /\ zl.suspend \in Nat /\ zl.destroy_txg \in Nat
  /\ zl.suspending \in BOOLEAN /\ zl.keep_first \in BOOLEAN
  /\ zl.writer \in Procs \cup {NULL}
  /\ DOMAIN blk = Blocks /\ \A b \in Blocks : IsBlk(blk[b])
  /\ IsHeader(zh) /\ IsHeader(zh_disk)
  /\ DOMAIN p = Procs /\ \A t \in Procs : IsProc(p[t])
  /\ IsWriter(w)
  /\ mode \in Modes

Creating(t) == p[t].pc \in {"create", "created"}

\* zl_writer is the one thread that is inside zil_commit_writer(); its block is
\* the last one of the list and has not been issued.
WriterInv ==
  /\ \A t \in Procs : p[t].pc \in WriterPcs <=> zl.writer = t
  /\ zl.writer = NULL => w.lwb = NULL
  /\ \A t \in Procs : Creating(t) => w.lwb = NULL
  /\ w.lwb # NULL =>
       zl.lwb # <<>> /\ Last(zl.lwb) = w.lwb /\ blk[w.lwb].io \in {"none", "init"}
  /\ \A t \in Procs : p[t].pc \notin {"created", "recWait", "sync"} => p[t].txg = 0
  /\ mode # "up" => (\A t \in Procs : p[t] = Idle) /\ zl.lwb = <<>>

Suspending(u) == p[u].pc \notin {"idle", "suspended"}

\* The log is closed and whoever used it is done.
Closed ==
  zl.suspend # 0 /\ (~zl.suspending \/ \E u \in Suspenders : p[u].pc = "destroy")

\* zl_suspend counts the threads in zil_suspend() or between it and
\* zil_resume(); of those only one suspends the log, and the others wait.
SuspendInv ==
  /\ zl.suspend = Cardinality({u \in Suspenders : p[u].pc # "idle"})
  /\ \A u \in Suspenders : p[u].pc = "suspended" => ~zl.suspending
  /\ \A u \in Suspenders : Suspending(u) => zl.suspending
  /\ \A u, v \in Suspenders :
       Suspending(u) /\ Suspending(v) /\ u # v =>
         p[u].pc = "suspWait" \/ p[v].pc = "suspWait"
  /\ \A t \in Procs : p[t].pc \in SuspPcs => t \in Suspenders
  /\ Closed => w.lwb = NULL /\ \A t \in Procs : ~Creating(t)

Fresh(h) == h.claim_txg = 0 /\ h.replay_seq = 0 /\ ~h.needed

\* A log is destroyed by the group that zl_destroy_txg names, and nobody adds to
\* it meanwhile; then the header says nothing of a claim or of a replay.
DestroyInv ==
  /\ zl.destroy_txg <= open
  /\ zl.destroy_txg > stable =>
       /\ zl.destroy_txg \in dirty /\ zl.lwb = <<>> /\ w.lwb = NULL
       /\ \A t \in Procs : p[t].pc # "created"
  /\ Destroying => zh.log # NULL
  /\ mode \in {"down", "claimed", "replay"} => zl.destroy_txg = 0
  /\ mode \in {"down", "claimed"} => zl.replayed = NoLog.replayed
  /\ mode = "replay" => zh.log # NULL
  /\ mode \in {"up", "replayed"} /\ ~Destroying =>
       Fresh(zh) /\ zl.replayed = NoLog.replayed
  /\ \A h \in {zh, zh_disk} : h.log = NULL => Fresh(h)

\* What the log writer finds while zil_create() waits for its group.
CreatedOK(t) ==
  /\ p[t].txg \in Nat /\ (p[t].txg > stable => p[t].txg \in dirty)
  /\ zl.lwb = <<>> => zh.log = NULL
  /\ zl.lwb # <<>> =>
       /\ Len(zl.lwb) = 1 /\ blk[Head(zl.lwb)].io = "none"
       /\ Synced(p[t].txg) => zh.log = Head(zl.lwb)

\* The header follows zl_lwb_list.
HeadInv ==
  /\ \A t \in Procs : p[t].pc = "created" => CreatedOK(t)
  /\ (\A t \in Procs : p[t].pc # "created") /\ zl.lwb # <<>> => zh.log = Head(zl.lwb)
  /\ (\E u \in Suspenders : p[u].pc = "suspended") =>
       zl.lwb = <<>> /\ (zh.log # NULL => Destroying /\ ~zl.keep_first)

\* A transaction is in a group that can still be written; that of a log block
\* is open until the block has been written.
ActiveInv ==
  /\ active \in [Procs \cup Blocks -> Nat]
  /\ \A c \in Procs \cup Blocks : active[c] # 0 =>
       active[c] > stable /\ active[c] <= open /\ (zsynced => active[c] # stable + 1)
  /\ \A b \in Blocks : blk[b].io = "issued" => active[b] # 0

IsRec(x, c) == x.txg \in Nat /\ x.boot \in Nat /\ x.boot <= c
CurrentIn(R, c, i) == i \in 1 .. Len(R) /\ R[i].boot = c
Current(i) == CurrentIn(rec, crashes, i)

\* The records in memory are of this boot, and so in a group that there is.
RecInv ==
  /\ crashes \in Nat /\ Len(rec) \in Nat /\ DOMAIN rec = 1 .. Len(rec)
  /\ \A i \in DOMAIN rec : IsRec(rec[i], crashes) /\ (rec[i].boot = crashes => rec[i].txg <= open)
  /\ zl.itx \in Seq(Nat) /\ \A n \in DOMAIN zl.itx : Current(zl.itx[n])
  /\ \A t \in Procs : p[t].pc = "log" => Current(w.itx)

IssuedIn(f, b) == f[b].io \in {"issued", "done"}
Issued(b) == IssuedIn(blk, b)

\* g is the group that empties a list of blocks that are all on their way.
Empties(g) ==
  /\ g \in dirty /\ g \in Nat /\ g <= open /\ ~Synced(g)
  /\ \A t \in Procs : p[t].pc = "sync" => p[t].txg \in Nat /\ g <= p[t].txg
  /\ \A n \in DOMAIN zl.lwb :
       Issued(zl.lwb[n]) /\ blk[zl.lwb[n]].max_txg <= g /\ active[zl.lwb[n]] <= g

\* The blocks of zl_lwb_list differ and are in use, and all but the last one are
\* on their way to disk.  If that one is too, an allocation has failed and the
\* log writer will wait for the group that empties the list.
TailInv ==
  /\ \A n \in DOMAIN zl.lwb :
       LET b == zl.lwb[n]
       IN /\ blk[b].freed = 0 /\ blk[b].max_txg \in Nat /\ blk[b].max_txg <= open
          /\ blk[b].io \in {"none", "init", "issued", "done"}
          /\ n < Len(zl.lwb) => Issued(b)
  /\ \A n, m \in DOMAIN zl.lwb : zl.lwb[n] = zl.lwb[m] => n = m
  /\ zl.lwb # <<>> /\ Issued(Last(zl.lwb)) =>
       /\ zl.writer # NULL /\ w.lwb = NULL /\ \A t \in Procs : ~Creating(t)
       /\ \E g \in dirty : Empties(g)

\* A block that is freed stays allocated until the group that frees it is on
\* disk, and before that the header lets go of it: the blocks in the list and in
\* the headers are allocated.
BirthInv ==
  /\ \A b \in Blocks : blk[b].freed # 0 =>
       /\ blk[b].freed \in dirty
       /\ b = zh.log => Destroying /\ ~zl.keep_first /\ blk[b].freed = zl.destroy_txg
  /\ zh.log # NULL => blk[zh.log].birth # 0
  /\ zh_disk.log # NULL => blk[zh_disk.log].birth # 0
  /\ \A n \in DOMAIN zl.lwb : blk[zl.lwb[n]].birth # 0

ZilInv ==
  /\ GroupInv /\ ShapeInv /\ ActiveInv /\ RecInv /\ TailInv
  /\ WriterInv /\ SuspendInv /\ DestroyInv /\ HeadInv /\ BirthInv

----------------------------------------------------------------------------
\* Init establishes the invariant, and steps that do not touch what it is about
\* keep it.

\* Threads are not blocks, and NULL is neither.
LEMMA NullFact == NULL \notin Procs /\ NULL \notin Blocks /\ Suspenders \subseteq Procs
                  /\ Threads \subseteq Procs /\ Threads \cap Suspenders = {}
                  /\ Procs \cap Blocks = {}
BY ZilAssumption DEF NULL, Blocks, Procs

\* Suspenders are finitely many.
LEMMA SuspendersFinite == IsFiniteSet(Suspenders)
BY ZilAssumption, FS_Subset DEF Procs

\* At the first mount the log is empty and nobody is at work.
LEMMA ZilInvInit == Init => ZilInv
<1>. SUFFICES ASSUME Init
              PROVE  ZilInv
  OBVIOUS
<1>. USE DEF Init
<1>1. GroupInv
  <2>1. zsynced \in BOOLEAN /\ ~zsynced
    OBVIOUS
  <2>. QED  BY <2>1 DEF GroupInv
<1>2. ShapeInv
  <2>1. IsZl(zl) /\ zl.lwb = <<>> /\ zl.suspend = 0 /\ zl.destroy_txg = 0
        /\ zl.writer = NULL
    BY DEF IsZl, NoLog
  <2>0. zl.suspending \in BOOLEAN /\ zl.keep_first \in BOOLEAN
    BY DEF NoLog
  <2>2. DOMAIN blk = Blocks /\ \A b \in Blocks : IsBlk(blk[b])
    BY DEF IsBlk, NoBlk
  <2>3. IsHeader(zh) /\ IsHeader(zh_disk)
    BY DEF IsHeader, NoHeader
  <2>4. DOMAIN p = Procs /\ \A t \in Procs : IsProc(p[t])
    BY DEF IsProc, Idle, AllPcs
  <2>5. IsWriter(w)
    BY DEF IsWriter, NoWriter
  <2>6. mode \in Modes
    BY DEF Modes
  <2>. QED  BY <2>0, <2>1, <2>2, <2>3, <2>4, <2>5, <2>6 DEF ShapeInv
<1>3. WriterInv
  BY NullFact DEF WriterInv, WriterPcs, Idle, NoLog, NoWriter, Creating
<1>4. SuspendInv
  <2>1. {u \in Suspenders : p[u].pc # "idle"} = {}
    BY NullFact DEF Idle
  <2>. QED  BY <2>1, NullFact, FS_EmptySet
            DEF SuspendInv, NoLog, NoWriter, Idle, Suspending, SuspPcs, Closed
<1>5. DestroyInv
  BY DEF DestroyInv, Destroying, Synced, SyncedIn, NoLog, NoHeader, Fresh
<1>6. HeadInv
  BY NullFact DEF HeadInv, Idle, NoLog
<1>7. ActiveInv
  BY DEF ActiveInv, NoBlk
<1>8. RecInv
  BY DEF RecInv, NoLog, Idle
<1>9. TailInv
  BY DEF TailInv, NoLog
<1>10. BirthInv
  BY DEF BirthInv, NoLog, NoBlk, NoHeader
<1>. QED  BY <1>1, <1>2, <1>3, <1>4, <1>5, <1>6, <1>7, <1>8, <1>9, <1>10 DEF ZilInv

\* The step of a thread does not begin or end its turn as the log writer, nor
\* the creation of a log, nor a phase of a suspension.
CalmThread(t) ==
  \/ p'[t] = p[t]
  \/ /\ \/ {p[t].pc, p'[t].pc} \subseteq {"push", "log", "recWait", "io", "sync"}
        \/ t \in Threads /\ {p[t].pc, p'[t].pc} \subseteq {"idle", "call", "cvWait", "cvWoken"}
        \/ t \in Suspenders /\ {p[t].pc, p'[t].pc} \subseteq
             {"suspCommit", "cvWait", "cvWoken", "drain", "drainWait"}
     /\ p'[t].pc \notin {"recWait", "sync"} => p'[t].txg = 0
     /\ p'[t].pc = "sync" => p'[t].txg \in Nat /\ open <= p'[t].txg

\* A log block stays as it is, its write ends, or the log writer fills it.
CalmBlock(b) ==
  /\ blk'[b].freed = blk[b].freed /\ blk'[b].birth = blk[b].birth
  /\ blk'[b].io # blk[b].io =>
       \/ blk[b].io = "issued" /\ blk'[b].io = "done"
       \/ b = w.lwb /\ blk'[b].io = "init"
  /\ blk'[b].max_txg # blk[b].max_txg =>
       b = w.lwb /\ blk'[b].max_txg \in Nat /\ blk'[b].max_txg <= open

CalmLog ==
  /\ zl'.writer = zl.writer /\ zl'.lwb = zl.lwb
  /\ zl'.suspend = zl.suspend /\ zl'.suspending = zl.suspending
  /\ zl'.destroy_txg = zl.destroy_txg /\ zl'.keep_first = zl.keep_first
  /\ zl'.replayed = zl.replayed

Calm ==
  /\ mode = "up" \/ \A t \in Procs : p'[t] = p[t]
  /\ UNCHANGED <<open, stable, zsynced, zh, zh_disk, mode>>
  /\ dirty \subseteq dirty'
  /\ CalmLog
  /\ w'.lwb = w.lwb
  /\ \A b \in Blocks : CalmBlock(b) /\ (Issued(b) => active'[b] \in {0, active[b]})
  /\ \A t \in Procs : CalmThread(t)

\* Such a step keeps the invariant.
LEMMA CalmKeeps ==
  ASSUME ZilInv, ShapeInv', RecInv', ActiveInv', Calm
  PROVE  ZilInv'
<1>. USE DEF ZilInv
<1>1. /\ UNCHANGED <<open, stable, zsynced, zh, zh_disk, mode>>
      /\ mode = "up" \/ \A t \in Procs : p'[t] = p[t]
      /\ dirty \subseteq dirty' /\ w'.lwb = w.lwb
      /\ \A b \in Blocks : CalmBlock(b) /\ (Issued(b) => active'[b] \in {0, active[b]})
  BY DEF Calm
<1>2. CalmLog
  BY DEF Calm
<1>3. \A t \in Procs : /\ IsProc(p[t]) /\ IsProc(p'[t]) /\ CalmThread(t)
                       /\ p[t].pc \notin {"created", "recWait", "sync"} => p[t].txg = 0
                       /\ p[t].pc \in SuspPcs => t \in Suspenders
  BY DEF Calm, ShapeInv, WriterInv, SuspendInv
<1>4. ASSUME NEW t \in Procs
      PROVE  /\ p'[t].pc \in WriterPcs <=> p[t].pc \in WriterPcs
             /\ p'[t].pc = "create" <=> p[t].pc = "create"
             /\ p'[t].pc = "created" <=> p[t].pc = "created"
             /\ p[t].pc = "created" => p'[t] = p[t]
             /\ p'[t].pc \notin {"created", "recWait", "sync"} => p'[t].txg = 0
             /\ t \in Suspenders =>
                  /\ p'[t].pc = "idle" <=> p[t].pc = "idle"
                  /\ p'[t].pc = "suspended" <=> p[t].pc = "suspended"
                  /\ p'[t].pc = "suspWait" <=> p[t].pc = "suspWait"
                  /\ p'[t].pc = "destroy" <=> p[t].pc = "destroy"
             /\ p'[t].pc \in SuspPcs => t \in Suspenders
  <2>1. CASE p'[t] = p[t]
    BY <1>3, <2>1
  <2>2. CASE {p[t].pc, p'[t].pc} \subseteq {"push", "log", "recWait", "io", "sync"}
             /\ (p'[t].pc \notin {"recWait", "sync"} => p'[t].txg = 0)
    BY <1>3, <2>2 DEF WriterPcs, SuspPcs
  <2>3. CASE t \in Threads /\ {p[t].pc, p'[t].pc} \subseteq {"idle", "call", "cvWait", "cvWoken"}
             /\ (p'[t].pc \notin {"recWait", "sync"} => p'[t].txg = 0)
    BY <1>3, <2>3, NullFact DEF WriterPcs, SuspPcs
  <2>4. CASE t \in Suspenders /\ {p[t].pc, p'[t].pc} \subseteq
               {"suspCommit", "cvWait", "cvWoken", "drain", "drainWait"}
             /\ (p'[t].pc \notin {"recWait", "sync"} => p'[t].txg = 0)
    BY <1>3, <2>4 DEF WriterPcs, SuspPcs
  <2>. QED  BY <1>3, <2>1, <2>2, <2>3, <2>4 DEF CalmThread
<1>5. \A t \in Procs : Creating(t)' <=> Creating(t)
  BY <1>4 DEF Creating
<1>6. GroupInv'
  BY <1>1 DEF GroupInv
<1>7. WriterInv'
  <2>1. w.lwb # NULL => blk[w.lwb].io \in {"none", "init"} /\ w.lwb \in Blocks
    BY DEF WriterInv, ShapeInv, IsWriter
  <2>2. w.lwb # NULL => blk'[w.lwb].io \in {"none", "init"}
    BY <1>1, <2>1 DEF CalmBlock
  <2>. QED  BY <1>1, <1>2, <1>4, <1>5, <2>2 DEF WriterInv, CalmLog
<1>8. SuspendInv'
  <2>1. {u \in Suspenders : p'[u].pc # "idle"} = {u \in Suspenders : p[u].pc # "idle"}
    BY <1>4, NullFact
  <2>2. Closed' <=> Closed
    BY <1>2, <1>4, NullFact DEF Closed, CalmLog
  <2>3. \A u \in Suspenders : Suspending(u)' <=> Suspending(u)
    BY <1>4, NullFact DEF Suspending
  <2>. QED  BY <1>1, <1>2, <1>4, <1>5, <2>1, <2>2, <2>3, NullFact DEF SuspendInv, CalmLog
<1>9. DestroyInv'
  BY <1>1, <1>2, <1>4 DEF DestroyInv, Destroying, Synced, SyncedIn, CalmLog
<1>10. HeadInv'
  <2>1. Destroying' = Destroying
    BY <1>1, <1>2 DEF Destroying, Synced, SyncedIn, CalmLog
  <2>2. ASSUME NEW t \in Procs, p'[t].pc = "created"
        PROVE  CreatedOK(t)'
    <3>1. p[t].pc = "created" /\ p'[t] = p[t] /\ w.lwb = NULL /\ CreatedOK(t)
      BY <1>4, <2>2 DEF WriterInv, Creating, HeadInv
    <3>2. zl.lwb # <<>> => Head(zl.lwb) \in Blocks /\ Head(zl.lwb) # w.lwb
      BY <3>1, NullFact DEF ShapeInv
    <3>3. zl.lwb # <<>> => blk'[Head(zl.lwb)].io = "none"
      BY <1>1, <3>1, <3>2 DEF CreatedOK, CalmBlock
    <3>. QED  BY <1>1, <1>2, <3>1, <3>3 DEF CreatedOK, CalmLog, Synced, SyncedIn
  <2>. QED  BY <1>1, <1>2, <1>4, <2>1, <2>2, NullFact DEF HeadInv, CalmLog
<1>11. TailInv'
  <2>1. ASSUME NEW n \in DOMAIN zl.lwb
        PROVE  LET b == zl.lwb[n]
               IN /\ blk'[b].freed = 0 /\ blk'[b].max_txg \in Nat /\ blk'[b].max_txg <= open
                  /\ blk'[b].io \in {"none", "init", "issued", "done"}
                  /\ n < Len(zl.lwb) => IssuedIn(blk', b)
                  /\ b \in Blocks
                  /\ b # w.lwb => blk'[b].max_txg = blk[b].max_txg
                  /\ b # w.lwb /\ IssuedIn(blk', b) => Issued(b)
                  /\ Issued(b) => IssuedIn(blk', b)
    <3>. DEFINE b == zl.lwb[n]
    <3>1. b \in Blocks
      BY DEF ShapeInv
    <3>2. CalmBlock(b) /\ (b = w.lwb => blk[b].io \in {"none", "init"})
      BY <1>1, <3>1, NullFact DEF WriterInv
    <3>3. /\ blk[b].freed = 0 /\ blk[b].max_txg \in Nat /\ blk[b].max_txg <= open
          /\ blk[b].io \in {"none", "init", "issued", "done"}
          /\ n < Len(zl.lwb) => Issued(b)
      BY DEF TailInv
    <3>. HIDE DEF b
    <3>4. Issued(b) => IssuedIn(blk', b)
      BY <3>2, <3>3 DEF CalmBlock, Issued, IssuedIn
    <3>5. b # w.lwb /\ IssuedIn(blk', b) => Issued(b)
      BY <3>2, <3>3 DEF CalmBlock, Issued, IssuedIn
    <3>6. /\ blk'[b].freed = 0 /\ blk'[b].max_txg \in Nat /\ blk'[b].max_txg <= open
          /\ blk'[b].io \in {"none", "init", "issued", "done"}
          /\ b # w.lwb => blk'[b].max_txg = blk[b].max_txg
      BY <3>2, <3>3 DEF CalmBlock
    <3>. QED  BY <3>1, <3>3, <3>4, <3>5, <3>6 DEF b
  <2>2. ASSUME zl.lwb # <<>>, IssuedIn(blk', Last(zl.lwb))
        PROVE  /\ zl.writer # NULL /\ w.lwb = NULL /\ \A t \in Procs : ~Creating(t)
               /\ \E g \in dirty' : Empties(g)'
    <3>1. Len(zl.lwb) \in DOMAIN zl.lwb /\ Last(zl.lwb) = zl.lwb[Len(zl.lwb)]
      BY <2>2 DEF ShapeInv, Last
    <3>2. Last(zl.lwb) # w.lwb
      <4>. SUFFICES ASSUME Last(zl.lwb) = w.lwb
                    PROVE  FALSE
        OBVIOUS
      <4>1. w.lwb \in Blocks /\ w.lwb # NULL
        BY <3>1, NullFact DEF ShapeInv
      <4>2. CalmBlock(w.lwb) /\ blk[w.lwb].io \in {"none", "init"}
        BY <1>1, <4>1 DEF WriterInv
      <4>. QED  BY <2>2, <4>2 DEF CalmBlock, Issued, IssuedIn
    <3>3. Issued(Last(zl.lwb))
      BY <2>1, <2>2, <3>1, <3>2
    <3>4. /\ zl.writer # NULL /\ w.lwb = NULL /\ \A t \in Procs : ~Creating(t)
      BY <2>2, <3>3 DEF TailInv
    <3>5. PICK g \in dirty : Empties(g)
      BY <2>2, <3>3 DEF TailInv
    <3>6. ASSUME NEW n \in DOMAIN zl.lwb
          PROVE  IssuedIn(blk', zl.lwb[n]) /\ blk'[zl.lwb[n]].max_txg <= g /\ active'[zl.lwb[n]] <= g
      <4>1. zl.lwb[n] \in Blocks /\ zl.lwb[n] # w.lwb
        BY <2>1, <3>4, NullFact
      <4>2. Issued(zl.lwb[n]) /\ blk[zl.lwb[n]].max_txg <= g /\ active[zl.lwb[n]] <= g
            /\ g \in Nat
        BY <3>5 DEF Empties
      <4>3. active'[zl.lwb[n]] \in {0, active[zl.lwb[n]]}
        BY <1>1, <4>1, <4>2
      <4>. QED  BY <2>1, <4>1, <4>2, <4>3
    <3>7. ASSUME NEW t \in Procs, p'[t].pc = "sync"
          PROVE  p'[t].txg \in Nat /\ g <= p'[t].txg
      <4>1. CASE p'[t] = p[t]
        BY <3>5, <3>7, <4>1 DEF Empties
      <4>2. CASE p'[t] # p[t]
        <5>1. p'[t].txg \in Nat /\ open <= p'[t].txg
          BY <1>3, <3>7, <4>2 DEF CalmThread
        <5>. QED  BY <3>5, <5>1 DEF Empties, GroupInv
      <4>. QED  BY <4>1, <4>2
    <3>8. Empties(g)'
      BY <1>1, <1>2, <3>5, <3>6, <3>7 DEF Empties, CalmLog, Synced, SyncedIn, Issued
    <3>. QED  BY <1>1, <3>4, <3>5, <3>8
  <2>. QED  BY <1>1, <1>2, <1>5, <2>1, <2>2 DEF TailInv, CalmLog, Issued
<1>12. BirthInv'
  <2>1. Destroying' = Destroying
    BY <1>1, <1>2 DEF Destroying, Synced, SyncedIn, CalmLog
  <2>2. \A b \in Blocks : blk'[b].freed = blk[b].freed /\ blk'[b].birth = blk[b].birth
    BY <1>1 DEF CalmBlock
  <2>3. /\ zh.log \in Blocks \cup {NULL} /\ zh_disk.log \in Blocks \cup {NULL}
        /\ \A n \in DOMAIN zl.lwb : zl.lwb[n] \in Blocks
    BY DEF ShapeInv, IsHeader
  <2>. QED  BY <1>1, <1>2, <2>1, <2>2, <2>3 DEF BirthInv, CalmLog
<1>. QED  BY <1>6, <1>7, <1>8, <1>9, <1>10, <1>11, <1>12

\* A thread that is not idle finds the file system up.
LEMMA BusyUp ==
  ASSUME ZilInv, NEW t \in Procs, p[t].pc # "idle"
  PROVE  mode = "up"
BY DEF ZilInv, WriterInv, Idle

\* The groups of the transactions, when none begins or ends,
LEMMA SameActive ==
  ASSUME ZilInv, UNCHANGED <<open, stable, active, zsynced>>,
         \A b \in Blocks : blk'[b].io = "issued" => blk[b].io = "issued"
  PROVE  ActiveInv'
BY DEF ZilInv, ActiveInv

\* when that of c begins,
LEMMA BeginActive ==
  ASSUME ZilInv, NEW c \in Procs \cup Blocks, GC!Begin(c), UNCHANGED zsynced,
         \A b \in Blocks : blk'[b].io = "issued" => blk[b].io = "issued" \/ b = c
  PROVE  /\ ActiveInv' /\ UNCHANGED <<open, stable>> /\ active'[c] = open
         /\ \A d \in Procs \cup Blocks : d # c => active'[d] = active[d]
<1>1. /\ active' = [active EXCEPT ![c] = open] /\ open' = open /\ stable' = stable
  BY DEF GC!Begin
<1>2. /\ open \in Nat /\ stable \in Nat /\ stable < open /\ (zsynced => open # stable + 1)
  BY DEF ZilInv, GroupInv
<1>. QED  BY <1>1, <1>2 DEF ZilInv, ActiveInv

\* and when it ends.
LEMMA EndActive ==
  ASSUME ZilInv, NEW c \in Procs \cup Blocks, GC!End(c), UNCHANGED zsynced,
         \A b \in Blocks : blk'[b].io = "issued" => blk[b].io = "issued" /\ b # c
  PROVE  /\ ActiveInv' /\ UNCHANGED <<open, stable>> /\ active'[c] = 0
         /\ \A d \in Procs \cup Blocks : d # c => active'[d] = active[d]
         /\ active[c] \in Nat /\ active[c] <= open
BY DEF ZilInv, ActiveInv, GC!End

\* The records, when none is made and the log writer takes none.
LEMMA SameRec ==
  ASSUME ZilInv, UNCHANGED <<open, rec, crashes>>, zl'.itx = zl.itx,
         \A t \in Procs : p'[t].pc = "log" => p[t].pc = "log" /\ w'.itx = w.itx
  PROVE  RecInv'
BY DEF ZilInv, RecInv, IsRec, Current, CurrentIn

\* The shape of one field is that of all.
LEMMA ProcShape ==
  ASSUME ZilInv, NEW t \in Procs, NEW q, IsProc(q), p' = [p EXCEPT ![t] = q]
  PROVE  /\ DOMAIN p' = Procs /\ \A u \in Procs : IsProc(p'[u])
         /\ p'[t] = q /\ \A u \in Procs : u # t => p'[u] = p[u]
BY DEF ZilInv, ShapeInv

\* CallBegin() keeps the invariant.
LEMMA CallBeginKeeps ==
  ASSUME ZilInv, NEW t \in Threads, NEW k, CallBegin(t, k)
  PROVE  ZilInv'
<1>. DEFINE q == [p[t] EXCEPT !.pc = "call", !.kind = k]
<1>1. /\ p[t].pc = "idle" /\ mode = "up" /\ p' = [p EXCEPT ![t] = q] /\ GC!Begin(t)
      /\ UNCHANGED <<dirty, zsynced, zl, blk, zh, zh_disk, rec, w, mode, crashes>>
  BY DEF CallBegin, import_vars, fs_vars
<1>2. t \in Procs /\ IsProc(p[t]) /\ p[t].txg = 0
  BY <1>1, NullFact DEF ZilInv, ShapeInv, WriterInv
<1>3. IsProc(q) /\ q.pc = "call" /\ q.txg = 0
  BY <1>2 DEF IsProc, AllPcs
<1>. HIDE DEF q
<1>4. /\ DOMAIN p' = Procs /\ \A u \in Procs : IsProc(p'[u])
      /\ p'[t] = q /\ \A u \in Procs : u # t => p'[u] = p[u]
  BY <1>1, <1>2, <1>3, ProcShape
<1>5. ShapeInv'
  BY <1>1, <1>4 DEF ZilInv, ShapeInv
<1>6. /\ ActiveInv' /\ UNCHANGED <<open, stable>>
      /\ \A b \in Blocks : active'[b] = active[b]
  BY <1>1, <1>2, BeginActive, NullFact
<1>7. RecInv'
  BY <1>1, <1>3, <1>4, <1>6, SameRec
<1>8. \A b \in Blocks : CalmBlock(b)
  BY <1>1 DEF CalmBlock
<1>9. Calm
  BY <1>1, <1>3, <1>4, <1>6, <1>8 DEF Calm, CalmLog, CalmThread
<1>. QED  BY <1>5, <1>6, <1>7, <1>9, CalmKeeps

\* zil_itx_assign() keeps the invariant.
LEMMA zil_itx_assignKeeps ==
  ASSUME ZilInv, NEW t \in Threads, zil_itx_assign(t)
  PROVE  ZilInv'
<1>. DEFINE x == [foid |-> p[t].kind.foid, ooo |-> p[t].kind.ooo,
                  sync |-> p[t].kind.sync, txg |-> active[t], boot |-> crashes]
<1>1. /\ p[t].pc = "call" /\ p' = [p EXCEPT ![t] = Idle] /\ GC!End(t)
      /\ rec' = Append(rec, x)
      /\ zl' = [zl EXCEPT !.itx = Append(@, Len(rec) + 1)]
      /\ dirty' = dirty \cup {active[t]}
      /\ UNCHANGED <<zsynced, blk, zh, zh_disk, w, mode, crashes>>
  BY DEF zil_itx_assign, import_vars
<1>2. t \in Procs /\ mode = "up"
  BY <1>1, BusyUp, NullFact
<1>3. IsProc(Idle) /\ Idle.pc = "idle" /\ Idle.txg = 0
  BY DEF IsProc, AllPcs, Idle
<1>4. /\ DOMAIN p' = Procs /\ \A u \in Procs : IsProc(p'[u])
      /\ p'[t] = Idle /\ \A u \in Procs : u # t => p'[u] = p[u]
  BY <1>1, <1>2, <1>3, ProcShape
<1>5. IsZl(zl) /\ IsZl(zl') /\ CalmLog /\ zl'.itx = Append(zl.itx, Len(rec) + 1)
  BY <1>1 DEF ZilInv, ShapeInv, IsZl, CalmLog
<1>6. ShapeInv'
  BY <1>1, <1>4, <1>5 DEF ZilInv, ShapeInv, CalmLog
<1>7. /\ ActiveInv' /\ UNCHANGED <<open, stable>>
      /\ \A b \in Blocks : active'[b] = active[b]
      /\ active[t] \in Nat /\ active[t] <= open
  BY <1>1, <1>2, EndActive, NullFact
<1>8. RecInv'
  <2>0. /\ crashes \in Nat /\ Len(rec) \in Nat /\ DOMAIN rec = 1 .. Len(rec)
        /\ \A i \in DOMAIN rec : IsRec(rec[i], crashes) /\ (rec[i].boot = crashes => rec[i].txg <= open)
        /\ zl.itx \in Seq(Nat) /\ \A n \in DOMAIN zl.itx : Current(zl.itx[n])
        /\ \A u \in Procs : p[u].pc = "log" => Current(w.itx)
    BY DEF ZilInv, RecInv
  <2>1. x.txg = active[t] /\ x.boot = crashes
    OBVIOUS
  <2>. HIDE DEF x
  <2>2. /\ Len(rec') = Len(rec) + 1 /\ DOMAIN rec' = 1 .. Len(rec')
        /\ rec'[Len(rec) + 1] = x /\ \A i \in 1 .. Len(rec) : rec'[i] = rec[i]
    BY <1>1, <2>0
  <2>3. ASSUME NEW i \in DOMAIN rec'
        PROVE  IsRec(rec'[i], crashes) /\ (rec'[i].boot = crashes => rec'[i].txg <= open)
    <3>1. CASE i = Len(rec) + 1
      BY <1>7, <2>0, <2>1, <2>2, <3>1 DEF IsRec
    <3>2. CASE i # Len(rec) + 1
      BY <2>0, <2>2, <3>2
    <3>. QED  BY <3>1, <3>2
  <2>4. /\ CurrentIn(rec', crashes, Len(rec) + 1)
        /\ \A i : Current(i) => CurrentIn(rec', crashes, i)
    BY <2>0, <2>1, <2>2 DEF Current, CurrentIn
  <2>5. zl'.itx \in Seq(Nat) /\ \A n \in DOMAIN zl'.itx : CurrentIn(rec', crashes, zl'.itx[n])
    BY <1>5, <2>0, <2>4
  <2>6. \A u \in Procs : p'[u].pc = "log" => CurrentIn(rec', crashes, w'.itx)
    BY <1>1, <1>3, <1>4, <2>0, <2>4
  <2>. QED  BY <1>1, <1>7, <2>0, <2>2, <2>3, <2>5, <2>6 DEF RecInv, Current
<1>9. \A b \in Blocks : CalmBlock(b)
  BY <1>1 DEF CalmBlock
<1>10. Calm
  BY <1>1, <1>2, <1>3, <1>4, <1>5, <1>7, <1>9 DEF Calm, CalmThread
<1>. QED  BY <1>6, <1>7, <1>8, <1>10, CalmKeeps

\* b is the thread a, woken up if it slept on zl_cv_writer.
Woken(a, b) ==
  \/ b = a
  \/ a.pc = "cvWait" /\ b.pc = "cvWoken" /\ b.txg = a.txg
  \/ a.pc = "drainWait" /\ b.pc = "drain" /\ b.txg = a.txg

\* What the broadcast does.
LEMMA WakeFact ==
  ASSUME NEW q, DOMAIN q = Procs, \A u \in Procs : IsProc(q[u])
  PROVE  /\ DOMAIN Wake(q) = Procs
         /\ \A u \in Procs : IsProc(Wake(q)[u]) /\ Woken(q[u], Wake(q)[u])
         /\ \A u \in Procs : q[u].pc \notin {"cvWait", "drainWait"} => Wake(q)[u] = q[u]
<1>1. DOMAIN Wake(q) = Procs
  BY DEF Wake
<1>2. ASSUME NEW u \in Procs
      PROVE  /\ IsProc(Wake(q)[u]) /\ Woken(q[u], Wake(q)[u])
             /\ q[u].pc \notin {"cvWait", "drainWait"} => Wake(q)[u] = q[u]
  <2>0. IsProc(q[u])
    OBVIOUS
  <2>1. CASE q[u].pc = "cvWait"
    <3>1. Wake(q)[u] = [q[u] EXCEPT !.pc = "cvWoken"]
      BY <2>1 DEF Wake
    <3>. QED  BY <2>0, <2>1, <3>1 DEF Woken, IsProc, AllPcs
  <2>2. CASE q[u].pc = "drainWait"
    <3>1. Wake(q)[u] = [q[u] EXCEPT !.pc = "drain"]
      BY <2>2 DEF Wake
    <3>. QED  BY <2>0, <2>2, <3>1 DEF Woken, IsProc, AllPcs, SuspPcs
  <2>3. CASE q[u].pc \notin {"cvWait", "drainWait"}
    <3>1. Wake(q)[u] = q[u]
      BY <2>3 DEF Wake
    <3>. QED  BY <2>0, <3>1 DEF Woken
  <2>. QED  BY <2>1, <2>2, <2>3
<1>. QED  BY <1>1, <1>2

\* What a return from zil_commit() does to the threads.
LEMMA ReturnFact ==
  ASSUME NEW t \in Procs, NEW q, DOMAIN q = Procs, \A u \in Procs : IsProc(q[u]),
         Return(t, q)
  PROVE  /\ DOMAIN p' = Procs /\ \A u \in Procs : IsProc(p'[u])
         /\ \A u \in Procs : u # t => p'[u] = q[u]
         /\ p'[t].pc = (IF t \in Suspenders THEN "drain" ELSE "idle") /\ p'[t].txg = 0
<1>1. p' = [q EXCEPT ![t] = IF t \in Suspenders THEN [Idle EXCEPT !.pc = "drain"] ELSE Idle]
  BY DEF Return
<1>2. IsProc(Idle) /\ Idle.pc = "idle" /\ Idle.txg = 0
  BY DEF IsProc, AllPcs, Idle
<1>3. /\ IsProc([Idle EXCEPT !.pc = "drain"]) /\ [Idle EXCEPT !.pc = "drain"].pc = "drain"
      /\ [Idle EXCEPT !.pc = "drain"].txg = 0
  BY <1>2 DEF IsProc, AllPcs, SuspPcs
<1>. QED  BY <1>1, <1>2, <1>3

\* t is about to enter the loop of zil_commit().
Entering(t) ==
  \/ t \in Threads /\ p[t].pc \in {"idle", "cvWoken"}
  \/ t \in Suspenders /\ p[t].pc \in {"suspCommit", "cvWoken"}

\* A thread that waits for the log writer is calm when it is woken.
LEMMA WokenCalm ==
  ASSUME ZilInv, NEW u \in Procs, Woken(p[u], p'[u])
  PROVE  CalmThread(u) /\ (p'[u].pc = "log" => p[u].pc = "log")
<1>1. u \in Threads \/ u \in Suspenders
  BY DEF Procs
<1>2. /\ p[u].pc = "drainWait" => u \in Suspenders
      /\ p[u].pc \in {"cvWait", "drainWait"} => p[u].txg = 0
  BY DEF ZilInv, SuspendInv, SuspPcs, WriterInv
<1>. QED  BY <1>1, <1>2 DEF Woken, CalmThread

\* Steps that change nothing but threads.
LEMMA ThreadsKeep ==
  ASSUME ZilInv, UNCHANGED <<open, stable, active, dirty, zsynced, zl, blk, zh, zh_disk,
                             rec, w, mode, crashes>>,
         mode = "up", DOMAIN p' = Procs,
         \A u \in Procs : /\ IsProc(p'[u]) /\ CalmThread(u)
                          /\ p'[u].pc = "log" => p[u].pc = "log"
  PROVE  ZilInv'
<1>1. ShapeInv'
  BY DEF ZilInv, ShapeInv
<1>2. ActiveInv'
  BY SameActive
<1>3. RecInv'
  BY SameRec
<1>4. Calm
  BY DEF Calm, CalmLog, CalmBlock
<1>. QED  BY <1>1, <1>2, <1>3, <1>4, CalmKeeps

\* A thread that returns from zil_commit() without a turn as the log writer.
LEMMA ReturnKeeps ==
  ASSUME ZilInv, NEW t \in Procs, Entering(t), mode = "up",
         NEW q, DOMAIN q = Procs, \A u \in Procs : IsProc(q[u]),
         \A u \in Procs : u # t => Woken(p[u], q[u]),
         Return(t, q),
         UNCHANGED <<open, stable, active, dirty, zsynced, zl, blk, zh, zh_disk,
                     rec, w, mode, crashes>>
  PROVE  ZilInv'
<1>1. /\ DOMAIN p' = Procs /\ \A u \in Procs : IsProc(p'[u])
      /\ \A u \in Procs : u # t => p'[u] = q[u]
      /\ p'[t].pc = (IF t \in Suspenders THEN "drain" ELSE "idle") /\ p'[t].txg = 0
  BY ReturnFact
<1>2. ASSUME NEW u \in Procs
      PROVE  CalmThread(u) /\ (p'[u].pc = "log" => p[u].pc = "log")
  <2>1. CASE u = t
    BY <1>1, <2>1, NullFact DEF Entering, CalmThread
  <2>2. CASE u # t
    BY <1>1, <2>2, WokenCalm
  <2>. QED  BY <2>1, <2>2
<1>. QED  BY <1>1, <1>2, ThreadsKeep

\* The thread that becomes the log writer.
LEMMA BecomeWriterKeeps ==
  ASSUME ZilInv, NEW t \in Procs, Entering(t), mode = "up", zl.writer = NULL,
         NEW q, DOMAIN q = Procs, \A u \in Procs : IsProc(q[u]),
         \A u \in Procs : u # t => q[u] = p[u], q[t].txg = 0,
         q[t].pc \notin {"cvWait", "drainWait"},
         BecomeWriter(t, q),
         UNCHANGED <<open, stable, active, dirty, zsynced, blk, zh, zh_disk,
                     rec, mode, crashes>>
  PROVE  ZilInv'
<1>1. CASE Return(t, Wake(q)) /\ UNCHANGED <<zl, w>>
  BY <1>1, WakeFact, ReturnKeeps
<1>2. CASE ~(Return(t, Wake(q)) /\ UNCHANGED <<zl, w>>)
  <2>1. zl' = [zl EXCEPT !.writer = t]
    BY <1>2 DEF BecomeWriter
  <2>2. \/ /\ LogClosed \/ zl.lwb # <<>>
           /\ w' = [NoWriter EXCEPT !.lwb = IF LogClosed THEN NULL ELSE Last(zl.lwb),
                                    !.next = After(0)]
           /\ p' = [q EXCEPT ![t] = [q[t] EXCEPT !.pc = "push"]]
        \/ /\ ~LogClosed /\ zl.lwb = <<>> /\ w' = w
           /\ p' = [q EXCEPT ![t] = [q[t] EXCEPT !.pc = "create"]]
    BY <1>2 DEF BecomeWriter
  <2>. USE DEF ZilInv
  <2>3. /\ IsZl(zl') /\ zl'.writer = t /\ zl'.lwb = zl.lwb /\ zl'.suspend = zl.suspend
        /\ zl'.suspending = zl.suspending /\ zl'.destroy_txg = zl.destroy_txg
        /\ zl'.keep_first = zl.keep_first /\ zl'.replayed = zl.replayed /\ zl'.itx = zl.itx
    BY <2>1 DEF ShapeInv, IsZl
  <2>4. w.lwb = NULL /\ \A u \in Procs : p[u].pc \notin WriterPcs
    BY NullFact DEF WriterInv
  <2>5. /\ DOMAIN p' = Procs /\ \A u \in Procs : IsProc(p'[u])
        /\ \A u \in Procs : u # t => p'[u] = p[u]
        /\ p'[t].pc \in {"push", "create"} /\ p'[t].txg = 0
        /\ p'[t].pc = "create" => ~LogClosed /\ w' = w
    BY <2>2 DEF IsProc, AllPcs, WriterPcs
  <2>6. zl.lwb # <<>> => Last(zl.lwb) \in Blocks /\ blk[Last(zl.lwb)].io \in {"none", "init"}
    <3>1. zl.lwb # <<>> => Len(zl.lwb) \in DOMAIN zl.lwb /\ Last(zl.lwb) = zl.lwb[Len(zl.lwb)]
      BY DEF ShapeInv, Last
    <3>2. zl.lwb # <<>> => ~Issued(Last(zl.lwb))
      BY DEF TailInv
    <3>. QED  BY <3>1, <3>2 DEF TailInv, Issued, IssuedIn, ShapeInv
  <2>7. /\ IsWriter(w')
        /\ w'.lwb # NULL => ~LogClosed /\ zl.lwb # <<>> /\ w'.lwb = Last(zl.lwb)
    <3>1. CASE w' = w
      BY <2>4, <3>1 DEF ShapeInv
    <3>2. CASE w' # w
      <4>1. /\ LogClosed \/ zl.lwb # <<>>
            /\ w' = [NoWriter EXCEPT !.lwb = IF LogClosed THEN NULL ELSE Last(zl.lwb),
                                     !.next = After(0)]
        BY <2>2, <3>2
      <4>2. DOMAIN NoWriter = {"lwb", "itx", "next", "commit_seq"}
        BY DEF NoWriter
      <4>3. /\ DOMAIN w' = {"lwb", "itx", "next", "commit_seq"}
            /\ w'.lwb = IF LogClosed THEN NULL ELSE Last(zl.lwb)
        <5>. HIDE DEF NoWriter
        <5>. QED  BY <4>1, <4>2
      <4>. QED  BY <2>6, <4>1, <4>3 DEF IsWriter
    <3>. QED  BY <3>1, <3>2
  <2>8. ShapeInv'
    BY <2>3, <2>5, <2>7 DEF ShapeInv
  <2>9. GroupInv' /\ ActiveInv'
    BY SameActive DEF GroupInv
  <2>10. RecInv'
    <3>1. \A u \in Procs : p'[u].pc # "log"
      BY <2>4, <2>5 DEF WriterPcs
    <3>. QED  BY <2>3, <3>1, SameRec
  <2>11. WriterInv'
    <3>1. \A u \in Procs : p'[u].pc \in WriterPcs <=> u = t
      BY <2>4, <2>5 DEF WriterPcs
    <3>2. \A u \in Procs : Creating(u)' => w'.lwb = NULL
      BY <2>4, <2>5 DEF Creating, WriterPcs
    <3>. QED  BY <2>3, <2>5, <2>6, <2>7, <3>1, <3>2, NullFact DEF WriterInv
  <2>12. SuspendInv'
    <3>1. t \in Suspenders => p[t].pc \in {"suspCommit", "cvWoken"}
      BY NullFact DEF Entering
    <3>2. {u \in Suspenders : p'[u].pc # "idle"} = {u \in Suspenders : p[u].pc # "idle"}
      BY <2>5, <3>1, NullFact
    <3>3. \A u \in Suspenders : Suspending(u)' <=> Suspending(u)
      BY <2>5, <3>1, NullFact DEF Suspending
    <3>4. /\ \A u \in Suspenders : p'[u].pc = "suspended" <=> p[u].pc = "suspended"
          /\ \A u \in Suspenders : p'[u].pc = "destroy" <=> p[u].pc = "destroy"
          /\ \A u \in Suspenders : p'[u].pc = "suspWait" <=> p[u].pc = "suspWait"
      BY <2>5, <3>1, NullFact
    <3>5. Closed' => LogClosed
      BY <2>3 DEF Closed, LogClosed
    <3>6. Closed' => w'.lwb = NULL /\ \A u \in Procs : ~Creating(u)'
      BY <2>4, <2>5, <2>7, <3>5 DEF Creating, WriterPcs
    <3>7. \A u \in Procs : p'[u].pc \in SuspPcs => u \in Suspenders
      BY <2>5 DEF SuspendInv, SuspPcs
    <3>. QED  BY <2>3, <3>2, <3>3, <3>4, <3>6, <3>7 DEF SuspendInv
  <2>13. DestroyInv'
    <3>1. \A u \in Procs : p'[u].pc # "created"
      BY <2>4, <2>5 DEF WriterPcs
    <3>2. Destroying' <=> Destroying
      BY <2>3 DEF Destroying, Synced, SyncedIn
    <3>. QED  BY <2>3, <2>7, <3>1, <3>2 DEF DestroyInv
  <2>14. HeadInv'
    <3>1. \A u \in Procs : p'[u].pc # "created" /\ p[u].pc # "created"
      BY <2>4, <2>5 DEF WriterPcs
    <3>2. Destroying' <=> Destroying
      BY <2>3 DEF Destroying, Synced, SyncedIn
    <3>3. \A u \in Suspenders : p'[u].pc = "suspended" => p[u].pc = "suspended"
      BY <2>5, NullFact
    <3>. QED  BY <2>3, <3>1, <3>2, <3>3 DEF HeadInv
  <2>15. TailInv'
    <3>1. zl.lwb # <<>> => ~Issued(Last(zl.lwb))
      BY DEF TailInv
    <3>. QED  BY <2>3, <3>1 DEF TailInv, Issued, IssuedIn
  <2>16. BirthInv'
    <3>1. Destroying' <=> Destroying
      BY <2>3 DEF Destroying, Synced, SyncedIn
    <3>. QED  BY <2>3, <3>1 DEF BirthInv
  <2>. QED  BY <2>8, <2>9, <2>10, <2>11, <2>12, <2>13, <2>14, <2>15, <2>16
<1>. QED  BY <1>1, <1>2

\* zil_commit() keeps the invariant.
LEMMA zil_commitKeeps ==
  ASSUME ZilInv, NEW t \in Procs, NEW f, NEW seq, zil_commit(t, f, seq)
  PROVE  ZilInv'
<1>. DEFINE q == [p EXCEPT ![t].seq = seq, ![t].foid = f]
<1>1. /\ mode = "up"
      /\ UNCHANGED <<open, stable, active, dirty, zsynced, blk, zh, zh_disk,
                     rec, mode, crashes>>
      /\ IF zl.writer # NULL
         THEN p' = [q EXCEPT ![t].pc = "cvWait"] /\ UNCHANGED <<zl, w, acked>>
         ELSE BecomeWriter(t, q)
  BY DEF zil_commit, gc_vars, import_vars
<1>2. \/ t \in Threads /\ p[t].pc = "idle"
      \/ t \in Suspenders /\ p[t].pc = "suspCommit"
  BY DEF zil_commit, Procs
<1>3. IsProc(p[t]) /\ p[t].txg = 0 /\ DOMAIN p = Procs /\ \A u \in Procs : IsProc(p[u])
  BY <1>2 DEF ZilInv, ShapeInv, WriterInv
<1>4. /\ DOMAIN q = Procs /\ \A u \in Procs : u # t => q[u] = p[u]
      /\ IsProc(q[t]) /\ q[t].txg = 0 /\ q[t].pc = p[t].pc
  BY <1>3 DEF IsProc
<1>. HIDE DEF q
<1>5. CASE zl.writer = NULL
  <2>1. BecomeWriter(t, q) /\ Entering(t)
    BY <1>1, <1>2, <1>5 DEF Entering
  <2>2. /\ \A u \in Procs : IsProc(q[u])
        /\ q[t].pc \notin {"cvWait", "drainWait"}
    BY <1>2, <1>3, <1>4
  <2>. QED  BY <1>1, <1>4, <1>5, <2>1, <2>2, BecomeWriterKeeps
<1>6. CASE zl.writer # NULL
  <2>1. p' = [q EXCEPT ![t].pc = "cvWait"] /\ UNCHANGED <<zl, w>>
    BY <1>1, <1>6
  <2>2. /\ DOMAIN p' = Procs /\ \A u \in Procs : u # t => p'[u] = p[u]
        /\ IsProc(p'[t]) /\ p'[t].txg = 0 /\ p'[t].pc = "cvWait"
    BY <1>4, <2>1 DEF IsProc, AllPcs
  <2>3. ASSUME NEW u \in Procs
        PROVE  IsProc(p'[u]) /\ CalmThread(u) /\ (p'[u].pc = "log" => p[u].pc = "log")
    BY <1>2, <1>3, <2>2 DEF CalmThread
  <2>. QED  BY <1>1, <2>1, <2>2, <2>3, ThreadsKeep
<1>. QED  BY <1>5, <1>6

\* So does its loop when a thread wakes up.
LEMMA zil_commit_wakeupKeeps ==
  ASSUME ZilInv, NEW t \in Procs, zil_commit_wakeup(t)
  PROVE  ZilInv'
<1>1. /\ p[t].pc = "cvWoken"
      /\ UNCHANGED <<open, stable, active, dirty, zsynced, blk, zh, zh_disk,
                     rec, mode, crashes>>
      /\ \/ Return(t, p) /\ UNCHANGED <<zl, w>>
         \/ p' = [p EXCEPT ![t].pc = "cvWait"] /\ UNCHANGED <<zl, w>>
         \/ zl.writer = NULL /\ BecomeWriter(t, p)
  BY DEF zil_commit_wakeup, gc_vars, import_vars
<1>2. mode = "up" /\ Entering(t)
  BY <1>1, BusyUp DEF Entering, Procs
<1>3. p[t].txg = 0 /\ DOMAIN p = Procs /\ \A u \in Procs : IsProc(p[u])
  BY <1>1 DEF ZilInv, ShapeInv, WriterInv
<1>4. CASE Return(t, p) /\ UNCHANGED <<zl, w>>
  BY <1>1, <1>2, <1>3, <1>4, ReturnKeeps DEF Woken
<1>5. CASE p' = [p EXCEPT ![t].pc = "cvWait"] /\ UNCHANGED <<zl, w>>
  <2>1. /\ DOMAIN p' = Procs /\ \A u \in Procs : u # t => p'[u] = p[u]
        /\ IsProc(p'[t]) /\ p'[t].txg = 0 /\ p'[t].pc = "cvWait"
    BY <1>3, <1>5 DEF IsProc, AllPcs
  <2>2. ASSUME NEW u \in Procs
        PROVE  IsProc(p'[u]) /\ CalmThread(u) /\ (p'[u].pc = "log" => p[u].pc = "log")
    BY <1>1, <1>3, <2>1 DEF CalmThread, Procs
  <2>. QED  BY <1>1, <1>2, <1>5, <2>1, <2>2, ThreadsKeep
<1>6. CASE zl.writer = NULL /\ BecomeWriter(t, p)
  BY <1>1, <1>2, <1>3, <1>6, BecomeWriterKeeps
<1>. QED  BY <1>1, <1>4, <1>5, <1>6

----------------------------------------------------------------------------
\* The loop of zil_commit_writer().

LoopPcs == {"push", "log", "recWait", "io", "sync"}

\* The log writer is the only thread in the loop.
LEMMA OneWriter ==
  ASSUME ZilInv, NEW t \in Procs, p[t].pc \in LoopPcs
  PROVE  /\ zl.writer = t /\ mode = "up"
         /\ \A u \in Procs : u # t => p[u].pc \notin WriterPcs
         /\ \A u \in Procs : ~Creating(u)
BY BusyUp DEF ZilInv, WriterInv, LoopPcs, WriterPcs, Creating

\* A step that changes thread t only.
Moves(t, q) == DOMAIN p' = Procs /\ p'[t] = q /\ \A u \in Procs : u # t => p'[u] = p[u]

\* As the actions say it.
LEMMA MovesFact ==
  ASSUME ZilInv, NEW t \in Procs, NEW q, p' = [p EXCEPT ![t] = q]
  PROVE  Moves(t, q)
BY DEF Moves, ZilInv, ShapeInv

\* A step of the loop that does not change the list of blocks.
LEMMA LoopCalm ==
  ASSUME ZilInv, NEW t \in Procs, p[t].pc \in LoopPcs,
         NEW q, IsProc(q), Moves(t, q), q.pc \in LoopPcs,
         q.pc \notin {"recWait", "sync"} => q.txg = 0,
         q.pc = "sync" => q.txg \in Nat /\ open <= q.txg,
         IsZl(zl'), CalmLog,
         zl'.itx \in Seq(Nat), \A n \in DOMAIN zl'.itx : Current(zl'.itx[n]),
         IsWriter(w'), w'.lwb = w.lwb, q.pc = "log" => Current(w'.itx),
         DOMAIN blk' = Blocks, \A b \in Blocks : IsBlk(blk'[b]) /\ CalmBlock(b),
         UNCHANGED <<open, stable, active, dirty, zsynced, zh, zh_disk, rec, mode, crashes>>
  PROVE  ZilInv'
<1>1. /\ DOMAIN p' = Procs /\ \A u \in Procs : IsProc(p'[u])
      /\ p'[t] = q /\ \A u \in Procs : u # t => p'[u] = p[u]
  BY DEF Moves, ZilInv, ShapeInv
<1>2. mode = "up" /\ \A u \in Procs : u # t => p[u].pc # "log"
  BY OneWriter DEF WriterPcs
<1>3. ShapeInv'
  BY <1>1 DEF ZilInv, ShapeInv, CalmLog
<1>4. ActiveInv'
  BY SameActive DEF CalmBlock
<1>5. RecInv'
  BY <1>1, <1>2 DEF ZilInv, RecInv, Current
<1>6. \A u \in Procs : CalmThread(u)
  BY <1>1 DEF CalmThread, LoopPcs
<1>7. Calm
  BY <1>2, <1>6 DEF Calm
<1>. QED  BY <1>3, <1>4, <1>5, <1>7, CalmKeeps

\* A thread in the loop, and one that stays there.
LEMMA LoopProc ==
  ASSUME ZilInv, NEW t \in Procs
  PROVE  /\ IsProc(p[t]) /\ DOMAIN p = Procs
         /\ p[t].pc \notin {"created", "recWait", "sync"} => p[t].txg = 0
BY DEF ZilInv, ShapeInv, WriterInv

\* RecordSynced() keeps the invariant.
LEMMA RecordSyncedKeeps ==
  ASSUME ZilInv, NEW t \in Procs, RecordSynced(t)
  PROVE  ZilInv'
<1>. DEFINE q == [p[t] EXCEPT !.pc = "push", !.txg = 0]
<1>1. /\ p[t].pc = "recWait" /\ p' = [p EXCEPT ![t] = q]
      /\ UNCHANGED <<open, stable, active, dirty, zsynced, zl, blk, zh, zh_disk, rec, w,
                     mode, crashes>>
  BY DEF RecordSynced, gc_vars, fs_vars, import_vars
<1>2. IsProc(q) /\ q.pc = "push" /\ q.txg = 0
  BY LoopProc DEF IsProc, AllPcs, WriterPcs
<1>. HIDE DEF q
<1>3. /\ IsZl(zl) /\ IsWriter(w) /\ DOMAIN blk = Blocks /\ \A b \in Blocks : IsBlk(blk[b])
      /\ zl.itx \in Seq(Nat) /\ \A n \in DOMAIN zl.itx : Current(zl.itx[n])
  BY DEF ZilInv, ShapeInv, RecInv
<1>4. CalmLog /\ \A b \in Blocks : CalmBlock(b)
  BY <1>1 DEF CalmLog, CalmBlock
<1>5. Moves(t, q)
  BY <1>1, MovesFact
<1>. QED  BY <1>1, <1>2, <1>3, <1>4, <1>5, LoopCalm DEF LoopPcs

\* A set of numbers that is not empty has a least one.
LEMMA LeastItx ==
  ASSUME NEW S \in SUBSET Nat, S # {}
  PROVE  Min(S) \in S
<1>1. PICK x \in S : \A y \in S : ~(<<y, x>> \in OpToRel(<, Nat))
  BY WFMin, NatLessThanWellFounded
<1>2. \A y \in S : ~(y < x)
  BY <1>1 DEF OpToRel
<1>3. \A y \in S : x <= y
  BY <1>2
<1>. QED  BY <1>3 DEF Min

\* What is left of a list when one of its members is removed.
LEMMA RemoveItxFact ==
  ASSUME NEW S, NEW s \in Seq(S), NEW n \in DOMAIN s
  PROVE  /\ RemoveItx(s, s[n]) \in Seq(S)
         /\ \A m \in DOMAIN RemoveItx(s, s[n]) : \E k \in DOMAIN s : RemoveItx(s, s[n])[m] = s[k]
<1>. DEFINE c == CHOOSE k \in DOMAIN s : s[k] = s[n]
            a == SubSeq(s, 1, c - 1)
            d == SubSeq(s, c + 1, Len(s))
<1>1. c \in 1 .. Len(s)
  OBVIOUS
<1>2. RemoveItx(s, s[n]) = a \o d
  BY DEF RemoveItx, RemoveAt
<1>. HIDE DEF c
<1>3. /\ a \in Seq(S) /\ Len(a) = c - 1 /\ \A m \in 1 .. Len(a) : a[m] = s[m]
      /\ d \in Seq(S) /\ Len(d) = Len(s) - c /\ \A m \in 1 .. Len(d) : d[m] = s[c + m]
  BY <1>1
<1>. HIDE DEF a, d
<1>4. /\ a \o d \in Seq(S) /\ Len(a \o d) = Len(a) + Len(d)
      /\ \A m \in 1 .. Len(d) : (a \o d)[Len(a) + m] = d[m]
      /\ \A m \in 1 .. Len(a) : (a \o d)[m] = a[m]
  <2>1. a \in Seq(S) /\ d \in Seq(S)
    BY <1>3
  <2>. QED  BY ONLY <2>1
<1>5. ASSUME NEW m \in 1 .. Len(a \o d)
      PROVE  \E k \in DOMAIN s : (a \o d)[m] = s[k]
  <2>1. CASE m <= Len(a)
    BY <1>1, <1>3, <1>4, <1>5, <2>1
  <2>2. CASE m > Len(a)
    <3>0. Len(a) \in Nat /\ Len(d) \in Nat /\ m \in Nat /\ m <= Len(a) + Len(d)
      BY <1>3, <1>4
    <3>1. (a \o d)[m] = d[m - Len(a)] /\ m - Len(a) \in 1 .. Len(d)
      <4>1. m - Len(a) \in 1 .. Len(d) /\ m = Len(a) + (m - Len(a))
        BY <2>2, <3>0
      <4>. QED  BY <1>4, <4>1
    <3>2. (a \o d)[m] = s[c + (m - Len(a))] /\ c + (m - Len(a)) \in 1 .. Len(s)
      BY <1>1, <1>3, <3>1
    <3>. QED  BY <3>2
  <2>. QED  BY <1>3, <2>1, <2>2
<1>6. DOMAIN (a \o d) = 1 .. Len(a \o d)
  BY <1>4
<1>. QED  BY <1>2, <1>4, <1>5, <1>6

\* TakeItx() keeps the invariant.
LEMMA TakeItxKeeps ==
  ASSUME ZilInv, NEW t \in Procs, TakeItx(t)
  PROVE  ZilInv'
<1>. DEFINE i == NextItx(t)
            q == IF rec[i].txg > stable THEN [p[t] EXCEPT !.pc = "log"] ELSE p[t]
<1>1. /\ p[t].pc = "push" /\ i # 0
      /\ zl' = [zl EXCEPT !.itx = RemoveItx(zl.itx, i)]
      /\ UNCHANGED <<open, stable, active, dirty, zsynced, blk, zh, zh_disk, rec,
                     mode, crashes>>
  BY DEF TakeItx, gc_vars, fs_vars, import_vars
<1>2. /\ IsZl(zl) /\ IsWriter(w) /\ DOMAIN blk = Blocks /\ \A b \in Blocks : IsBlk(blk[b])
      /\ zl.itx \in Seq(Nat) /\ \A n \in DOMAIN zl.itx : Current(zl.itx[n])
      /\ IsProc(p[t]) /\ DOMAIN p = Procs /\ p[t].txg = 0
  BY <1>1, LoopProc DEF ZilInv, ShapeInv, RecInv
<1>3. i \in Range(zl.itx)
  <2>. DEFINE left == {j \in Range(zl.itx) : w.next \in 1 .. j /\ ~Skip(t, j)}
  <2>1. left # {} /\ i = Min(left)
    BY <1>1 DEF NextItx
  <2>2. left \in SUBSET Nat
    BY <1>2 DEF Range
  <2>3. Min(left) \in left
    BY <2>1, <2>2, LeastItx
  <2>. QED  BY <2>1, <2>3
<1>4. PICK n \in DOMAIN zl.itx : i = zl.itx[n]
  BY <1>3 DEF Range
<1>5. /\ Moves(t, q)
      /\ IF rec[i].txg > stable
         THEN w' = [w EXCEPT !.itx = i, !.next = After(i)]
         ELSE w' = [w EXCEPT !.next = After(i)]
  <2>1. CASE rec[i].txg > stable
    <3>1. p' = [p EXCEPT ![t] = q] /\ w' = [w EXCEPT !.itx = i, !.next = After(i)]
      BY <2>1 DEF TakeItx
    <3>. QED  BY <2>1, <3>1, MovesFact
  <2>2. CASE ~(rec[i].txg > stable)
    <3>1. p' = p /\ w' = [w EXCEPT !.next = After(i)] /\ q = p[t]
      BY <2>2 DEF TakeItx
    <3>. QED  BY <1>2, <2>2, <3>1 DEF Moves
  <2>. QED  BY <2>1, <2>2
<1>. HIDE DEF i
<1>6. /\ IsProc(q) /\ q.pc \in {"push", "log"} /\ q.txg = 0
      /\ q.pc = "log" => rec[i].txg > stable
  BY <1>1, <1>2 DEF IsProc, AllPcs, WriterPcs
<1>. HIDE DEF q
<1>7. IsZl(zl') /\ CalmLog /\ zl'.itx = RemoveItx(zl.itx, i)
  BY <1>1, <1>2 DEF IsZl, CalmLog
<1>8. zl'.itx \in Seq(Nat) /\ \A m \in DOMAIN zl'.itx : Current(zl'.itx[m])
  <2>1. /\ zl'.itx \in Seq(Nat)
        /\ \A m \in DOMAIN zl'.itx : \E k \in DOMAIN zl.itx : zl'.itx[m] = zl.itx[k]
    BY <1>2, <1>4, <1>7, RemoveItxFact
  <2>. QED  BY <1>2, <2>1
<1>9. IsWriter(w') /\ w'.lwb = w.lwb /\ (q.pc = "log" => Current(w'.itx))
  <2>1. Current(i)
    BY <1>2, <1>4
  <2>. QED  BY <1>2, <1>5, <1>6, <2>1 DEF IsWriter
<1>10. \A b \in Blocks : CalmBlock(b)
  BY <1>1 DEF CalmBlock
<1>. QED  BY <1>1, <1>2, <1>5, <1>6, <1>7, <1>8, <1>9, <1>10, LoopCalm DEF LoopPcs

\* A block that is allocated is one that nobody uses.
LEMMA AllocFact ==
  ASSUME ZilInv, NEW n \in Alloc, n # NULL
  PROVE  /\ n \in Blocks /\ blk[n] = NoBlk /\ n # zh.log /\ n # zh_disk.log
         /\ \A m \in DOMAIN zl.lwb : zl.lwb[m] # n
<1>1. n \in Blocks /\ blk[n] = NoBlk
  BY DEF Alloc
<1>2. blk[n].birth = 0
  BY <1>1 DEF NoBlk
<1>. QED  BY <1>1, <1>2 DEF ZilInv, BirthInv

\* The log writer issues its block; n is the next one, or NULL.
Issues(n) ==
  /\ DOMAIN blk' = Blocks /\ \A c \in Blocks : IsBlk(blk'[c])
  /\ \A c \in Blocks : c \notin {w.lwb, n} => blk'[c] = blk[c]
  /\ blk'[w.lwb].io = "issued" /\ blk'[w.lwb].freed = blk[w.lwb].freed
  /\ blk'[w.lwb].max_txg = blk[w.lwb].max_txg /\ blk'[w.lwb].birth = blk[w.lwb].birth
  /\ n # NULL =>
       /\ blk'[n].freed = 0 /\ blk'[n].birth # 0 /\ blk'[n].io \in {"none", "init"}
       /\ blk'[n].max_txg \in Nat /\ blk'[n].max_txg <= open

\* The list after that.
Longer(n) ==
  /\ IsZl(zl') /\ zl'.lwb = (IF n = NULL THEN zl.lwb ELSE Append(zl.lwb, n))
  /\ zl'.writer = zl.writer /\ zl'.itx = zl.itx
  /\ zl'.suspend = zl.suspend /\ zl'.suspending = zl.suspending
  /\ zl'.destroy_txg = zl.destroy_txg /\ zl'.keep_first = zl.keep_first
  /\ zl'.replayed = zl.replayed

\* Issuing a block keeps the invariant: a block follows it in the list, or the
\* group that is open empties the list.
LEMMA IssueKeeps ==
  ASSUME ZilInv, NEW t \in Procs, p[t].pc \in {"push", "log"}, w.lwb # NULL, HoldTx(w.lwb),
         NEW n \in Alloc, Issues(n), Longer(n),
         NEW q, IsProc(q), Moves(t, q), q.pc \in {"push", "recWait", "io"},
         q.pc # "recWait" => q.txg = 0,
         IsWriter(w'), w'.lwb = n, dirty' = dirty \cup {open},
         UNCHANGED <<zsynced, zh, zh_disk, rec, mode, crashes>>
  PROVE  ZilInv'
<1>. DEFINE b == w.lwb
<1>. USE DEF ZilInv
<1>1. /\ zl.writer = t /\ mode = "up" /\ t # NULL
      /\ \A u \in Procs : u # t => p[u].pc \notin WriterPcs
      /\ \A u \in Procs : ~Creating(u)
  BY OneWriter, NullFact DEF LoopPcs
<1>2. /\ b \in Blocks /\ zl.lwb # <<>> /\ Last(zl.lwb) = b /\ blk[b].io \in {"none", "init"}
      /\ zl.lwb \in Seq(Blocks)
  BY DEF WriterInv, ShapeInv, IsWriter
<1>3. n # NULL => /\ n \in Blocks /\ blk[n] = NoBlk /\ n # zh.log /\ n # zh_disk.log
                  /\ \A m \in DOMAIN zl.lwb : zl.lwb[m] # n
  BY AllocFact
<1>4. Len(zl.lwb) \in DOMAIN zl.lwb /\ Len(zl.lwb) \in Nat /\ zl.lwb[Len(zl.lwb)] = b
      /\ DOMAIN zl.lwb = 1 .. Len(zl.lwb)
  BY <1>2 DEF Last
<1>5. n # NULL => n # b
  BY <1>3, <1>4
<1>6. /\ DOMAIN p' = Procs /\ \A u \in Procs : IsProc(p'[u])
      /\ p'[t] = q /\ \A u \in Procs : u # t => p'[u] = p[u]
  BY DEF Moves, ShapeInv
<1>7. /\ ActiveInv' /\ UNCHANGED <<open, stable>>
      /\ \A c \in Blocks : active'[c] \in Nat /\ active'[c] <= open
  <2>1. \A c \in Blocks : blk'[c].io = "issued" => blk[c].io = "issued" \/ c = b
    BY <1>5, NullFact DEF Issues
  <2>2. ActiveInv' /\ UNCHANGED <<open, stable>>
    BY <1>2, <2>1, BeginActive DEF HoldTx
  <2>3. open \in Nat
    BY DEF GroupInv
  <2>. QED  BY <2>2, <2>3 DEF ActiveInv
<1>8. GroupInv'
  BY <1>7 DEF GroupInv
<1>9. zl'.lwb \in Seq(Blocks) /\ zl'.lwb # <<>> /\ Head(zl'.lwb) = Head(zl.lwb)
  <2>1. CASE n = NULL
    BY <1>2, <2>1 DEF Longer
  <2>2. CASE n # NULL
    BY <1>2, <1>3, <2>2 DEF Longer
  <2>. QED  BY <2>1, <2>2
<1>10. ShapeInv'
  BY <1>6, <1>9 DEF ShapeInv, Issues, Longer
<1>11. RecInv'
  <2>1. \A u \in Procs : p'[u].pc # "log"
    BY <1>1, <1>6 DEF WriterPcs
  <2>. QED  BY <1>7, <2>1, SameRec DEF Longer
<1>12. \A u \in Procs : ~Creating(u)' /\ p'[u].pc # "created" /\ p'[u].pc # "sync"
  BY <1>1, <1>6 DEF Creating, WriterPcs
<1>13. /\ n = NULL => zl'.lwb = zl.lwb
       /\ n # NULL => /\ Len(zl'.lwb) = Len(zl.lwb) + 1 /\ DOMAIN zl'.lwb = 1 .. Len(zl.lwb) + 1
                      /\ zl'.lwb[Len(zl.lwb) + 1] = n
                      /\ \A m \in DOMAIN zl.lwb : zl'.lwb[m] = zl.lwb[m]
  BY <1>2 DEF Longer
<1>14. ASSUME NEW m \in DOMAIN zl.lwb
       PROVE  LET c == zl.lwb[m]
              IN /\ blk'[c].freed = 0 /\ blk'[c].max_txg \in Nat /\ blk'[c].max_txg <= open
                 /\ IssuedIn(blk', c) /\ blk'[c].io \in {"issued", "done"}
                 /\ blk'[c].birth # 0 /\ c \in Blocks
  <2>. DEFINE c == zl.lwb[m]
  <2>1. /\ blk[c].freed = 0 /\ blk[c].max_txg \in Nat /\ blk[c].max_txg <= open
        /\ m < Len(zl.lwb) => Issued(c)
    BY DEF TailInv
  <2>2. blk[c].birth # 0 /\ c \in Blocks
    BY DEF BirthInv, ShapeInv
  <2>3. n # NULL => c # n
    BY <1>3
  <2>. HIDE DEF c
  <2>4. CASE c = b
    BY <2>1, <2>2, <2>4 DEF Issues, IssuedIn, c
  <2>5. CASE c # b
    <3>1. m < Len(zl.lwb)
      BY <1>4, <2>5 DEF c
    <3>2. blk'[c] = blk[c]
      BY <2>2, <2>3, <2>5, NullFact DEF Issues
    <3>. QED  BY <2>1, <2>2, <3>1, <3>2 DEF Issued, IssuedIn, c
  <2>. QED  BY <2>4, <2>5
<1>15. TailInv'
  <2>1. CASE n = NULL
    <3>1. Empties(open)'
      <4>1. open \in Nat /\ ~SyncedIn(open, stable, zsynced)
        BY DEF GroupInv, SyncedIn
      <4>2. \A m \in DOMAIN zl.lwb : /\ IssuedIn(blk', zl.lwb[m]) /\ blk'[zl.lwb[m]].max_txg <= open
                                     /\ active'[zl.lwb[m]] <= open
        BY <1>7, <1>14
      <4>. QED  BY <1>7, <1>12, <1>13, <2>1, <4>1, <4>2 DEF Empties, Synced, Issued
    <3>2. \E g \in dirty' : Empties(g)'
      BY <1>7, <3>1
    <3>3. /\ zl'.writer # NULL /\ w'.lwb = NULL
      BY <1>1, <2>1 DEF Longer
    <3>. QED  BY <1>7, <1>12, <1>13, <1>14, <2>1, <3>2, <3>3 DEF TailInv, Issued
  <2>2. CASE n # NULL
    <3>1. ~IssuedIn(blk', Last(zl'.lwb))
      BY <1>13, <2>2 DEF Last, Issues, IssuedIn
    <3>2. ASSUME NEW m \in DOMAIN zl'.lwb
          PROVE  LET c == zl'.lwb[m]
                 IN /\ blk'[c].freed = 0 /\ blk'[c].max_txg \in Nat /\ blk'[c].max_txg <= open
                    /\ blk'[c].io \in {"none", "init", "issued", "done"}
                    /\ m < Len(zl'.lwb) => IssuedIn(blk', c)
      <4>1. CASE m \in DOMAIN zl.lwb
        BY <1>13, <1>14, <2>2, <4>1
      <4>2. CASE m \notin DOMAIN zl.lwb
        <5>1. m = Len(zl.lwb) + 1
          BY <1>4, <1>13, <2>2, <4>2
        <5>. QED  BY <1>4, <1>13, <2>2, <5>1 DEF Issues
      <4>. QED  BY <4>1, <4>2
    <3>3. ASSUME NEW m \in DOMAIN zl'.lwb, NEW k \in DOMAIN zl'.lwb, zl'.lwb[m] = zl'.lwb[k]
          PROVE  m = k
      <4>1. \A i \in DOMAIN zl'.lwb : i \in DOMAIN zl.lwb \/ i = Len(zl.lwb) + 1
        BY <1>4, <1>13, <2>2
      <4>2. \A i, j \in DOMAIN zl.lwb : zl.lwb[i] = zl.lwb[j] => i = j
        BY DEF TailInv
      <4>. QED  BY <1>3, <1>13, <2>2, <3>3, <4>1, <4>2
    <3>. QED  BY <1>7, <3>1, <3>2, <3>3 DEF TailInv, Issued
  <2>. QED  BY <2>1, <2>2
<1>16. WriterInv'
  <2>1. \A u \in Procs : p'[u].pc \in WriterPcs <=> u = t
    BY <1>1, <1>6 DEF WriterPcs
  <2>2. n # NULL => Last(zl'.lwb) = n /\ blk'[n].io \in {"none", "init"}
    BY <1>13 DEF Last, Issues
  <2>3. \A u \in Procs : p'[u].pc \notin {"created", "recWait", "sync"} => p'[u].txg = 0
    BY <1>6 DEF WriterInv
  <2>4. zl'.writer = t
    BY <1>1 DEF Longer
  <2>. QED  BY <1>1, <1>9, <1>12, <2>1, <2>2, <2>3, <2>4 DEF WriterInv
<1>17. SuspendInv'
  <2>1. \A u \in Suspenders : /\ p'[u].pc = "idle" <=> p[u].pc = "idle"
                              /\ p'[u].pc = "suspended" <=> p[u].pc = "suspended"
                              /\ p'[u].pc = "suspWait" <=> p[u].pc = "suspWait"
                              /\ p'[u].pc = "destroy" <=> p[u].pc = "destroy"
    BY <1>6, NullFact
  <2>2. {u \in Suspenders : p'[u].pc # "idle"} = {u \in Suspenders : p[u].pc # "idle"}
    BY <2>1
  <2>3. ~Closed'
    BY <2>1 DEF Closed, SuspendInv, Longer
  <2>4. \A u \in Suspenders : Suspending(u)' <=> Suspending(u)
    BY <2>1 DEF Suspending
  <2>5. \A u \in Procs : p'[u].pc \in SuspPcs => u \in Suspenders
    BY <1>6 DEF SuspendInv, SuspPcs
  <2>. QED  BY <2>1, <2>2, <2>3, <2>4, <2>5 DEF SuspendInv, Longer
<1>18. zl.destroy_txg <= stable /\ ~Destroying /\ ~Destroying'
  <2>1. zl.destroy_txg \in Nat /\ stable \in Nat
    BY DEF ShapeInv, GroupInv
  <2>2. zl.destroy_txg <= stable
    BY <2>1 DEF DestroyInv
  <2>. QED  BY <1>7, <2>1, <2>2 DEF Destroying, Synced, SyncedIn, Longer
<1>19. DestroyInv'
  <2>1. zl.destroy_txg \in Nat /\ stable \in Nat
    BY DEF ShapeInv, GroupInv
  <2>. QED  BY <1>1, <1>7, <1>18, <2>1 DEF DestroyInv, Longer
<1>20. HeadInv'
  <2>1. zh.log = Head(zl.lwb) /\ \A u \in Suspenders : p[u].pc # "suspended"
    BY <1>1, <1>2 DEF HeadInv, Creating
  <2>2. \A u \in Suspenders : p'[u].pc # "suspended"
    BY <1>6, <2>1, NullFact
  <2>. QED  BY <1>9, <1>12, <2>1, <2>2 DEF HeadInv
<1>21. BirthInv'
  <2>1. ASSUME NEW c \in Blocks, blk'[c].freed # 0
        PROVE  /\ c # n /\ blk'[c].freed = blk[c].freed
    BY <1>3, <2>1, NullFact DEF Issues
  <2>2. ASSUME NEW c \in Blocks, blk[c].birth # 0
        PROVE  blk'[c].birth # 0
    BY <2>2, NullFact DEF Issues
  <2>3. /\ zh.log \in Blocks \cup {NULL} /\ zh_disk.log \in Blocks \cup {NULL}
    BY DEF ShapeInv, IsHeader
  <2>4. \A m \in DOMAIN zl'.lwb : blk'[zl'.lwb[m]].birth # 0
    <3>1. CASE n = NULL
      BY <1>13, <1>14, <3>1
    <3>2. CASE n # NULL
      <4>1. \A i \in DOMAIN zl'.lwb : i \in DOMAIN zl.lwb \/ i = Len(zl.lwb) + 1
        BY <1>4, <1>13, <3>2
      <4>. QED  BY <1>13, <1>14, <3>2, <4>1 DEF Issues
    <3>. QED  BY <3>1, <3>2
  <2>5. \A c \in Blocks : blk'[c].freed # 0 =>
          blk'[c].freed \in dirty /\ c # zh.log
    BY <1>18, <2>1 DEF BirthInv
  <2>. QED  BY <2>2, <2>3, <2>4, <2>5 DEF BirthInv
<1>. QED  BY <1>7, <1>8, <1>10, <1>11, <1>15, <1>16, <1>17, <1>19, <1>20, <1>21

\* What logging a record, or failing to, does to block b of f,
Logged(f, b) ==
  /\ DOMAIN blk' = Blocks /\ \A c \in Blocks : IsBlk(blk'[c])
  /\ \A c \in Blocks : c # b => blk'[c] = f[c]
  /\ blk'[b].io = "init" /\ blk'[b].freed = f[b].freed /\ blk'[b].birth = f[b].birth
  /\ blk'[b].max_txg \in Nat /\ blk'[b].max_txg <= open

\* to the list, and to the log writer.
LEMMA LogRecordFact ==
  ASSUME ZilInv, NEW t \in Procs, p[t].pc = "log",
         NEW f, DOMAIN f = Blocks, \A c \in Blocks : IsBlk(f[c]),
         NEW b \in Blocks, f[b].max_txg \in Nat, f[b].max_txg <= open, LogRecord(t, f, b)
  PROVE  /\ Logged(f, b)
         /\ Longer(IF b = w.lwb THEN NULL ELSE b)
         /\ Moves(t, p'[t]) /\ IsProc(p'[t]) /\ p'[t].pc \in {"push", "recWait"}
         /\ p'[t].pc # "recWait" => p'[t].txg = 0
<1>1. IsBlk(f[b]) /\ open \in Nat
  BY DEF ZilInv, GroupInv
<1>2. IsZl(zl) /\ DOMAIN p = Procs /\ IsProc(p[t]) /\ p[t].txg = 0
  BY LoopProc DEF ZilInv, ShapeInv
<1>3. rec[w.itx].txg \in Nat /\ rec[w.itx].txg <= open
  BY DEF ZilInv, RecInv, Current, CurrentIn, IsRec
<1>4. Logged(f, b)
  <2>1. CASE blk' = AddRecord(f, b)
    <3>. DEFINE x == Larger(f[b].max_txg, rec[w.itx].txg)
                y == Append(f[b].recs, [itx |-> w.itx, seq |-> zl.lr_seq + 1])
    <3>1. blk' = [f EXCEPT ![b].io = "init", ![b].recs = y, ![b].max_txg = x]
      BY <2>1 DEF AddRecord
    <3>2. x \in Nat /\ x <= open
      BY <1>3 DEF Larger
    <3>. HIDE DEF x, y
    <3>. QED  BY <1>1, <3>1, <3>2 DEF Logged, IsBlk
  <2>2. CASE blk' = [f EXCEPT ![b].io = "init"]
    BY <1>1, <2>2 DEF Logged, IsBlk
  <2>. QED  BY <2>1, <2>2 DEF LogRecord
<1>5. Longer(IF b = w.lwb THEN NULL ELSE b)
  <2>. DEFINE l == IF b = w.lwb THEN zl.lwb ELSE Append(zl.lwb, b)
              x == zl.lr_seq + 1
  <2>1. l = (IF (IF b = w.lwb THEN NULL ELSE b) = NULL THEN zl.lwb
             ELSE Append(zl.lwb, IF b = w.lwb THEN NULL ELSE b))
    BY NullFact
  <2>2. zl' = [zl EXCEPT !.lr_seq = x, !.lwb = l] \/ zl' = [zl EXCEPT !.lwb = l]
    BY DEF LogRecord
  <2>. HIDE DEF l, x
  <2>3. /\ IsZl(zl') /\ zl'.lwb = l
        /\ zl'.writer = zl.writer /\ zl'.itx = zl.itx
        /\ zl'.suspend = zl.suspend /\ zl'.suspending = zl.suspending
        /\ zl'.destroy_txg = zl.destroy_txg /\ zl'.keep_first = zl.keep_first
        /\ zl'.replayed = zl.replayed
    BY <1>2, <2>2 DEF IsZl
  <2>. QED  BY <2>1, <2>3 DEF Longer
<1>6. /\ Moves(t, p'[t]) /\ IsProc(p'[t]) /\ p'[t].pc \in {"push", "recWait"}
      /\ p'[t].pc # "recWait" => p'[t].txg = 0
  <2>1. \/ p' = [p EXCEPT ![t].pc = "push"]
        \/ p' = [p EXCEPT ![t].pc = "recWait", ![t].txg = rec[w.itx].txg]
    BY DEF LogRecord
  <2>. QED  BY <1>2, <2>1 DEF Moves, IsProc, AllPcs, WriterPcs
<1>. QED  BY <1>4, <1>5, <1>6

\* Issuing a block, n being the one it got.
LEMMA StartFact ==
  ASSUME ZilInv, w.lwb # NULL, NEW n \in Alloc
  PROVE  /\ DOMAIN Start(w.lwb, n) = Blocks /\ \A c \in Blocks : IsBlk(Start(w.lwb, n)[c])
         /\ \A c \in Blocks : c \notin {w.lwb, n} => Start(w.lwb, n)[c] = blk[c]
         /\ Start(w.lwb, n)[w.lwb].io = "issued"
         /\ Start(w.lwb, n)[w.lwb].freed = blk[w.lwb].freed
         /\ Start(w.lwb, n)[w.lwb].max_txg = blk[w.lwb].max_txg
         /\ Start(w.lwb, n)[w.lwb].birth = blk[w.lwb].birth
         /\ n # NULL => /\ n \in Blocks /\ n # w.lwb
                        /\ Start(w.lwb, n)[n].freed = 0 /\ Start(w.lwb, n)[n].birth # 0
                        /\ Start(w.lwb, n)[n].io = "none"
                        /\ Start(w.lwb, n)[n].max_txg \in Nat /\ Start(w.lwb, n)[n].max_txg <= open
<1>. DEFINE S == Start(w.lwb, n)
            x == [blk[w.lwb] EXCEPT !.io = "issued", !.next = n]
            y == NewLwb(n, open)
<1>1. /\ w.lwb \in Blocks /\ Last(zl.lwb) = w.lwb /\ zl.lwb \in Seq(Blocks) /\ zl.lwb # <<>>
      /\ IsBlk(blk[w.lwb]) /\ \A c \in Blocks : IsBlk(blk[c])
  BY DEF ZilInv, WriterInv, ShapeInv, IsWriter
<1>2. n # NULL => n \in Blocks /\ n # w.lwb
  BY <1>1, AllocFact DEF Last
<1>3. S = [c \in Blocks |-> IF c = w.lwb THEN x ELSE IF c = n THEN y ELSE blk[c]]
  BY DEF Start
<1>4. /\ IsBlk(x) /\ x.io = "issued" /\ x.freed = blk[w.lwb].freed
      /\ x.max_txg = blk[w.lwb].max_txg /\ x.birth = blk[w.lwb].birth
  BY <1>1 DEF IsBlk
<1>5. /\ IsBlk(y) /\ y.freed = 0 /\ y.birth = open /\ y.io = "none" /\ y.max_txg = open
  BY DEF IsBlk, NewLwb, NoBlk
<1>6. open \in Nat /\ open # 0
  BY DEF ZilInv, GroupInv
<1>. HIDE DEF S, x, y
<1>7. DOMAIN S = Blocks /\ \A c \in Blocks : S[c] = (IF c = w.lwb THEN x ELSE IF c = n THEN y ELSE blk[c])
  BY <1>3
<1>8. \A c \in Blocks : IsBlk(S[c])
  BY <1>1, <1>4, <1>5, <1>7
<1>9. \A c \in Blocks : c \notin {w.lwb, n} => S[c] = blk[c]
  BY <1>7
<1>10. S[w.lwb] = x /\ (n # NULL => S[n] = y)
  BY <1>1, <1>2, <1>7
<1>. QED  BY <1>2, <1>4, <1>5, <1>6, <1>7, <1>8, <1>9, <1>10 DEF S

\* zil_lwb_commit() keeps the invariant.
LEMMA zil_lwb_commitKeeps ==
  ASSUME ZilInv, NEW t \in Procs, zil_lwb_commit(t)
  PROVE  ZilInv'
<1>1. /\ p[t].pc = "log" /\ UNCHANGED <<zsynced, zh, zh_disk, rec, mode, crashes>>
  BY DEF zil_lwb_commit, import_vars
<1>2. /\ IsZl(zl) /\ IsWriter(w) /\ DOMAIN blk = Blocks /\ \A b \in Blocks : IsBlk(blk[b])
      /\ zl.itx \in Seq(Nat) /\ \A n \in DOMAIN zl.itx : Current(zl.itx[n])
      /\ IsProc(p[t]) /\ DOMAIN p = Procs /\ p[t].txg = 0
  BY <1>1, LoopProc DEF ZilInv, ShapeInv, RecInv
<1>3. CASE /\ w.lwb = NULL
           /\ p' = [p EXCEPT ![t].pc = "push"]
           /\ w' = [w EXCEPT !.itx = 0]
           /\ UNCHANGED <<open, stable, active, dirty, zl, blk>>
  <2>1. Moves(t, p'[t]) /\ IsProc(p'[t]) /\ p'[t].pc = "push" /\ p'[t].txg = 0
    BY <1>2, <1>3 DEF Moves, IsProc, AllPcs, WriterPcs
  <2>2. IsWriter(w') /\ w'.lwb = w.lwb
    BY <1>2, <1>3 DEF IsWriter
  <2>3. CalmLog /\ \A b \in Blocks : CalmBlock(b)
    BY <1>3 DEF CalmLog, CalmBlock
  <2>. QED  BY <1>1, <1>2, <1>3, <2>1, <2>2, <2>3, LoopCalm DEF LoopPcs
<1>4. CASE /\ w.lwb # NULL
           /\ LogRecord(t, blk, w.lwb)
           /\ w' = [w EXCEPT !.itx = 0]
           /\ UNCHANGED <<open, stable, active, dirty>>
  <2>1. w.lwb \in Blocks /\ blk[w.lwb].max_txg \in Nat /\ blk[w.lwb].max_txg <= open
    BY <1>2, <1>4 DEF ZilInv, WriterInv, TailInv, ShapeInv, IsWriter, Last
  <2>2. /\ Logged(blk, w.lwb) /\ Longer(IF w.lwb = w.lwb THEN NULL ELSE w.lwb)
        /\ Moves(t, p'[t]) /\ IsProc(p'[t]) /\ p'[t].pc \in {"push", "recWait"}
        /\ p'[t].pc # "recWait" => p'[t].txg = 0
    BY <1>1, <1>2, <1>4, <2>1, LogRecordFact
  <2>3. IsWriter(w') /\ w'.lwb = w.lwb
    BY <1>2, <1>4 DEF IsWriter
  <2>4. IsZl(zl') /\ CalmLog /\ zl'.itx = zl.itx
    BY <2>2 DEF Longer, CalmLog
  <2>5. DOMAIN blk' = Blocks /\ \A c \in Blocks : IsBlk(blk'[c]) /\ CalmBlock(c)
    BY <2>1, <2>2 DEF Logged, CalmBlock
  <2>. QED  BY <1>1, <1>2, <1>4, <2>2, <2>3, <2>4, <2>5, LoopCalm DEF LoopPcs
<1>5. ASSUME w.lwb # NULL, HoldTx(w.lwb), dirty' = dirty \cup {open}, NEW n \in Alloc,
             w' = [w EXCEPT !.lwb = n, !.itx = 0],
             IF n # NULL THEN LogRecord(t, Start(w.lwb, n), n)
             ELSE /\ blk' = Start(w.lwb, NULL)
                  /\ p' = [p EXCEPT ![t].pc = "push"]
                  /\ UNCHANGED zl
      PROVE  ZilInv'
  <2>. DEFINE f == Start(w.lwb, n)
  <2>1. /\ DOMAIN f = Blocks /\ \A c \in Blocks : IsBlk(f[c])
        /\ \A c \in Blocks : c \notin {w.lwb, n} => f[c] = blk[c]
        /\ f[w.lwb].io = "issued" /\ f[w.lwb].freed = blk[w.lwb].freed
        /\ f[w.lwb].max_txg = blk[w.lwb].max_txg /\ f[w.lwb].birth = blk[w.lwb].birth
        /\ n # NULL => /\ n \in Blocks /\ n # w.lwb
                       /\ f[n].freed = 0 /\ f[n].birth # 0 /\ f[n].io = "none"
                       /\ f[n].max_txg \in Nat /\ f[n].max_txg <= open
    BY <1>5, StartFact
  <2>2. n = NULL => blk' = f
    BY <1>5
  <2>3. n # NULL => LogRecord(t, f, n)
    BY <1>5
  <2>. HIDE DEF f
  <2>4. w.lwb \in Blocks /\ n \in Blocks \cup {NULL}
    BY <1>2, <1>5, <2>1 DEF IsWriter
  <2>5. IsWriter(w') /\ w'.lwb = n
    BY <1>2, <1>5, <2>4 DEF IsWriter
  <2>6. CASE n = NULL
    <3>1. Issues(n)
      BY <2>1, <2>2, <2>6 DEF Issues
    <3>2. Longer(n)
      BY <1>2, <1>5, <2>6 DEF Longer
    <3>3. Moves(t, p'[t]) /\ IsProc(p'[t]) /\ p'[t].pc = "push" /\ p'[t].txg = 0
      BY <1>2, <1>5, <2>6 DEF Moves, IsProc, AllPcs, WriterPcs
    <3>. QED  BY <1>1, <1>5, <2>5, <3>1, <3>2, <3>3, IssueKeeps
  <2>7. CASE n # NULL
    <3>1. /\ Logged(f, n) /\ Longer(IF n = w.lwb THEN NULL ELSE n)
          /\ Moves(t, p'[t]) /\ IsProc(p'[t]) /\ p'[t].pc \in {"push", "recWait"}
          /\ p'[t].pc # "recWait" => p'[t].txg = 0
      BY <1>1, <2>1, <2>3, <2>7, LogRecordFact
    <3>2. Issues(n)
      BY <2>1, <2>4, <2>7, <3>1 DEF Issues, Logged
    <3>3. Longer(n)
      BY <2>1, <2>7, <3>1
    <3>. QED  BY <1>1, <1>5, <2>5, <3>1, <3>2, <3>3, IssueKeeps
  <2>. QED  BY <2>6, <2>7
<1>. QED  BY <1>3, <1>4, <1>5 DEF zil_lwb_commit, gc_vars

\* WriteLast() keeps the invariant.
LEMMA WriteLastKeeps ==
  ASSUME ZilInv, NEW t \in Procs, WriteLast(t)
  PROVE  ZilInv'
<1>. DEFINE seq == IF zl.itx = <<>> THEN Len(rec) ELSE Head(zl.itx) - 1
<1>1. /\ p[t].pc = "push" /\ p' = [p EXCEPT ![t].pc = "io"]
      /\ UNCHANGED <<zsynced, zh, zh_disk, rec, mode, crashes>>
  BY DEF WriteLast, import_vars, fs_vars
<1>2. /\ IsZl(zl) /\ IsWriter(w) /\ DOMAIN blk = Blocks /\ \A b \in Blocks : IsBlk(blk[b])
      /\ zl.itx \in Seq(Nat) /\ \A n \in DOMAIN zl.itx : Current(zl.itx[n])
      /\ IsProc(p[t]) /\ DOMAIN p = Procs /\ p[t].txg = 0
  BY <1>1, LoopProc DEF ZilInv, ShapeInv, RecInv
<1>3. Moves(t, p'[t]) /\ IsProc(p'[t]) /\ p'[t].pc = "io" /\ p'[t].txg = 0
  BY <1>1, <1>2 DEF Moves, IsProc, AllPcs, WriterPcs
<1>4. CASE /\ w' = [w EXCEPT !.commit_seq = seq, !.next = 0]
           /\ UNCHANGED <<open, stable, active, dirty, zl, blk>>
  <2>. HIDE DEF seq
  <2>1. IsWriter(w') /\ w'.lwb = w.lwb
    BY <1>2, <1>4 DEF IsWriter
  <2>2. CalmLog /\ \A b \in Blocks : CalmBlock(b)
    BY <1>4 DEF CalmLog, CalmBlock
  <2>. QED  BY <1>1, <1>2, <1>3, <1>4, <2>1, <2>2, LoopCalm DEF LoopPcs
<1>5. ASSUME w.lwb # NULL, HoldTx(w.lwb), dirty' = dirty \cup {open}, NEW n \in Alloc,
             w' = [w EXCEPT !.commit_seq = seq, !.lwb = n, !.next = 0],
             blk' = Start(w.lwb, n),
             zl' = IF n = NULL THEN zl ELSE [zl EXCEPT !.lwb = Append(@, n)]
      PROVE  ZilInv'
  <2>. HIDE DEF seq
  <2>1. Issues(n) /\ n \in Blocks \cup {NULL}
    BY <1>5, StartFact DEF Issues
  <2>2. Longer(n)
    <3>1. CASE n = NULL
      BY <1>2, <1>5, <3>1 DEF Longer
    <3>2. CASE n # NULL
      <4>1. zl' = [zl EXCEPT !.lwb = Append(zl.lwb, n)]
        BY <1>5, <3>2
      <4>. QED  BY <1>2, <3>2, <4>1 DEF Longer, IsZl
    <3>. QED  BY <3>1, <3>2
  <2>3. IsWriter(w') /\ w'.lwb = n
    BY <1>2, <1>5, <2>1 DEF IsWriter
  <2>. QED  BY <1>1, <1>3, <1>5, <2>1, <2>2, <2>3, IssueKeeps
<1>. QED  BY <1>4, <1>5 DEF WriteLast, gc_vars

\* zil_lwb_write_done() keeps the invariant.
LEMMA zil_lwb_write_doneKeeps ==
  ASSUME ZilInv, NEW b \in Blocks, NEW ok \in BOOLEAN, zil_lwb_write_done(b, ok)
  PROVE  ZilInv'
<1>. DEFINE x == IF ok THEN "cache" ELSE "none"
<1>1. /\ blk[b].io = "issued" /\ GC!End(b)
      /\ blk' = [blk EXCEPT ![b].io = "done", ![b].content = x]
      /\ UNCHANGED <<dirty, zsynced, zl, zh, zh_disk, rec, p, w, mode, crashes>>
  BY DEF zil_lwb_write_done, fs_vars, import_vars
<1>. HIDE DEF x
<1>2. DOMAIN blk = Blocks /\ \A c \in Blocks : IsBlk(blk[c])
  BY DEF ZilInv, ShapeInv
<1>3. /\ DOMAIN blk' = Blocks /\ \A c \in Blocks : IsBlk(blk'[c])
      /\ \A c \in Blocks : c # b => blk'[c] = blk[c]
      /\ blk'[b].io = "done" /\ blk'[b].freed = blk[b].freed /\ blk'[b].birth = blk[b].birth
      /\ blk'[b].max_txg = blk[b].max_txg
  BY <1>1, <1>2 DEF IsBlk
<1>4. /\ ActiveInv' /\ UNCHANGED <<open, stable>> /\ active'[b] = 0
      /\ \A c \in Blocks : c # b => active'[c] = active[c]
  BY <1>1, <1>3, EndActive
<1>5. ShapeInv'
  BY <1>1, <1>3 DEF ZilInv, ShapeInv
<1>6. RecInv'
  BY <1>1, <1>4, SameRec
<1>7. \A c \in Blocks : CalmBlock(c)
  BY <1>1, <1>3 DEF CalmBlock
<1>8. Calm
  BY <1>1, <1>4, <1>7 DEF Calm, CalmLog, CalmThread
<1>. QED  BY <1>4, <1>5, <1>6, <1>8, CalmKeeps

\* What is left of a list when its first k members are gone.
LEMMA DropFact ==
  ASSUME NEW S, NEW s \in Seq(S), NEW k \in Nat
  PROVE  /\ SubSeq(s, k + 1, Len(s)) \in Seq(S)
         /\ Len(SubSeq(s, k + 1, Len(s))) = (IF k <= Len(s) THEN Len(s) - k ELSE 0)
         /\ \A m \in DOMAIN SubSeq(s, k + 1, Len(s)) :
              k + m \in DOMAIN s /\ SubSeq(s, k + 1, Len(s))[m] = s[k + m]
OBVIOUS

\* zil_itx_clean() keeps the invariant.
LEMMA zil_itx_cleanKeeps ==
  ASSUME ZilInv, zil_itx_clean
  PROVE  ZilInv'
<1>. DEFINE synced == {n \in DOMAIN zl.itx : \A m \in 1 .. n : rec[zl.itx[m]].txg <= stable}
            k == Cardinality(synced)
            l == SubSeq(zl.itx, k + 1, Len(zl.itx))
<1>1. /\ zl' = [zl EXCEPT !.clean = FALSE, !.itx = l] /\ p' = Wake(p)
      /\ UNCHANGED <<open, stable, active, dirty, zsynced, blk, zh, zh_disk, rec, w, mode, crashes>>
  BY DEF zil_itx_clean, gc_vars, fs_vars, import_vars
<1>2. /\ IsZl(zl) /\ zl.itx \in Seq(Nat) /\ \A n \in DOMAIN zl.itx : Current(zl.itx[n])
      /\ DOMAIN p = Procs /\ \A u \in Procs : IsProc(p[u])
  BY DEF ZilInv, ShapeInv, RecInv
<1>3. k \in Nat
  <2>1. IsFiniteSet(1 .. Len(zl.itx)) /\ synced \in SUBSET (1 .. Len(zl.itx))
    BY <1>2, FS_Interval
  <2>. HIDE DEF synced
  <2>. QED  BY <2>1, FS_Subset, FS_CardinalityType
<1>. HIDE DEF k
<1>4. l \in Seq(Nat) /\ \A m \in DOMAIN l : Current(l[m])
  BY <1>2, <1>3, DropFact
<1>. HIDE DEF l
<1>5. IsZl(zl') /\ zl'.itx = l /\ CalmLog
  <2>. DEFINE x == FALSE
  <2>1. zl' = [zl EXCEPT !.clean = x, !.itx = l]
    BY <1>1
  <2>. HIDE DEF x
  <2>. QED  BY <1>2, <2>1 DEF IsZl, CalmLog
<1>6. /\ DOMAIN p' = Procs
      /\ \A u \in Procs : IsProc(p'[u]) /\ Woken(p[u], p'[u])
      /\ \A u \in Procs : p[u].pc \notin {"cvWait", "drainWait"} => p'[u] = p[u]
  BY <1>1, <1>2, WakeFact
<1>7. ShapeInv'
  BY <1>1, <1>5, <1>6 DEF ZilInv, ShapeInv, CalmLog
<1>8. ActiveInv'
  BY <1>1, SameActive
<1>9. \A u \in Procs : CalmThread(u) /\ (p'[u].pc = "log" => p[u].pc = "log")
  BY <1>6, WokenCalm
<1>10. RecInv'
  BY <1>1, <1>4, <1>5, <1>9 DEF ZilInv, RecInv, Current
<1>11. \A b \in Blocks : CalmBlock(b)
  BY <1>1 DEF CalmBlock
<1>12. mode = "up" \/ \A u \in Procs : p'[u] = p[u]
  BY <1>6, BusyUp
<1>13. Calm
  BY <1>1, <1>5, <1>9, <1>11, <1>12 DEF Calm
<1>. QED  BY <1>7, <1>8, <1>10, <1>13, CalmKeeps

\* A step that changes no more of the log blocks than what a flush does.
SameBlocks ==
  /\ DOMAIN blk' = Blocks
  /\ \A b \in Blocks :
       /\ IsBlk(blk'[b]) /\ blk'[b].io = blk[b].io /\ blk'[b].freed = blk[b].freed
       /\ blk'[b].max_txg = blk[b].max_txg /\ blk'[b].birth = blk[b].birth

\* That is what it does.
LEMMA FlushFact ==
  ASSUME ZilInv
  PROVE  /\ DOMAIN Flushed = Blocks
         /\ \A b \in Blocks :
              /\ IsBlk(Flushed[b]) /\ Flushed[b].io = blk[b].io /\ Flushed[b].freed = blk[b].freed
              /\ Flushed[b].max_txg = blk[b].max_txg /\ Flushed[b].birth = blk[b].birth
<1>1. DOMAIN Flushed = Blocks
  BY DEF Flushed
<1>2. ASSUME NEW b \in Blocks
      PROVE  /\ IsBlk(Flushed[b]) /\ Flushed[b].io = blk[b].io /\ Flushed[b].freed = blk[b].freed
             /\ Flushed[b].max_txg = blk[b].max_txg /\ Flushed[b].birth = blk[b].birth
  <2>. DEFINE x == IF blk[b].content = "cache" THEN "disk" ELSE blk[b].content
  <2>1. Flushed[b] = [blk[b] EXCEPT !.content = x] /\ IsBlk(blk[b])
    BY DEF Flushed, ZilInv, ShapeInv
  <2>. HIDE DEF x
  <2>. QED  BY <2>1 DEF IsBlk
<1>. QED  BY <1>1, <1>2

\* The end of the turn of a log writer whose last block is not on its way.
LEMMA PublishKeeps ==
  ASSUME ZilInv, NEW t \in Procs, p[t].pc \in {"io", "sync"}, Publish(t), SameBlocks,
         zl.lwb # <<>> => ~Issued(Last(zl.lwb)),
         UNCHANGED <<open, stable, active, dirty, zsynced, zh, zh_disk, rec, mode, crashes>>
  PROVE  ZilInv'
<1>. USE DEF ZilInv
<1>1. /\ mode = "up" /\ \A u \in Procs : u # t => p[u].pc \notin WriterPcs
      /\ \A u \in Procs : ~Creating(u)
  BY OneWriter DEF LoopPcs
<1>2. /\ zl' = [zl EXCEPT !.writer = NULL, !.commit_seq = w.commit_seq]
      /\ w' = NoWriter /\ Return(t, Wake(p))
  BY DEF Publish
<1>3. /\ IsZl(zl') /\ zl'.writer = NULL /\ zl'.lwb = zl.lwb /\ zl'.suspend = zl.suspend
      /\ zl'.suspending = zl.suspending /\ zl'.destroy_txg = zl.destroy_txg
      /\ zl'.keep_first = zl.keep_first /\ zl'.replayed = zl.replayed /\ zl'.itx = zl.itx
  BY <1>2 DEF ShapeInv, IsZl
<1>4. IsWriter(w') /\ w'.lwb = NULL
  BY <1>2 DEF IsWriter, NoWriter
<1>5. /\ DOMAIN p' = Procs /\ \A u \in Procs : IsProc(p'[u])
      /\ \A u \in Procs : u # t => Woken(p[u], p'[u])
      /\ p'[t].pc = (IF t \in Suspenders THEN "drain" ELSE "idle") /\ p'[t].txg = 0
  <2>1. /\ DOMAIN Wake(p) = Procs
        /\ \A u \in Procs : IsProc(Wake(p)[u]) /\ Woken(p[u], Wake(p)[u])
    BY WakeFact DEF ShapeInv
  <2>. QED  BY <1>2, <2>1, ReturnFact
<1>6. ASSUME NEW u \in Procs
      PROVE  /\ p'[u].pc \notin WriterPcs
             /\ p'[u].pc \notin {"created", "recWait", "sync"} => p'[u].txg = 0
             /\ p'[u].pc \in SuspPcs => u \in Suspenders
             /\ u \in Suspenders =>
                  /\ p'[u].pc = "idle" <=> p[u].pc = "idle"
                  /\ p'[u].pc = "suspended" <=> p[u].pc = "suspended"
                  /\ p'[u].pc = "suspWait" <=> p[u].pc = "suspWait"
                  /\ p'[u].pc = "destroy" <=> p[u].pc = "destroy"
  <2>1. CASE u = t
    BY <1>5, <2>1 DEF WriterPcs, SuspPcs
  <2>2. CASE u # t
    <3>1. /\ p[u].pc \notin WriterPcs /\ Woken(p[u], p'[u])
          /\ p[u].pc \notin {"created", "recWait", "sync"} => p[u].txg = 0
          /\ p[u].pc \in SuspPcs => u \in Suspenders
      BY <1>1, <1>5, <2>2 DEF WriterInv, SuspendInv
    <3>. QED  BY <3>1 DEF Woken, WriterPcs, SuspPcs
  <2>. QED  BY <2>1, <2>2
<1>7. \A u \in Procs : p'[u].pc # "log" /\ p'[u].pc # "created" /\ ~Creating(u)'
  BY <1>6 DEF WriterPcs, Creating
<1>8. GroupInv' /\ ActiveInv'
  BY SameActive DEF GroupInv, SameBlocks
<1>9. ShapeInv'
  BY <1>3, <1>4, <1>5 DEF ShapeInv, SameBlocks
<1>10. RecInv'
  BY <1>3, <1>7, SameRec
<1>11. WriterInv'
  BY <1>1, <1>3, <1>4, <1>6, <1>7, NullFact DEF WriterInv
<1>12. SuspendInv'
  <2>1. {u \in Suspenders : p'[u].pc # "idle"} = {u \in Suspenders : p[u].pc # "idle"}
    BY <1>6, NullFact
  <2>2. \A u \in Suspenders : Suspending(u)' <=> Suspending(u)
    BY <1>6, NullFact DEF Suspending
  <2>. QED  BY <1>3, <1>4, <1>6, <1>7, <2>1, <2>2, NullFact DEF SuspendInv
<1>13. Destroying' <=> Destroying
  BY <1>3 DEF Destroying, Synced, SyncedIn
<1>14. DestroyInv'
  BY <1>3, <1>4, <1>7, <1>13 DEF DestroyInv
<1>15. HeadInv'
  <2>1. \A u \in Procs : p[u].pc # "created"
    BY <1>1 DEF Creating
  <2>. QED  BY <1>3, <1>6, <1>7, <1>13, <2>1, NullFact DEF HeadInv
<1>16. TailInv'
  <2>1. zl.lwb \in Seq(Blocks)
    BY DEF ShapeInv
  <2>2. \A n \in DOMAIN zl.lwb : zl.lwb[n] \in Blocks
    BY <2>1
  <2>3. zl.lwb # <<>> => Last(zl.lwb) \in Blocks
    BY <2>1 DEF Last
  <2>4. \A b \in Blocks : IssuedIn(blk', b) <=> Issued(b)
    BY DEF SameBlocks, Issued, IssuedIn
  <2>. QED  BY <1>3, <2>2, <2>3, <2>4 DEF TailInv, SameBlocks, Issued
<1>17. BirthInv'
  <2>1. /\ zh.log \in Blocks \cup {NULL} /\ zh_disk.log \in Blocks \cup {NULL}
        /\ \A n \in DOMAIN zl.lwb : zl.lwb[n] \in Blocks
    BY DEF ShapeInv, IsHeader
  <2>. QED  BY <1>3, <1>13, <2>1 DEF BirthInv, SameBlocks
<1>. QED  BY <1>8, <1>9, <1>10, <1>11, <1>12, <1>14, <1>15, <1>16, <1>17

\* WaitForWrites() keeps the invariant.
LEMMA WaitForWritesKeeps ==
  ASSUME ZilInv, NEW t \in Procs, WaitForWrites(t)
  PROVE  ZilInv'
<1>1. /\ p[t].pc = "io" /\ blk' = Flushed
      /\ UNCHANGED <<open, stable, active, dirty, zsynced, zh, zh_disk, rec, mode, crashes>>
  BY DEF WaitForWrites, gc_vars, import_vars
<1>2. SameBlocks
  BY <1>1, FlushFact DEF SameBlocks
<1>3. CASE ~NeedsSync
  <2>1. Publish(t)
    BY <1>3 DEF WaitForWrites
  <2>2. zl.lwb # <<>> => ~Issued(Last(zl.lwb))
    BY <1>3 DEF ZilInv, TailInv, NeedsSync
  <2>. QED  BY <1>1, <1>2, <2>1, <2>2, PublishKeeps
<1>4. CASE NeedsSync
  <2>1. /\ p' = [p EXCEPT ![t].pc = "sync", ![t].txg = open + TXG_DEFER_SIZE]
        /\ UNCHANGED <<zl, w>>
    BY <1>4 DEF WaitForWrites
  <2>2. /\ IsZl(zl) /\ IsWriter(w) /\ open \in Nat
        /\ zl.itx \in Seq(Nat) /\ \A n \in DOMAIN zl.itx : Current(zl.itx[n])
        /\ IsProc(p[t]) /\ DOMAIN p = Procs
    BY <1>1, LoopProc DEF ZilInv, ShapeInv, RecInv, GroupInv
  <2>3. Moves(t, p'[t]) /\ IsProc(p'[t]) /\ p'[t].pc = "sync" /\ p'[t].txg = open + 2
    BY <2>1, <2>2 DEF Moves, IsProc, AllPcs, WriterPcs, TXG_DEFER_SIZE
  <2>4. CalmLog /\ \A b \in Blocks : CalmBlock(b) /\ IsBlk(blk'[b])
    BY <1>2, <2>1 DEF CalmLog, CalmBlock, SameBlocks
  <2>5. /\ IsZl(zl') /\ IsWriter(w') /\ w'.lwb = w.lwb /\ DOMAIN blk' = Blocks
        /\ zl'.itx \in Seq(Nat) /\ \A n \in DOMAIN zl'.itx : Current(zl'.itx[n])
    BY <1>2, <2>1, <2>2 DEF SameBlocks
  <2>6. p[t].pc \in LoopPcs /\ p'[t].pc \in LoopPcs /\ p'[t].txg \in Nat /\ open <= p'[t].txg
    BY <1>1, <2>2, <2>3 DEF LoopPcs
  <2>. QED  BY <1>1, <2>3, <2>4, <2>5, <2>6, LoopCalm
<1>. QED  BY <1>3, <1>4

\* WaitForSync() keeps the invariant: the list is empty, or has a block again.
LEMMA WaitForSyncKeeps ==
  ASSUME ZilInv, NEW t \in Procs, WaitForSync(t)
  PROVE  ZilInv'
<1>1. /\ p[t].pc = "sync" /\ p[t].txg <= stable /\ Publish(t)
      /\ UNCHANGED <<open, stable, active, dirty, zsynced, blk, zh, zh_disk, rec, mode, crashes>>
  BY DEF WaitForSync, gc_vars, import_vars
<1>2. SameBlocks
  BY <1>1 DEF SameBlocks, ZilInv, ShapeInv
<1>3. zl.lwb # <<>> => ~Issued(Last(zl.lwb))
  <2>. SUFFICES ASSUME zl.lwb # <<>>, Issued(Last(zl.lwb))
                PROVE  FALSE
    OBVIOUS
  <2>1. PICK g \in dirty : Empties(g)
    BY DEF ZilInv, TailInv
  <2>2. g \in Nat /\ p[t].txg \in Nat /\ g <= p[t].txg /\ ~Synced(g) /\ stable \in Nat
    BY <1>1, <2>1 DEF Empties, ZilInv, GroupInv
  <2>. QED  BY <1>1, <2>2 DEF Synced, SyncedIn
<1>. QED  BY <1>1, <1>2, <1>3, PublishKeeps

----------------------------------------------------------------------------
\* zil_create().

\* A suspended log is closed.
LEMMA SuspendedClosed ==
  ASSUME ZilInv, NEW u \in Suspenders, p[u].pc = "suspended"
  PROVE  Closed
<1>. DEFINE S == {v \in Suspenders : p[v].pc # "idle"}
<1>1. zl.suspend = Cardinality(S) /\ ~zl.suspending
  BY DEF ZilInv, SuspendInv
<1>2. u \in S /\ S \in SUBSET Suspenders
  OBVIOUS
<1>. HIDE DEF S
<1>3. IsFiniteSet(S) /\ S # {}
  BY <1>2, SuspendersFinite, FS_Subset
<1>4. Cardinality(S) # 0
  BY <1>3, FS_EmptySet
<1>. QED  BY <1>1, <1>4 DEF Closed

\* A thread that creates a log is the log writer, and finds it open and destroyed.
LEMMA CreatingFact ==
  ASSUME ZilInv, NEW t \in Procs, Creating(t)
  PROVE  /\ mode = "up" /\ zl.writer = t /\ w.lwb = NULL /\ ~Closed
         /\ \A u \in Procs : u # t => p[u].pc \notin WriterPcs
         /\ \A u \in Suspenders : p[u].pc # "suspended"
         /\ zl.lwb # <<>> => ~Issued(Last(zl.lwb))
         /\ IsProc(p[t]) /\ DOMAIN p = Procs /\ p[t].pc # "idle"
<1>1. p[t].pc \in {"create", "created"}
  BY DEF Creating
<1>2. mode = "up" /\ zl.writer = t /\ w.lwb = NULL
      /\ \A u \in Procs : u # t => p[u].pc \notin WriterPcs
  BY <1>1, BusyUp DEF ZilInv, WriterInv, WriterPcs
<1>3. ~Closed /\ (zl.lwb # <<>> => ~Issued(Last(zl.lwb)))
  BY DEF ZilInv, SuspendInv, TailInv
<1>4. \A u \in Suspenders : p[u].pc # "suspended"
  BY <1>3, SuspendedClosed
<1>. QED  BY <1>1, <1>2, <1>3, <1>4, LoopProc

\* The threads after a step of one that creates a log.
LEMMA CreateThreads ==
  ASSUME ZilInv, NEW t \in Procs, Creating(t), NEW q, IsProc(q), Moves(t, q),
         q.pc \in {"created", "push"}, q.pc = "push" => q.txg = 0,
         q.pc = "created" => w'.lwb = NULL,
         zl'.writer = zl.writer, zl'.suspend = zl.suspend, zl'.suspending = zl.suspending,
         w'.lwb # NULL => /\ zl'.lwb # <<>> /\ Last(zl'.lwb) = w'.lwb
                          /\ blk'[w'.lwb].io \in {"none", "init"},
         UNCHANGED mode
  PROVE  /\ DOMAIN p' = Procs /\ \A u \in Procs : IsProc(p'[u])
         /\ WriterInv' /\ SuspendInv'
         /\ \A u \in Procs : u # t => ~Creating(u)'
         /\ \A u \in Procs : p'[u].pc \notin {"log", "sync"}
         /\ \A u \in Suspenders : p'[u].pc # "suspended"
<1>. USE DEF ZilInv
<1>1. /\ DOMAIN p' = Procs /\ \A u \in Procs : IsProc(p'[u])
      /\ p'[t] = q /\ \A u \in Procs : u # t => p'[u] = p[u]
  BY DEF Moves, ShapeInv
<1>2. /\ mode = "up" /\ zl.writer = t /\ w.lwb = NULL /\ ~Closed
      /\ \A u \in Procs : u # t => p[u].pc \notin WriterPcs
      /\ \A u \in Suspenders : p[u].pc # "suspended"
      /\ p[t].pc \in {"create", "created"}
  BY CreatingFact DEF Creating
<1>3. /\ \A u \in Procs : u # t => ~Creating(u)'
      /\ \A u \in Procs : p'[u].pc \notin {"log", "sync"}
  BY <1>1, <1>2 DEF WriterPcs, Creating
<1>4. WriterInv'
  <2>1. \A u \in Procs : p'[u].pc \in WriterPcs <=> u = t
    BY <1>1, <1>2 DEF WriterPcs
  <2>2. \A u \in Procs : Creating(u)' => w'.lwb = NULL
    BY <1>1, <1>3 DEF Creating
  <2>3. \A u \in Procs : p'[u].pc \notin {"created", "recWait", "sync"} => p'[u].txg = 0
    BY <1>1 DEF WriterInv
  <2>. QED  BY <1>2, <2>1, <2>2, <2>3, NullFact DEF WriterInv
<1>5. \A u \in Suspenders : /\ p'[u].pc = "idle" <=> p[u].pc = "idle"
                            /\ p'[u].pc # "suspended"
                            /\ p'[u].pc = "suspWait" <=> p[u].pc = "suspWait"
                            /\ p'[u].pc = "destroy" <=> p[u].pc = "destroy"
  BY <1>1, <1>2, NullFact
<1>6. SuspendInv'
  <2>1. {u \in Suspenders : p'[u].pc # "idle"} = {u \in Suspenders : p[u].pc # "idle"}
    BY <1>5
  <2>2. ~Closed'
    BY <1>2, <1>5 DEF Closed
  <2>3. \A u \in Suspenders : Suspending(u)' <=> Suspending(u)
    BY <1>2, <1>5 DEF Suspending
  <2>4. \A u \in Procs : p'[u].pc \in SuspPcs => u \in Suspenders
    BY <1>1 DEF SuspendInv, SuspPcs
  <2>. QED  BY <1>5, <2>1, <2>2, <2>3, <2>4 DEF SuspendInv
<1>. QED  BY <1>1, <1>3, <1>4, <1>5, <1>6

\* zil_create() keeps the invariant, with a block in the list,
LEMMA CreateBlockKeeps ==
  ASSUME ZilInv, NEW t \in Procs, p[t].pc = "create", DestroyDone,
         NEW b \in Blocks, NEW x, IsBlk(x), blk' = [blk EXCEPT ![b] = x],
         x.birth # 0, x.freed = 0, x.io = "none", x.max_txg \in Nat, x.max_txg <= open,
         zl' = [zl EXCEPT !.lwb = <<b>>],
         NEW q, IsProc(q), Moves(t, q), q.pc = "created",
         q.txg \in Nat, q.txg > stable => q.txg \in dirty',
         Synced(q.txg) => zh.log = b, dirty \subseteq dirty',
         UNCHANGED <<open, stable, active, zsynced, zh, zh_disk, rec, w, mode, crashes>>
  PROVE  ZilInv'
<1>. USE DEF ZilInv
<1>1. Creating(t)
  BY DEF Creating
<1>2. /\ mode = "up" /\ w.lwb = NULL
  BY <1>1, CreatingFact
<1>3. /\ IsZl(zl') /\ zl'.writer = zl.writer /\ zl'.lwb = <<b>> /\ zl'.suspend = zl.suspend
      /\ zl'.suspending = zl.suspending /\ zl'.destroy_txg = zl.destroy_txg
      /\ zl'.keep_first = zl.keep_first /\ zl'.replayed = zl.replayed /\ zl'.itx = zl.itx
  BY DEF ShapeInv, IsZl
<1>4. /\ DOMAIN p' = Procs /\ \A u \in Procs : IsProc(p'[u])
      /\ WriterInv' /\ SuspendInv'
      /\ \A u \in Procs : u # t => ~Creating(u)'
      /\ \A u \in Procs : p'[u].pc \notin {"log", "sync"}
      /\ \A u \in Suspenders : p'[u].pc # "suspended"
  BY <1>1, <1>2, <1>3, CreateThreads
<1>5. p'[t] = q
  BY DEF Moves
<1>6. /\ DOMAIN blk' = Blocks /\ blk'[b] = x /\ \A c \in Blocks : c # b => blk'[c] = blk[c]
      /\ \A c \in Blocks : IsBlk(blk'[c])
  BY DEF ShapeInv
<1>7. <<b>> \in Seq(Blocks) /\ <<b>> # <<>> /\ Len(<<b>>) = 1 /\ DOMAIN <<b>> = {1}
      /\ <<b>>[1] = b /\ Head(<<b>>) = b /\ Last(<<b>>) = b
  BY DEF Last
<1>8. GroupInv' /\ ActiveInv'
  BY <1>6, SameActive DEF GroupInv
<1>9. ShapeInv'
  BY <1>3, <1>4, <1>6, <1>7 DEF ShapeInv
<1>10. RecInv'
  BY <1>3, <1>4, SameRec
<1>11. TailInv'
  <2>1. ~IssuedIn(blk', b)
    BY <1>6 DEF IssuedIn
  <2>. QED  BY <1>3, <1>6, <1>7, <2>1 DEF TailInv, Issued
<1>12. zl.destroy_txg \in Nat /\ stable \in Nat /\ zl.destroy_txg <= stable
       /\ ~Destroying /\ ~Destroying'
  <2>1. zl.destroy_txg \in Nat /\ stable \in Nat /\ zl.destroy_txg <= stable
    BY DEF ShapeInv, GroupInv, DestroyDone
  <2>. QED  BY <1>3, <2>1 DEF Destroying, Synced, SyncedIn
<1>13. DestroyInv'
  BY <1>2, <1>3, <1>12 DEF DestroyInv
<1>14. HeadInv'
  <2>1. CreatedOK(t)'
    BY <1>3, <1>5, <1>6, <1>7 DEF CreatedOK, Synced
  <2>2. \A u \in Procs : p'[u].pc = "created" => u = t
    BY <1>4 DEF Creating
  <2>. QED  BY <1>4, <1>5, <2>1, <2>2 DEF HeadInv
<1>15. BirthInv'
  <2>1. /\ zh.log \in Blocks \cup {NULL} /\ zh_disk.log \in Blocks \cup {NULL}
    BY DEF ShapeInv, IsHeader
  <2>2. \A c \in Blocks : blk[c].birth # 0 => blk'[c].birth # 0
    BY <1>6
  <2>3. \A c \in Blocks : blk'[c].freed # 0 => blk'[c].freed \in dirty /\ c # zh.log
    BY <1>6, <1>12 DEF BirthInv
  <2>. QED  BY <1>3, <1>6, <1>7, <2>1, <2>2, <2>3 DEF BirthInv
<1>. QED  BY <1>4, <1>8, <1>9, <1>10, <1>11, <1>13, <1>14, <1>15

\* or with none.
LEMMA zil_createKeeps ==
  ASSUME ZilInv, NEW t \in Procs, zil_create(t)
  PROVE  ZilInv'
<1>1. /\ p[t].pc = "create" /\ DestroyDone
      /\ UNCHANGED <<open, stable, active, zsynced, zh, zh_disk, rec, w, mode, crashes>>
  BY DEF zil_create, gc_vars, fs_vars, import_vars
<1>2. /\ IsProc(p[t]) /\ DOMAIN p = Procs /\ p[t].txg = 0 /\ IsHeader(zh)
      /\ open \in Nat /\ stable \in Nat /\ stable < open /\ (zsynced => stable + 1 < open)
  BY <1>1, LoopProc DEF ZilInv, ShapeInv, GroupInv
<1>3. CASE zh.log # NULL
  <2>. DEFINE e == blk[zh.log].birth
              x == [NoBlk EXCEPT !.birth = e]
  <2>1. /\ zl' = [zl EXCEPT !.lwb = <<zh.log>>] /\ blk' = [blk EXCEPT ![zh.log] = x]
        /\ p' = [p EXCEPT ![t].pc = "created"] /\ dirty' = dirty
    BY <1>3 DEF zil_create
  <2>2. Moves(t, p'[t]) /\ IsProc(p'[t]) /\ p'[t].pc = "created" /\ p'[t].txg = 0
    BY <1>2, <2>1 DEF Moves, IsProc, AllPcs, WriterPcs
  <2>3. zh.log \in Blocks /\ e # 0
    BY <1>2, <1>3 DEF ZilInv, BirthInv, IsHeader
  <2>. HIDE DEF e
  <2>4. IsBlk(x) /\ x.birth = e /\ x.freed = 0 /\ x.io = "none" /\ x.max_txg = 0
    BY DEF IsBlk, NoBlk
  <2>. HIDE DEF x
  <2>5. /\ x.birth # 0 /\ x.max_txg \in Nat /\ x.max_txg <= open
        /\ p'[t].txg \in Nat /\ (p'[t].txg > stable => p'[t].txg \in dirty')
        /\ dirty \subseteq dirty'
    BY <1>2, <2>1, <2>2, <2>3, <2>4
  <2>. QED  BY <1>1, <2>1, <2>2, <2>3, <2>4, <2>5, CreateBlockKeeps
<1>4. CASE zh.log = NULL
  <2>1. /\ dirty' = dirty \cup {open}
        /\ p' = [p EXCEPT ![t].pc = "created", ![t].txg = open]
        /\ \E n \in Alloc :
             IF n = NULL THEN UNCHANGED <<zl, blk>>
             ELSE /\ zl' = [zl EXCEPT !.lwb = <<n>>]
                  /\ blk' = [blk EXCEPT ![n] = NewLwb(n, open)]
    BY <1>4 DEF zil_create
  <2>2. Moves(t, p'[t]) /\ IsProc(p'[t]) /\ p'[t].pc = "created" /\ p'[t].txg = open
    BY <1>2, <2>1 DEF Moves, IsProc, AllPcs, WriterPcs
  <2>3. ~Synced(open)
    BY <1>2 DEF Synced, SyncedIn
  <2>4. ASSUME NEW n \in Alloc, n # NULL, zl' = [zl EXCEPT !.lwb = <<n>>],
               blk' = [blk EXCEPT ![n] = NewLwb(n, open)]
        PROVE  ZilInv'
    <3>. DEFINE x == NewLwb(n, open)
    <3>1. n \in Blocks
      BY <2>4, AllocFact
    <3>2. IsBlk(x) /\ x.birth # 0 /\ x.freed = 0 /\ x.io = "none" /\ x.max_txg = open
      BY <1>2 DEF IsBlk, NewLwb, NoBlk
    <3>. HIDE DEF x
    <3>3. blk' = [blk EXCEPT ![n] = x]
      BY <2>4 DEF x
    <3>4. /\ x.max_txg \in Nat /\ x.max_txg <= open
          /\ p'[t].txg \in Nat /\ (p'[t].txg > stable => p'[t].txg \in dirty')
          /\ (Synced(p'[t].txg) => zh.log = n)
          /\ dirty \subseteq dirty'
      BY <1>2, <2>1, <2>2, <2>3, <3>2
    <3>. QED  BY <1>1, <2>2, <2>4, <3>1, <3>2, <3>3, <3>4, CreateBlockKeeps
  <2>5. ASSUME UNCHANGED <<zl, blk>>
        PROVE  ZilInv'
    <3>. USE DEF ZilInv
    <3>1. Creating(t)
      BY <1>1 DEF Creating
    <3>2. mode = "up" /\ w.lwb = NULL /\ \A u \in Procs : p[u].pc # "created"
      <4>1. /\ mode = "up" /\ w.lwb = NULL
            /\ \A u \in Procs : u # t => p[u].pc \notin WriterPcs
        BY <3>1, CreatingFact
      <4>. QED  BY <1>1, <4>1 DEF WriterPcs
    <3>3. /\ DOMAIN p' = Procs /\ \A u \in Procs : IsProc(p'[u])
          /\ WriterInv' /\ SuspendInv'
          /\ \A u \in Procs : u # t => ~Creating(u)'
          /\ \A u \in Procs : p'[u].pc \notin {"log", "sync"}
          /\ \A u \in Suspenders : p'[u].pc # "suspended"
      BY <1>1, <2>2, <2>5, <3>1, <3>2, CreateThreads
    <3>4. zl.lwb = <<>>
      <4>1. zl.lwb # <<>> => zh.log = Head(zl.lwb) /\ Head(zl.lwb) \in Blocks
        BY <3>2 DEF HeadInv, ShapeInv
      <4>. QED  BY <1>4, <4>1, NullFact
    <3>5. GroupInv' /\ ActiveInv' /\ ShapeInv' /\ RecInv'
      <4>1. ShapeInv'
        BY <1>1, <2>5, <3>3 DEF ShapeInv
      <4>2. GroupInv' /\ ActiveInv'
        BY <1>1, <2>5, SameActive DEF GroupInv
      <4>3. RecInv'
        BY <1>1, <2>5, <3>3, SameRec
      <4>. QED  BY <4>1, <4>2, <4>3
    <3>6. TailInv'
      BY <2>5, <3>4 DEF TailInv
    <3>7. Destroying' <=> Destroying
      BY <1>1, <2>5 DEF Destroying, Synced, SyncedIn
    <3>8. DestroyInv'
      <4>1. zl.destroy_txg <= stable /\ zl.destroy_txg \in Nat
        BY <1>1 DEF DestroyDone, ShapeInv
      <4>. QED  BY <1>1, <1>2, <2>1, <2>5, <3>2, <3>7, <4>1 DEF DestroyInv
    <3>9. HeadInv'
      <4>1. CreatedOK(t)'
        BY <1>1, <1>2, <1>4, <2>1, <2>2, <2>5, <3>4 DEF CreatedOK
      <4>2. \A u \in Procs : p'[u].pc = "created" => u = t
        BY <3>3 DEF Creating
      <4>. QED  BY <2>2, <3>3, <4>1, <4>2 DEF HeadInv
    <3>10. BirthInv'
      BY <1>1, <2>1, <2>5, <3>7 DEF BirthInv
    <3>. QED  BY <3>3, <3>5, <3>6, <3>8, <3>9, <3>10
  <2>. QED  BY <2>1, <2>4, <2>5
<1>. QED  BY <1>3, <1>4

\* zil_created() keeps the invariant.
LEMMA zil_createdKeeps ==
  ASSUME ZilInv, NEW t \in Procs, zil_created(t)
  PROVE  ZilInv'
<1>. DEFINE l == IF zl.lwb = <<>> THEN NULL ELSE Last(zl.lwb)
<1>1. /\ p[t].pc = "created" /\ stable >= p[t].txg
      /\ p' = [p EXCEPT ![t].pc = "push", ![t].txg = 0]
      /\ w' = [NoWriter EXCEPT !.lwb = l, !.next = After(0)]
      /\ UNCHANGED <<open, stable, active, dirty, zsynced, zl, blk, zh, zh_disk, rec, mode, crashes>>
  BY DEF zil_created, gc_vars, fs_vars, import_vars
<1>. USE DEF ZilInv
<1>2. Creating(t)
  BY <1>1 DEF Creating
<1>3. /\ mode = "up" /\ IsProc(p[t]) /\ DOMAIN p = Procs
      /\ \A u \in Procs : u # t => p[u].pc \notin WriterPcs
      /\ zl.lwb # <<>> => ~Issued(Last(zl.lwb))
  BY <1>2, CreatingFact
<1>4. Moves(t, p'[t]) /\ IsProc(p'[t]) /\ p'[t].pc = "push" /\ p'[t].txg = 0
  BY <1>1, <1>3 DEF Moves, IsProc, AllPcs, WriterPcs
<1>5. CreatedOK(t) /\ p[t].txg \in Nat /\ Synced(p[t].txg)
  BY <1>1 DEF HeadInv, CreatedOK, Synced, SyncedIn, GroupInv
<1>6. zl.lwb # <<>> => /\ Last(zl.lwb) = Head(zl.lwb) /\ Head(zl.lwb) \in Blocks
                       /\ zh.log = Head(zl.lwb) /\ blk[Last(zl.lwb)].io = "none"
  BY <1>5 DEF CreatedOK, Last, ShapeInv
<1>7. l \in Blocks \cup {NULL}
  BY <1>6
<1>8. IsWriter(w') /\ w'.lwb = l
  <2>1. DOMAIN NoWriter = {"lwb", "itx", "next", "commit_seq"}
    BY DEF NoWriter
  <2>. HIDE DEF NoWriter, l
  <2>. QED  BY <1>1, <1>7, <2>1 DEF IsWriter
<1>9. /\ DOMAIN p' = Procs /\ \A u \in Procs : IsProc(p'[u])
      /\ WriterInv' /\ SuspendInv'
      /\ \A u \in Procs : u # t => ~Creating(u)'
      /\ \A u \in Procs : p'[u].pc \notin {"log", "sync"}
      /\ \A u \in Suspenders : p'[u].pc # "suspended"
  <2>1. w'.lwb # NULL => /\ zl'.lwb # <<>> /\ Last(zl'.lwb) = w'.lwb
                         /\ blk'[w'.lwb].io \in {"none", "init"}
    BY <1>1, <1>6, <1>8
  <2>2. zl'.writer = zl.writer /\ zl'.suspend = zl.suspend /\ zl'.suspending = zl.suspending
    BY <1>1
  <2>. HIDE DEF l
  <2>. QED  BY <1>1, <1>2, <1>4, <2>1, <2>2, CreateThreads
<1>10. GroupInv' /\ ActiveInv'
  BY <1>1, SameActive DEF GroupInv
<1>11. ShapeInv'
  BY <1>1, <1>8, <1>9 DEF ShapeInv
<1>12. RecInv'
  BY <1>1, <1>9, SameRec
<1>13. TailInv'
  BY <1>1, <1>3 DEF TailInv, Issued
<1>14. Destroying' <=> Destroying
  BY <1>1 DEF Destroying, Synced, SyncedIn
<1>15. \A u \in Procs : p'[u].pc # "created"
  BY <1>4, <1>9 DEF Creating
<1>16. DestroyInv'
  <2>1. ~(zl.destroy_txg > stable)
    BY <1>1 DEF DestroyInv
  <2>. QED  BY <1>1, <1>14, <2>1 DEF DestroyInv
<1>17. HeadInv'
  BY <1>1, <1>6, <1>9, <1>15 DEF HeadInv
<1>18. BirthInv'
  BY <1>1, <1>14 DEF BirthInv
<1>. QED  BY <1>9, <1>10, <1>11, <1>12, <1>13, <1>16, <1>17, <1>18

----------------------------------------------------------------------------
\* zil_suspend() and zil_resume().

\* A thread that is not the log writer, and does not become it.
Aside(u) ==
  \/ p'[u] = p[u]
  \/ p[u].pc \notin WriterPcs /\ p'[u].pc \notin WriterPcs /\ p'[u].txg = 0

\* A step of such threads that changes no more of zilog_t than who suspends it.
LEMMA AsideKeeps ==
  ASSUME ZilInv, mode = "up", IsZl(zl'), zl'.suspend \in Nat, zl'.suspending \in BOOLEAN,
         zl'.writer = zl.writer, zl'.lwb = zl.lwb, zl'.itx = zl.itx,
         zl'.destroy_txg = zl.destroy_txg, zl'.keep_first = zl.keep_first,
         zl'.replayed = zl.replayed,
         DOMAIN p' = Procs, \A u \in Procs : IsProc(p'[u]) /\ Aside(u),
         SuspendInv',
         (\E u \in Suspenders : p'[u].pc = "suspended") =>
           zl.lwb = <<>> /\ (zh.log # NULL => Destroying /\ ~zl.keep_first),
         UNCHANGED <<open, stable, active, dirty, zsynced, blk, zh, zh_disk, rec, w, mode, crashes>>
  PROVE  ZilInv'
<1>. USE DEF ZilInv
<1>1. ASSUME NEW u \in Procs
      PROVE  /\ p'[u].pc \in WriterPcs <=> p[u].pc \in WriterPcs
             /\ p'[u].pc \in WriterPcs => p'[u] = p[u]
             /\ p[u].pc \in WriterPcs => p'[u] = p[u]
  BY DEF Aside
<1>2. \A u \in Procs : /\ p'[u].pc = "log" => p[u].pc = "log"
                       /\ p'[u].pc = "sync" => p'[u] = p[u]
                       /\ p'[u].pc = "created" <=> p[u].pc = "created"
                       /\ p'[u].pc = "created" => p'[u] = p[u]
                       /\ Creating(u)' <=> Creating(u)
                       /\ p'[u].pc \notin {"created", "recWait", "sync"} => p'[u].txg = 0
  BY <1>1 DEF WriterPcs, Creating, Aside, WriterInv
<1>3. GroupInv' /\ ActiveInv'
  BY SameActive DEF GroupInv
<1>4. ShapeInv'
  BY DEF ShapeInv
<1>5. RecInv'
  BY <1>2, SameRec
<1>6. WriterInv'
  BY <1>1, <1>2 DEF WriterInv
<1>7. Destroying' <=> Destroying
  BY DEF Destroying, Synced, SyncedIn
<1>8. DestroyInv'
  BY <1>2, <1>7 DEF DestroyInv
<1>9. HeadInv'
  <2>1. \A u \in Procs : p'[u].pc = "created" => CreatedOK(u)'
    BY <1>2 DEF HeadInv, CreatedOK, Synced, SyncedIn
  <2>. QED  BY <1>2, <1>7, <2>1 DEF HeadInv
<1>10. TailInv'
  <2>1. \A g \in dirty : Empties(g) => Empties(g)'
    BY <1>2 DEF Empties, Synced, SyncedIn, Issued
  <2>. QED  BY <1>2, <2>1 DEF TailInv, Issued
<1>11. BirthInv'
  BY <1>7 DEF BirthInv
<1>. QED  BY <1>3, <1>4, <1>5, <1>6, <1>8, <1>9, <1>10, <1>11

\* How many threads suspend the log.
LEMMA SuspendCount ==
  ASSUME ZilInv, NEW t \in Suspenders
  PROVE  LET S == {u \in Suspenders : p[u].pc # "idle"}
         IN /\ IsFiniteSet(S) /\ zl.suspend = Cardinality(S) /\ zl.suspend \in Nat
            /\ zl.suspend = 0 => \A u \in Suspenders : p[u].pc = "idle"
            /\ p[t].pc # "idle" => zl.suspend # 0 /\ Cardinality(S \ {t}) = zl.suspend - 1
            /\ p[t].pc = "idle" => Cardinality(S \cup {t}) = zl.suspend + 1
<1>. DEFINE S == {u \in Suspenders : p[u].pc # "idle"}
<1>1. zl.suspend = Cardinality(S) /\ zl.suspend \in Nat
  BY DEF ZilInv, SuspendInv, ShapeInv
<1>2. S \in SUBSET Suspenders /\ (t \in S <=> p[t].pc # "idle")
      /\ (S = {} => \A u \in Suspenders : p[u].pc = "idle")
  OBVIOUS
<1>. HIDE DEF S
<1>3. IsFiniteSet(S)
  BY <1>2, SuspendersFinite, FS_Subset
<1>4. Cardinality(S) = 0 <=> S = {}
  BY <1>3, FS_EmptySet
<1>5. t \in S => Cardinality(S \ {t}) = Cardinality(S) - 1 /\ S # {}
  BY <1>3, FS_RemoveElement
<1>6. t \notin S => Cardinality(S \cup {t}) = Cardinality(S) + 1
  BY <1>3, FS_AddElement
<1>. QED  BY <1>1, <1>2, <1>3, <1>4, <1>5, <1>6 DEF S

\* zil_suspend() keeps the invariant.
LEMMA zil_suspendKeeps ==
  ASSUME ZilInv, NEW t \in Suspenders, zil_suspend(t)
  PROVE  ZilInv'
<1>. DEFINE S == {u \in Suspenders : p[u].pc # "idle"}
            x == IF zl.suspend = 0 THEN "suspCommit"
                 ELSE IF zl.suspending THEN "suspWait" ELSE "suspended"
            y == zl.suspending \/ zl.suspend = 0
<1>1. /\ mode = "up" /\ p[t].pc = "idle" /\ p' = [p EXCEPT ![t].pc = x]
      /\ zl' = [zl EXCEPT !.suspend = zl.suspend + 1, !.suspending = y]
      /\ UNCHANGED <<open, stable, active, dirty, zsynced, blk, zh, zh_disk, rec, w, mode, crashes>>
  BY DEF zil_suspend, gc_vars, fs_vars, import_vars
<1>2. /\ IsFiniteSet(S) /\ zl.suspend = Cardinality(S) /\ zl.suspend \in Nat
      /\ zl.suspend = 0 => \A u \in Suspenders : p[u].pc = "idle"
      /\ Cardinality(S \cup {t}) = zl.suspend + 1
  BY <1>1, SuspendCount
<1>3. /\ t \in Procs /\ IsProc(p[t]) /\ DOMAIN p = Procs /\ p[t].txg = 0 /\ IsZl(zl)
      /\ zl.suspending \in BOOLEAN
  BY <1>1, LoopProc, NullFact DEF ZilInv, ShapeInv
<1>4. y \in BOOLEAN
  OBVIOUS
<1>5. x \in {"suspCommit", "suspWait", "suspended"}
  OBVIOUS
<1>6. y <=> zl.suspending \/ zl.suspend = 0
  OBVIOUS
<1>7. /\ x = "suspCommit" <=> zl.suspend = 0
      /\ x = "suspWait" => zl.suspending
      /\ x = "suspended" => ~zl.suspending /\ zl.suspend # 0
  OBVIOUS
<1>. HIDE DEF x, y
<1>8. Moves(t, p'[t]) /\ IsProc(p'[t]) /\ p'[t].pc = x /\ p'[t].txg = 0
  BY <1>1, <1>3, <1>5 DEF Moves, IsProc, AllPcs, SuspPcs
<1>9. /\ IsZl(zl') /\ zl'.writer = zl.writer /\ zl'.lwb = zl.lwb
      /\ zl'.suspend = zl.suspend + 1 /\ zl'.suspending = y
      /\ zl'.destroy_txg = zl.destroy_txg /\ zl'.keep_first = zl.keep_first
      /\ zl'.replayed = zl.replayed /\ zl'.itx = zl.itx
  BY <1>1, <1>3 DEF IsZl
<1>10. \A u \in Procs : u # t => p'[u] = p[u]
  BY <1>8 DEF Moves
<1>11. \A u \in Procs : IsProc(p'[u]) /\ Aside(u)
  BY <1>1, <1>5, <1>8, <1>10 DEF Aside, WriterPcs, ZilInv, ShapeInv
<1>12. SuspendInv'
  <2>1. /\ \A u \in Suspenders : p[u].pc = "suspended" => ~zl.suspending
        /\ \A u \in Suspenders : Suspending(u) => zl.suspending
        /\ \A u, v \in Suspenders :
             Suspending(u) /\ Suspending(v) /\ u # v =>
               p[u].pc = "suspWait" \/ p[v].pc = "suspWait"
        /\ \A u \in Procs : p[u].pc \in SuspPcs => u \in Suspenders
        /\ Closed => w.lwb = NULL /\ \A u \in Procs : ~Creating(u)
    BY DEF ZilInv, SuspendInv
  <2>2. {u \in Suspenders : p'[u].pc # "idle"} = S \cup {t}
    BY <1>5, <1>8, <1>10, NullFact
  <2>3. \A u \in Suspenders : p'[u].pc = "suspended" => ~zl'.suspending
    BY <1>2, <1>6, <1>7, <1>8, <1>9, <1>10, <2>1, NullFact
  <2>4. \A u \in Suspenders : Suspending(u)' => zl'.suspending
    BY <1>6, <1>7, <1>8, <1>9, <1>10, <1>5, <2>1, NullFact DEF Suspending
  <2>5. ASSUME NEW u \in Suspenders, NEW v \in Suspenders, Suspending(u)', Suspending(v)', u # v
        PROVE  p'[u].pc = "suspWait" \/ p'[v].pc = "suspWait"
    <3>1. \A s \in Suspenders : s # t => (Suspending(s)' <=> Suspending(s)) /\ p'[s].pc = p[s].pc
      BY <1>10, NullFact DEF Suspending
    <3>2. \A s \in Suspenders : Suspending(s) => zl.suspend # 0
      BY <1>2 DEF Suspending
    <3>3. Suspending(t)' /\ zl.suspend # 0 => p'[t].pc = "suspWait"
      BY <1>5, <1>7, <1>8 DEF Suspending
    <3>. QED  BY <2>1, <2>5, <3>1, <3>2, <3>3
  <2>6. \A u \in Procs : p'[u].pc \in SuspPcs => u \in Suspenders
    BY <1>10, <2>1
  <2>7. Closed' => Closed
    <3>1. \A u \in Suspenders : p'[u].pc = "destroy" => p[u].pc = "destroy"
      BY <1>5, <1>8, <1>10, NullFact
    <3>. QED  BY <1>2, <1>6, <1>9, <3>1 DEF Closed
  <2>8. \A u \in Procs : Creating(u)' => Creating(u)
    BY <1>5, <1>8, <1>10 DEF Creating
  <2>. QED  BY <1>1, <1>2, <1>9, <2>1, <2>2, <2>3, <2>4, <2>5, <2>6, <2>7, <2>8 DEF SuspendInv
<1>13. (\E u \in Suspenders : p'[u].pc = "suspended") =>
         zl.lwb = <<>> /\ (zh.log # NULL => Destroying /\ ~zl.keep_first)
  <2>1. (\E u \in Suspenders : p[u].pc = "suspended") =>
          zl.lwb = <<>> /\ (zh.log # NULL => Destroying /\ ~zl.keep_first)
    BY DEF ZilInv, HeadInv
  <2>2. (\E u \in Suspenders : p'[u].pc = "suspended") => \E u \in Suspenders : p[u].pc = "suspended"
    <3>. SUFFICES ASSUME NEW u \in Suspenders, p'[u].pc = "suspended"
                  PROVE  \E v \in Suspenders : p[v].pc = "suspended"
      OBVIOUS
    <3>1. CASE u # t
      BY <1>10, <3>1, NullFact
    <3>2. CASE u = t
      <4>1. ~zl.suspending /\ S # {}
        BY <1>2, <1>7, <1>8, <3>2, FS_EmptySet
      <4>2. PICK v \in Suspenders : p[v].pc # "idle"
        BY <4>1
      <4>3. ~Suspending(v)
        BY <4>1 DEF ZilInv, SuspendInv
      <4>. QED  BY <4>2, <4>3 DEF Suspending
    <3>. QED  BY <3>1, <3>2
  <2>. QED  BY <2>1, <2>2
<1>14. DOMAIN p' = Procs /\ zl'.suspend \in Nat /\ zl'.suspending \in BOOLEAN
  BY <1>2, <1>4, <1>8, <1>9 DEF Moves
<1>. QED  BY <1>1, <1>9, <1>11, <1>12, <1>13, <1>14, AsideKeeps

\* SuspendDrain() keeps the invariant.
LEMMA SuspendDrainKeeps ==
  ASSUME ZilInv, NEW t \in Suspenders, SuspendDrain(t)
  PROVE  ZilInv'
<1>. DEFINE x == IF zl.writer # NULL THEN "drainWait" ELSE "destroy"
<1>1. /\ p[t].pc = "drain" /\ p' = [p EXCEPT ![t].pc = x]
      /\ UNCHANGED <<open, stable, active, dirty, zsynced, zl, blk, zh, zh_disk, rec, w, mode, crashes>>
  BY DEF SuspendDrain, gc_vars, fs_vars, import_vars
<1>2. /\ t \in Procs /\ IsProc(p[t]) /\ DOMAIN p = Procs /\ p[t].txg = 0 /\ IsZl(zl)
      /\ zl.suspend \in Nat /\ zl.suspending \in BOOLEAN
  BY <1>1, LoopProc, NullFact DEF ZilInv, ShapeInv
<1>3. x \in {"drainWait", "destroy"} /\ (x = "destroy" => zl.writer = NULL)
  OBVIOUS
<1>. HIDE DEF x
<1>4. Moves(t, p'[t]) /\ IsProc(p'[t]) /\ p'[t].pc = x /\ p'[t].txg = 0
  BY <1>1, <1>2, <1>3 DEF Moves, IsProc, AllPcs, SuspPcs
<1>5. \A u \in Procs : u # t => p'[u] = p[u]
  BY <1>4 DEF Moves
<1>6. \A u \in Procs : IsProc(p'[u]) /\ Aside(u)
  BY <1>1, <1>3, <1>4, <1>5 DEF Aside, WriterPcs, ZilInv, ShapeInv
<1>7. mode = "up"
  BY <1>1, <1>2, BusyUp
<1>8. SuspendInv'
  <2>1. /\ zl.suspend = Cardinality({u \in Suspenders : p[u].pc # "idle"})
        /\ \A u \in Suspenders : p[u].pc = "suspended" => ~zl.suspending
        /\ \A u \in Suspenders : Suspending(u) => zl.suspending
        /\ \A u, v \in Suspenders :
             Suspending(u) /\ Suspending(v) /\ u # v =>
               p[u].pc = "suspWait" \/ p[v].pc = "suspWait"
        /\ \A u \in Procs : p[u].pc \in SuspPcs => u \in Suspenders
        /\ Closed => w.lwb = NULL /\ \A u \in Procs : ~Creating(u)
    BY DEF ZilInv, SuspendInv
  <2>2. \A u \in Suspenders : /\ p'[u].pc = "idle" <=> p[u].pc = "idle"
                              /\ p'[u].pc = "suspended" <=> p[u].pc = "suspended"
                              /\ p'[u].pc = "suspWait" <=> p[u].pc = "suspWait"
    BY <1>1, <1>3, <1>4, <1>5, NullFact
  <2>3. {u \in Suspenders : p'[u].pc # "idle"} = {u \in Suspenders : p[u].pc # "idle"}
    BY <2>2
  <2>4. \A u \in Suspenders : Suspending(u)' <=> Suspending(u)
    BY <2>2 DEF Suspending
  <2>5. \A u \in Procs : p'[u].pc \in SuspPcs => u \in Suspenders
    BY <1>5, <2>1
  <2>6. \A u \in Procs : Creating(u)' => Creating(u)
    BY <1>3, <1>4, <1>5 DEF Creating
  <2>7. Closed' => w.lwb = NULL /\ \A u \in Procs : ~Creating(u)
    <3>1. CASE zl.writer = NULL
      BY <3>1, NullFact DEF ZilInv, WriterInv, Creating, WriterPcs
    <3>2. CASE zl.writer # NULL
      <4>1. \A u \in Suspenders : p'[u].pc = "destroy" => p[u].pc = "destroy"
        BY <1>3, <1>4, <1>5, <3>2, NullFact
      <4>. QED  BY <1>1, <2>1, <4>1 DEF Closed
    <3>. QED  BY <3>1, <3>2
  <2>. QED  BY <1>1, <2>1, <2>2, <2>3, <2>4, <2>5, <2>6, <2>7 DEF SuspendInv
<1>9. (\E u \in Suspenders : p'[u].pc = "suspended") =>
         zl.lwb = <<>> /\ (zh.log # NULL => Destroying /\ ~zl.keep_first)
  BY <1>3, <1>4, <1>5, NullFact DEF ZilInv, HeadInv
<1>10. DOMAIN p' = Procs
  BY <1>4 DEF Moves
<1>. QED  BY <1>1, <1>2, <1>6, <1>7, <1>8, <1>9, <1>10, AsideKeeps

\* zil_resume() keeps the invariant.
LEMMA zil_resumeKeeps ==
  ASSUME ZilInv, NEW t \in Suspenders, zil_resume(t)
  PROVE  ZilInv'
<1>. DEFINE S == {u \in Suspenders : p[u].pc # "idle"}
<1>1. /\ p[t].pc = "suspended" /\ p' = [p EXCEPT ![t] = Idle]
      /\ zl' = [zl EXCEPT !.suspend = zl.suspend - 1]
      /\ UNCHANGED <<open, stable, active, dirty, zsynced, blk, zh, zh_disk, rec, w, mode, crashes>>
  BY DEF zil_resume, gc_vars, fs_vars, import_vars
<1>2. /\ zl.suspend \in Nat /\ zl.suspend # 0 /\ Cardinality(S \ {t}) = zl.suspend - 1
  BY <1>1, SuspendCount
<1>3. /\ t \in Procs /\ IsProc(p[t]) /\ DOMAIN p = Procs /\ IsZl(zl)
      /\ zl.suspending \in BOOLEAN /\ mode = "up"
  BY <1>1, LoopProc, BusyUp, NullFact DEF ZilInv, ShapeInv
<1>4. IsProc(Idle) /\ Idle.pc = "idle" /\ Idle.txg = 0
  BY DEF IsProc, AllPcs, Idle
<1>5. Moves(t, p'[t]) /\ p'[t] = Idle
  BY <1>1, <1>3 DEF Moves
<1>6. \A u \in Procs : u # t => p'[u] = p[u]
  BY <1>5 DEF Moves
<1>7. \A u \in Procs : IsProc(p'[u]) /\ Aside(u)
  BY <1>1, <1>4, <1>5, <1>6 DEF Aside, WriterPcs, ZilInv, ShapeInv
<1>8. /\ IsZl(zl') /\ zl'.writer = zl.writer /\ zl'.lwb = zl.lwb
      /\ zl'.suspend = zl.suspend - 1 /\ zl'.suspending = zl.suspending
      /\ zl'.destroy_txg = zl.destroy_txg /\ zl'.keep_first = zl.keep_first
      /\ zl'.replayed = zl.replayed /\ zl'.itx = zl.itx
  BY <1>1, <1>3 DEF IsZl
<1>9. SuspendInv'
  <2>1. /\ \A u \in Suspenders : p[u].pc = "suspended" => ~zl.suspending
        /\ \A u \in Suspenders : Suspending(u) => zl.suspending
        /\ \A u, v \in Suspenders :
             Suspending(u) /\ Suspending(v) /\ u # v =>
               p[u].pc = "suspWait" \/ p[v].pc = "suspWait"
        /\ \A u \in Procs : p[u].pc \in SuspPcs => u \in Suspenders
        /\ Closed => w.lwb = NULL /\ \A u \in Procs : ~Creating(u)
    BY DEF ZilInv, SuspendInv
  <2>2. {u \in Suspenders : p'[u].pc # "idle"} = S \ {t}
    BY <1>4, <1>5, <1>6, NullFact
  <2>3. \A u \in Suspenders : /\ p'[u].pc = "suspended" => p[u].pc = "suspended"
                              /\ Suspending(u)' => Suspending(u)
                              /\ Suspending(u)' => p'[u].pc = p[u].pc
                              /\ p'[u].pc = "destroy" => p[u].pc = "destroy"
    BY <1>4, <1>5, <1>6, NullFact DEF Suspending
  <2>4. \A u \in Procs : p'[u].pc \in SuspPcs => u \in Suspenders
    BY <1>6, <2>1
  <2>5. \A u \in Procs : Creating(u)' => Creating(u)
    BY <1>4, <1>5, <1>6 DEF Creating
  <2>6. Closed' => Closed
    BY <1>2, <1>8, <2>3 DEF Closed
  <2>. QED  BY <1>1, <1>2, <1>8, <2>1, <2>2, <2>3, <2>4, <2>5, <2>6 DEF SuspendInv
<1>10. (\E u \in Suspenders : p'[u].pc = "suspended") =>
         zl.lwb = <<>> /\ (zh.log # NULL => Destroying /\ ~zl.keep_first)
  BY <1>4, <1>5, <1>6, NullFact DEF ZilInv, HeadInv
<1>11. DOMAIN p' = Procs /\ zl'.suspend \in Nat
  BY <1>2, <1>5, <1>8 DEF Moves
<1>. QED  BY <1>1, <1>3, <1>7, <1>8, <1>9, <1>10, <1>11, AsideKeeps

----------------------------------------------------------------------------
\* zil_destroy().

\* Freeing blocks changes nothing else about them.
LEMMA FreeFact ==
  ASSUME ZilInv, NEW X, NEW g
  PROVE  /\ DOMAIN FreeBlocks(X, g) = Blocks
         /\ \A b \in Blocks :
              /\ IsBlk(FreeBlocks(X, g)[b]) /\ FreeBlocks(X, g)[b].io = blk[b].io
              /\ FreeBlocks(X, g)[b].max_txg = blk[b].max_txg
              /\ FreeBlocks(X, g)[b].birth = blk[b].birth
              /\ FreeBlocks(X, g)[b].freed = (IF b \in X THEN g ELSE blk[b].freed)
<1>1. DOMAIN FreeBlocks(X, g) = Blocks
  BY DEF FreeBlocks
<1>2. ASSUME NEW b \in Blocks
      PROVE  /\ IsBlk(FreeBlocks(X, g)[b]) /\ FreeBlocks(X, g)[b].io = blk[b].io
             /\ FreeBlocks(X, g)[b].max_txg = blk[b].max_txg
             /\ FreeBlocks(X, g)[b].birth = blk[b].birth
             /\ FreeBlocks(X, g)[b].freed = (IF b \in X THEN g ELSE blk[b].freed)
  <2>1. IsBlk(blk[b])
    BY DEF ZilInv, ShapeInv
  <2>2. CASE b \in X
    <3>1. FreeBlocks(X, g)[b] = [blk[b] EXCEPT !.freed = g]
      BY <2>2 DEF FreeBlocks
    <3>. QED  BY <2>1, <2>2, <3>1 DEF IsBlk
  <2>3. CASE b \notin X
    <3>1. FreeBlocks(X, g)[b] = blk[b]
      BY <2>3 DEF FreeBlocks
    <3>. QED  BY <2>1, <2>3, <3>1
  <2>. QED  BY <2>2, <2>3
<1>. QED  BY <1>1, <1>2

\* A log that is not being destroyed already is from now on.
LEMMA DestroyedKeeps ==
  ASSUME ZilInv, zh.log # NULL, NEW keep \in BOOLEAN, NEW X, keep => X = {},
         zl.destroy_txg <= stable, w.lwb = NULL, \A u \in Procs : p[u].pc # "created",
         IsZl(zl'), zl'.destroy_txg = open, zl'.keep_first = keep, zl'.lwb = <<>>,
         zl'.writer = zl.writer, zl'.itx = zl.itx,
         zl'.suspend \in Nat, zl'.suspending \in BOOLEAN,
         dirty' = dirty \cup {open}, blk' = FreeBlocks(X, open),
         DOMAIN p' = Procs, \A u \in Procs : IsProc(p'[u]) /\ Aside(u), SuspendInv',
         (\E u \in Suspenders : p'[u].pc = "suspended") => ~keep,
         mode' \in {"up", "replayed"}, mode' # "up" => \A u \in Procs : p'[u] = Idle,
         UNCHANGED <<open, stable, active, zsynced, zh, zh_disk, rec, w, crashes>>
  PROVE  ZilInv'
<1>. USE DEF ZilInv
<1>1. ASSUME NEW u \in Procs
      PROVE  /\ p'[u].pc \in WriterPcs <=> p[u].pc \in WriterPcs
             /\ p'[u].pc \in WriterPcs => p'[u] = p[u]
  BY DEF Aside
<1>2. \A u \in Procs : /\ p'[u].pc = "log" => p[u].pc = "log"
                       /\ p'[u].pc # "created"
                       /\ Creating(u)' => Creating(u)
                       /\ p'[u].pc \notin {"created", "recWait", "sync"} => p'[u].txg = 0
  BY <1>1 DEF WriterPcs, Creating, Aside, WriterInv
<1>3. /\ DOMAIN blk' = Blocks
      /\ \A b \in Blocks :
           /\ IsBlk(blk'[b]) /\ blk'[b].io = blk[b].io /\ blk'[b].birth = blk[b].birth
           /\ blk'[b].freed = (IF b \in X THEN open ELSE blk[b].freed)
  BY FreeFact
<1>4. GroupInv' /\ ActiveInv'
  BY <1>3, SameActive DEF GroupInv
<1>5. open \in Nat /\ stable \in Nat /\ zl.destroy_txg \in Nat
      /\ ~Destroying /\ Destroying'
  <2>1. open \in Nat /\ stable \in Nat /\ stable < open /\ (zsynced => stable + 1 < open)
        /\ zl.destroy_txg \in Nat
    BY DEF GroupInv, ShapeInv
  <2>. QED  BY <2>1 DEF Destroying, Synced, SyncedIn
<1>6. ShapeInv'
  <2>1. <<>> \in Seq(Blocks) /\ mode' \in Modes
    BY DEF Modes
  <2>. QED  BY <1>3, <1>5, <2>1 DEF ShapeInv
<1>7. RecInv'
  BY <1>2, SameRec
<1>8. WriterInv'
  BY <1>1, <1>2 DEF WriterInv
<1>9. DestroyInv'
  BY <1>2, <1>5 DEF DestroyInv
<1>10. HeadInv'
  BY <1>2, <1>5 DEF HeadInv
<1>11. TailInv'
  BY DEF TailInv
<1>12. BirthInv'
  <2>1. /\ zh.log \in Blocks \cup {NULL} /\ zh_disk.log \in Blocks \cup {NULL}
    BY DEF ShapeInv, IsHeader
  <2>2. ASSUME NEW b \in Blocks, blk'[b].freed # 0
        PROVE  /\ blk'[b].freed \in dirty'
               /\ b = zh.log => Destroying' /\ ~zl'.keep_first /\ blk'[b].freed = zl'.destroy_txg
    <3>1. CASE b \in X
      BY <1>3, <1>5, <3>1
    <3>2. CASE b \notin X
      BY <1>3, <1>5, <2>2, <3>2 DEF BirthInv
    <3>. QED  BY <3>1, <3>2
  <2>3. DOMAIN zl'.lwb = {}
    OBVIOUS
  <2>. QED  BY <1>3, <2>1, <2>2, <2>3 DEF BirthInv
<1>. QED  BY <1>4, <1>6, <1>7, <1>8, <1>9, <1>10, <1>11, <1>12

\* SuspendDestroy() keeps the invariant.
LEMMA SuspendDestroyKeeps ==
  ASSUME ZilInv, NEW t \in Suspenders, SuspendDestroy(t)
  PROVE  ZilInv'
<1>. DEFINE n == FALSE
            z == [zl EXCEPT !.suspending = n]
            s == [Idle EXCEPT !.pc = "suspended"]
<1>1. /\ p[t].pc = "destroy" /\ DestroyDone /\ Destroy(FALSE, z)
      /\ p' = [u \in Procs |-> IF u = t \/ p[u].pc = "suspWait" THEN s ELSE p[u]]
      /\ UNCHANGED <<open, stable, active, zsynced, zh, zh_disk, rec, w, mode, crashes>>
  BY DEF SuspendDestroy, gc_vars, fs_vars, import_vars
<1>2. /\ t \in Procs /\ mode = "up" /\ DOMAIN p = Procs /\ \A u \in Procs : IsProc(p[u])
      /\ IsZl(zl) /\ zl.suspend \in Nat
  BY <1>1, BusyUp, NullFact DEF ZilInv, ShapeInv
<1>3. n \in BOOLEAN /\ ~n
  OBVIOUS
<1>. HIDE DEF n
<1>4. /\ IsZl(z) /\ z.writer = zl.writer /\ z.lwb = zl.lwb
      /\ z.suspend = zl.suspend /\ z.suspending = n
      /\ z.destroy_txg = zl.destroy_txg /\ z.keep_first = zl.keep_first
      /\ z.replayed = zl.replayed /\ z.itx = zl.itx
  BY <1>2 DEF IsZl
<1>. HIDE DEF z
<1>5. IsProc(s) /\ s.pc = "suspended" /\ s.txg = 0
  BY DEF IsProc, AllPcs, SuspPcs, Idle
<1>. HIDE DEF s
<1>6. /\ DOMAIN p' = Procs
      /\ \A u \in Procs : p'[u] = (IF u = t \/ p[u].pc = "suspWait" THEN s ELSE p[u])
  BY <1>1
<1>7. \A u \in Procs : IsProc(p'[u]) /\ Aside(u)
  BY <1>1, <1>2, <1>5, <1>6 DEF Aside, WriterPcs
<1>8. Suspending(t) /\ zl.suspending /\ zl.suspend # 0 /\ Closed
  <2>1. zl.suspend # 0
    BY <1>1, SuspendCount
  <2>2. Suspending(t) /\ zl.suspending
    BY <1>1 DEF Suspending, ZilInv, SuspendInv
  <2>. QED  BY <1>1, <2>1, <2>2 DEF Closed
<1>9. w.lwb = NULL /\ \A u \in Procs : ~Creating(u)
  BY <1>8 DEF ZilInv, SuspendInv
<1>10. zl'.suspend = zl.suspend /\ zl'.suspending = n
  BY <1>1, <1>4 DEF Destroy, Destroyed, IsZl
<1>11. SuspendInv'
  <2>1. /\ zl.suspend = Cardinality({u \in Suspenders : p[u].pc # "idle"})
        /\ \A u, v \in Suspenders :
             Suspending(u) /\ Suspending(v) /\ u # v =>
               p[u].pc = "suspWait" \/ p[v].pc = "suspWait"
        /\ \A u \in Procs : p[u].pc \in SuspPcs => u \in Suspenders
    BY DEF ZilInv, SuspendInv
  <2>2. {u \in Suspenders : p'[u].pc # "idle"} = {u \in Suspenders : p[u].pc # "idle"}
    BY <1>1, <1>5, <1>6, NullFact
  <2>3. \A u \in Suspenders : u # t /\ Suspending(u) => p[u].pc = "suspWait"
    BY <1>1, <1>8, <2>1
  <2>4. \A u \in Suspenders : ~Suspending(u)'
    BY <1>5, <1>6, <2>3, NullFact DEF Suspending
  <2>5. \A u \in Procs : p'[u].pc \in SuspPcs => u \in Suspenders
    BY <1>6, <2>1, NullFact DEF SuspPcs
  <2>6. \A u \in Procs : ~Creating(u)'
    BY <1>5, <1>6, <1>9 DEF Creating
  <2>. QED  BY <1>1, <1>3, <1>9, <1>10, <2>1, <2>2, <2>4, <2>5, <2>6 DEF SuspendInv
<1>12. CASE zh.log = NULL
  <2>1. zl' = z /\ UNCHANGED <<dirty, blk>>
    BY <1>1, <1>12 DEF Destroy
  <2>2. zl.lwb = <<>>
    <3>1. zl.lwb # <<>> => zh.log = Head(zl.lwb) /\ Head(zl.lwb) \in Blocks
      BY <1>9 DEF ZilInv, HeadInv, ShapeInv, Creating
    <3>. QED  BY <1>12, <3>1, NullFact
  <2>. QED  BY <1>1, <1>2, <1>3, <1>4, <1>6, <1>7, <1>11, <1>12, <2>1, <2>2, AsideKeeps
<1>13. CASE zh.log # NULL
  <2>. DEFINE X == IF zl.lwb # <<>> THEN Range(zl.lwb) ELSE Range(Chain(blk, zh.log))
              k == FALSE
  <2>1. /\ zl' = [z EXCEPT !.destroy_txg = open, !.keep_first = k, !.lwb = <<>>]
        /\ dirty' = dirty \cup {open}
    BY <1>1, <1>13 DEF Destroy, Destroyed
  <2>2. blk' = FreeBlocks(X, open)
    BY <1>1, <1>13 DEF Destroy
  <2>3. k \in BOOLEAN /\ ~k
    OBVIOUS
  <2>. HIDE DEF X, k
  <2>4. /\ IsZl(zl') /\ zl'.destroy_txg = open /\ zl'.keep_first = k /\ zl'.lwb = <<>>
        /\ zl'.writer = zl.writer /\ zl'.itx = zl.itx
    BY <1>4, <2>1 DEF IsZl
  <2>5. zl.destroy_txg <= stable
    BY <1>1 DEF DestroyDone
  <2>6. \A u \in Procs : p[u].pc # "created"
    BY <1>9 DEF Creating
  <2>. QED  BY <1>1, <1>2, <1>3, <1>6, <1>7, <1>9, <1>10, <1>11, <1>13, <2>1, <2>2, <2>3, <2>4, <2>5, <2>6,
               DestroyedKeeps
<1>. QED  BY <1>12, <1>13

----------------------------------------------------------------------------
\* Import.

\* While the file system is on its way up nobody uses it.
LEMMA ImportFact ==
  ASSUME ZilInv, mode # "up"
  PROVE  /\ \A u \in Procs : p[u] = Idle /\ p[u].pc = "idle" /\ ~Creating(u)
         /\ zl.lwb = <<>> /\ zl.writer = NULL /\ w.lwb = NULL
         /\ IsZl(zl) /\ zl.suspend \in Nat /\ zl.suspending \in BOOLEAN
         /\ DOMAIN p = Procs /\ \A u \in Procs : IsProc(p[u])
<1>1. /\ \A u \in Procs : p[u] = Idle /\ p[u].pc = "idle" /\ ~Creating(u)
      /\ zl.lwb = <<>>
  BY DEF ZilInv, WriterInv, Idle, Creating
<1>2. zl.writer = NULL
  <2>1. zl.writer \in Procs => p[zl.writer].pc \in WriterPcs
    BY DEF ZilInv, WriterInv
  <2>. QED  BY <1>1, <2>1 DEF ZilInv, ShapeInv, WriterPcs
<1>3. w.lwb = NULL
  BY <1>2 DEF ZilInv, WriterInv
<1>. QED  BY <1>1, <1>2, <1>3 DEF ZilInv, ShapeInv

\* Steps that change neither the threads nor the log writer nor zl_suspend.
LEMMA SameSuspend ==
  ASSUME ZilInv, UNCHANGED <<p, w>>, zl'.suspend = zl.suspend, zl'.suspending = zl.suspending
  PROVE  SuspendInv'
BY DEF ZilInv, SuspendInv, Suspending, Closed, Creating

\* A step of the import that neither frees a block nor changes the header.
LEMMA ImportCalm ==
  ASSUME ZilInv, mode # "up", mode' \in Modes, IsZl(zl'), CalmLog \/ mode' = "replay",
         zl'.writer = zl.writer, zl'.lwb = zl.lwb, zl'.itx = zl.itx,
         zl'.suspend = zl.suspend, zl'.suspending = zl.suspending,
         zl'.destroy_txg = zl.destroy_txg, zl'.keep_first = zl.keep_first,
         dirty \subseteq dirty', DestroyInv',
         UNCHANGED <<open, stable, active, zsynced, blk, zh, zh_disk, rec, p, w, crashes>>
  PROVE  ZilInv'
<1>. USE DEF ZilInv
<1>1. /\ \A u \in Procs : p[u] = Idle /\ p[u].pc = "idle" /\ ~Creating(u)
      /\ zl.lwb = <<>> /\ zl.writer = NULL /\ w.lwb = NULL
  BY ImportFact
<1>2. GroupInv' /\ ActiveInv' /\ SuspendInv'
  BY SameActive, SameSuspend DEF GroupInv
<1>3. ShapeInv'
  BY DEF ShapeInv
<1>4. RecInv'
  BY SameRec
<1>5. WriterInv'
  BY <1>1 DEF WriterInv, Creating
<1>6. HeadInv'
  BY <1>1, NullFact DEF HeadInv
<1>7. TailInv'
  BY <1>1 DEF TailInv
<1>8. BirthInv'
  <2>1. Destroying' <=> Destroying
    BY DEF Destroying, Synced, SyncedIn
  <2>. QED  BY <2>1 DEF BirthInv
<1>. QED  BY <1>2, <1>3, <1>4, <1>5, <1>6, <1>7, <1>8

\* The zil_destroy() of an import.
LEMMA ImportDestroyKeeps ==
  ASSUME ZilInv, mode \in {"claimed", "replay"}, NEW keep \in BOOLEAN, Destroy(keep, zl),
         zh.log # NULL, mode' \in {"up", "replayed"},
         UNCHANGED <<open, stable, active, zsynced, zh, zh_disk, rec, p, w, crashes>>
  PROVE  ZilInv'
<1>. DEFINE X == IF keep THEN {} ELSE Range(Chain(blk, zh.log))
<1>1. /\ \A u \in Procs : p[u] = Idle /\ p[u].pc = "idle" /\ ~Creating(u)
      /\ zl.lwb = <<>> /\ zl.writer = NULL /\ w.lwb = NULL
      /\ IsZl(zl) /\ zl.suspend \in Nat /\ zl.suspending \in BOOLEAN
      /\ DOMAIN p = Procs /\ \A u \in Procs : IsProc(p[u])
  BY ImportFact
<1>2. /\ zl' = [zl EXCEPT !.destroy_txg = open, !.keep_first = keep, !.lwb = <<>>]
      /\ dirty' = dirty \cup {open}
  BY DEF Destroy, Destroyed
<1>3. blk' = FreeBlocks(X, open) /\ (keep => X = {})
  BY <1>1 DEF Destroy
<1>. HIDE DEF X
<1>4. /\ IsZl(zl') /\ zl'.destroy_txg = open /\ zl'.keep_first = keep /\ zl'.lwb = <<>>
      /\ zl'.writer = zl.writer /\ zl'.itx = zl.itx
      /\ zl'.suspend = zl.suspend /\ zl'.suspending = zl.suspending
  BY <1>1, <1>2 DEF IsZl
<1>5. SuspendInv'
  BY <1>4, SameSuspend
<1>6. zl.destroy_txg <= stable
  BY DEF ZilInv, DestroyInv, GroupInv
<1>7. \A u \in Procs : IsProc(p'[u]) /\ Aside(u) /\ p[u].pc # "created" /\ p'[u] = Idle
  BY <1>1 DEF Aside
<1>8. ~ \E u \in Suspenders : p'[u].pc = "suspended"
  BY <1>1, NullFact
<1>. QED  BY <1>1, <1>2, <1>3, <1>4, <1>5, <1>6, <1>7, <1>8, DestroyedKeeps

\* zil_replay() keeps the invariant.
LEMMA zil_replayKeeps ==
  ASSUME ZilInv, zil_replay
  PROVE  ZilInv'
<1>1. /\ mode = "claimed"
      /\ UNCHANGED <<open, stable, active, zsynced, zh, zh_disk, rec, p, w, crashes>>
  BY DEF zil_replay, gc_vars, fs_vars
<1>2. IsZl(zl) /\ zl.destroy_txg = 0 /\ zl.replayed = NoLog.replayed /\ zl.lwb = <<>>
      /\ ~Destroying /\ stable \in Nat
      /\ zl.destroy_txg <= open
      /\ \A h \in {zh, zh_disk} : h.log = NULL => Fresh(h)
  BY <1>1, ImportFact DEF ZilInv, DestroyInv, Destroying, Synced, SyncedIn, GroupInv
<1>3. CASE zh.needed
  <2>1. mode' = "replay" /\ UNCHANGED <<zl, dirty, blk>>
    BY <1>3 DEF zil_replay
  <2>2. DestroyInv'
    <3>1. zh.log # NULL
      BY <1>2, <1>3 DEF Fresh
    <3>. QED  BY <1>1, <1>2, <2>1, <3>1 DEF DestroyInv, Destroying, Synced, SyncedIn
  <2>. QED  BY <1>1, <1>2, <2>1, <2>2, ImportCalm DEF Modes, CalmLog
<1>4. CASE ~zh.needed
  <2>1. mode' = "up" /\ Destroy(TRUE, zl)
    BY <1>4 DEF zil_replay
  <2>2. CASE zh.log = NULL
    <3>1. UNCHANGED <<zl, dirty, blk>>
      BY <2>1, <2>2 DEF Destroy
    <3>2. Fresh(zh)
      BY <1>2, <2>2
    <3>3. DestroyInv'
      BY <1>1, <1>2, <2>1, <3>1, <3>2 DEF DestroyInv, Destroying, Synced, SyncedIn, Fresh
    <3>. QED  BY <1>1, <1>2, <2>1, <3>1, <3>3, ImportCalm DEF Modes, CalmLog
  <2>3. CASE zh.log # NULL
    BY <1>1, <2>1, <2>3, ImportDestroyKeeps
  <2>. QED  BY <2>2, <2>3
<1>. QED  BY <1>3, <1>4

\* ReplayDestroy() keeps the invariant.
LEMMA ReplayDestroyKeeps ==
  ASSUME ZilInv, ReplayDestroy
  PROVE  ZilInv'
<1>1. /\ mode = "replay" /\ Destroy(FALSE, zl) /\ mode' = "replayed"
      /\ UNCHANGED <<open, stable, active, zsynced, zh, zh_disk, rec, p, w, crashes>>
  BY DEF ReplayDestroy, gc_vars, fs_vars
<1>2. zh.log # NULL
  BY <1>1 DEF ZilInv, DestroyInv
<1>. QED  BY <1>1, <1>2, ImportDestroyKeeps

\* ReplayDone() keeps the invariant.
LEMMA ReplayDoneKeeps ==
  ASSUME ZilInv, ReplayDone
  PROVE  ZilInv'
<1>1. /\ mode = "replayed" /\ mode' = "up"
      /\ UNCHANGED <<open, stable, active, dirty, zsynced, zl, blk, zh, zh_disk, rec, p, w, crashes>>
  BY DEF ReplayDone, gc_vars, fs_vars
<1>2. DestroyInv'
  BY <1>1 DEF ZilInv, DestroyInv, Destroying, Synced, SyncedIn, Fresh
<1>. QED  BY <1>1, <1>2, ImportFact, ImportCalm DEF Modes, CalmLog

\* zil_replay_log_record() keeps the invariant.
LEMMA zil_replay_log_recordKeeps ==
  ASSUME ZilInv, zil_replay_log_record
  PROVE  ZilInv'
<1>. DEFINE lr == Log[r.pos + 1]
            x == [zl.replayed EXCEPT ![open % TXG_SIZE] = lr.seq]
<1>1. /\ mode = "replay"
      /\ UNCHANGED <<open, stable, active, zsynced, blk, zh, zh_disk, rec, p, w, mode, crashes>>
  BY DEF zil_replay_log_record, gc_vars
<1>2. \/ UNCHANGED <<zl, dirty>>
      \/ zl' = [zl EXCEPT !.replayed = x] /\ dirty' = dirty \cup {open}
  BY DEF zil_replay_log_record
<1>. HIDE DEF x
<1>3. IsZl(zl) /\ zl.lwb = <<>> /\ zl.destroy_txg = 0
  BY <1>1, ImportFact DEF ZilInv, DestroyInv
<1>4. /\ IsZl(zl') /\ zl'.writer = zl.writer /\ zl'.lwb = zl.lwb /\ zl'.itx = zl.itx
      /\ zl'.suspend = zl.suspend /\ zl'.suspending = zl.suspending
      /\ zl'.destroy_txg = zl.destroy_txg /\ zl'.keep_first = zl.keep_first
      /\ dirty \subseteq dirty'
  BY <1>2, <1>3 DEF IsZl
<1>5. DestroyInv'
  <2>1. stable \in Nat /\ ~Destroying /\ ~Destroying'
    BY <1>1, <1>3, <1>4 DEF ZilInv, GroupInv, Destroying, Synced, SyncedIn
  <2>. QED  BY <1>1, <1>3, <1>4, <2>1 DEF ZilInv, DestroyInv
<1>. QED  BY <1>1, <1>4, <1>5, ImportCalm DEF Modes

\* zil_claim() keeps the invariant.
LEMMA zil_claimKeeps ==
  ASSUME ZilInv, zil_claim
  PROVE  ZilInv'
<1>. USE DEF ZilInv
<1>1. /\ mode = "down" /\ mode' = "claimed"
      /\ UNCHANGED <<open, stable, active, zsynced, zl, zh_disk, rec, p, w, crashes>>
  BY DEF zil_claim, gc_vars, fs_vars
<1>2. /\ \A u \in Procs : p[u] = Idle /\ p[u].pc = "idle" /\ ~Creating(u)
      /\ zl.lwb = <<>> /\ zl.writer = NULL /\ w.lwb = NULL
      /\ IsZl(zl)
  BY <1>1, ImportFact
<1>3. /\ zl.destroy_txg = 0 /\ zl.replayed = NoLog.replayed /\ stable \in Nat /\ open \in Nat
      /\ stable < open /\ ~Destroying /\ ~Destroying'
      /\ \A h \in {zh, zh_disk} : h.log = NULL => Fresh(h)
  BY <1>1 DEF DestroyInv, GroupInv, Destroying, Synced, SyncedIn
<1>4. CASE UNCHANGED <<zh, blk, dirty>>
  <2>1. DestroyInv'
    BY <1>1, <1>3, <1>4 DEF DestroyInv
  <2>. QED  BY <1>1, <1>2, <1>4, <2>1, ImportCalm DEF Modes, CalmLog
<1>5. CASE ~UNCHANGED <<zh, blk, dirty>>
  <2>. DEFINE x == LogRecords(blk, zh.log) # <<>> \/ Len(Chain(blk, zh.log)) > 1
  <2>1. /\ zh.log # NULL /\ zh' = [zh EXCEPT !.claim_txg = open, !.needed = x]
        /\ blk' = [b \in Blocks |-> IF b \in Claimed THEN [blk[b] EXCEPT !.birth = open]
                                                     ELSE blk[b]]
        /\ dirty' = dirty \cup {open}
    BY <1>5 DEF zil_claim
  <2>2. x \in BOOLEAN
    OBVIOUS
  <2>. HIDE DEF x
  <2>3. IsHeader(zh') /\ zh'.log = zh.log
    <3>1. IsHeader(zh)
      BY DEF ShapeInv
    <3>. QED  BY <2>1, <2>2, <3>1 DEF IsHeader
  <2>4. /\ DOMAIN blk' = Blocks
        /\ \A b \in Blocks : /\ IsBlk(blk'[b]) /\ blk'[b].io = blk[b].io /\ blk'[b].freed = blk[b].freed
                             /\ blk[b].birth # 0 => blk'[b].birth # 0
    <3>1. ASSUME NEW b \in Blocks
          PROVE  /\ IsBlk(blk'[b]) /\ blk'[b].io = blk[b].io /\ blk'[b].freed = blk[b].freed
                 /\ blk[b].birth # 0 => blk'[b].birth # 0
      <4>1. IsBlk(blk[b])
        BY DEF ShapeInv
      <4>2. CASE b \in Claimed
        <5>1. blk'[b] = [blk[b] EXCEPT !.birth = open]
          BY <2>1, <4>2
        <5>. QED  BY <1>3, <4>1, <5>1 DEF IsBlk
      <4>3. CASE b \notin Claimed
        <5>1. blk'[b] = blk[b]
          BY <2>1, <4>3
        <5>. QED  BY <4>1, <5>1
      <4>. QED  BY <4>2, <4>3
    <3>2. DOMAIN blk' = Blocks
      BY <2>1
    <3>. QED  BY <3>1, <3>2
  <2>5. GroupInv' /\ ActiveInv' /\ SuspendInv' /\ RecInv'
    BY <1>1, <2>4, SameActive, SameSuspend, SameRec DEF GroupInv
  <2>6. ShapeInv'
    BY <1>1, <2>3, <2>4 DEF ShapeInv, Modes
  <2>7. WriterInv'
    BY <1>1, <1>2 DEF WriterInv, Creating
  <2>8. HeadInv'
    BY <1>1, <1>2, NullFact DEF HeadInv
  <2>9. TailInv'
    BY <1>1, <1>2 DEF TailInv
  <2>10. DestroyInv'
    BY <1>1, <1>3, <2>1, <2>3 DEF DestroyInv
  <2>11. BirthInv'
    <3>1. zh.log \in Blocks /\ zh_disk.log \in Blocks \cup {NULL}
      BY <2>1 DEF ShapeInv, IsHeader
    <3>2. \A b \in Blocks : blk'[b].freed # 0 => blk'[b].freed \in dirty /\ b # zh.log
      BY <1>3, <2>4 DEF BirthInv
    <3>. QED  BY <1>1, <1>2, <2>1, <2>3, <2>4, <3>1, <3>2 DEF BirthInv
  <2>. QED  BY <2>5, <2>6, <2>7, <2>8, <2>9, <2>10, <2>11
<1>. QED  BY <1>4, <1>5

\* One step of zil_parse(), and a walk of N steps from block b.
WalkStep(f, c) ==
  IF c # <<>> /\ Valid(f, Last(c)) THEN Append(c, f[Last(c)].next) ELSE c

Walk(f, b, N, g) ==
  g = [n \in 0 .. N |->
         IF n = 0 THEN IF b = NULL THEN <<>> ELSE <<b>> ELSE WalkStep(f, g[n - 1])]

\* There is one.
LEMMA WalkExists ==
  ASSUME NEW f, NEW b, NEW M \in Nat
  PROVE  \E g : Walk(f, b, M, g)
<1>. DEFINE S == {N \in Nat : ~ \E g : Walk(f, b, N, g)}
<1>. SUFFICES ASSUME M \in S
              PROVE  FALSE
  OBVIOUS
<1>1. PICK N \in S : \A k \in S : ~(<<k, N>> \in OpToRel(<, Nat))
  BY WFMin, NatLessThanWellFounded
<1>2. N \in Nat /\ \A k \in S : ~(k < N)
  BY <1>1 DEF OpToRel
<1>3. CASE N = 0
  <2>. DEFINE h == [n \in 0 .. 0 |-> IF b = NULL THEN <<>> ELSE <<b>>]
  <2>1. Walk(f, b, 0, h)
    BY DEF Walk
  <2>. QED  BY <1>1, <1>3, <2>1
<1>4. CASE N # 0
  <2>1. N - 1 \in Nat /\ N - 1 \notin S
    BY <1>2, <1>4
  <2>2. PICK g : Walk(f, b, N - 1, g)
    BY <2>1
  <2>. DEFINE base == IF b = NULL THEN <<>> ELSE <<b>>
              h == [n \in 0 .. N |-> IF n < N THEN g[n] ELSE WalkStep(f, g[N - 1])]
  <2>. HIDE DEF base
  <2>3. g = [n \in 0 .. N - 1 |-> IF n = 0 THEN base ELSE WalkStep(f, g[n - 1])]
    BY <2>2 DEF Walk, base
  <2>4. ASSUME NEW n \in 0 .. N
        PROVE  h[n] = IF n = 0 THEN base ELSE WalkStep(f, h[n - 1])
    <3>1. CASE n = 0
      <4>1. g[0] = base
        BY <2>1, <2>3
      <4>. QED  BY <1>4, <3>1, <4>1
    <3>2. CASE n # 0 /\ n < N
      <4>1. n \in 0 .. N - 1 /\ n - 1 \in 0 .. N /\ n - 1 < N
        BY <1>2, <3>2
      <4>2. g[n] = WalkStep(f, g[n - 1])
        BY <2>3, <3>2, <4>1
      <4>3. h[n] = g[n] /\ h[n - 1] = g[n - 1]
        BY <3>2, <4>1
      <4>. QED  BY <3>2, <4>2, <4>3
    <3>3. CASE n = N
      <4>1. N - 1 \in 0 .. N /\ N - 1 < N
        BY <1>2, <1>4
      <4>. QED  BY <1>4, <3>3, <4>1
    <3>. QED  BY <1>2, <3>1, <3>2, <3>3
  <2>5. h = [n \in 0 .. N |-> IF n = 0 THEN base ELSE WalkStep(f, h[n - 1])]
    <3>1. h = [n \in 0 .. N |-> h[n]]
      OBVIOUS
    <3>. QED  BY <2>4, <3>1
  <2>6. Walk(f, b, N, h)
    BY <2>5 DEF Walk, base
  <2>. QED  BY <1>1, <2>6
<1>. QED  BY <1>3, <1>4

WalksTo(f, b, g, c) ==
  /\ c = g[NBlocks]
  /\ g[0] = IF b = NULL THEN <<>> ELSE <<b>>
  /\ \A n \in 1 .. NBlocks : g[n] = WalkStep(f, g[n - 1])

\* The chain is where the walk ends.
LEMMA ChainFact ==
  ASSUME NEW f, NEW b
  PROVE  \E g : WalksTo(f, b, g, Chain(f, b))
<1>0. NBlocks \in Nat
  BY ZilAssumption
<1>1. \E g : Walk(f, b, NBlocks, g)
  BY <1>0, WalkExists
<1>. DEFINE g == CHOOSE g : Walk(f, b, NBlocks, g)
<1>2. Walk(f, b, NBlocks, g)
  BY <1>1
<1>3. Chain(f, b) = g[NBlocks]
  BY DEF Chain, Walk, WalkStep
<1>. HIDE DEF g
<1>4. /\ g[0] = IF b = NULL THEN <<>> ELSE <<b>>
      /\ \A n \in 1 .. NBlocks : g[n] = WalkStep(f, g[n - 1])
  BY <1>0, <1>2 DEF Walk
<1>. QED  BY <1>3, <1>4 DEF WalksTo

\* c is a walk that starts at block b.
StartsAt(c, b) == (\E T : c \in Seq(T)) /\ c # <<>> /\ c[1] = b

\* So is a step longer one.
LEMMA StepStarts ==
  ASSUME NEW f, NEW b, NEW c, StartsAt(c, b)
  PROVE  StartsAt(WalkStep(f, c), b)
<1>1. PICK T : c \in Seq(T)
  BY DEF StartsAt
<1>2. CASE WalkStep(f, c) = c
  BY <1>2
<1>3. CASE WalkStep(f, c) # c
  <2>. DEFINE e == f[Last(c)].next
              U == T \cup {e}
  <2>1. WalkStep(f, c) = Append(c, e)
    BY <1>3 DEF WalkStep
  <2>. HIDE DEF e
  <2>2. c \in Seq(U) /\ e \in U
    BY <1>1
  <2>3. Append(c, e) \in Seq(U) /\ Append(c, e) # <<>> /\ Append(c, e)[1] = c[1]
    <3>. HIDE DEF U
    <3>. QED  BY <2>2 DEF StartsAt
  <2>. QED  BY <2>1, <2>3 DEF StartsAt
<1>. QED  BY <1>2, <1>3

\* The chain begins at its first block.
LEMMA ChainHead ==
  ASSUME NEW f, NEW b, b # NULL
  PROVE  b \in Range(Chain(f, b))
<1>0. NBlocks \in Nat
  BY ZilAssumption
<1>9. PICK g : WalksTo(f, b, g, Chain(f, b))
  BY ChainFact
<1>1. /\ Chain(f, b) = g[NBlocks]
      /\ g[0] = IF b = NULL THEN <<>> ELSE <<b>>
      /\ \A n \in 1 .. NBlocks : g[n] = WalkStep(f, g[n - 1])
  BY <1>9 DEF WalksTo
<1>2. StartsAt(g[0], b)
  <2>1. g[0] = <<b>> /\ <<b>> \in Seq({b}) /\ <<b>> # <<>> /\ <<b>>[1] = b
    BY <1>1
  <2>. QED  BY <2>1 DEF StartsAt
<1>. DEFINE S == {n \in 0 .. NBlocks : ~StartsAt(g[n], b)}
<1>3. S = {}
  <2>. SUFFICES ASSUME S # {}
                PROVE  FALSE
    OBVIOUS
  <2>1. S \in SUBSET Nat
    BY <1>0
  <2>2. PICK n \in S : \A k \in S : ~(<<k, n>> \in OpToRel(<, Nat))
    BY <2>1, WFMin, NatLessThanWellFounded
  <2>3. n \in Nat /\ \A k \in S : ~(k < n)
    BY <2>1, <2>2 DEF OpToRel
  <2>4. n # 0
    BY <1>2, <2>2
  <2>5. n - 1 \in 0 .. NBlocks /\ n - 1 \notin S /\ n \in 1 .. NBlocks
    <3>1. n \in 0 .. NBlocks
      BY <2>2
    <3>2. n - 1 \in 0 .. NBlocks /\ n - 1 < n /\ n \in 1 .. NBlocks
      BY <1>0, <2>4, <3>1
    <3>. QED  BY <2>3, <3>2
  <2>6. StartsAt(g[n - 1], b)
    BY <2>5
  <2>7. StartsAt(g[n], b)
    BY <1>1, <2>5, <2>6, StepStarts
  <2>. QED  BY <2>2, <2>7
<1>4. StartsAt(Chain(f, b), b)
  BY <1>0, <1>1, <1>3
<1>5. PICK T : Chain(f, b) \in Seq(T)
  BY <1>4 DEF StartsAt
<1>6. 1 \in DOMAIN Chain(f, b) /\ Chain(f, b)[1] = b
  BY <1>4, <1>5 DEF StartsAt
<1>. QED  BY <1>6 DEF Range

\* Crash() keeps the invariant.
LEMMA CrashKeeps ==
  ASSUME ZilInv, Crash
  PROVE  ZilInv'
<1>. USE DEF ZilInv
<1>1. /\ crashes' = crashes + 1 /\ open' = stable + 1 /\ active' = [c \in Procs \cup Blocks |-> 0]
      /\ zl' = NoLog /\ zh' = zh_disk /\ dirty' = {} /\ zsynced' = FALSE
      /\ p' = [t \in Procs |-> Idle] /\ w' = NoWriter /\ mode' = "down"
      /\ UNCHANGED <<stable, zh_disk, rec>>
  BY DEF Crash
<1>2. PICK kept \in SUBSET {b \in Blocks : blk[b].io = "issued" \/ blk[b].content = "cache"} :
        LET f == [b \in Blocks |->
                    [blk[b] EXCEPT !.freed = 0, !.max_txg = 0, !.io = "done",
                       !.content = IF b \in kept \/ @ = "disk" THEN "disk" ELSE "none"]]
            here == {b \in Blocks : OnDisk(b)} \cup Range(Chain(f, zh_disk.log))
        IN blk' = [b \in Blocks |-> IF b \in here THEN f[b] ELSE NoBlk]
  BY DEF Crash
<1>. DEFINE f == [b \in Blocks |->
                    [blk[b] EXCEPT !.freed = 0, !.max_txg = 0, !.io = "done",
                       !.content = IF b \in kept \/ @ = "disk" THEN "disk" ELSE "none"]]
            here == {b \in Blocks : OnDisk(b)} \cup Range(Chain(f, zh_disk.log))
<1>3. blk' = [b \in Blocks |-> IF b \in here THEN f[b] ELSE NoBlk]
  BY <1>2
<1>4. ASSUME NEW b \in Blocks
      PROVE  IsBlk(f[b]) /\ f[b].freed = 0 /\ f[b].io = "done" /\ f[b].birth = blk[b].birth
  <2>. DEFINE x == IF b \in kept \/ blk[b].content = "disk" THEN "disk" ELSE "none"
  <2>1. f[b] = [blk[b] EXCEPT !.freed = 0, !.max_txg = 0, !.io = "done", !.content = x]
    OBVIOUS
  <2>2. IsBlk(blk[b])
    BY DEF ShapeInv
  <2>. HIDE DEF f, x
  <2>. QED  BY <2>1, <2>2 DEF IsBlk
<1>5. zh_disk.log # NULL => zh_disk.log \in here
  BY ChainHead
<1>. HIDE DEF f, here
<1>6. IsBlk(NoBlk) /\ NoBlk.freed = 0 /\ NoBlk.io = "none"
  BY DEF IsBlk, NoBlk
<1>7. /\ DOMAIN blk' = Blocks
      /\ \A b \in Blocks : IsBlk(blk'[b]) /\ blk'[b].freed = 0 /\ blk'[b].io # "issued"
      /\ \A b \in Blocks : b \in here => blk'[b].birth = blk[b].birth
  BY <1>3, <1>4, <1>6
<1>8. GroupInv'
  <2>1. zsynced' \in BOOLEAN /\ ~zsynced'
    BY <1>1
  <2>. QED  BY <1>1, <2>1 DEF GroupInv
<1>9. ActiveInv'
  BY <1>1, <1>7 DEF ActiveInv
<1>10. /\ IsZl(NoLog) /\ NoLog.lwb = <<>> /\ NoLog.itx = <<>> /\ NoLog.suspend = 0 /\ NoLog.destroy_txg = 0
       /\ NoLog.writer = NULL /\ <<>> \in Seq(Blocks) /\ <<>> \in Seq(Nat)
  BY DEF IsZl, NoLog
<1>11. NoLog.suspending \in BOOLEAN /\ NoLog.keep_first \in BOOLEAN
  BY DEF NoLog
<1>12. IsProc(Idle) /\ Idle.pc = "idle" /\ Idle.txg = 0
  BY DEF IsProc, AllPcs, Idle
<1>13. IsWriter(NoWriter) /\ NoWriter.lwb = NULL
  BY DEF IsWriter, NoWriter
<1>14. DOMAIN p' = Procs /\ \A t \in Procs : p'[t] = Idle
  BY <1>1
<1>15. ShapeInv'
  BY <1>1, <1>7, <1>10, <1>11, <1>12, <1>13, <1>14 DEF ShapeInv, Modes
<1>16. RecInv'
  <2>1. /\ crashes \in Nat /\ Len(rec) \in Nat /\ DOMAIN rec = 1 .. Len(rec)
        /\ \A i \in DOMAIN rec : IsRec(rec[i], crashes)
    BY DEF RecInv
  <2>2. \A i \in DOMAIN rec : IsRec(rec[i], crashes + 1) /\ rec[i].boot # crashes + 1
    BY <2>1 DEF IsRec
  <2>3. zl'.itx \in Seq(Nat) /\ DOMAIN zl'.itx = {}
    BY <1>1, <1>10
  <2>. QED  BY <1>1, <1>12, <1>14, <2>1, <2>2, <2>3 DEF RecInv
<1>17. WriterInv'
  BY <1>1, <1>10, <1>12, <1>13, <1>14, NullFact DEF WriterInv, WriterPcs, Creating
<1>18. SuspendInv'
  <2>1. {u \in Suspenders : p'[u].pc # "idle"} = {}
    BY <1>12, <1>14, NullFact
  <2>. QED  BY <1>1, <1>10, <1>12, <1>14, <2>1, NullFact, FS_EmptySet
            DEF SuspendInv, Suspending, SuspPcs, Closed
<1>19. ~Destroying'
  BY <1>1, <1>10 DEF Destroying, Synced, SyncedIn, GroupInv
<1>20. DestroyInv'
  BY <1>1, <1>10, <1>19 DEF DestroyInv, GroupInv
<1>21. HeadInv'
  BY <1>1, <1>10, <1>12, <1>14, NullFact DEF HeadInv
<1>22. TailInv'
  BY <1>1, <1>10 DEF TailInv
<1>23. BirthInv'
  <2>1. zh_disk.log # NULL => zh_disk.log \in Blocks /\ blk'[zh_disk.log].birth # 0
    BY <1>5, <1>7 DEF ShapeInv, IsHeader, BirthInv
  <2>2. DOMAIN zl'.lwb = {}
    BY <1>1, <1>10
  <2>. QED  BY <1>1, <1>7, <2>1, <2>2 DEF BirthInv
<1>. QED  BY <1>8, <1>9, <1>15, <1>16, <1>17, <1>18, <1>20, <1>21, <1>22, <1>23

----------------------------------------------------------------------------
\* Groups.

\* Advance() keeps the invariant.
LEMMA AdvanceKeeps ==
  ASSUME ZilInv, Advance
  PROVE  ZilInv'
<1>. USE DEF ZilInv
<1>1. /\ open' = open + 1
      /\ UNCHANGED <<stable, active, dirty, zsynced, zl, blk, zh, zh_disk, rec, p, w, mode, crashes>>
  BY DEF Advance, GC!Advance, fs_vars, import_vars
<1>2. open \in Nat /\ stable \in Nat /\ zl.destroy_txg \in Nat
  BY DEF GroupInv, ShapeInv
<1>3. GroupInv'
  BY <1>1 DEF GroupInv
<1>4. ActiveInv'
  BY <1>1, <1>2 DEF ActiveInv
<1>5. ShapeInv'
  BY <1>1 DEF ShapeInv
<1>6. RecInv'
  BY <1>1, <1>2 DEF RecInv, IsRec, Current, CurrentIn
<1>7. WriterInv' /\ SuspendInv'
  BY <1>1, SameSuspend DEF WriterInv, Creating
<1>8. Destroying' <=> Destroying
  BY <1>1 DEF Destroying, Synced, SyncedIn
<1>9. DestroyInv'
  BY <1>1, <1>2, <1>8 DEF DestroyInv, Fresh
<1>10. HeadInv'
  BY <1>1, <1>8 DEF HeadInv, CreatedOK, Synced, SyncedIn
<1>11. TailInv'
  <2>1. \A g \in dirty : Empties(g) => Empties(g)'
    BY <1>1, <1>2 DEF Empties, Synced, SyncedIn, Issued
  <2>2. \A n \in DOMAIN zl.lwb : blk[zl.lwb[n]].max_txg \in Nat /\ blk[zl.lwb[n]].max_txg <= open + 1
    BY <1>2 DEF TailInv
  <2>. QED  BY <1>1, <2>1, <2>2 DEF TailInv, Issued, Creating
<1>12. BirthInv'
  BY <1>1, <1>8 DEF BirthInv
<1>. QED  BY <1>3, <1>4, <1>5, <1>6, <1>7, <1>9, <1>10, <1>11, <1>12

\* Stabilize() keeps the invariant.
LEMMA StabilizeKeeps ==
  ASSUME ZilInv, Stabilize
  PROVE  ZilInv'
<1>. USE DEF ZilInv
<1>. DEFINE txg == stable + 1
            x == zl.clean \/ (txg \in dirty /\ zl.itx # <<>> /\ rec[Head(zl.itx)].txg <= txg)
<1>1. /\ txg < open /\ \A c \in Procs \cup Blocks : active[c] # txg
      /\ stable' = txg /\ UNCHANGED <<open, active>>
  BY DEF Stabilize, GC!Stabilize
<1>2. /\ txg \in dirty => zsynced
      /\ zh_disk' = (IF txg \in dirty THEN zh ELSE zh_disk)
      /\ blk' = [b \in Blocks |-> IF blk[b].freed = txg THEN NoBlk ELSE Flushed[b]]
      /\ zl' = [zl EXCEPT !.clean = x]
      /\ dirty' = dirty \ {txg} /\ zsynced' = FALSE
      /\ UNCHANGED <<zh, rec, p, w, mode, crashes>>
  BY DEF Stabilize, fs_vars, import_vars
<1>. HIDE DEF x
<1>3. /\ open \in Nat /\ stable \in Nat /\ txg # 0 /\ zl.destroy_txg \in Nat
      /\ zl.lwb \in Seq(Blocks) /\ \A n \in DOMAIN zl.lwb : zl.lwb[n] \in Blocks
      /\ zh.log \in Blocks \cup {NULL} /\ zh_disk.log \in Blocks \cup {NULL}
  BY DEF GroupInv, ShapeInv, IsHeader
<1>4. /\ IsZl(zl') /\ zl'.writer = zl.writer /\ zl'.lwb = zl.lwb /\ zl'.suspend = zl.suspend
      /\ zl'.suspending = zl.suspending /\ zl'.destroy_txg = zl.destroy_txg
      /\ zl'.keep_first = zl.keep_first /\ zl'.replayed = zl.replayed /\ zl'.itx = zl.itx
  BY <1>2 DEF ShapeInv, IsZl
<1>5. IsBlk(NoBlk) /\ NoBlk.io = "none" /\ NoBlk.freed = 0
  BY DEF IsBlk, NoBlk
<1>6. /\ DOMAIN blk' = Blocks
      /\ \A b \in Blocks : IsBlk(blk'[b])
      /\ \A b \in Blocks : blk[b].freed = txg => blk'[b] = NoBlk
      /\ \A b \in Blocks : blk[b].freed # txg =>
           /\ blk'[b].io = blk[b].io /\ blk'[b].freed = blk[b].freed
           /\ blk'[b].max_txg = blk[b].max_txg /\ blk'[b].birth = blk[b].birth
  <2>1. /\ DOMAIN blk' = Blocks
        /\ \A b \in Blocks : blk'[b] = (IF blk[b].freed = txg THEN NoBlk ELSE Flushed[b])
    BY <1>2
  <2>2. \A b \in Blocks :
          /\ IsBlk(Flushed[b]) /\ Flushed[b].io = blk[b].io /\ Flushed[b].freed = blk[b].freed
          /\ Flushed[b].max_txg = blk[b].max_txg /\ Flushed[b].birth = blk[b].birth
    BY FlushFact
  <2>. HIDE DEF txg
  <2>. QED  BY <1>5, <2>1, <2>2
<1>7. /\ \A g \in Nat : SyncedIn(g, stable', zsynced') <=> g <= txg
      /\ \A g \in Nat : g \in dirty \/ g <= stable =>
           (SyncedIn(g, stable', zsynced') <=> Synced(g))
      /\ \A g \in Nat : g \in dirty /\ ~Synced(g) => g \in dirty' /\ g > txg
  <2>1. zsynced' = FALSE /\ stable' = stable + 1 /\ dirty' = dirty \ {txg}
    BY <1>1, <1>2
  <2>2. zsynced' <=> FALSE
    BY <1>2
  <2>3. \A g \in Nat : SyncedIn(g, stable', zsynced') <=> g <= txg
    BY <1>3, <2>1, <2>2 DEF SyncedIn
  <2>4. \A g \in Nat : Synced(g) <=> g <= stable \/ (g = txg /\ zsynced)
    BY DEF Synced, SyncedIn
  <2>. QED  BY <1>2, <1>3, <2>1, <2>3, <2>4
<1>8. GroupInv'
  <2>1. zsynced' \in BOOLEAN /\ ~zsynced'
    BY <1>2
  <2>. QED  BY <1>1, <1>3, <2>1 DEF GroupInv
<1>9. ActiveInv'
  <2>1. ~zsynced'
    BY <1>2
  <2>2. \A b \in Blocks : blk'[b].io = "issued" => blk[b].io = "issued"
    BY <1>5, <1>6
  <2>3. \A c \in Procs \cup Blocks : active[c] # 0 => active[c] > txg /\ active[c] <= open
    BY <1>1, <1>3 DEF ActiveInv
  <2>. QED  BY <1>1, <2>1, <2>2, <2>3 DEF ActiveInv
<1>10. ShapeInv'
  <2>1. IsHeader(zh_disk')
    BY <1>2 DEF ShapeInv
  <2>. QED  BY <1>2, <1>4, <1>6, <2>1 DEF ShapeInv
<1>11. RecInv'
  BY <1>1, <1>2, <1>4, SameRec
<1>12. SuspendInv'
  BY <1>2, <1>4, SameSuspend
<1>13. ASSUME NEW n \in DOMAIN zl.lwb
       PROVE  LET b == zl.lwb[n]
              IN /\ blk'[b].freed = 0 /\ blk'[b].io = blk[b].io
                 /\ blk'[b].max_txg = blk[b].max_txg /\ blk'[b].birth = blk[b].birth
                 /\ IssuedIn(blk', b) <=> Issued(b)
  <2>1. blk[zl.lwb[n]].freed = 0
    BY DEF TailInv
  <2>. HIDE DEF txg
  <2>. QED  BY <1>3, <1>6, <2>1 DEF Issued, IssuedIn
<1>14. zl.lwb # <<>> => /\ Len(zl.lwb) \in DOMAIN zl.lwb /\ Last(zl.lwb) = zl.lwb[Len(zl.lwb)]
                        /\ 1 \in DOMAIN zl.lwb /\ Head(zl.lwb) = zl.lwb[1]
  BY <1>3 DEF Last
<1>15. WriterInv'
  BY <1>2, <1>4, <1>13, <1>14 DEF WriterInv, Creating
<1>16. Destroying' <=> Destroying
  <2>1. zl.destroy_txg > stable => zl.destroy_txg \in dirty
    BY DEF DestroyInv
  <2>2. SyncedIn(zl.destroy_txg, stable', zsynced') <=> Synced(zl.destroy_txg)
    BY <1>3, <1>7, <2>1
  <2>. QED  BY <1>4, <2>2 DEF Destroying, Synced
<1>17. DestroyInv'
  <2>1. \A h \in {zh', zh_disk'} : h.log = NULL => Fresh(h)
    BY <1>2 DEF DestroyInv
  <2>2. zl.destroy_txg > txg => zl.destroy_txg > stable /\ zl.destroy_txg # txg
    BY <1>3
  <2>. QED  BY <1>1, <1>2, <1>4, <1>16, <2>1, <2>2 DEF DestroyInv
<1>18. HeadInv'
  <2>1. ASSUME NEW t \in Procs, p[t].pc = "created"
        PROVE  CreatedOK(t)'
    <3>1. CreatedOK(t) /\ p[t].txg \in Nat
      BY <2>1 DEF HeadInv, CreatedOK
    <3>2. p[t].txg > txg => p[t].txg \in dirty'
      BY <1>2, <1>3, <3>1 DEF CreatedOK
    <3>3. SyncedIn(p[t].txg, stable', zsynced') <=> Synced(p[t].txg)
      BY <1>3, <1>7, <3>1 DEF CreatedOK
    <3>4. zl.lwb # <<>> => blk'[Head(zl.lwb)].io = blk[Head(zl.lwb)].io
      BY <1>13, <1>14
    <3>. QED  BY <1>1, <1>2, <1>4, <3>1, <3>2, <3>3, <3>4 DEF CreatedOK, Synced
  <2>. QED  BY <1>2, <1>4, <1>16, <2>1 DEF HeadInv
<1>19. TailInv'
  <2>1. ASSUME NEW g \in dirty, Empties(g)
        PROVE  g \in dirty' /\ Empties(g)'
    <3>1. g \in Nat /\ g \in dirty' /\ g > txg /\ ~SyncedIn(g, stable', zsynced')
      BY <1>3, <1>7, <2>1 DEF Empties
    <3>. QED  BY <1>1, <1>2, <1>4, <1>13, <2>1, <3>1 DEF Empties, Synced, Issued
  <2>2. zl.lwb # <<>> => (IssuedIn(blk', Last(zl.lwb)) <=> Issued(Last(zl.lwb)))
    BY <1>13, <1>14
  <2>3. (\E g \in dirty : Empties(g)) => \E g \in dirty' : Empties(g)'
    BY <2>1
  <2>4. zl'.lwb = zl.lwb /\ zl'.writer = zl.writer /\ open' = open /\ w' = w /\ p' = p
    BY <1>1, <1>2, <1>4
  <2>5. \A n \in DOMAIN zl.lwb :
          LET b == zl.lwb[n]
          IN /\ blk'[b].freed = 0 /\ blk'[b].max_txg \in Nat /\ blk'[b].max_txg <= open
             /\ blk'[b].io \in {"none", "init", "issued", "done"}
             /\ n < Len(zl.lwb) => IssuedIn(blk', b)
    <3>. SUFFICES ASSUME NEW n \in DOMAIN zl.lwb
                  PROVE  LET b == zl.lwb[n]
                         IN /\ blk'[b].freed = 0 /\ blk'[b].max_txg \in Nat
                            /\ blk'[b].max_txg <= open
                            /\ blk'[b].io \in {"none", "init", "issued", "done"}
                            /\ n < Len(zl.lwb) => IssuedIn(blk', b)
      OBVIOUS
    <3>1. LET b == zl.lwb[n]
          IN /\ blk[b].freed = 0 /\ blk[b].max_txg \in Nat /\ blk[b].max_txg <= open
             /\ blk[b].io \in {"none", "init", "issued", "done"}
             /\ n < Len(zl.lwb) => Issued(b)
      BY DEF TailInv
    <3>. QED  BY <1>13, <3>1
  <2>6. \A n, m \in DOMAIN zl.lwb : zl.lwb[n] = zl.lwb[m] => n = m
    BY DEF TailInv
  <2>7. zl.lwb # <<>> /\ Issued(Last(zl.lwb)) =>
          /\ zl.writer # NULL /\ w.lwb = NULL /\ \A t \in Procs : ~Creating(t)
          /\ \E g \in dirty : Empties(g)
    BY DEF TailInv
  <2>. QED  BY <2>2, <2>3, <2>4, <2>5, <2>6, <2>7 DEF TailInv, Issued, Creating
<1>20. BirthInv'
  <2>1. ASSUME NEW b \in Blocks, blk'[b].freed # 0
        PROVE  /\ blk'[b].freed \in dirty'
               /\ b = zh.log => Destroying /\ ~zl.keep_first /\ blk'[b].freed = zl.destroy_txg
    BY <1>2, <1>5, <1>6, <2>1 DEF BirthInv
  <2>2. ASSUME NEW b \in Blocks, b = zh.log
        PROVE  blk[b].freed # txg /\ blk'[b].birth # 0
    <3>0. blk[b].birth # 0
      BY <2>2, NullFact DEF BirthInv
    <3>. SUFFICES blk[b].freed # txg
      BY <1>6, <3>0
    <3>. SUFFICES ASSUME blk[b].freed = txg
                  PROVE  FALSE
      OBVIOUS
    <3>1. txg \in dirty /\ Destroying /\ zl.destroy_txg = txg
      BY <1>3, <2>2 DEF BirthInv
    <3>2. zsynced
      BY <1>2, <3>1
    <3>. QED  BY <3>1, <3>2 DEF Destroying, Synced, SyncedIn
  <2>3. zh_disk'.log # NULL => blk'[zh_disk'.log].birth # 0
    <3>1. CASE txg \in dirty
      BY <1>2, <1>3, <2>2, <3>1
    <3>2. CASE txg \notin dirty
      <4>1. \A b \in Blocks : blk[b].freed # txg
        BY <1>3, <3>2 DEF BirthInv
      <4>. QED  BY <1>2, <1>3, <1>6, <3>2, <4>1 DEF BirthInv
    <3>. QED  BY <3>1, <3>2
  <2>4. zh' = zh /\ (zh.log # NULL => blk'[zh.log].birth # 0)
    BY <1>2, <1>3, <2>2
  <2>5. \A n \in DOMAIN zl.lwb : blk'[zl.lwb[n]].birth # 0
    BY <1>13 DEF BirthInv
  <2>6. zl'.lwb = zl.lwb /\ zl'.keep_first = zl.keep_first /\ zl'.destroy_txg = zl.destroy_txg
    BY <1>4
  <2>7. \A b \in Blocks : blk'[b].freed # 0 =>
          /\ blk'[b].freed \in dirty'
          /\ b = zh.log => Destroying /\ ~zl.keep_first /\ blk'[b].freed = zl.destroy_txg
    BY <2>1
  <2>. QED  BY <1>16, <2>3, <2>4, <2>5, <2>6, <2>7 DEF BirthInv
<1>. QED  BY <1>8, <1>9, <1>10, <1>11, <1>12, <1>15, <1>17, <1>18, <1>19, <1>20

\* The blocks that zil_sync() drops are the first ones of the list; it keeps the
\* log writer's block and that of a log that is being created, and drops all when
\* the group empties the list.
LEMMA ObsoleteFact ==
  ASSUME ZilInv, Quiesced, ~zsynced, NEW k, k = Cardinality(Obsolete(stable + 1))
  PROVE  /\ k \in Nat /\ k <= Len(zl.lwb)
         /\ w.lwb # NULL => k < Len(zl.lwb)
         /\ \A t \in Procs : p[t].pc = "created" => k = 0
         /\ \A g \in dirty : Empties(g) /\ g <= stable + 1 => k = Len(zl.lwb)
<1>. DEFINE O == Obsolete(stable + 1)
            N == Len(zl.lwb)
<1>1. /\ zl.lwb \in Seq(Blocks) /\ N \in Nat /\ DOMAIN zl.lwb = 1 .. N
      /\ stable \in Nat
  BY DEF ZilInv, ShapeInv, GroupInv
<1>2. ASSUME NEW m \in Nat, O \in SUBSET (1 .. m)
      PROVE  k \in Nat /\ k <= m
  <2>1. IsFiniteSet(1 .. m) /\ Cardinality(1 .. m) = m
    BY FS_Interval
  <2>. HIDE DEF O
  <2>2. IsFiniteSet(O) /\ Cardinality(O) <= Cardinality(1 .. m)
    BY <1>2, <2>1, FS_Subset
  <2>3. Cardinality(O) \in Nat
    BY <2>2, FS_CardinalityType
  <2>. QED  BY <2>1, <2>2, <2>3 DEF O
<1>3. O \in SUBSET (1 .. N) /\ \A n \in O : \A m \in 1 .. n : blk[zl.lwb[m]].io = "done"
  BY <1>1 DEF Obsolete
<1>4. w.lwb # NULL => k < N
  <2>. SUFFICES ASSUME w.lwb # NULL
                PROVE  k < N
    OBVIOUS
  <2>1. N # 0 /\ N - 1 \in Nat /\ zl.lwb[N] = w.lwb /\ blk[zl.lwb[N]].io # "done"
    BY <1>1 DEF ZilInv, WriterInv, Last
  <2>2. N \notin O
    BY <1>1, <1>3, <2>1
  <2>3. O \in SUBSET (1 .. (N - 1))
    BY <1>1, <1>3, <2>2
  <2>. QED  BY <1>1, <1>2, <2>1, <2>3
<1>5. ASSUME NEW t \in Procs, p[t].pc = "created"
      PROVE  k = 0
  <2>1. zl.lwb # <<>> => N = 1 /\ blk[zl.lwb[1]].io # "done"
    BY <1>5 DEF ZilInv, HeadInv, CreatedOK
  <2>2. O \in SUBSET (1 .. 0)
    BY <1>1, <1>3, <2>1
  <2>. QED  BY <1>2, <2>2
<1>6. ASSUME NEW g \in dirty, Empties(g), g <= stable + 1
      PROVE  k = N
  <2>1. g = stable + 1
    BY <1>1, <1>6 DEF Empties, Synced, SyncedIn
  <2>2. ASSUME NEW n \in DOMAIN zl.lwb
        PROVE  blk[zl.lwb[n]].io = "done" /\ blk[zl.lwb[n]].max_txg <= stable + 1
    <3>1. zl.lwb[n] \in Blocks
      BY <1>1
    <3>2. Issued(zl.lwb[n]) /\ blk[zl.lwb[n]].max_txg <= g /\ active[zl.lwb[n]] <= g
      BY <1>6 DEF Empties
    <3>3. blk[zl.lwb[n]].io # "issued"
      <4>. SUFFICES ASSUME blk[zl.lwb[n]].io = "issued"
                    PROVE  FALSE
        OBVIOUS
      <4>1. active[zl.lwb[n]] \in Nat /\ active[zl.lwb[n]] > stable
        BY <3>1 DEF ZilInv, ActiveInv
      <4>. QED  BY <1>1, <2>1, <3>1, <3>2, <4>1 DEF Quiesced
    <3>. QED  BY <2>1, <3>2, <3>3 DEF Issued, IssuedIn
  <2>3. O = 1 .. N
    BY <1>1, <2>2 DEF Obsolete
  <2>4. Cardinality(1 .. N) = N
    BY <1>1, FS_Interval
  <2>. QED  BY <2>3, <2>4
<1>. QED  BY <1>1, <1>2, <1>3, <1>4, <1>5, <1>6

\* What zil_sync() does to the header: with blocks in the list, it follows them;
\* without, it clears the header if the log has been destroyed, and otherwise
\* notes how far the replay has got.
SyncsHeader(rest) ==
  /\ zl.lwb # <<>> =>
       /\ zh'.log = LogHead(zh, rest) /\ zh'.claim_txg = zh.claim_txg
       /\ zh'.needed = zh.needed /\ zh'.replay_seq = zh.replay_seq
       /\ zl'.replayed = NoLog.replayed /\ mode = "up" /\ zl.destroy_txg <= stable
  /\ zl.lwb = <<>> /\ zl.destroy_txg = stable + 1 =>
       /\ zh'.log = (IF zl.keep_first THEN zh.log ELSE NULL) /\ Fresh(zh')
       /\ zl'.replayed = NoLog.replayed
  /\ zl.lwb = <<>> /\ zl.destroy_txg # stable + 1 =>
       /\ zh'.log = zh.log /\ zh'.claim_txg = zh.claim_txg /\ zh'.needed = zh.needed
       /\ zl.replayed = NoLog.replayed =>
            zl'.replayed = NoLog.replayed /\ zh'.replay_seq = zh.replay_seq

\* zil_sync() does that.
LEMMA SyncHeaderFact ==
  ASSUME ZilInv, zil_sync, NEW rest,
         rest = SubSeq(zl.lwb, Cardinality(Obsolete(stable + 1)) + 1, Len(zl.lwb)),
         rest \in Seq(Blocks)
  PROVE  IsHeader(zh') /\ SyncsHeader(rest)
<1>. DEFINE txg == stable + 1
            g == txg % TXG_SIZE
            destroyed == zl.destroy_txg = txg
            h1 == IF zl.replayed[g] = 0 THEN zh ELSE [zh EXCEPT !.replay_seq = zl.replayed[g]]
            first == IF zl.keep_first THEN zh.log ELSE NULL
            h2 == IF ~destroyed THEN h1 ELSE [NoHeader EXCEPT !.log = first]
<1>1. /\ zh' = (IF zl.lwb = <<>> THEN h2 ELSE [h2 EXCEPT !.log = LogHead(h2, rest)])
      /\ ~destroyed => zl' = [zl EXCEPT !.lwb = rest, !.replayed = [zl.replayed EXCEPT ![g] = 0]]
      /\ destroyed => zl' = [zl EXCEPT !.lwb = rest, !.replayed = NoLog.replayed]
      /\ ~zsynced
  BY DEF zil_sync
<1>2. stable \in Nat /\ g \in 0 .. TXG_SIZE - 1 /\ zl.destroy_txg \in Nat
  BY DEF ZilInv, GroupInv, ShapeInv, TXG_SIZE
<1>. HIDE DEF g
<1>3. IsHeader(zh) /\ IsZl(zl) /\ zl.keep_first \in BOOLEAN
  BY DEF ZilInv, ShapeInv
<1>4. zl.replayed = NoLog.replayed => /\ [zl.replayed EXCEPT ![g] = 0] = NoLog.replayed
                                      /\ zl.replayed[g] = 0
  BY <1>2 DEF NoLog
<1>5. zl.lwb # <<>> => /\ mode = "up" /\ zl.destroy_txg <= stable /\ ~destroyed
                       /\ zl.replayed = NoLog.replayed
  <2>. SUFFICES ASSUME zl.lwb # <<>>
                PROVE  /\ mode = "up" /\ zl.destroy_txg <= stable /\ ~destroyed
                       /\ zl.replayed = NoLog.replayed
    OBVIOUS
  <2>1. mode = "up" /\ zl.destroy_txg <= stable
    BY <1>2 DEF ZilInv, WriterInv, DestroyInv
  <2>2. ~Destroying /\ ~destroyed
    BY <1>2, <2>1 DEF Destroying, Synced, SyncedIn
  <2>. QED  BY <2>1, <2>2 DEF ZilInv, DestroyInv
<1>6. /\ ~destroyed => zl'.replayed = [zl.replayed EXCEPT ![g] = 0]
      /\ destroyed => zl'.replayed = NoLog.replayed
  BY <1>1, <1>3 DEF IsZl
<1>7. first \in Blocks \cup {NULL}
  BY <1>3 DEF IsHeader
<1>8. LogHead(h2, rest) \in Blocks \cup {NULL} /\ LogHead(h2, rest) = LogHead(zh, rest)
  BY DEF LogHead
<1>9. CASE zl.lwb # <<>>
  <2>1. h2 = zh
    BY <1>4, <1>5, <1>9
  <2>. DEFINE x == LogHead(h2, rest)
  <2>2. zh' = [zh EXCEPT !.log = x]
    BY <1>1, <1>9, <2>1
  <2>3. x \in Blocks \cup {NULL} /\ x = LogHead(zh, rest)
    BY <1>8
  <2>. HIDE DEF x, h2
  <2>4. /\ IsHeader(zh') /\ zh'.log = x /\ zh'.claim_txg = zh.claim_txg
        /\ zh'.needed = zh.needed /\ zh'.replay_seq = zh.replay_seq
    BY <1>3, <2>2, <2>3 DEF IsHeader
  <2>5. zl'.replayed = NoLog.replayed
    BY <1>4, <1>5, <1>6, <1>9
  <2>. QED  BY <1>5, <1>9, <2>3, <2>4, <2>5 DEF SyncsHeader
<1>10. CASE zl.lwb = <<>> /\ destroyed
  <2>1. zh' = [NoHeader EXCEPT !.log = first]
    BY <1>1, <1>10
  <2>2. NoHeader.needed \in BOOLEAN /\ ~NoHeader.needed
    BY DEF NoHeader
  <2>3. DOMAIN NoHeader = {"log", "claim_txg", "replay_seq", "needed"}
        /\ NoHeader.claim_txg = 0 /\ NoHeader.replay_seq = 0
    BY DEF NoHeader
  <2>. HIDE DEF first
  <2>4. IsHeader(zh') /\ zh'.log = first /\ Fresh(zh')
    BY <1>7, <2>1, <2>2, <2>3 DEF IsHeader, Fresh
  <2>. QED  BY <1>6, <1>10, <2>4 DEF SyncsHeader, first
<1>11. CASE zl.lwb = <<>> /\ ~destroyed
  <2>1. zh' = h1
    BY <1>1, <1>11
  <2>2. /\ IsHeader(zh') /\ zh'.log = zh.log /\ zh'.claim_txg = zh.claim_txg
        /\ zh'.needed = zh.needed
        /\ zl.replayed[g] = 0 => zh'.replay_seq = zh.replay_seq
    BY <1>3, <2>1 DEF IsHeader
  <2>. HIDE DEF h1
  <2>. QED  BY <1>4, <1>6, <1>11, <2>2 DEF SyncsHeader
<1>. QED  BY <1>9, <1>10, <1>11

\* zil_sync() keeps the invariant.
LEMMA zil_syncKeeps ==
  ASSUME ZilInv, zil_sync
  PROVE  ZilInv'
<1>. USE DEF ZilInv
<1>. DEFINE txg == stable + 1
            k == Cardinality(Obsolete(txg))
            rest == SubSeq(zl.lwb, k + 1, Len(zl.lwb))
            X == {zl.lwb[n] : n \in 1 .. k}
<1>1. /\ Quiesced /\ txg \in dirty /\ ~zsynced /\ mode # "down"
      /\ blk' = FreeBlocks(X, txg) /\ zsynced' = TRUE
      /\ UNCHANGED <<open, stable, active, dirty, zh_disk, rec, p, w, mode, crashes>>
  BY DEF zil_sync, gc_vars, fs_vars, import_vars
<1>2. \E f : zl' = [zl EXCEPT !.lwb = rest, !.replayed = f]
  BY DEF zil_sync
<1>3. /\ open \in Nat /\ stable \in Nat /\ txg \in Nat /\ txg # 0 /\ txg < open
      /\ zl.destroy_txg \in Nat
      /\ zl.lwb \in Seq(Blocks) /\ Len(zl.lwb) \in Nat
      /\ \A n \in DOMAIN zl.lwb : zl.lwb[n] \in Blocks
      /\ zh.log \in Blocks \cup {NULL} /\ zh_disk.log \in Blocks \cup {NULL}
  BY <1>1 DEF GroupInv, ShapeInv, IsHeader, Quiesced
<1>4. /\ k \in Nat /\ k <= Len(zl.lwb)
      /\ w.lwb # NULL => k < Len(zl.lwb)
      /\ \A t \in Procs : p[t].pc = "created" => k = 0
      /\ \A g \in dirty : Empties(g) /\ g <= txg => k = Len(zl.lwb)
  BY <1>1, ObsoleteFact
<1>5. /\ rest \in Seq(Blocks) /\ Len(rest) = Len(zl.lwb) - k
      /\ \A n \in DOMAIN rest : k + n \in DOMAIN zl.lwb /\ rest[n] = zl.lwb[k + n]
  BY <1>3, <1>4, DropFact
<1>6. IsHeader(zh') /\ SyncsHeader(rest)
  <2>1. rest = SubSeq(zl.lwb, Cardinality(Obsolete(stable + 1)) + 1, Len(zl.lwb))
    OBVIOUS
  <2>. HIDE DEF rest
  <2>. QED  BY <1>5, <2>1, SyncHeaderFact
<1>. HIDE DEF k, rest
<1>7. /\ IsZl(zl') /\ zl'.lwb = rest /\ zl'.writer = zl.writer /\ zl'.suspend = zl.suspend
      /\ zl'.suspending = zl.suspending /\ zl'.destroy_txg = zl.destroy_txg
      /\ zl'.keep_first = zl.keep_first /\ zl'.itx = zl.itx
  BY <1>2 DEF ShapeInv, IsZl
<1>8. /\ zl.lwb = <<>> => rest = <<>> /\ X = {} /\ k = 0
      /\ rest # <<>> => /\ zl.lwb # <<>> /\ Last(rest) = Last(zl.lwb)
                        /\ Len(rest) \in DOMAIN rest /\ 1 \in DOMAIN rest
                        /\ Head(rest) = rest[1] /\ Last(rest) = rest[Len(rest)]
      /\ k = 0 => rest = zl.lwb
      /\ k < Len(zl.lwb) => rest # <<>>
  <2>1. zl.lwb = <<>> => rest = <<>> /\ X = {} /\ k = 0
    BY <1>3, <1>4, <1>5
  <2>2. ASSUME rest # <<>>
        PROVE  /\ zl.lwb # <<>> /\ Last(rest) = Last(zl.lwb)
               /\ Len(rest) \in DOMAIN rest /\ 1 \in DOMAIN rest
               /\ Head(rest) = rest[1] /\ Last(rest) = rest[Len(rest)]
    <3>1. /\ Len(rest) \in DOMAIN rest /\ 1 \in DOMAIN rest
          /\ Head(rest) = rest[1] /\ Last(rest) = rest[Len(rest)]
      BY <1>5, <2>2 DEF Last
    <3>2. rest[Len(rest)] = zl.lwb[Len(zl.lwb)] /\ zl.lwb # <<>>
      BY <1>3, <1>4, <1>5, <3>1
    <3>. QED  BY <3>1, <3>2 DEF Last
  <2>3. k = 0 => rest = zl.lwb
    BY <1>3, <1>5
  <2>4. k < Len(zl.lwb) => rest # <<>>
    BY <1>3, <1>4, <1>5
  <2>. QED  BY <2>1, <2>2, <2>3, <2>4
<1>9. /\ DOMAIN blk' = Blocks
      /\ \A b \in Blocks :
           /\ IsBlk(blk'[b]) /\ blk'[b].io = blk[b].io /\ blk'[b].max_txg = blk[b].max_txg
           /\ blk'[b].birth = blk[b].birth
           /\ blk'[b].freed = (IF b \in X THEN txg ELSE blk[b].freed)
  BY <1>1, FreeFact
<1>10. ASSUME NEW n \in DOMAIN rest
       PROVE  /\ rest[n] \in Blocks /\ rest[n] \notin X
              /\ k + n \in DOMAIN zl.lwb /\ rest[n] = zl.lwb[k + n] /\ blk[rest[n]].freed = 0
  <2>1. rest[n] \in Blocks /\ k + n \in DOMAIN zl.lwb /\ rest[n] = zl.lwb[k + n] /\ n \in 1 .. Len(rest)
    BY <1>3, <1>5
  <2>2. \A m \in 1 .. k : m \in DOMAIN zl.lwb /\ m # k + n
    BY <1>3, <1>4, <1>5, <2>1
  <2>3. rest[n] \notin X /\ blk[rest[n]].freed = 0
    BY <2>1, <2>2 DEF TailInv
  <2>. QED  BY <2>1, <2>3
<1>. HIDE DEF X
<1>11. /\ \A g \in Nat : SyncedIn(g, stable', zsynced') <=> g <= txg
       /\ \A g \in Nat : Synced(g) <=> g <= stable
       /\ Destroying' <=> Destroying /\ zl.destroy_txg # txg
  <2>1. \A g \in Nat : SyncedIn(g, stable', zsynced') <=> g <= txg
    BY <1>1, <1>3 DEF SyncedIn
  <2>2. \A g \in Nat : Synced(g) <=> g <= stable
    BY <1>1, <1>3 DEF Synced, SyncedIn
  <2>3. /\ Destroying' <=> ~(zl.destroy_txg <= txg)
        /\ Destroying <=> ~(zl.destroy_txg <= stable)
    BY <1>3, <1>7, <2>1, <2>2 DEF Destroying, Synced
  <2>. QED  BY <1>3, <2>1, <2>2, <2>3
<1>12. GroupInv'
  <2>1. zsynced' \in BOOLEAN
    BY <1>1
  <2>. QED  BY <1>1, <1>3, <2>1 DEF GroupInv
<1>13. ActiveInv'
  BY <1>1, <1>3, <1>9 DEF ActiveInv, Quiesced
<1>14. ShapeInv'
  BY <1>1, <1>5, <1>6, <1>7, <1>9 DEF ShapeInv
<1>15. RecInv'
  BY <1>1, <1>7, SameRec
<1>16. SuspendInv'
  BY <1>1, <1>7, SameSuspend
<1>17. WriterInv'
  <2>1. w.lwb # NULL =>
          rest # <<>> /\ Last(rest) = w.lwb /\ blk'[w.lwb].io \in {"none", "init"}
    <3>1. w.lwb \in Blocks \cup {NULL}
      BY DEF ShapeInv, IsWriter
    <3>. QED  BY <1>4, <1>8, <1>9, <3>1 DEF WriterInv
  <2>2. mode # "up" => (\A t \in Procs : p[t] = Idle) /\ rest = <<>>
    BY <1>8 DEF WriterInv
  <2>. QED  BY <1>1, <1>7, <2>1, <2>2 DEF WriterInv, Creating
<1>18. TailInv'
  <2>1. ASSUME NEW n \in DOMAIN rest
        PROVE  LET b == rest[n]
               IN /\ blk'[b].freed = 0 /\ blk'[b].max_txg \in Nat /\ blk'[b].max_txg <= open
                  /\ blk'[b].io \in {"none", "init", "issued", "done"}
                  /\ n < Len(rest) => IssuedIn(blk', b)
    <3>1. LET b == rest[n]
          IN /\ blk[b].max_txg \in Nat /\ blk[b].max_txg <= open
             /\ blk[b].io \in {"none", "init", "issued", "done"}
             /\ k + n < Len(zl.lwb) => Issued(b)
      BY <1>10 DEF TailInv
    <3>2. n < Len(rest) => k + n < Len(zl.lwb)
      BY <1>3, <1>4, <1>5
    <3>. QED  BY <1>9, <1>10, <3>1, <3>2 DEF Issued, IssuedIn
  <2>2. \A n, m \in DOMAIN rest : rest[n] = rest[m] => n = m
    <3>. SUFFICES ASSUME NEW n \in DOMAIN rest, NEW m \in DOMAIN rest, rest[n] = rest[m]
                  PROVE  n = m
      OBVIOUS
    <3>1. k + n = k + m
      BY <1>10 DEF TailInv
    <3>. QED  BY <1>4, <1>5, <3>1
  <2>3. ASSUME rest # <<>>, IssuedIn(blk', Last(rest))
        PROVE  /\ zl.writer # NULL /\ w.lwb = NULL /\ \A t \in Procs : ~Creating(t)
               /\ \E g \in dirty' : Empties(g)'
    <3>1. zl.lwb # <<>> /\ Issued(Last(zl.lwb)) /\ k < Len(zl.lwb)
      <4>1. Last(rest) \in Blocks
        BY <1>8, <1>10, <2>3
      <4>2. k # Len(zl.lwb)
        BY <1>3, <1>5, <2>3
      <4>. QED  BY <1>3, <1>4, <1>8, <1>9, <2>3, <4>1, <4>2 DEF Issued, IssuedIn
    <3>2. /\ zl.writer # NULL /\ w.lwb = NULL /\ \A t \in Procs : ~Creating(t)
          /\ \E g \in dirty : Empties(g)
      BY <3>1 DEF TailInv
    <3>3. PICK g \in dirty : Empties(g)
      BY <3>2
    <3>4. g \in Nat /\ ~(g <= txg) /\ ~SyncedIn(g, stable', zsynced') /\ g <= open
      BY <1>3, <1>4, <1>11, <3>1, <3>3 DEF Empties
    <3>5. \A n \in DOMAIN rest :
            IssuedIn(blk', rest[n]) /\ blk'[rest[n]].max_txg <= g /\ active[rest[n]] <= g
      BY <1>9, <1>10, <3>3 DEF Empties, Issued, IssuedIn
    <3>6. Empties(g)'
      BY <1>1, <1>7, <3>3, <3>4, <3>5 DEF Empties, Synced, Issued
    <3>. QED  BY <1>1, <3>2, <3>6
  <2>4. zl'.lwb = rest /\ zl'.writer = zl.writer /\ open' = open /\ w' = w /\ p' = p
    BY <1>1, <1>7
  <2>. QED  BY <2>1, <2>2, <2>3, <2>4 DEF TailInv, Issued, Creating
<1>19. DestroyInv'
  <2>1. zl.destroy_txg > stable => zl.lwb = <<>> /\ rest = <<>>
    BY <1>8 DEF DestroyInv
  <2>2. Destroying' => zh'.log # NULL
    <3>1. Destroying => zl.destroy_txg > stable /\ zh.log # NULL
      BY <1>3, <1>11 DEF DestroyInv, Destroying
    <3>. QED  BY <1>6, <1>11, <2>1, <3>1 DEF SyncsHeader
  <2>3. mode \in {"down", "claimed", "replay"} => zl.lwb = <<>> /\ zl.destroy_txg # txg
    BY <1>3 DEF DestroyInv, WriterInv
  <2>4. mode \in {"down", "claimed"} => zl'.replayed = NoLog.replayed
    BY <1>6, <2>3 DEF SyncsHeader, DestroyInv
  <2>5. mode = "replay" => zh'.log # NULL
    BY <1>6, <2>3 DEF SyncsHeader, DestroyInv
  <2>6. mode \in {"up", "replayed"} /\ ~Destroying' => Fresh(zh') /\ zl'.replayed = NoLog.replayed
    <3>1. mode \in {"up", "replayed"} /\ ~Destroying => Fresh(zh) /\ zl.replayed = NoLog.replayed
      BY DEF DestroyInv
    <3>2. Destroying => zl.lwb = <<>>
      BY <1>3, <1>11, <2>1 DEF Destroying
    <3>. QED  BY <1>6, <1>11, <3>1, <3>2 DEF SyncsHeader, Fresh
  <2>7. zh'.log = NULL => Fresh(zh')
    <3>. SUFFICES ASSUME zh'.log = NULL
                  PROVE  Fresh(zh')
      OBVIOUS
    <3>1. CASE zl.lwb # <<>>
      <4>1. ~Destroying /\ mode = "up"
        BY <1>3, <1>6, <1>11, <3>1 DEF SyncsHeader, Destroying
      <4>. QED  BY <1>6, <3>1, <4>1 DEF SyncsHeader, Fresh, DestroyInv
    <3>2. CASE zl.lwb = <<>> /\ zl.destroy_txg = txg
      BY <1>6, <3>2 DEF SyncsHeader
    <3>3. CASE zl.lwb = <<>> /\ zl.destroy_txg # txg
      <4>1. zh.log = NULL
        BY <1>6, <3>3 DEF SyncsHeader
      <4>2. mode \in {"up", "down", "claimed", "replayed"} /\ ~Destroying /\ Fresh(zh)
        BY <4>1 DEF DestroyInv, ShapeInv, Modes
      <4>3. zl.replayed = NoLog.replayed
        BY <4>2 DEF DestroyInv
      <4>. QED  BY <1>6, <3>3, <4>2, <4>3 DEF SyncsHeader, Fresh
    <3>. QED  BY <3>1, <3>2, <3>3
  <2>8. \A h \in {zh', zh_disk'} : h.log = NULL => Fresh(h)
    BY <1>1, <2>7 DEF DestroyInv
  <2>. QED  BY <1>1, <1>7, <2>1, <2>2, <2>4, <2>5, <2>6, <2>8 DEF DestroyInv
<1>20. HeadInv'
  <2>1. ASSUME NEW t \in Procs, p[t].pc = "created"
        PROVE  CreatedOK(t)'
    <3>1. CreatedOK(t) /\ p[t].txg \in Nat /\ rest = zl.lwb
      BY <1>4, <1>8, <2>1 DEF HeadInv, CreatedOK
    <3>2. zl.lwb = <<>> => zh'.log = NULL
      BY <1>6, <3>1 DEF SyncsHeader, CreatedOK
    <3>3. zl.lwb # <<>> => zh'.log = Head(zl.lwb)
      BY <1>6, <3>1 DEF SyncsHeader, LogHead
    <3>4. zl.lwb # <<>> => blk'[Head(zl.lwb)].io = blk[Head(zl.lwb)].io
      BY <1>8, <1>9, <1>10, <3>1
    <3>. QED  BY <1>1, <1>7, <3>1, <3>2, <3>3, <3>4 DEF CreatedOK
  <2>2. rest # <<>> => zh'.log = Head(rest)
    BY <1>6, <1>8 DEF SyncsHeader, LogHead
  <2>3. ASSUME \E u \in Suspenders : p[u].pc = "suspended"
        PROVE  rest = <<>> /\ (zh'.log # NULL => Destroying' /\ ~zl.keep_first)
    <3>1. zl.lwb = <<>> /\ (zh.log # NULL => Destroying /\ ~zl.keep_first)
      BY <2>3 DEF HeadInv
    <3>2. zl.keep_first \in BOOLEAN
      BY DEF ShapeInv
    <3>. QED  BY <1>6, <1>8, <1>11, <3>1, <3>2 DEF SyncsHeader
  <2>. QED  BY <1>1, <1>7, <2>1, <2>2, <2>3 DEF HeadInv
<1>21. BirthInv'
  <2>0. zl.keep_first \in BOOLEAN
    BY DEF ShapeInv
  <2>1. ASSUME NEW b \in Blocks, b = zh'.log
        PROVE  \/ zl.lwb # <<>> /\ rest # <<>> /\ b = rest[1] /\ 1 \in DOMAIN rest
               \/ zl.lwb = <<>> /\ b = zh.log /\ (zl.destroy_txg = txg => zl.keep_first)
    BY <1>6, <1>8, <2>0, <2>1, NullFact DEF SyncsHeader, LogHead
  <2>2. ASSUME NEW b \in Blocks, blk'[b].freed # 0
        PROVE  /\ blk'[b].freed \in dirty
               /\ b = zh'.log => Destroying' /\ ~zl.keep_first /\ blk'[b].freed = zl.destroy_txg
    <3>1. blk'[b].freed \in dirty
      BY <1>1, <1>9, <2>2 DEF BirthInv
    <3>2. ASSUME b = zh'.log
          PROVE  Destroying' /\ ~zl.keep_first /\ blk'[b].freed = zl.destroy_txg
      <4>1. CASE rest # <<>> /\ b = rest[1] /\ 1 \in DOMAIN rest
        BY <1>9, <1>10, <2>2, <4>1
      <4>2. CASE zl.lwb = <<>> /\ b = zh.log /\ (zl.destroy_txg = txg => zl.keep_first)
        <5>1. b \notin X /\ blk'[b].freed = blk[b].freed
          BY <1>8, <1>9, <4>2
        <5>2. Destroying /\ ~zl.keep_first /\ blk[b].freed = zl.destroy_txg
          BY <2>2, <4>2, <5>1 DEF BirthInv
        <5>. QED  BY <1>11, <4>2, <5>1, <5>2
      <4>. QED  BY <2>1, <3>2, <4>1, <4>2
    <3>. QED  BY <3>1, <3>2
  <2>3. \A n \in DOMAIN rest : blk'[rest[n]].birth # 0
    BY <1>9, <1>10 DEF BirthInv
  <2>4. zh'.log # NULL => blk'[zh'.log].birth # 0
    <3>1. zh'.log \in Blocks \cup {NULL}
      BY <1>6 DEF IsHeader
    <3>2. zh.log # NULL => blk[zh.log].birth # 0
      BY DEF BirthInv
    <3>. QED  BY <1>9, <2>1, <2>3, <3>1, <3>2, NullFact
  <2>5. zh_disk' = zh_disk /\ (zh_disk.log # NULL => blk'[zh_disk.log].birth # 0)
    BY <1>1, <1>3, <1>9 DEF BirthInv
  <2>6. \A b \in Blocks : blk'[b].freed # 0 =>
          /\ blk'[b].freed \in dirty'
          /\ b = zh'.log => Destroying' /\ ~zl'.keep_first /\ blk'[b].freed = zl'.destroy_txg
    BY <1>1, <1>7, <2>2
  <2>. QED  BY <1>7, <2>3, <2>4, <2>5, <2>6 DEF BirthInv
<1>. QED  BY <1>12, <1>13, <1>14, <1>15, <1>16, <1>17, <1>18, <1>19, <1>20, <1>21

----------------------------------------------------------------------------
\* The invariant, and what follows from it.

\* Every step keeps the invariant.
LEMMA ZilInvNext == ZilInv /\ [Next]_vars => ZilInv'
<1>. SUFFICES ASSUME ZilInv, [Next]_vars
              PROVE  ZilInv'
  OBVIOUS
<1>1. ASSUME NEW t \in Procs, CommitStep(t)
      PROVE  ZilInv'
  BY <1>1, zil_commit_wakeupKeeps, zil_createKeeps, zil_createdKeeps, TakeItxKeeps,
     zil_lwb_commitKeeps, RecordSyncedKeeps, WriteLastKeeps, WaitForWritesKeeps,
     WaitForSyncKeeps DEF CommitStep
<1>2. ASSUME NEW t \in Suspenders, SuspendStep(t)
      PROVE  ZilInv'
  <2>1. t \in Procs
    BY NullFact
  <2>. QED  BY <1>2, <2>1, zil_commitKeeps, SuspendDrainKeeps, SuspendDestroyKeeps,
               zil_resumeKeeps DEF SuspendStep
<1>3. CASE SyncStep
  BY <1>3, zil_syncKeeps, StabilizeKeeps, AdvanceKeeps DEF SyncStep
<1>4. CASE ImportStep
  BY <1>4, zil_claimKeeps, zil_replayKeeps, zil_replay_log_recordKeeps, ReplayDestroyKeeps,
     ReplayDoneKeeps DEF ImportStep
<1>5. ASSUME NEW t \in Threads, NEW f, NEW seq, zil_commit(t, f, seq)
      PROVE  ZilInv'
  <2>1. t \in Procs
    BY NullFact
  <2>. QED  BY <1>5, <2>1, zil_commitKeeps
<1>6. CASE UNCHANGED vars
  <2>1. UNCHANGED <<open, stable, active, zsynced, dirty, zl, blk, zh, zh_disk, rec, p, w,
                    mode, crashes>>
    BY <1>6 DEF vars, gc_vars, fs_vars, import_vars
  <2>2. ShapeInv' /\ RecInv' /\ ActiveInv'
    BY <2>1, SameRec, SameActive DEF ZilInv, ShapeInv
  <2>3. Calm
    BY <2>1 DEF Calm, CalmLog, CalmThread, CalmBlock
  <2>. QED  BY <2>2, <2>3, CalmKeeps
<1>. QED  BY <1>1, <1>2, <1>3, <1>4, <1>5, <1>6, CallBeginKeeps, zil_itx_assignKeeps,
             zil_suspendKeeps, zil_lwb_write_doneKeeps, zil_itx_cleanKeeps, CrashKeeps
          DEF Next

\* The inductive invariant holds always: one log writer, zl_suspend counting the
\* suspenders, the header following zl_lwb_list, and a log that is being
\* destroyed left alone, across crashes and imports.
THEOREM ZilInvariant == Spec => []ZilInv
<1>. QED  BY ZilInvInit, ZilInvNext, PTL DEF Spec

\* CreateAfterDestroy: the assertions of zil_create() and zil_sync() hold.  A log
\* is created only once the last one has been destroyed on disk, its first block
\* is in the header when the wait is over, and zil_sync() never finds blocks in a
\* log that it is to destroy.
THEOREM ZilCreateAfterDestroy == Spec => []CreateAfterDestroy
<1>1. ZilInv => CreateAfterDestroy
  <2>. SUFFICES ASSUME ZilInv
                PROVE  CreateAfterDestroy
    OBVIOUS
  <2>1. stable \in Nat /\ zl.destroy_txg \in Nat /\ (zl.destroy_txg > stable => zl.lwb = <<>>)
    BY DEF ZilInv, GroupInv, ShapeInv, DestroyInv
  <2>2. ASSUME NEW t \in Procs, p[t].pc = "created"
        PROVE  /\ zh.claim_txg = 0 /\ zh.replay_seq = 0
               /\ stable >= p[t].txg => zh.log = (IF zl.lwb = <<>> THEN NULL ELSE Head(zl.lwb))
    <3>1. mode = "up"
      BY <2>2, BusyUp
    <3>2. ~(zl.destroy_txg > stable) /\ ~Destroying
      BY <2>1, <2>2 DEF ZilInv, DestroyInv, Destroying, Synced, SyncedIn
    <3>3. Fresh(zh)
      BY <3>1, <3>2 DEF ZilInv, DestroyInv
    <3>4. CreatedOK(t)
      BY <2>2 DEF ZilInv, HeadInv
    <3>5. stable >= p[t].txg => Synced(p[t].txg)
      BY <2>1, <3>4 DEF CreatedOK, Synced, SyncedIn
    <3>. QED  BY <3>3, <3>4, <3>5 DEF Fresh, CreatedOK
  <2>. QED  BY <2>1, <2>2 DEF CreateAfterDestroy
<1>. QED  BY <1>1, ZilInvariant, PTL

\* SuspendedEmpty: a snapshot that is taken between zil_suspend() and zil_resume()
\* finds an empty intent log, however the log writer, other suspenders and the
\* sync thread interleave with it.
THEOREM ZilSuspendedEmpty == Spec => []SuspendedEmpty
<1>1. ZilInv => SuspendedEmpty
  <2>. SUFFICES ASSUME ZilInv, \E t \in Suspenders : p[t].pc = "suspended"
                PROVE  /\ zl.lwb = <<>>
                       /\ zh.log # NULL => zl.destroy_txg > stable
                                           /\ ~(zl.destroy_txg = stable + 1 /\ zsynced)
    BY DEF SuspendedEmpty
  <2>1. zl.lwb = <<>> /\ (zh.log # NULL => Destroying)
    BY DEF ZilInv, HeadInv
  <2>2. stable \in Nat /\ zl.destroy_txg \in Nat
    BY DEF ZilInv, GroupInv, ShapeInv
  <2>. QED  BY <2>1, <2>2 DEF Destroying, Synced, SyncedIn
<1>. QED  BY <1>1, ZilInvariant, PTL

=============================================================================
