--------------------------- MODULE ZilChainProofs ---------------------------
(***************************************************************************)
(* Proofs about the chain of log blocks of Zil, above the protocol that    *)
(* ZilProofs establishes.                                                  *)
(***************************************************************************)
EXTENDS ZilProofs

----------------------------------------------------------------------------
\* The inductive invariant.

Importing == mode \in {"down", "claimed", "replay"}

\* A block that the log may continue after, if its write ends.
LiveIn(f, b) == f[b].next # NULL /\ (f[b].io = "issued" \/ f[b].content # "none")
Live(b) == LiveIn(blk, b)

First(s) == IF s = <<>> THEN NULL ELSE s[1]

\* D is the log on disk: the blocks from the header on, each pointing to the next
\* one, and the last one to nothing that could be read.
Linked(D) ==
  /\ D \in Seq(Blocks) /\ \A i, j \in DOMAIN D : D[i] = D[j] => i = j
  /\ \A i \in DOMAIN D :
       /\ blk[D[i]].birth # 0
       /\ i < Len(D) => blk[D[i]].next = D[i + 1]
       /\ i = Len(D) => ~Live(D[i])

\* The first k of its blocks are gone with the group that is being written; the
\* header in memory has the others.
Headed(D, k) ==
  /\ zh_disk.log = First(D)
  /\ k \in 0 .. Len(D) /\ (k # 0 => zsynced /\ ~Importing)
  /\ ~zsynced => zh.log = zh_disk.log
  /\ \A i \in 1 .. k : blk[D[i]].freed = stable + 1
  /\ k < Len(D) => zh.log = D[k + 1]
  /\ k = Len(D) => zh.log = NULL \/ (zl.lwb # <<>> /\ zh.log = zl.lwb[1])

\* These others are zl_lwb_list; or nobody has the log open.  Then it waits for
\* the import, is being destroyed, or is one block that was kept.
Listed(D, k) ==
  k < Len(D) =>
    /\ zl.lwb # <<>> => Len(zl.lwb) = Len(D) - k /\ \A n \in DOMAIN zl.lwb : zl.lwb[n] = D[k + n]
    /\ zl.lwb = <<>> =>
         IF Importing
         THEN \A i \in DOMAIN D : /\ blk[D[i]].freed = 0
                                  /\ i < Len(D) => blk[D[i]].content = "disk"
         ELSE IF Destroying /\ ~zl.keep_first
         THEN \A i \in k + 1 .. Len(D) : blk[D[i]].freed = zl.destroy_txg
         ELSE Len(D) = 1 /\ k = 0 /\ blk[D[1]].freed = 0

\* The first block of a log that is being created.
Pending(D, k) ==
  zl.lwb # <<>> /\ k = Len(D) =>
    /\ \E t \in Procs : /\ p[t].pc = "created" /\ p[t].txg > stable
                        /\ blk[zl.lwb[1]].birth = p[t].txg
    /\ ~Live(zl.lwb[1]) /\ blk[zl.lwb[1]].recs = <<>>
    /\ \A i \in DOMAIN D : D[i] # zl.lwb[1]

\* Unless a log write has failed: a block is on disk only if the one that points
\* to it is, and there is no block that belongs to nobody.
Written(D) ==
  /\ \A i \in DOMAIN D : i < Len(D) =>
       /\ Issued(D[i]) /\ (blk[D[i]].io = "done" => blk[D[i]].content \in {"cache", "disk"})
       /\ \A j \in i + 1 .. Len(D) :
            /\ blk[D[i]].io = "issued" => active[D[i]] <= blk[D[j]].birth
            /\ blk[D[j]].birth <= stable => blk[D[i]].content = "disk"
  /\ \A b \in Blocks : blk[b].birth # 0 =>
       (\E i \in DOMAIN D : b = D[i]) \/ (\E n \in DOMAIN zl.lwb : b = zl.lwb[n])

\* Along the log sequence numbers grow.
Ordered(D) ==
  \A i, j \in DOMAIN D : \A m \in DOMAIN blk[D[i]].recs, n \in DOMAIN blk[D[j]].recs :
    i < j \/ (i = j /\ m < n) => blk[D[i]].recs[m].seq < blk[D[j]].recs[n].seq

\* What an import found in the log is no longer there when the file system is up.
Opened == ~Importing /\ (mode = "replayed" => zl.destroy_txg <= stable)

\* So what is written to the log, or will be, has been logged since then.
Recent(D) ==
  Opened => \A i \in DOMAIN D : i < Len(D) \/ (\E n \in DOMAIN zl.lwb : D[i] = zl.lwb[n]) =>
    \A n \in DOMAIN blk[D[i]].recs :
      blk[D[i]].recs[n].seq <= zl.lr_seq /\ Current(blk[D[i]].recs[n].itx)

\* And what has been logged since then is in the log.
Reached(D) ==
  \A b \in Blocks : \A n \in DOMAIN blk[b].recs :
    Current(blk[b].recs[n].itx) => \E i \in DOMAIN D : b = D[i]

Recorded(D) == Ordered(D) /\ Recent(D) /\ Reached(D)

IsLog(D, k) ==
  /\ Linked(D) /\ Headed(D, k) /\ Listed(D, k) /\ Pending(D, k) /\ Recorded(D)
  /\ ~LogErrors => Written(D)
  /\ \A h \in {zh, zh_disk} : h.log # NULL /\ h.claim_txg # 0 /\ ~h.needed => Len(D) <= 1

\* zil_sync() runs for groups with changes; a log is created when there is none;
\* the header on disk is that of an open log; a block holds nothing until its
\* write has ended.
OpenInv ==
  /\ zsynced => stable + 1 \in dirty
  /\ \A t \in Procs : p[t].pc = "create" => zl.lwb = <<>>
  /\ ~Importing /\ zl.destroy_txg <= stable => Fresh(zh_disk)
  /\ mode = "claimed" => zh.log = NULL \/ zh.claim_txg # 0
  /\ \A b \in Blocks :
       blk[b].birth \in Nat /\ (blk[b].io # "done" => blk[b].content = "none")

ChainInv == OpenInv /\ \E D \in Seq(Blocks), k \in Nat : IsLog(D, k)

Entries == [itx : Nat, seq : Nat \ {0}]

\* The blocks hold records that there are; the import waits for the group in
\* which it destroys the log.
BookInv ==
  /\ zl.lr_seq \in Nat
  /\ \A b \in Blocks : /\ blk[b].recs \in Seq(Entries)
                        /\ \A n \in DOMAIN blk[b].recs : blk[b].recs[n].itx \in 1 .. Len(rec)
  /\ mode = "replayed" => r.txg = zl.destroy_txg

----------------------------------------------------------------------------
\* The chain that zil_parse() visits.

\* Blocks that differ are at most NBlocks.
LEMMA FewBlocks ==
  ASSUME NEW D \in Seq(Blocks), \A i, j \in DOMAIN D : D[i] = D[j] => i = j
  PROVE  Len(D) <= NBlocks
<1>1. NBlocks \in Nat /\ Len(D) \in Nat /\ D \in [1 .. Len(D) -> 1 .. NBlocks]
      /\ DOMAIN D = 1 .. Len(D)
  BY ZilAssumption DEF Blocks
<1>2. /\ IsFiniteSet(1 .. NBlocks) /\ Cardinality(1 .. NBlocks) = NBlocks
      /\ IsFiniteSet(1 .. Len(D)) /\ Cardinality(1 .. Len(D)) = Len(D)
  <2>1. 1 \in Int /\ NBlocks \in Int /\ Len(D) \in Int
    BY <1>1
  <2>2. IsFiniteSet(1 .. NBlocks) /\ Cardinality(1 .. NBlocks) = NBlocks
    BY <1>1, <2>1, FS_Interval
  <2>. DEFINE l == Len(D)
  <2>3. l \in Nat /\ l \in Int
    BY <1>1
  <2>. HIDE DEF l
  <2>4. IsFiniteSet(1 .. l) /\ Cardinality(1 .. l) = l
    BY <2>1, <2>3, FS_Interval
  <2>. QED  BY <2>2, <2>4 DEF l
<1>. SUFFICES ASSUME Cardinality(1 .. NBlocks) < Cardinality(1 .. Len(D))
              PROVE  FALSE
  BY <1>1, <1>2
<1>3. \E x, y \in 1 .. Len(D) : x # y /\ D[x] = D[y]
  BY <1>1, <1>2, FS_PigeonHole
<1>. QED  BY <1>1, <1>3

\* c is the first l members of D.
Begins(c, D, l) == c \in Seq(Blocks) /\ Len(c) = l /\ \A i \in 1 .. l : c[i] = D[i]

\* The blocks of D are linked in f, and the m-th is the first that cannot be read.
EndsAt(f, D, m) ==
  /\ m \in DOMAIN D /\ ~Valid(f, D[m])
  /\ \A i \in 1 .. m - 1 : Valid(f, D[i]) /\ f[D[i]].next = D[i + 1]

\* A step goes on to the next block of D until there.
LEMMA StepPrefix ==
  ASSUME NEW f, NEW D \in Seq(Blocks), NEW m, EndsAt(f, D, m),
         NEW l \in 1 .. m, NEW c, Begins(c, D, l)
  PROVE  Begins(WalkStep(f, c), D, IF l < m THEN l + 1 ELSE m)
<1>1. m \in 1 .. Len(D) /\ Len(D) \in Nat /\ DOMAIN D = 1 .. Len(D)
  BY DEF EndsAt
<1>2. c \in Seq(Blocks) /\ Len(c) = l /\ c # <<>> /\ Last(c) = D[l]
  BY <1>1 DEF Begins, Last
<1>3. CASE l < m
  <2>1. l \in 1 .. m - 1 /\ l + 1 \in DOMAIN D /\ D[l + 1] \in Blocks
    BY <1>1, <1>3
  <2>2. WalkStep(f, c) = Append(c, D[l + 1])
    BY <1>2, <2>1 DEF WalkStep, EndsAt
  <2>3. \A i \in 1 .. l + 1 : Append(c, D[l + 1])[i] = D[i]
    BY <1>1, <1>2, <2>1 DEF Begins
  <2>4. Append(c, D[l + 1]) \in Seq(Blocks) /\ Len(Append(c, D[l + 1])) = l + 1
    BY <1>2, <2>1
  <2>. QED  BY <1>3, <2>2, <2>3, <2>4 DEF Begins
<1>4. CASE l = m
  <2>1. WalkStep(f, c) = c
    BY <1>2, <1>4 DEF WalkStep, EndsAt
  <2>. QED  BY <1>4, <2>1
<1>. QED  BY <1>1, <1>3, <1>4

\* So the chain is D up to there.
LEMMA ChainIs ==
  ASSUME NEW f, NEW D \in Seq(Blocks), \A i, j \in DOMAIN D : D[i] = D[j] => i = j,
         NEW m, EndsAt(f, D, m)
  PROVE  Begins(Chain(f, D[1]), D, m)
<1>0. NBlocks \in Nat /\ Len(D) <= NBlocks /\ m \in 1 .. Len(D) /\ Len(D) \in Nat
  BY ZilAssumption, FewBlocks DEF EndsAt
<1>1. D[1] \in Blocks /\ D[1] # NULL
  BY <1>0, NullFact
<1>2. PICK g : WalksTo(f, D[1], g, Chain(f, D[1]))
  BY ChainFact
<1>3. /\ Chain(f, D[1]) = g[NBlocks] /\ g[0] = <<D[1]>>
      /\ \A n \in 1 .. NBlocks : g[n] = WalkStep(f, g[n - 1])
  BY <1>1, <1>2 DEF WalksTo
<1>. DEFINE len(n) == IF n < m THEN n + 1 ELSE m
            S == {n \in 0 .. NBlocks : ~Begins(g[n], D, len(n))}
<1>4. S = {}
  <2>. SUFFICES ASSUME S # {}
                PROVE  FALSE
    OBVIOUS
  <2>1. S \in SUBSET Nat
    BY <1>0
  <2>2. PICK n \in S : \A k \in S : ~(<<k, n>> \in OpToRel(<, Nat))
    BY <2>1, WFMin, NatLessThanWellFounded
  <2>3. n \in Nat /\ n \in 0 .. NBlocks /\ \A k \in S : ~(k < n)
    BY <2>1, <2>2 DEF OpToRel
  <2>4. CASE n = 0
    <3>1. Begins(<<D[1]>>, D, 1)
      BY <1>1 DEF Begins
    <3>2. len(0) = 1
      BY <1>0
    <3>. QED  BY <1>3, <2>2, <2>4, <3>1, <3>2
  <2>5. CASE n # 0
    <3>1. n - 1 \in 0 .. NBlocks /\ n - 1 < n /\ n \in 1 .. NBlocks
      BY <1>0, <2>3, <2>5
    <3>2. Begins(g[n - 1], D, len(n - 1))
      BY <2>3, <3>1
    <3>3. /\ len(n - 1) \in 1 .. m
          /\ len(n) = IF len(n - 1) < m THEN len(n - 1) + 1 ELSE m
      BY <1>0, <2>3, <3>1
    <3>. DEFINE l == len(n - 1)
                h == g[n - 1]
    <3>4. Begins(h, D, l) /\ l \in 1 .. m
      BY <3>2, <3>3
    <3>. HIDE DEF l, h
    <3>5. Begins(WalkStep(f, h), D, IF l < m THEN l + 1 ELSE m)
      BY <3>4, StepPrefix
    <3>6. Begins(g[n], D, len(n))
      BY <1>3, <3>1, <3>3, <3>5 DEF l, h
    <3>. QED  BY <2>2, <3>6
  <2>. QED  BY <2>4, <2>5
<1>5. Begins(g[NBlocks], D, len(NBlocks)) /\ len(NBlocks) = m
  BY <1>0, <1>4
<1>. QED  BY <1>3, <1>5

\* Somewhere it ends, at the last block if not before.
LEMMA EndExists ==
  ASSUME NEW f, NEW D \in Seq(Blocks), D # <<>>,
         \A i \in 1 .. Len(D) - 1 : f[D[i]].next = D[i + 1], ~Valid(f, D[Len(D)])
  PROVE  \E m \in DOMAIN D : EndsAt(f, D, m)
<1>. DEFINE S == {i \in DOMAIN D : ~Valid(f, D[i])}
<1>1. Len(D) \in S /\ S \in SUBSET Nat /\ Len(D) \in Nat /\ DOMAIN D = 1 .. Len(D)
  OBVIOUS
<1>2. PICK m \in S : \A k \in S : ~(<<k, m>> \in OpToRel(<, Nat))
  BY <1>1, WFMin, NatLessThanWellFounded
<1>3. m \in Nat /\ \A k \in S : ~(k < m)
  BY <1>1, <1>2 DEF OpToRel
<1>4. EndsAt(f, D, m)
  <2>1. m \in DOMAIN D /\ ~Valid(f, D[m]) /\ m \in 1 .. Len(D)
    BY <1>1, <1>2
  <2>2. ASSUME NEW i \in 1 .. m - 1
        PROVE  Valid(f, D[i]) /\ f[D[i]].next = D[i + 1]
    <3>1. i \in 1 .. Len(D) - 1 /\ i \in DOMAIN D /\ i < m
      BY <1>1, <2>1
    <3>2. i \notin S
      BY <1>3, <3>1
    <3>. QED  BY <3>1, <3>2
  <2>. QED  BY <2>1, <2>2 DEF EndsAt
<1>. QED  BY <1>2, <1>4

----------------------------------------------------------------------------
\* Steps that leave the chain as it is.

\* What FreedOnce says of a step.
FreesOnce ==
  \A b \in Blocks : blk[b].freed # 0 \/ blk[b] = NoBlk => blk'[b].freed \in {0, blk[b].freed}

\* A block stays as it is, its write ends or its contents get to disk.
StillBlock(b) ==
  /\ blk'[b].birth = blk[b].birth /\ blk'[b].freed = blk[b].freed
  /\ blk'[b].next = blk[b].next
  /\ blk'[b].io = "issued" => blk[b].io = "issued" /\ active'[b] = active[b]
  /\ IssuedIn(blk, b) => IssuedIn(blk', b)
  /\ blk'[b].io # "done" => blk[b].io # "done" /\ blk'[b].content = blk[b].content
  /\ blk'[b].content # "none" => blk[b].io = "issued" \/ blk[b].content # "none"
  /\ blk[b].content = "disk" => blk'[b].content = "disk"
  /\ ~LogErrors /\ blk'[b].io = "done" =>
       \/ blk'[b].content \in {"cache", "disk"}
       \/ blk[b].io = "done" /\ blk[b].content \notin {"cache", "disk"}
  /\ blk'[b].recs = blk[b].recs \/ b = w.lwb

\* A log that is being created still is.
StillThread(t) ==
  /\ p[t].pc = "created" /\ p[t].txg > stable => p'[t].pc = "created" /\ p'[t].txg = p[t].txg
  /\ p'[t].pc = "create" => p[t].pc = "create" \/ zl.lwb = <<>>

\* What the blocks hold goes with them.
RecordsKept == \A D \in Seq(Blocks), k \in Nat : IsLog(D, k) => Recorded(D)'

Still ==
  /\ RecordsKept
  /\ UNCHANGED <<stable, zsynced, zh, zh_disk>>
  /\ zl'.lwb = zl.lwb /\ zl'.destroy_txg = zl.destroy_txg /\ zl'.keep_first = zl.keep_first
  /\ \/ mode' = mode
     \/ mode = "claimed" /\ mode' = "replay"
     \/ mode = "replayed" /\ mode' = "up"
  /\ dirty \subseteq dirty'
  /\ \A t \in Procs : StillThread(t)
  /\ \A b \in Blocks : StillBlock(b)

\* They keep the invariant.
LEMMA StillKeeps ==
  ASSUME ZilInv, ChainInv, Still
  PROVE  ChainInv' /\ FreesOnce
<1>1. /\ UNCHANGED <<stable, zsynced, zh, zh_disk>>
      /\ zl'.lwb = zl.lwb /\ zl'.destroy_txg = zl.destroy_txg /\ zl'.keep_first = zl.keep_first
      /\ dirty \subseteq dirty' /\ zl.lwb \in Seq(Blocks)
      /\ \A t \in Procs : StillThread(t)
  BY DEF Still, ZilInv, ShapeInv
<1>2. \A b \in Blocks : StillBlock(b)
  BY DEF Still
<1>3. Importing' <=> Importing
  BY DEF Still, Importing
<1>4. mode' = "claimed" => mode = "claimed"
  BY DEF Still
<1>5. \A b \in Blocks : Live(b)' => Live(b)
  BY <1>2 DEF Live, LiveIn, StillBlock
<1>6. Destroying' <=> Destroying
  BY <1>1 DEF Destroying, Synced, SyncedIn
<1>7. OpenInv'
  <2>1. OpenInv
    BY DEF ChainInv
  <2>2. \A b \in Blocks : blk'[b].birth \in Nat /\ (blk'[b].io # "done" => blk'[b].content = "none")
    BY <1>2, <2>1 DEF OpenInv, StillBlock
  <2>3. \A t \in Procs : p'[t].pc = "create" => zl'.lwb = <<>>
    BY <1>1, <2>1 DEF OpenInv, StillThread
  <2>. QED  BY <1>1, <1>3, <1>4, <2>1, <2>2, <2>3 DEF OpenInv
<1>8. PICK D \in Seq(Blocks), k \in Nat : IsLog(D, k)
  BY DEF ChainInv
<1>9. /\ Len(D) \in Nat /\ DOMAIN D = 1 .. Len(D) /\ \A i \in DOMAIN D : D[i] \in Blocks
  BY <1>8
<1>10. Linked(D)'
  <2>1. \A i \in DOMAIN D : /\ blk'[D[i]].birth # 0
                            /\ i < Len(D) => blk'[D[i]].next = D[i + 1]
                            /\ i = Len(D) => ~Live(D[i])'
    BY <1>2, <1>5, <1>8, <1>9 DEF IsLog, Linked, StillBlock
  <2>. QED  BY <1>8, <2>1 DEF IsLog, Linked
<1>11. Headed(D, k)'
  <2>1. \A i \in 1 .. k : D[i] \in Blocks
    BY <1>8, <1>9 DEF IsLog, Headed
  <2>2. \A i \in 1 .. k : blk'[D[i]].freed = stable + 1
    BY <1>2, <1>8, <2>1 DEF IsLog, Headed, StillBlock
  <2>. QED  BY <1>1, <1>3, <1>8, <2>2 DEF IsLog, Headed
<1>12. Listed(D, k)'
  <2>1. \A i \in DOMAIN D : /\ blk'[D[i]].freed = blk[D[i]].freed
                            /\ blk[D[i]].content = "disk" => blk'[D[i]].content = "disk"
    BY <1>2, <1>9 DEF StillBlock
  <2>2. Len(D) = 1 => 1 \in DOMAIN D
    BY <1>9
  <2>3. \A i \in k + 1 .. Len(D) : i \in DOMAIN D
    BY <1>9
  <2>. QED  BY <1>1, <1>3, <1>6, <1>8, <2>1, <2>2, <2>3 DEF IsLog, Listed
<1>13. Pending(D, k)'
  <2>. SUFFICES ASSUME zl.lwb # <<>>, k = Len(D)
                PROVE  Pending(D, k)'
    BY <1>1 DEF Pending
  <2>1. zl.lwb[1] \in Blocks
    BY <1>1
  <2>2. PICK t \in Procs : p[t].pc = "created" /\ p[t].txg > stable
                           /\ blk[zl.lwb[1]].birth = p[t].txg
    BY <1>8 DEF IsLog, Pending
  <2>3. p'[t].pc = "created" /\ p'[t].txg > stable /\ blk'[zl.lwb[1]].birth = p'[t].txg
    BY <1>1, <1>2, <2>1, <2>2 DEF StillThread, StillBlock
  <2>4. ~Live(zl.lwb[1])' /\ \A i \in DOMAIN D : D[i] # zl.lwb[1]
    BY <1>1, <1>5, <1>8, <2>1 DEF IsLog, Pending
  <2>5. w.lwb = NULL
    BY <2>2 DEF ZilInv, WriterInv, Creating
  <2>6. blk'[zl.lwb[1]].recs = <<>>
    BY <1>2, <1>8, <2>1, <2>5, NullFact DEF IsLog, Pending, StillBlock
  <2>. QED  BY <1>1, <2>3, <2>4, <2>6 DEF Pending
<1>14. ASSUME ~LogErrors
       PROVE  Written(D)'
  <2>1. Written(D)
    BY <1>8, <1>14 DEF IsLog
  <2>2. ASSUME NEW i \in DOMAIN D, i < Len(D)
        PROVE  /\ Issued(D[i])' /\ (blk'[D[i]].io = "done" => blk'[D[i]].content \in {"cache", "disk"})
               /\ \A j \in i + 1 .. Len(D) :
                    /\ blk'[D[i]].io = "issued" => active'[D[i]] <= blk'[D[j]].birth
                    /\ blk'[D[j]].birth <= stable' => blk'[D[i]].content = "disk"
    <3>1. Issued(D[i]) /\ (blk[D[i]].io = "done" => blk[D[i]].content \in {"cache", "disk"})
      BY <2>1, <2>2 DEF Written
    <3>2. StillBlock(D[i])
      BY <1>2, <1>9
    <3>3. Issued(D[i])' /\ (blk'[D[i]].io = "done" => blk'[D[i]].content \in {"cache", "disk"})
      BY <1>14, <3>1, <3>2 DEF StillBlock, Issued
    <3>4. ASSUME NEW j \in i + 1 .. Len(D)
          PROVE  /\ blk'[D[i]].io = "issued" => active'[D[i]] <= blk'[D[j]].birth
                 /\ blk'[D[j]].birth <= stable' => blk'[D[i]].content = "disk"
      <4>1. D[j] \in Blocks
        BY <1>9
      <4>2. blk'[D[j]].birth = blk[D[j]].birth
        BY <1>2, <4>1 DEF StillBlock
      <4>. QED  BY <1>1, <2>1, <2>2, <3>2, <3>4, <4>2 DEF Written, StillBlock
    <3>. QED  BY <3>3, <3>4
  <2>3. \A b \in Blocks : blk'[b].birth # 0 =>
          (\E i \in DOMAIN D : b = D[i]) \/ (\E n \in DOMAIN zl'.lwb : b = zl'.lwb[n])
    BY <1>1, <1>2, <2>1 DEF Written, StillBlock
  <2>. QED  BY <2>2, <2>3 DEF Written
<1>15. IsLog(D, k)'
  <2>1. Recorded(D)'
    BY <1>8 DEF Still, RecordsKept
  <2>. QED  BY <1>1, <1>8, <1>10, <1>11, <1>12, <1>13, <1>14, <2>1 DEF IsLog
<1>16. FreesOnce
  BY <1>2 DEF FreesOnce, StillBlock
<1>. QED  BY <1>7, <1>8, <1>15, <1>16 DEF ChainInv

SameLog ==
  /\ zl'.lwb = zl.lwb /\ zl'.destroy_txg = zl.destroy_txg /\ zl'.keep_first = zl.keep_first
  /\ zl'.lr_seq = zl.lr_seq

\* What is current in the blocks stays so.
SameCurrent ==
  \A b \in Blocks : \A n \in DOMAIN blk[b].recs :
    CurrentIn(rec', crashes', blk[b].recs[n].itx) <=> CurrentIn(rec, crashes, blk[b].recs[n].itx)

\* It does when no record is made.
LEMMA SameRecords ==
  ASSUME UNCHANGED <<rec, crashes>>
  PROVE  SameCurrent
BY DEF SameCurrent

\* The blocks hold what they held, or have been wiped.
SameRecs == \A b \in Blocks : blk'[b].recs \in {blk[b].recs, <<>>}

\* Then a part of an ordered log is.
LEMMA OrderKeeps ==
  ASSUME NEW D \in Seq(Blocks), NEW E \in Seq(Blocks), NEW d \in Nat, Ordered(D), SameRecs,
         \A i \in DOMAIN E : d + i \in DOMAIN D /\ E[i] = D[d + i]
  PROVE  Ordered(E)'
<1>. SUFFICES ASSUME NEW i \in DOMAIN E, NEW j \in DOMAIN E,
                     NEW m \in DOMAIN blk'[E[i]].recs, NEW n \in DOMAIN blk'[E[j]].recs,
                     i < j \/ (i = j /\ m < n)
              PROVE  blk'[E[i]].recs[m].seq < blk'[E[j]].recs[n].seq
  BY DEF Ordered
<1>1. d + i \in DOMAIN D /\ d + j \in DOMAIN D /\ E[i] = D[d + i] /\ E[j] = D[d + j]
  OBVIOUS
<1>2. E[i] \in Blocks /\ E[j] \in Blocks /\ i \in Nat /\ j \in Nat
  OBVIOUS
<1>3. blk'[E[i]].recs = blk[E[i]].recs /\ blk'[E[j]].recs = blk[E[j]].recs
  <2>1. blk'[E[i]].recs # <<>> /\ blk'[E[j]].recs # <<>>
    OBVIOUS
  <2>. QED  BY <1>2, <2>1 DEF SameRecs
<1>4. d + i < d + j \/ (d + i = d + j /\ m < n)
  BY <1>2
<1>. QED  BY <1>1, <1>3, <1>4 DEF Ordered

\* What is in the log stays there.
LEMMA ReachedKeeps ==
  ASSUME NEW D \in Seq(Blocks), Reached(D), SameRecs, SameCurrent
  PROVE  Reached(D)'
<1>. SUFFICES ASSUME NEW b \in Blocks, NEW n \in DOMAIN blk'[b].recs,
                     CurrentIn(rec', crashes', blk'[b].recs[n].itx)
              PROVE  \E i \in DOMAIN D : b = D[i]
  BY DEF Reached, Current
<1>1. blk'[b].recs = blk[b].recs
  <2>1. blk'[b].recs # <<>>
    OBVIOUS
  <2>. QED  BY <2>1 DEF SameRecs
<1>. QED  BY <1>1 DEF Reached, SameCurrent, Current

\* A log that is open stays so, if nothing but an empty block is added.
LEMMA RecentKeeps ==
  ASSUME NEW D \in Seq(Blocks), Recent(D), SameRecs, SameCurrent, Opened' => Opened,
         \A i \in DOMAIN D : \A m \in DOMAIN zl'.lwb : D[i] = zl'.lwb[m] =>
           (\E n \in DOMAIN zl.lwb : D[i] = zl.lwb[n]) \/ blk'[D[i]].recs = <<>>,
         zl'.lr_seq = zl.lr_seq
  PROVE  Recent(D)'
<1>. SUFFICES ASSUME Opened', NEW i \in DOMAIN D,
                     i < Len(D) \/ (\E n \in DOMAIN zl'.lwb : D[i] = zl'.lwb[n]),
                     NEW n \in DOMAIN blk'[D[i]].recs
              PROVE  /\ blk'[D[i]].recs[n].seq <= zl'.lr_seq
                     /\ CurrentIn(rec', crashes', blk'[D[i]].recs[n].itx)
  BY DEF Recent, Current
<1>1. D[i] \in Blocks /\ blk'[D[i]].recs # <<>>
  OBVIOUS
<1>2. blk'[D[i]].recs = blk[D[i]].recs
  BY <1>1 DEF SameRecs
<1>3. i < Len(D) \/ (\E m \in DOMAIN zl.lwb : D[i] = zl.lwb[m])
  BY <1>1
<1>. QED  BY <1>1, <1>2, <1>3 DEF Recent, SameCurrent, Current

\* So the records are kept, if they are recent.
LEMMA RecordedKeeps ==
  ASSUME NEW D \in Seq(Blocks), Recorded(D), SameRecs, SameCurrent, Recent(D)'
  PROVE  Recorded(D)'
<1>1. Ordered(D) /\ Reached(D)
  BY DEF Recorded
<1>2. Reached(D)'
  BY <1>1, ReachedKeeps
<1>3. Ordered(D)'
  <2>. DEFINE d == 0
  <2>1. d \in Nat /\ \A i \in DOMAIN D : d + i \in DOMAIN D /\ D[i] = D[d + i]
    OBVIOUS
  <2>. HIDE DEF d
  <2>. QED  BY <1>1, <2>1, OrderKeeps
<1>. QED  BY <1>2, <1>3 DEF Recorded

\* Steps that log nothing keep them.
LEMMA KeptRecords ==
  ASSUME SameRecs, SameCurrent, Opened' => Opened, SameLog
  PROVE  RecordsKept
<1>. SUFFICES ASSUME NEW D \in Seq(Blocks), NEW k \in Nat, IsLog(D, k)
              PROVE  Recorded(D)'
  BY DEF RecordsKept
<1>1. Recorded(D) /\ Recent(D)
  BY DEF IsLog, Recorded
<1>2. Recent(D)'
  BY <1>1, RecentKeeps DEF SameLog
<1>. QED  BY <1>1, <1>2, RecordedKeeps

\* So do steps that do not touch the blocks at all.
LEMMA SameChain ==
  ASSUME ZilInv, ChainInv, SameLog, dirty \subseteq dirty',
         \A t \in Procs : StillThread(t), \A b \in Blocks : active'[b] = active[b],
         UNCHANGED <<stable, zsynced, zh, zh_disk, blk, mode>>, SameCurrent
  PROVE  ChainInv' /\ FreesOnce
<1>1. \A b \in Blocks : StillBlock(b)
  BY DEF StillBlock
<1>2. RecordsKept
  BY KeptRecords DEF SameRecs, Opened, Importing, SameLog
<1>3. Still
  BY <1>1, <1>2 DEF Still, SameLog
<1>. QED  BY <1>3, StillKeeps

\* CallBegin() leaves the chain as it is.
LEMMA CallBeginChain ==
  ASSUME ZilInv, ChainInv, NEW t \in Threads, NEW k, CallBegin(t, k)
  PROVE  ChainInv' /\ FreesOnce
<1>1. /\ p[t].pc = "idle" /\ p' = [p EXCEPT ![t] = [p[t] EXCEPT !.pc = "call", !.kind = k]]
      /\ GC!Begin(t) /\ UNCHANGED <<dirty, zsynced, zl, blk, zh, zh_disk, mode, rec, crashes>>
  BY DEF CallBegin, fs_vars, import_vars
<1>2. t \in Procs /\ t \notin Blocks /\ DOMAIN p = Procs /\ IsProc(p[t])
  BY NullFact DEF ZilInv, ShapeInv
<1>3. UNCHANGED <<open, stable>> /\ \A b \in Blocks : active'[b] = active[b]
  BY <1>1, <1>2, BeginActive
<1>4. p'[t].pc = "call" /\ \A u \in Procs : u # t => p'[u] = p[u]
  BY <1>1, <1>2 DEF IsProc
<1>5. \A u \in Procs : StillThread(u)
  BY <1>1, <1>4 DEF StillThread
<1>. QED  BY <1>1, <1>3, <1>5, SameRecords, SameChain DEF SameLog

\* zil_itx_assign() adds a record to those that there are.
LEMMA AssignRec ==
  ASSUME ZilInv, NEW t \in Threads, zil_itx_assign(t)
  PROVE  /\ Len(rec) \in Nat /\ Len(rec') = Len(rec) + 1 /\ crashes' = crashes
         /\ DOMAIN rec = 1 .. Len(rec) /\ DOMAIN rec' = 1 .. Len(rec) + 1
         /\ \A i \in 1 .. Len(rec) : rec'[i] = rec[i]
<1>. DEFINE x == [foid |-> p[t].kind.foid, ooo |-> p[t].kind.ooo,
                  sync |-> p[t].kind.sync, txg |-> active[t], boot |-> crashes]
<1>1. rec' = Append(rec, x) /\ crashes' = crashes
  BY DEF zil_itx_assign, import_vars
<1>. HIDE DEF x
<1>2. Len(rec) \in Nat /\ DOMAIN rec = 1 .. Len(rec)
  BY DEF ZilInv, RecInv
<1>. QED  BY <1>1, <1>2

\* So does zil_itx_assign().
LEMMA zil_itx_assignChain ==
  ASSUME ZilInv, BookInv, ChainInv, NEW t \in Threads, zil_itx_assign(t)
  PROVE  ChainInv' /\ FreesOnce
<1>1. /\ p[t].pc = "call" /\ p' = [p EXCEPT ![t] = Idle] /\ GC!End(t)
      /\ zl' = [zl EXCEPT !.itx = Append(@, Len(rec) + 1)]
      /\ dirty' = dirty \cup {active[t]}
      /\ UNCHANGED <<zsynced, blk, zh, zh_disk, mode>>
  BY DEF zil_itx_assign, import_vars
<1>2. t \in Procs /\ t \notin Blocks /\ DOMAIN p = Procs /\ IsZl(zl)
  BY NullFact DEF ZilInv, ShapeInv
<1>3. UNCHANGED <<open, stable>> /\ \A b \in Blocks : active'[b] = active[b]
  BY <1>1, <1>2, EndActive
<1>4. p'[t].pc = "idle" /\ \A u \in Procs : u # t => p'[u] = p[u]
  BY <1>1, <1>2 DEF Idle
<1>5. \A u \in Procs : StillThread(u)
  BY <1>1, <1>4 DEF StillThread
<1>6. SameLog
  BY <1>1, <1>2 DEF SameLog, IsZl
<1>7. SameCurrent
  <2>1. Len(rec) \in Nat /\ Len(rec') \in Nat /\ Len(rec) <= Len(rec') /\ crashes' = crashes
        /\ \A i \in 1 .. Len(rec) : rec'[i] = rec[i]
    BY AssignRec
  <2>2. ASSUME NEW i \in 1 .. Len(rec)
        PROVE  CurrentIn(rec', crashes', i) <=> CurrentIn(rec, crashes, i)
    BY <2>1, <2>2 DEF CurrentIn
  <2>. QED  BY <2>2 DEF SameCurrent, BookInv
<1>. QED  BY <1>1, <1>3, <1>5, <1>6, <1>7, SameChain

\* A thread that is woken does not create a log.
LEMMA WokenStill ==
  ASSUME NEW u \in Procs, Woken(p[u], p'[u])
  PROVE  StillThread(u)
BY DEF Woken, StillThread

\* The thread that becomes the log writer may begin to create one if there is none.
LEMMA BecomeWriterStill ==
  ASSUME ZilInv, NEW t \in Procs, p[t].pc # "created",
         NEW q, DOMAIN q = Procs, \A u \in Procs : IsProc(q[u]),
         \A u \in Procs : u # t => q[u] = p[u],
         BecomeWriter(t, q)
  PROVE  SameLog /\ \A u \in Procs : StillThread(u)
<1>1. CASE Return(t, Wake(q)) /\ UNCHANGED <<zl, w>>
  <2>1. DOMAIN Wake(q) = Procs /\ \A u \in Procs : IsProc(Wake(q)[u]) /\ Woken(q[u], Wake(q)[u])
    BY WakeFact
  <2>2. /\ \A u \in Procs : u # t => Woken(p[u], p'[u])
        /\ p'[t].pc # "create"
    BY <1>1, <2>1, ReturnFact
  <2>. QED  BY <1>1, <2>2, WokenStill DEF SameLog, StillThread
<1>2. CASE ~(Return(t, Wake(q)) /\ UNCHANGED <<zl, w>>)
  <2>1. zl' = [zl EXCEPT !.writer = t]
    BY <1>2 DEF BecomeWriter
  <2>2. \/ p' = [q EXCEPT ![t] = [q[t] EXCEPT !.pc = "push"]]
        \/ zl.lwb = <<>> /\ p' = [q EXCEPT ![t] = [q[t] EXCEPT !.pc = "create"]]
    BY <1>2 DEF BecomeWriter
  <2>3. SameLog
    BY <2>1 DEF SameLog, ZilInv, ShapeInv, IsZl
  <2>4. /\ \A u \in Procs : u # t => p'[u] = p[u]
        /\ p'[t].pc = "create" => zl.lwb = <<>>
    BY <2>2 DEF IsProc
  <2>. QED  BY <2>3, <2>4 DEF StillThread
<1>. QED  BY <1>1, <1>2

\* zil_commit() leaves the chain as it is.
LEMMA zil_commitChain ==
  ASSUME ZilInv, ChainInv, NEW t \in Procs, NEW f, NEW seq, zil_commit(t, f, seq)
  PROVE  ChainInv' /\ FreesOnce
<1>. DEFINE q == [p EXCEPT ![t].seq = seq, ![t].foid = f]
<1>1. /\ p[t].pc \in {"idle", "suspCommit"}
      /\ UNCHANGED <<stable, active, dirty, zsynced, blk, zh, zh_disk, mode, rec, crashes>>
      /\ \/ p' = [q EXCEPT ![t].pc = "cvWait"] /\ UNCHANGED zl
         \/ BecomeWriter(t, q)
  BY DEF zil_commit, gc_vars, fs_vars, import_vars
<1>2. DOMAIN p = Procs /\ \A u \in Procs : IsProc(p[u])
  BY DEF ZilInv, ShapeInv
<1>3. DOMAIN q = Procs /\ (\A u \in Procs : u # t => q[u] = p[u]) /\ IsProc(q[t])
  BY <1>2 DEF IsProc
<1>. HIDE DEF q
<1>4. \A u \in Procs : IsProc(q[u])
  BY <1>2, <1>3
<1>5. SameLog /\ \A u \in Procs : StillThread(u)
  <2>1. CASE BecomeWriter(t, q)
    BY <1>1, <1>3, <1>4, <2>1, BecomeWriterStill
  <2>2. CASE p' = [q EXCEPT ![t].pc = "cvWait"] /\ UNCHANGED zl
    <3>1. p'[t].pc = "cvWait" /\ \A u \in Procs : u # t => p'[u] = p[u]
      BY <1>3, <2>2 DEF IsProc
    <3>. QED  BY <1>1, <2>2, <3>1 DEF SameLog, StillThread
  <2>. QED  BY <1>1, <2>1, <2>2
<1>. QED  BY <1>1, <1>5, SameRecords, SameChain

\* So does a thread that wakes up in it.
LEMMA zil_commit_wakeupChain ==
  ASSUME ZilInv, ChainInv, NEW t \in Procs, zil_commit_wakeup(t)
  PROVE  ChainInv' /\ FreesOnce
<1>1. /\ p[t].pc = "cvWoken"
      /\ UNCHANGED <<stable, active, dirty, zsynced, blk, zh, zh_disk, mode, rec, crashes>>
      /\ \/ Return(t, p) /\ UNCHANGED zl
         \/ p' = [p EXCEPT ![t].pc = "cvWait"] /\ UNCHANGED zl
         \/ BecomeWriter(t, p)
  BY DEF zil_commit_wakeup, gc_vars, fs_vars, import_vars
<1>2. DOMAIN p = Procs /\ \A u \in Procs : IsProc(p[u])
  BY DEF ZilInv, ShapeInv
<1>3. SameLog /\ \A u \in Procs : StillThread(u)
  <2>1. CASE BecomeWriter(t, p)
    BY <1>1, <1>2, <2>1, BecomeWriterStill
  <2>2. CASE p' = [p EXCEPT ![t].pc = "cvWait"] /\ UNCHANGED zl
    <3>1. p'[t].pc = "cvWait" /\ \A u \in Procs : u # t => p'[u] = p[u]
      BY <1>2, <2>2 DEF IsProc
    <3>. QED  BY <1>1, <2>2, <3>1 DEF SameLog, StillThread
  <2>3. CASE Return(t, p) /\ UNCHANGED zl
    <3>1. p'[t].pc # "create" /\ \A u \in Procs : u # t => p'[u] = p[u]
      BY <1>2, <2>3, ReturnFact
    <3>. QED  BY <1>1, <2>3, <3>1 DEF SameLog, StillThread
  <2>. QED  BY <1>1, <2>1, <2>2, <2>3
<1>. QED  BY <1>1, <1>3, SameRecords, SameChain

\* The log writer in its loop does not create a log, and neither does anybody else.
LEMMA LoopStill ==
  ASSUME ZilInv, NEW t \in Procs, p[t].pc \in LoopPcs, \A u \in Procs : u # t => Woken(p[u], p'[u]),
         p'[t].pc # "create"
  PROVE  \A u \in Procs : StillThread(u)
<1>1. p[t].pc # "created"
  BY DEF LoopPcs
<1>. QED  BY <1>1, WokenStill DEF StillThread

\* TakeItx() leaves the chain as it is.
LEMMA TakeItxChain ==
  ASSUME ZilInv, ChainInv, NEW t \in Procs, TakeItx(t)
  PROVE  ChainInv' /\ FreesOnce
<1>1. /\ p[t].pc = "push" /\ zl' = [zl EXCEPT !.itx = RemoveItx(zl.itx, NextItx(t))]
      /\ p' = [p EXCEPT ![t] = [p[t] EXCEPT !.pc = "log"]] \/ p' = p
      /\ UNCHANGED <<stable, active, dirty, zsynced, blk, zh, zh_disk, mode, rec, crashes>>
  BY DEF TakeItx, gc_vars, fs_vars, import_vars
<1>2. DOMAIN p = Procs /\ IsProc(p[t]) /\ IsZl(zl)
  BY DEF ZilInv, ShapeInv
<1>3. p'[t].pc # "create" /\ \A u \in Procs : u # t => p'[u] = p[u]
  BY <1>1, <1>2 DEF IsProc
<1>4. SameLog
  BY <1>1, <1>2 DEF SameLog, IsZl
<1>5. \A u \in Procs : StillThread(u)
  BY <1>1, <1>3, LoopStill DEF LoopPcs, Woken
<1>. QED  BY <1>1, <1>4, <1>5, SameRecords, SameChain

\* So does RecordSynced().
LEMMA RecordSyncedChain ==
  ASSUME ZilInv, ChainInv, NEW t \in Procs, RecordSynced(t)
  PROVE  ChainInv' /\ FreesOnce
<1>1. /\ p[t].pc = "recWait" /\ p' = [p EXCEPT ![t] = [p[t] EXCEPT !.pc = "push", !.txg = 0]]
      /\ UNCHANGED <<stable, active, dirty, zsynced, zl, blk, zh, zh_disk, mode, rec, crashes>>
  BY DEF RecordSynced, gc_vars, fs_vars, import_vars
<1>2. DOMAIN p = Procs /\ IsProc(p[t])
  BY DEF ZilInv, ShapeInv
<1>3. p'[t].pc # "create" /\ \A u \in Procs : u # t => p'[u] = p[u]
  BY <1>1, <1>2 DEF IsProc
<1>4. \A u \in Procs : StillThread(u)
  BY <1>1, <1>3, LoopStill DEF LoopPcs, Woken
<1>. QED  BY <1>1, <1>4, SameRecords, SameChain DEF SameLog

\* A flush puts blocks on disk.
LEMMA FlushBlocks ==
  ASSUME ZilInv, NEW b \in Blocks
  PROVE  /\ Flushed[b].birth = blk[b].birth /\ Flushed[b].freed = blk[b].freed
         /\ Flushed[b].next = blk[b].next /\ Flushed[b].io = blk[b].io
         /\ Flushed[b].content = (IF blk[b].content = "cache" THEN "disk" ELSE blk[b].content)
         /\ Flushed[b].recs = blk[b].recs /\ Flushed[b].max_txg = blk[b].max_txg
<1>1. IsBlk(blk[b])
  BY DEF ZilInv, ShapeInv
<1>2. Flushed[b] = [blk[b] EXCEPT !.content = IF @ = "cache" THEN "disk" ELSE @]
  BY DEF Flushed
<1>. QED  BY <1>1, <1>2 DEF IsBlk

\* Publish() creates no log.
LEMMA PublishStill ==
  ASSUME ZilInv, NEW t \in Procs, p[t].pc \in LoopPcs, Publish(t)
  PROVE  SameLog /\ \A u \in Procs : StillThread(u)
<1>1. zl' = [zl EXCEPT !.writer = NULL, !.commit_seq = w.commit_seq] /\ Return(t, Wake(p))
  BY DEF Publish
<1>2. SameLog
  BY <1>1 DEF SameLog, ZilInv, ShapeInv, IsZl
<1>3. /\ DOMAIN Wake(p) = Procs
      /\ \A u \in Procs : IsProc(Wake(p)[u]) /\ Woken(p[u], Wake(p)[u])
  BY WakeFact DEF ZilInv, ShapeInv
<1>4. (\A u \in Procs : u # t => Woken(p[u], p'[u])) /\ p'[t].pc # "create"
  BY <1>1, <1>3, ReturnFact
<1>. QED  BY <1>2, <1>4, LoopStill

\* WaitForWrites() leaves the chain as it is.
LEMMA WaitForWritesChain ==
  ASSUME ZilInv, ChainInv, NEW t \in Procs, WaitForWrites(t)
  PROVE  ChainInv' /\ FreesOnce
<1>1. /\ p[t].pc = "io" /\ blk' = Flushed
      /\ UNCHANGED <<stable, active, dirty, zsynced, zh, zh_disk, mode, rec, crashes>>
      /\ \/ Publish(t)
         \/ /\ p' = [p EXCEPT ![t] = [p[t] EXCEPT !.pc = "sync", !.txg = open + TXG_DEFER_SIZE]]
            /\ UNCHANGED zl
  BY DEF WaitForWrites, gc_vars, fs_vars, import_vars
<1>2. DOMAIN p = Procs /\ IsProc(p[t]) /\ p[t].pc \in LoopPcs
  BY <1>1 DEF ZilInv, ShapeInv, LoopPcs
<1>3. SameLog /\ \A u \in Procs : StillThread(u)
  <2>1. CASE Publish(t)
    BY <1>2, <2>1, PublishStill
  <2>2. CASE /\ p' = [p EXCEPT ![t] = [p[t] EXCEPT !.pc = "sync", !.txg = open + TXG_DEFER_SIZE]]
             /\ UNCHANGED zl
    <3>1. p'[t].pc # "create" /\ \A u \in Procs : u # t => p'[u] = p[u]
      BY <1>2, <2>2 DEF IsProc
    <3>. QED  BY <1>2, <2>2, <3>1, LoopStill DEF SameLog, Woken
  <2>. QED  BY <1>1, <2>1, <2>2
<1>4. \A b \in Blocks : blk[b].io # "done" => blk[b].content = "none"
  BY DEF ChainInv, OpenInv
<1>5. ASSUME NEW b \in Blocks
      PROVE  StillBlock(b)
  <2>1. /\ blk'[b].birth = blk[b].birth /\ blk'[b].freed = blk[b].freed
        /\ blk'[b].next = blk[b].next /\ blk'[b].io = blk[b].io
        /\ blk'[b].content = (IF blk[b].content = "cache" THEN "disk" ELSE blk[b].content)
        /\ blk'[b].recs = blk[b].recs
    BY <1>1, FlushBlocks
  <2>. QED  BY <1>1, <1>4, <2>1 DEF StillBlock, IssuedIn
<1>6. Still
  <2>1. RecordsKept
    BY <1>1, <1>3, FlushBlocks, SameRecords, KeptRecords DEF SameRecs, Opened, Importing, SameLog
  <2>. QED  BY <1>1, <1>3, <1>5, <2>1 DEF Still, SameLog
<1>. QED  BY <1>6, StillKeeps

\* So does WaitForSync().
LEMMA WaitForSyncChain ==
  ASSUME ZilInv, ChainInv, NEW t \in Procs, WaitForSync(t)
  PROVE  ChainInv' /\ FreesOnce
<1>1. /\ p[t].pc \in LoopPcs /\ Publish(t)
      /\ UNCHANGED <<stable, active, dirty, zsynced, blk, zh, zh_disk, mode, rec, crashes>>
  BY DEF WaitForSync, gc_vars, fs_vars, import_vars, LoopPcs
<1>2. SameLog /\ \A u \in Procs : StillThread(u)
  BY <1>1, PublishStill
<1>. QED  BY <1>1, <1>2, SameRecords, SameChain

\* So does zil_itx_clean().
LEMMA zil_itx_cleanChain ==
  ASSUME ZilInv, ChainInv, zil_itx_clean
  PROVE  ChainInv' /\ FreesOnce
<1>. DEFINE x == FALSE
            l == zl'.itx
<1>1. /\ zl' = [zl EXCEPT !.clean = x, !.itx = l] /\ p' = Wake(p)
      /\ UNCHANGED <<stable, active, dirty, zsynced, blk, zh, zh_disk, mode, rec, crashes>>
  <2>. DEFINE synced == {n \in DOMAIN zl.itx : \A m \in 1 .. n : rec[zl.itx[m]].txg <= stable}
              s == SubSeq(zl.itx, Cardinality(synced) + 1, Len(zl.itx))
  <2>1. /\ zl' = [zl EXCEPT !.clean = x, !.itx = s] /\ p' = Wake(p)
        /\ UNCHANGED <<stable, active, dirty, zsynced, blk, zh, zh_disk, mode, rec, crashes>>
    BY DEF zil_itx_clean, gc_vars, fs_vars, import_vars
  <2>. HIDE DEF s, x
  <2>2. zl'.itx = s
    BY <2>1 DEF ZilInv, ShapeInv, IsZl
  <2>. QED  BY <2>1, <2>2
<1>. HIDE DEF x, l
<1>2. SameLog
  BY <1>1 DEF SameLog, ZilInv, ShapeInv, IsZl
<1>3. \A u \in Procs : StillThread(u)
  BY <1>1, WakeFact, WokenStill DEF ZilInv, ShapeInv
<1>. QED  BY <1>1, <1>2, <1>3, SameRecords, SameChain

\* A suspension that begins leaves the chain as it is.
LEMMA zil_suspendChain ==
  ASSUME ZilInv, ChainInv, NEW t \in Suspenders, zil_suspend(t)
  PROVE  ChainInv' /\ FreesOnce
<1>. DEFINE x == zl.suspending \/ zl.suspend = 0
            y == IF zl.suspend = 0 THEN "suspCommit"
                 ELSE IF zl.suspending THEN "suspWait" ELSE "suspended"
<1>1. /\ p[t].pc = "idle" /\ zl' = [zl EXCEPT !.suspend = @ + 1, !.suspending = x]
      /\ p' = [p EXCEPT ![t] = [p[t] EXCEPT !.pc = y]]
      /\ UNCHANGED <<stable, active, dirty, zsynced, blk, zh, zh_disk, mode, rec, crashes>>
  BY DEF zil_suspend, gc_vars, fs_vars, import_vars
<1>2. y # "create"
  OBVIOUS
<1>. HIDE DEF x, y
<1>3. t \in Procs /\ DOMAIN p = Procs /\ IsProc(p[t]) /\ IsZl(zl)
  BY NullFact DEF ZilInv, ShapeInv
<1>4. SameLog
  BY <1>1, <1>3 DEF SameLog, IsZl
<1>5. p'[t].pc = y /\ \A u \in Procs : u # t => p'[u] = p[u]
  BY <1>1, <1>3 DEF IsProc
<1>6. \A u \in Procs : StillThread(u)
  BY <1>1, <1>2, <1>5 DEF StillThread
<1>. QED  BY <1>1, <1>4, <1>6, SameRecords, SameChain

\* So does its wait for the log writer.
LEMMA SuspendDrainChain ==
  ASSUME ZilInv, ChainInv, NEW t \in Suspenders, SuspendDrain(t)
  PROVE  ChainInv' /\ FreesOnce
<1>. DEFINE y == IF zl.writer # NULL THEN "drainWait" ELSE "destroy"
<1>1. /\ p[t].pc = "drain" /\ p' = [p EXCEPT ![t] = [p[t] EXCEPT !.pc = y]]
      /\ UNCHANGED <<stable, active, dirty, zsynced, zl, blk, zh, zh_disk, mode, rec, crashes>>
  BY DEF SuspendDrain, gc_vars, fs_vars, import_vars
<1>2. y # "create"
  OBVIOUS
<1>. HIDE DEF y
<1>3. t \in Procs /\ DOMAIN p = Procs /\ IsProc(p[t])
  BY NullFact DEF ZilInv, ShapeInv
<1>4. p'[t].pc = y /\ \A u \in Procs : u # t => p'[u] = p[u]
  BY <1>1, <1>3 DEF IsProc
<1>5. \A u \in Procs : StillThread(u)
  BY <1>1, <1>2, <1>4 DEF StillThread
<1>. QED  BY <1>1, <1>5, SameRecords, SameChain DEF SameLog

\* So does zil_resume().
LEMMA zil_resumeChain ==
  ASSUME ZilInv, ChainInv, NEW t \in Suspenders, zil_resume(t)
  PROVE  ChainInv' /\ FreesOnce
<1>1. /\ p[t].pc = "suspended" /\ p' = [p EXCEPT ![t] = Idle]
      /\ zl' = [zl EXCEPT !.suspend = @ - 1]
      /\ UNCHANGED <<stable, active, dirty, zsynced, blk, zh, zh_disk, mode, rec, crashes>>
  BY DEF zil_resume, gc_vars, fs_vars, import_vars
<1>2. t \in Procs /\ DOMAIN p = Procs /\ IsZl(zl)
  BY NullFact DEF ZilInv, ShapeInv
<1>3. SameLog
  BY <1>1, <1>2 DEF SameLog, IsZl
<1>4. p'[t].pc = "idle" /\ \A u \in Procs : u # t => p'[u] = p[u]
  BY <1>1, <1>2 DEF Idle
<1>5. \A u \in Procs : StillThread(u)
  BY <1>1, <1>4 DEF StillThread
<1>. QED  BY <1>1, <1>3, <1>5, SameRecords, SameChain

\* A new group that opens leaves the chain as it is.
LEMMA AdvanceChain ==
  ASSUME ZilInv, ChainInv, Advance
  PROVE  ChainInv' /\ FreesOnce
<1>1. UNCHANGED <<stable, active, dirty, zsynced, zl, blk, zh, zh_disk, p, mode, rec, crashes>>
  BY DEF Advance, GC!Advance, fs_vars, import_vars
<1>2. \A u \in Procs : StillThread(u)
  BY <1>1 DEF StillThread
<1>. QED  BY <1>1, <1>2, SameRecords, SameChain DEF SameLog

\* When the group of zil_create() is on disk, the new log is in the header.
LEMMA zil_createdChain ==
  ASSUME ZilInv, ChainInv, NEW t \in Procs, zil_created(t)
  PROVE  ChainInv' /\ FreesOnce
<1>1. /\ p[t].pc = "created" /\ stable >= p[t].txg
      /\ p' = [p EXCEPT ![t] = [p[t] EXCEPT !.pc = "push", !.txg = 0]]
      /\ UNCHANGED <<stable, active, dirty, zsynced, zl, blk, zh, zh_disk, mode, rec, crashes>>
  BY DEF zil_created, gc_vars, fs_vars, import_vars
<1>2. DOMAIN p = Procs /\ IsProc(p[t]) /\ p[t].txg \in Nat /\ stable \in Nat
  BY <1>1 DEF ZilInv, ShapeInv, GroupInv, HeadInv, CreatedOK
<1>3. p'[t].pc = "push" /\ \A u \in Procs : u # t => p'[u] = p[u]
  BY <1>1, <1>2 DEF IsProc
<1>4. ~(p[t].txg > stable)
  BY <1>1, <1>2
<1>5. \A u \in Procs : StillThread(u)
  BY <1>3, <1>4 DEF StillThread
<1>. QED  BY <1>1, <1>5, SameRecords, SameChain DEF SameLog

\* The end of a write makes its block readable, or not.
LEMMA zil_lwb_write_doneChain ==
  ASSUME ZilInv, ChainInv, NEW b \in Blocks, NEW ok \in BOOLEAN, zil_lwb_write_done(b, ok)
  PROVE  ChainInv' /\ FreesOnce
<1>. DEFINE x == IF ok THEN "cache" ELSE "none"
<1>1. /\ blk[b].io = "issued" /\ GC!End(b)
      /\ blk' = [blk EXCEPT ![b] = [blk[b] EXCEPT !.io = "done", !.content = x]]
      /\ UNCHANGED <<dirty, zsynced, zl, zh, zh_disk, p, mode, rec, crashes>>
  BY DEF zil_lwb_write_done, fs_vars, import_vars
<1>2. x \in {"cache", "none"} /\ (~LogErrors => x = "cache")
  BY DEF zil_lwb_write_done
<1>. HIDE DEF x
<1>3. DOMAIN blk = Blocks /\ IsBlk(blk[b])
  BY DEF ZilInv, ShapeInv
<1>4. /\ \A c \in Blocks : c # b => blk'[c] = blk[c]
      /\ blk'[b].io = "done" /\ blk'[b].content = x /\ blk'[b].freed = blk[b].freed
      /\ blk'[b].birth = blk[b].birth /\ blk'[b].next = blk[b].next
      /\ blk'[b].recs = blk[b].recs
  BY <1>1, <1>3 DEF IsBlk
<1>5. UNCHANGED <<open, stable>> /\ \A c \in Blocks : c # b => active'[c] = active[c]
  BY <1>1, <1>4, EndActive
<1>6. blk[b].content = "none"
  BY <1>1 DEF ChainInv, OpenInv
<1>7. \A c \in Blocks : StillBlock(c)
  BY <1>1, <1>2, <1>4, <1>5, <1>6 DEF StillBlock, IssuedIn
<1>8. Still
  <2>1. SameRecs
    BY <1>4 DEF SameRecs
  <2>2. RecordsKept
    BY <1>1, <1>5, <2>1, SameRecords, KeptRecords DEF Opened, Importing, SameLog
  <2>. QED  BY <1>1, <1>5, <1>7, <2>2 DEF Still, StillThread
<1>. QED  BY <1>8, StillKeeps

\* A record is replayed, the chain stays.
LEMMA zil_replay_log_recordChain ==
  ASSUME ZilInv, ChainInv, zil_replay_log_record
  PROVE  ChainInv' /\ FreesOnce
<1>. DEFINE y == [zl.replayed EXCEPT ![open % TXG_SIZE] = Log[r.pos + 1].seq]
<1>1. /\ UNCHANGED <<stable, active, zsynced, blk, zh, zh_disk, p, mode, rec, crashes>>
      /\ dirty \subseteq dirty'
      /\ zl' = zl \/ zl' = [zl EXCEPT !.replayed = y]
  BY DEF zil_replay_log_record, gc_vars
<1>. HIDE DEF y
<1>2. SameLog
  BY <1>1 DEF SameLog, ZilInv, ShapeInv, IsZl
<1>3. \A u \in Procs : StillThread(u)
  BY <1>1 DEF StillThread
<1>. QED  BY <1>1, <1>2, <1>3, SameRecords, SameChain

\* The end of the import, after a replay.
LEMMA ReplayDoneChain ==
  ASSUME ZilInv, BookInv, ChainInv, ReplayDone
  PROVE  ChainInv' /\ FreesOnce
<1>1. /\ mode = "replayed" /\ mode' = "up" /\ stable >= r.txg
      /\ UNCHANGED <<stable, active, dirty, zsynced, zl, blk, zh, zh_disk, p, rec, crashes>>
  BY DEF ReplayDone, gc_vars, fs_vars
<1>2. Opened
  <2>1. r.txg = zl.destroy_txg /\ zl.destroy_txg \in Nat /\ stable \in Nat
    BY <1>1 DEF BookInv, ZilInv, ShapeInv, GroupInv
  <2>. QED  BY <1>1, <2>1 DEF Opened, Importing
<1>3. RecordsKept
  BY <1>1, <1>2, SameRecords, KeptRecords DEF SameRecs, SameLog
<1>4. Still
  BY <1>1, <1>3 DEF Still, StillBlock, StillThread
<1>. QED  BY <1>4, StillKeeps

----------------------------------------------------------------------------
\* The log writer.

\* An open log that is in the header is the end of the chain.
OpenLog(D, k) ==
  /\ k < Len(D) /\ Len(zl.lwb) = Len(D) - k
  /\ \A n \in DOMAIN zl.lwb : zl.lwb[n] = D[k + n]

\* It is, unless zil_create() is at work.
LEMMA OpenLogFact ==
  ASSUME ZilInv, NEW D \in Seq(Blocks), NEW k \in Nat, IsLog(D, k), zl.lwb # <<>>,
         \A t \in Procs : p[t].pc # "created"
  PROVE  OpenLog(D, k)
<1>1. k # Len(D)
  BY DEF IsLog, Pending
<1>2. k < Len(D)
  BY <1>1 DEF IsLog, Headed
<1>. QED  BY <1>2 DEF IsLog, Listed, OpenLog

\* Nothing has been claimed since the log was opened.
LEMMA OpenFresh ==
  ASSUME ZilInv, OpenInv, zl.lwb # <<>>
  PROVE  /\ mode = "up" /\ ~Importing /\ zl.destroy_txg <= stable /\ ~Destroying
         /\ Fresh(zh) /\ Fresh(zh_disk)
<1>1. mode = "up" /\ ~Importing
  BY DEF ZilInv, WriterInv, Importing
<1>2. stable \in Nat /\ zl.destroy_txg \in Nat /\ zl.destroy_txg <= stable
  BY DEF ZilInv, GroupInv, ShapeInv, DestroyInv
<1>3. ~Destroying
  BY <1>2 DEF Destroying, Synced, SyncedIn
<1>. QED  BY <1>1, <1>2, <1>3 DEF OpenInv, ZilInv, DestroyInv

\* The log writer's record is added to the records s of block b, or is not.
Adds(b, s) ==
  \/ blk'[b].recs = s /\ zl'.lr_seq = zl.lr_seq
  \/ /\ blk'[b].recs = Append(s, [itx |-> w.itx, seq |-> zl.lr_seq + 1])
     /\ zl'.lr_seq = zl.lr_seq + 1 /\ Current(w.itx)

\* It is the last one of the log.
LEMMA AddsRecorded ==
  ASSUME BookInv, NEW E \in Seq(Blocks), \A i, j \in DOMAIN E : E[i] = E[j] => i = j,
         NEW l \in DOMAIN E, \A i \in DOMAIN E : i <= l, NEW b, b = E[l],
         Ordered(E), Reached(E), UNCHANGED <<rec, crashes>>,
         \A i \in DOMAIN E : \A n \in DOMAIN blk[E[i]].recs :
           blk[E[i]].recs[n].seq <= zl.lr_seq /\ Current(blk[E[i]].recs[n].itx),
         \A c \in Blocks : c # b => blk'[c].recs = blk[c].recs, Adds(b, blk[b].recs)
  PROVE  Recorded(E)'
<1>. DEFINE x == [itx |-> w.itx, seq |-> zl.lr_seq + 1]
            s == blk[b].recs
<1>0. zl.lr_seq \in Nat /\ s \in Seq(Entries) /\ b \in Blocks /\ x.itx = w.itx /\ x.seq = zl.lr_seq + 1
  BY DEF BookInv
<1>1. CASE blk'[b].recs = blk[b].recs /\ zl'.lr_seq = zl.lr_seq
  <2>1. \A c \in Blocks : blk'[c].recs = blk[c].recs
    BY <1>1
  <2>2. \A i \in DOMAIN E : blk'[E[i]].recs = blk[E[i]].recs
    BY <2>1
  <2>3. Ordered(E)' /\ Reached(E)'
    BY <2>1, <2>2 DEF Ordered, Reached, Current
  <2>4. Recent(E)'
    BY <1>1, <2>2 DEF Recent, Current
  <2>. QED  BY <2>3, <2>4 DEF Recorded
<1>2. CASE blk'[b].recs = Append(s, x) /\ zl'.lr_seq = zl.lr_seq + 1 /\ Current(w.itx)
  <2>. HIDE DEF x
  <2>1. /\ DOMAIN blk'[b].recs = 1 .. Len(s) + 1 /\ DOMAIN s = 1 .. Len(s) /\ Len(s) \in Nat
        /\ blk'[b].recs[Len(s) + 1] = x
        /\ \A n \in 1 .. Len(s) : blk'[b].recs[n] = s[n]
    BY <1>0, <1>2
  <2>2. ASSUME NEW i \in DOMAIN E, NEW n \in DOMAIN blk'[E[i]].recs
        PROVE  \/ /\ n \in DOMAIN blk[E[i]].recs /\ blk'[E[i]].recs[n] = blk[E[i]].recs[n]
                  /\ blk[E[i]].recs[n].seq \in Nat
               \/ i = l /\ n = Len(s) + 1 /\ blk'[E[i]].recs[n] = x
    <3>1. E[i] \in Blocks
      OBVIOUS
    <3>2. \A k \in DOMAIN blk[E[i]].recs : blk[E[i]].recs[k].seq \in Nat
      <4>1. blk[E[i]].recs \in Seq(Entries)
        BY <3>1 DEF BookInv
      <4>2. \A k \in DOMAIN blk[E[i]].recs : blk[E[i]].recs[k] \in Entries
        BY <4>1
      <4>. QED  BY <4>2 DEF Entries
    <3>3. CASE i = l
      <4>1. E[i] = b /\ n \in 1 .. Len(s) + 1 /\ DOMAIN s = 1 .. Len(s)
        BY <2>1, <3>3
      <4>2. CASE n = Len(s) + 1
        BY <2>1, <3>3, <4>1, <4>2
      <4>3. CASE n \in 1 .. Len(s)
        BY <2>1, <3>2, <4>1, <4>3
      <4>. QED  BY <2>1, <4>1, <4>2, <4>3
    <3>4. CASE i # l
      <4>1. blk'[E[i]].recs = blk[E[i]].recs
        BY <3>1, <3>4
      <4>. QED  BY <3>2, <4>1
    <3>. QED  BY <3>3, <3>4
  <2>3. Ordered(E)'
    <3>. SUFFICES ASSUME NEW i \in DOMAIN E, NEW j \in DOMAIN E,
                         NEW m \in DOMAIN blk'[E[i]].recs, NEW n \in DOMAIN blk'[E[j]].recs,
                         i < j \/ (i = j /\ m < n)
                  PROVE  blk'[E[i]].recs[m].seq < blk'[E[j]].recs[n].seq
      BY DEF Ordered
    <3>1. i \in Nat /\ j \in Nat /\ l \in Nat /\ i <= l /\ j <= l
      OBVIOUS
    <3>2. m \in DOMAIN blk[E[i]].recs /\ blk'[E[i]].recs[m] = blk[E[i]].recs[m]
          /\ blk[E[i]].recs[m].seq \in Nat
      <4>1. ASSUME i = l, m = Len(s) + 1
            PROVE  FALSE
        <5>1. i = j /\ m < n
          BY <3>1, <4>1
        <5>2. n \in 1 .. Len(s) + 1
          BY <2>1, <4>1, <5>1
        <5>. QED  BY <2>1, <4>1, <5>1, <5>2
      <4>. QED  BY <2>2, <4>1
    <3>3. CASE n \in DOMAIN blk[E[j]].recs /\ blk'[E[j]].recs[n] = blk[E[j]].recs[n]
      BY <3>2, <3>3 DEF Ordered
    <3>4. CASE blk'[E[j]].recs[n] = x
      BY <1>0, <3>2, <3>4 DEF x
    <3>. QED  BY <2>2, <3>3, <3>4
  <2>4. Reached(E)'
    <3>1. ASSUME NEW c \in Blocks, NEW n \in DOMAIN blk'[c].recs,
                 CurrentIn(rec', crashes', blk'[c].recs[n].itx)
          PROVE  \E i \in DOMAIN E : c = E[i]
      <4>1. CASE c = b
        BY <4>1
      <4>2. CASE c # b
        BY <3>1, <4>2 DEF Reached, Current
      <4>. QED  BY <4>1, <4>2
    <3>. QED  BY <3>1 DEF Reached, Current
  <2>5. Recent(E)'
    <3>1. ASSUME NEW i \in DOMAIN E, NEW n \in DOMAIN blk'[E[i]].recs
          PROVE  /\ blk'[E[i]].recs[n].seq <= zl'.lr_seq
                 /\ CurrentIn(rec', crashes', blk'[E[i]].recs[n].itx)
      <4>1. CASE /\ n \in DOMAIN blk[E[i]].recs /\ blk'[E[i]].recs[n] = blk[E[i]].recs[n]
                 /\ blk[E[i]].recs[n].seq \in Nat
        BY <1>0, <1>2, <4>1 DEF Current
      <4>2. CASE blk'[E[i]].recs[n] = x
        BY <1>0, <1>2, <4>2 DEF Current, x
      <4>. QED  BY <2>2, <4>1, <4>2
    <3>. QED  BY <3>1 DEF Recent, Current
  <2>. QED  BY <2>3, <2>4, <2>5 DEF Recorded
<1>. QED  BY <1>1, <1>2 DEF Adds

\* The log writer's block is the last one of an open log, and what is in that is
\* recent.
LEMMA WriterLog ==
  ASSUME ZilInv, OpenInv, w.lwb # NULL, NEW D \in Seq(Blocks), NEW k \in Nat, IsLog(D, k)
  PROVE  /\ OpenLog(D, k) /\ Len(D) \in DOMAIN D /\ D[Len(D)] = w.lwb
         /\ \A i \in DOMAIN D : i <= Len(D)
         /\ \A i \in DOMAIN D : \A n \in DOMAIN blk[D[i]].recs :
              blk[D[i]].recs[n].seq <= zl.lr_seq /\ Current(blk[D[i]].recs[n].itx)
<1>1. /\ zl.lwb \in Seq(Blocks) /\ zl.lwb # <<>> /\ Last(zl.lwb) = w.lwb
      /\ \A t \in Procs : p[t].pc # "created"
  BY DEF ZilInv, ShapeInv, WriterInv, Creating
<1>2. OpenLog(D, k)
  BY <1>1, OpenLogFact
<1>. DEFINE N == Len(D)
            M == Len(zl.lwb)
<1>3. N \in Nat /\ M \in Nat /\ M # 0 /\ DOMAIN D = 1 .. N /\ DOMAIN zl.lwb = 1 .. M
      /\ zl.lwb[M] = w.lwb
  BY <1>1 DEF Last
<1>4. k \in Nat /\ k < N /\ M = N - k /\ \A n \in 1 .. M : zl.lwb[n] = D[k + n]
  BY <1>2, <1>3 DEF OpenLog
<1>. HIDE DEF N, M
<1>5. N \in 1 .. N /\ M \in 1 .. M /\ k + M = N
  BY <1>3, <1>4
<1>6. D[N] = w.lwb
  BY <1>3, <1>4, <1>5
<1>7. Opened
  BY <1>1, OpenFresh DEF Opened
<1>8. \A i \in DOMAIN D : i < N \/ (\E n \in DOMAIN zl.lwb : D[i] = zl.lwb[n])
  BY <1>3, <1>5, <1>6
<1>9. \A i \in DOMAIN D : i <= N
  BY <1>3
<1>. QED  BY <1>2, <1>3, <1>5, <1>6, <1>7, <1>8, <1>9 DEF IsLog, Recorded, Recent, N

\* So a record may be added to it.
LEMMA WriterAdds ==
  ASSUME ZilInv, BookInv, OpenInv, w.lwb # NULL, UNCHANGED <<rec, crashes>>,
         \A c \in Blocks : c # w.lwb => blk'[c].recs = blk[c].recs,
         Adds(w.lwb, blk[w.lwb].recs)
  PROVE  RecordsKept
<1>. SUFFICES ASSUME NEW D \in Seq(Blocks), NEW k \in Nat, IsLog(D, k)
              PROVE  Recorded(D)'
  BY DEF RecordsKept
<1>. DEFINE N == Len(D)
<1>1. /\ N \in DOMAIN D /\ D[N] = w.lwb
      /\ \A i \in DOMAIN D : i <= N
      /\ \A i \in DOMAIN D : \A n \in DOMAIN blk[D[i]].recs :
              blk[D[i]].recs[n].seq <= zl.lr_seq /\ Current(blk[D[i]].recs[n].itx)
  BY WriterLog
<1>2. Ordered(D) /\ Reached(D) /\ \A i, j \in DOMAIN D : D[i] = D[j] => i = j
  BY DEF IsLog, Recorded, Linked
<1>. HIDE DEF N
<1>. QED  BY <1>1, <1>2, AddsRecorded

\* The log writer's block is issued and points to block n.
LinksTo(n) ==
  /\ blk'[w.lwb].recs = blk[w.lwb].recs
  /\ IF n = NULL THEN zl'.lr_seq = zl.lr_seq ELSE Adds(n, <<>>)
  /\ \A c \in Blocks : c \notin {w.lwb, n} => blk'[c] = blk[c]
  /\ blk'[w.lwb].io = "issued" /\ blk'[w.lwb].freed = blk[w.lwb].freed
  /\ blk'[w.lwb].birth = blk[w.lwb].birth /\ blk'[w.lwb].content = blk[w.lwb].content
  /\ blk'[w.lwb].next = n
  /\ n # NULL =>
       /\ blk'[n].freed = 0 /\ blk'[n].birth = open /\ blk'[n].io \in {"none", "init"}
       /\ blk'[n].content = "none" /\ blk'[n].next = NULL

\* That adds n to the chain, if it is a block.
LEMMA IssueChain ==
  ASSUME ZilInv, BookInv, ChainInv, w.lwb # NULL, NEW n \in Alloc, HoldTx(w.lwb), LinksTo(n),
         zl'.lwb = (IF n = NULL THEN zl.lwb ELSE Append(zl.lwb, n)),
         zl'.destroy_txg = zl.destroy_txg, zl'.keep_first = zl.keep_first,
         dirty \subseteq dirty', \A u \in Procs : ~Creating(u) /\ p'[u].pc # "create",
         UNCHANGED <<zsynced, zh, zh_disk, mode, rec, crashes>>
  PROVE  ChainInv' /\ FreesOnce
<1>. DEFINE b == w.lwb
<1>1. /\ b \in Blocks /\ zl.lwb \in Seq(Blocks) /\ zl.lwb # <<>> /\ Last(zl.lwb) = b
      /\ blk[b].io \in {"none", "init"}
      /\ open \in Nat /\ stable \in Nat /\ stable < open
  BY DEF ZilInv, ShapeInv, IsWriter, WriterInv, GroupInv
<1>2. n # NULL => n \in Blocks /\ blk[n] = NoBlk
  BY AllocFact
<1>3. OpenInv
  BY DEF ChainInv
<1>4. /\ mode = "up" /\ ~Importing /\ zl.destroy_txg <= stable /\ ~Destroying
      /\ Fresh(zh) /\ Fresh(zh_disk)
  BY <1>1, <1>3, OpenFresh
<1>5. NULL \notin Blocks /\ NoBlk.birth = 0 /\ NoBlk.freed = 0
  BY NullFact DEF NoBlk
<1>6. n # b
  BY <1>1, <1>2, <1>5 DEF ZilInv, BirthInv, Last
<1>7. /\ UNCHANGED <<open, stable>> /\ active'[b] = open
      /\ \A c \in Blocks : c # b => active'[c] = active[c]
  <2>1. \A c \in Blocks : blk'[c].io = "issued" => blk[c].io = "issued" \/ c = b
    BY <1>1, <1>2, <1>5 DEF LinksTo
  <2>. QED  BY <1>1, <2>1, BeginActive DEF HoldTx
<1>8. PICK D \in Seq(Blocks), k \in Nat : IsLog(D, k)
  BY DEF ChainInv
<1>. DEFINE N == Len(D)
<1>9. /\ k \in Nat /\ N \in Nat /\ DOMAIN D = 1 .. N /\ \A i \in 1 .. N : D[i] \in Blocks
      /\ \A i, j \in 1 .. N : D[i] = D[j] => i = j
  BY <1>8 DEF IsLog, Linked
<1>10. OpenLog(D, k)
  BY <1>1, <1>8, OpenLogFact DEF Creating
<1>11. k < N /\ N \in 1 .. N /\ D[N] = b /\ Len(zl.lwb) = N - k
  <2>1. /\ Len(zl.lwb) \in DOMAIN zl.lwb /\ Last(zl.lwb) = zl.lwb[Len(zl.lwb)]
        /\ Len(zl.lwb) \in Nat
    BY <1>1 DEF Last
  <2>2. k < N /\ Len(zl.lwb) = N - k
    BY <1>10 DEF OpenLog
  <2>3. N \in 1 .. N /\ k + Len(zl.lwb) = N
    <3>. HIDE DEF N
    <3>1. k \in Nat /\ N \in Nat
      BY <1>9
    <3>. QED  BY <2>1, <2>2, <3>1
  <2>4. zl.lwb[Len(zl.lwb)] = D[k + Len(zl.lwb)]
    BY <1>10, <2>1 DEF OpenLog
  <2>. QED  BY <1>1, <2>1, <2>2, <2>3, <2>4
<1>12. \A i \in 1 .. N : D[i] # n
  <2>1. \A i \in 1 .. N : blk[D[i]].birth # 0
    BY <1>8, <1>9 DEF IsLog, Linked
  <2>. QED  BY <1>2, <1>5, <1>9, <2>1
<1>. HIDE DEF b, N
<1>13. \A i \in 1 .. N : i # N => /\ blk'[D[i]] = blk[D[i]] /\ active'[D[i]] = active[D[i]]
                                  /\ D[i] # b
  BY <1>7, <1>9, <1>11, <1>12 DEF LinksTo, b
<1>14. /\ blk'[D[N]].io = "issued" /\ blk'[D[N]].freed = blk[D[N]].freed
       /\ blk'[D[N]].birth = blk[D[N]].birth /\ blk'[D[N]].content = blk[D[N]].content
       /\ blk'[D[N]].next = n
  BY <1>11 DEF LinksTo, b
<1>15. OpenInv'
  <2>1. ASSUME NEW c \in Blocks
        PROVE  blk'[c].birth \in Nat /\ (blk'[c].io # "done" => blk'[c].content = "none")
    <3>1. blk[c].birth \in Nat /\ (blk[c].io # "done" => blk[c].content = "none")
      BY <1>3 DEF OpenInv
    <3>2. CASE c = b
      BY <1>1, <3>1, <3>2 DEF LinksTo, b
    <3>3. CASE c = n
      BY <1>1, <1>5, <3>3 DEF LinksTo
    <3>. QED  BY <3>1, <3>2, <3>3 DEF LinksTo, b
  <2>. QED  BY <1>3, <1>4, <1>7, <2>1 DEF OpenInv, Importing
<1>16. FreesOnce
  BY <1>5 DEF FreesOnce, LinksTo, b
<1>17. CASE n = NULL
  <2>1. zl'.lwb = zl.lwb
    BY <1>17
  <2>2. Linked(D)'
    <3>1. ASSUME NEW i \in DOMAIN D
          PROVE  /\ blk'[D[i]].birth # 0
                 /\ i < N => blk'[D[i]].next = D[i + 1]
                 /\ i = N => ~Live(D[i])'
      <4>1. blk[D[i]].birth # 0 /\ (i < N => blk[D[i]].next = D[i + 1])
        BY <1>8 DEF IsLog, Linked, N
      <4>2. CASE i # N
        BY <1>9, <1>13, <4>1, <4>2
      <4>3. CASE i = N
        BY <1>9, <1>14, <1>17, <4>1, <4>3 DEF Live, LiveIn
      <4>. QED  BY <4>2, <4>3
    <3>. QED  BY <1>8, <3>1 DEF IsLog, Linked, N
  <2>3. Headed(D, k)'
    <3>1. \A i \in 1 .. k : blk'[D[i]].freed = stable + 1
      <4>1. \A i \in 1 .. k : i \in 1 .. N /\ i # N
        BY <1>9, <1>11
      <4>. QED  BY <1>8, <1>13, <4>1 DEF IsLog, Headed
    <3>. QED  BY <1>7, <1>8, <2>1, <3>1 DEF IsLog, Headed, Importing
  <2>4. Listed(D, k)' /\ Pending(D, k)'
    <3>0. k # N
      <4>1. k \in Nat /\ N \in Nat /\ k < N
        BY <1>9, <1>11
      <4>. QED  BY <4>1
    <3>1. k # Len(D)
      BY <3>0 DEF N
    <3>. QED  BY <1>1, <1>10, <2>1, <3>1 DEF Listed, Pending, OpenLog
  <2>5. ASSUME ~LogErrors
        PROVE  Written(D)'
    <3>1. Written(D)
      BY <1>8, <2>5 DEF IsLog
    <3>2. ASSUME NEW i \in DOMAIN D, i < Len(D)
          PROVE  /\ Issued(D[i])' /\ (blk'[D[i]].io = "done" => blk'[D[i]].content \in {"cache", "disk"})
                 /\ \A j \in i + 1 .. Len(D) :
                      /\ blk'[D[i]].io = "issued" => active'[D[i]] <= blk'[D[j]].birth
                      /\ blk'[D[j]].birth <= stable' => blk'[D[i]].content = "disk"
      <4>1. i \in 1 .. N /\ i # N
        BY <1>9, <3>2 DEF N
      <4>2. \A j \in i + 1 .. Len(D) : blk'[D[j]].birth = blk[D[j]].birth
        <5>1. \A j \in i + 1 .. Len(D) : j \in 1 .. N
          BY <1>9, <4>1 DEF N
        <5>. QED  BY <1>13, <1>14, <5>1
      <4>3. blk'[D[i]] = blk[D[i]] /\ active'[D[i]] = active[D[i]]
        BY <1>13, <4>1
      <4>. QED  BY <1>7, <3>1, <3>2, <4>2, <4>3 DEF Written, Issued, IssuedIn
    <3>3. \A c \in Blocks : blk'[c].birth = blk[c].birth
      BY <1>5, <1>17 DEF LinksTo
    <3>. QED  BY <2>1, <3>1, <3>2, <3>3 DEF Written
  <2>6. IsLog(D, k)'
    <3>1. \A c \in Blocks : blk'[c].recs = blk[c].recs
      BY <1>5, <1>17 DEF LinksTo
    <3>2. SameLog
      BY <1>17, <2>1 DEF LinksTo, SameLog
    <3>3. Recorded(D)'
      <4>1. SameRecs
        BY <3>1 DEF SameRecs
      <4>2. Opened' => Opened
        BY <1>4, <1>7 DEF Opened
      <4>3. RecordsKept
        BY <3>2, <4>1, <4>2, SameRecords, KeptRecords
      <4>. QED  BY <1>8, <4>3 DEF RecordsKept
    <3>. QED  BY <1>8, <2>2, <2>3, <2>4, <2>5, <3>3 DEF IsLog
  <2>. QED  BY <1>8, <1>15, <1>16, <2>6 DEF ChainInv
<1>18. CASE n # NULL
  <2>. DEFINE E == Append(D, n)
  <2>1. /\ E \in Seq(Blocks) /\ Len(E) = N + 1 /\ DOMAIN E = 1 .. N + 1
        /\ E[N + 1] = n /\ \A i \in 1 .. N : E[i] = D[i]
    BY <1>2, <1>8, <1>9, <1>18 DEF N
  <2>2. \A i, j \in 1 .. N + 1 : E[i] = E[j] => i = j
    <3>1. \A i \in 1 .. N + 1 : i = N + 1 \/ i \in 1 .. N
      BY <1>9
    <3>. HIDE DEF E
    <3>. QED  BY <1>9, <1>12, <2>1, <3>1
  <2>. HIDE DEF E
  <2>3. /\ blk'[n].freed = 0 /\ blk'[n].birth = open /\ blk'[n].io \in {"none", "init"}
        /\ blk'[n].content = "none" /\ blk'[n].next = NULL
    BY <1>18 DEF LinksTo
  <2>4. /\ zl'.lwb \in Seq(Blocks) /\ Len(zl'.lwb) = Len(zl.lwb) + 1
        /\ zl'.lwb[Len(zl.lwb) + 1] = n /\ \A m \in DOMAIN zl.lwb : zl'.lwb[m] = zl.lwb[m]
        /\ DOMAIN zl'.lwb = 1 .. Len(zl.lwb) + 1 /\ DOMAIN zl.lwb = 1 .. Len(zl.lwb)
        /\ Len(zl.lwb) \in Nat
    <3>1. zl'.lwb = Append(zl.lwb, n) /\ n \in Blocks
      BY <1>2, <1>18
    <3>. QED  BY <1>1, <3>1
  <2>5. Linked(E)'
    <3>1. ASSUME NEW i \in DOMAIN E
          PROVE  /\ blk'[E[i]].birth # 0
                 /\ i < Len(E) => blk'[E[i]].next = E[i + 1]
                 /\ i = Len(E) => ~Live(E[i])'
      <4>1. CASE i = N + 1
        BY <1>1, <1>9, <2>1, <2>3, <4>1 DEF Live, LiveIn
      <4>2. CASE i = N
        <5>1. blk[D[N]].birth # 0 /\ E[N] = D[N]
          BY <1>8, <1>9, <1>11, <2>1 DEF IsLog, Linked
        <5>. QED  BY <1>9, <1>14, <2>1, <4>2, <5>1
      <4>3. CASE i \in 1 .. N /\ i # N
        <5>1. i \in DOMAIN D /\ i < Len(D) /\ i + 1 \in 1 .. N
          BY <1>9, <4>3 DEF N
        <5>2. blk[D[i]].birth # 0 /\ blk[D[i]].next = D[i + 1]
          BY <1>8, <5>1 DEF IsLog, Linked
        <5>. QED  BY <1>9, <1>13, <2>1, <4>3, <5>1, <5>2
      <4>. QED  BY <1>9, <2>1, <4>1, <4>2, <4>3
    <3>. QED  BY <2>1, <2>2, <3>1 DEF Linked
  <2>6. Headed(E, k)'
    <3>1. /\ zh_disk.log = First(D) /\ (k # 0 => zsynced /\ ~Importing)
          /\ ~zsynced => zh.log = zh_disk.log
          /\ \A i \in 1 .. k : blk[D[i]].freed = stable + 1
          /\ zh.log = D[k + 1]
      BY <1>8, <1>11 DEF IsLog, Headed, N
    <3>2. First(E) = First(D)
      <4>1. 1 \in 1 .. N /\ N # 0 /\ N + 1 # 0
        <5>1. N \in Nat /\ N >= 1
          BY <1>9, <1>11
        <5>. QED  BY <5>1
      <4>2. D # <<>> /\ E # <<>>
        <5>1. Len(D) # 0
          BY <4>1 DEF N
        <5>2. Len(E) # 0
          BY <2>1, <4>1
        <5>. QED  BY <5>1, <5>2
      <4>3. E[1] = D[1]
        BY <2>1, <4>1
      <4>. QED  BY <4>2, <4>3 DEF First
    <3>3. E[k + 1] = D[k + 1] /\ k \in 0 .. Len(E) /\ k < Len(E)
      BY <1>9, <1>11, <2>1
    <3>4. \A i \in 1 .. k : E[i] = D[i] /\ blk'[D[i]] = blk[D[i]]
      <4>1. \A i \in 1 .. k : i \in 1 .. N /\ i # N
        BY <1>9, <1>11
      <4>. QED  BY <1>13, <2>1, <4>1
    <3>. QED  BY <1>7, <3>1, <3>2, <3>3, <3>4 DEF Headed, Importing
  <2>7. Listed(E, k)' /\ Pending(E, k)'
    <3>1. Len(zl'.lwb) = Len(E) - k /\ k < Len(E) /\ zl'.lwb # <<>>
      BY <1>9, <1>11, <2>1, <2>4
    <3>2. ASSUME NEW m \in DOMAIN zl'.lwb
          PROVE  zl'.lwb[m] = E[k + m]
      <4>1. CASE m \in DOMAIN zl.lwb
        <5>0. zl.lwb[m] = D[k + m]
          BY <1>10, <4>1 DEF OpenLog
        <5>1. zl.lwb[m] = D[k + m] /\ k + m \in 1 .. N
          BY <1>9, <1>11, <2>4, <4>1, <5>0
        <5>. QED  BY <2>1, <2>4, <4>1, <5>1
      <4>2. CASE m = Len(zl.lwb) + 1
        BY <1>9, <1>11, <2>1, <2>4, <4>2
      <4>. QED  BY <2>4, <4>1, <4>2
    <3>. QED  BY <1>9, <2>1, <3>1, <3>2 DEF Listed, Pending
  <2>8. ASSUME ~LogErrors
        PROVE  Written(E)'
    <3>1. Written(D)
      BY <1>8, <2>8 DEF IsLog
    <3>2. ASSUME NEW i \in DOMAIN E, i < Len(E)
          PROVE  /\ Issued(E[i])' /\ (blk'[E[i]].io = "done" => blk'[E[i]].content \in {"cache", "disk"})
                 /\ \A j \in i + 1 .. Len(E) :
                      /\ blk'[E[i]].io = "issued" => active'[E[i]] <= blk'[E[j]].birth
                      /\ blk'[E[j]].birth <= stable' => blk'[E[i]].content = "disk"
      <4>1. CASE i = N
        <5>1. /\ E[i] = D[N] /\ blk'[E[i]].io = "issued"
              /\ \A j \in i + 1 .. Len(E) : E[j] = n
          BY <1>9, <1>11, <1>14, <2>1, <4>1
        <5>2. active'[E[i]] = open
          BY <1>7, <1>11, <5>1
        <5>. QED  BY <1>1, <1>7, <2>3, <5>1, <5>2 DEF Issued, IssuedIn
      <4>2. CASE i # N
        <5>1. i \in DOMAIN D /\ i < Len(D) /\ i \in 1 .. N
          BY <1>9, <2>1, <3>2, <4>2 DEF N
        <5>2. /\ E[i] = D[i] /\ blk'[D[i]] = blk[D[i]] /\ active'[D[i]] = active[D[i]]
          BY <1>13, <2>1, <4>2, <5>1
        <5>3. Issued(D[i]) /\ (blk[D[i]].io = "done" => blk[D[i]].content \in {"cache", "disk"})
          BY <3>1, <5>1 DEF Written
        <5>4. active[D[i]] \in Nat /\ active[D[i]] <= open
          BY <1>1, <1>9, <5>1 DEF ZilInv, ActiveInv
        <5>5. ASSUME NEW j \in i + 1 .. Len(E)
              PROVE  /\ blk'[E[i]].io = "issued" => active'[E[i]] <= blk'[E[j]].birth
                     /\ blk'[E[j]].birth <= stable' => blk'[E[i]].content = "disk"
          <6>1. CASE j = N + 1
            BY <1>1, <1>7, <2>1, <2>3, <5>2, <5>4, <6>1
          <6>2. CASE j # N + 1
            <7>1. j \in i + 1 .. Len(D) /\ j \in 1 .. N /\ E[j] = D[j]
              BY <1>9, <2>1, <5>1, <6>2 DEF N
            <7>2. blk'[D[j]].birth = blk[D[j]].birth
              BY <1>13, <1>14, <7>1
            <7>. QED  BY <1>7, <3>1, <5>1, <5>2, <7>1, <7>2 DEF Written
          <6>. QED  BY <6>1, <6>2
        <5>. QED  BY <5>2, <5>3, <5>5 DEF Issued, IssuedIn
      <4>. QED  BY <4>1, <4>2
    <3>3. ASSUME NEW c \in Blocks, blk'[c].birth # 0
          PROVE  (\E i \in DOMAIN E : c = E[i]) \/ (\E m \in DOMAIN zl'.lwb : c = zl'.lwb[m])
      <4>1. CASE c = n
        BY <1>9, <2>1, <4>1
      <4>2. CASE c # n
        <5>1. blk[c].birth # 0
          BY <3>3, <4>2 DEF LinksTo
        <5>2. (\E i \in DOMAIN D : c = D[i]) \/ (\E m \in DOMAIN zl.lwb : c = zl.lwb[m])
          BY <3>1, <5>1 DEF Written
        <5>. QED  BY <1>9, <2>1, <2>4, <5>2
      <4>. QED  BY <4>1, <4>2
    <3>. QED  BY <3>2, <3>3 DEF Written
  <2>9. IsLog(E, k)'
    <3>1. \A h \in {zh', zh_disk'} : h.claim_txg = 0
      BY <1>4 DEF Fresh
    <3>2. Recorded(E)'
      <4>0. blk[n].recs = <<>> /\ n \in Blocks
        BY <1>2, <1>18 DEF NoBlk
      <4>1. /\ \A c \in Blocks : c # n => blk'[c].recs = blk[c].recs
            /\ Adds(n, blk[n].recs)
        BY <1>18, <4>0 DEF LinksTo
      <4>2. \A i \in DOMAIN D : \A m \in DOMAIN blk[D[i]].recs :
              blk[D[i]].recs[m].seq <= zl.lr_seq /\ Current(blk[D[i]].recs[m].itx)
        BY <1>3, <1>8, WriterLog
      <4>3. \A i \in 1 .. N + 1 : i = N + 1 \/ i \in 1 .. N
        BY <1>9
      <4>4. ASSUME NEW i \in DOMAIN E, NEW m \in DOMAIN blk[E[i]].recs
            PROVE  i \in DOMAIN D /\ E[i] = D[i]
        <5>1. blk[E[i]].recs # <<>>
          BY <4>4
        <5>. QED  BY <1>9, <2>1, <4>0, <4>3, <5>1
      <4>5. \A i \in DOMAIN E : \A m \in DOMAIN blk[E[i]].recs :
              blk[E[i]].recs[m].seq <= zl.lr_seq /\ Current(blk[E[i]].recs[m].itx)
        BY <4>2, <4>4
      <4>6. Ordered(D) /\ Reached(D)
        BY <1>8 DEF IsLog, Recorded
      <4>7. Ordered(E)
        BY <4>4, <4>6 DEF Ordered
      <4>8. Reached(E)
        <5>1. \A i \in DOMAIN D : i \in DOMAIN E /\ E[i] = D[i]
          BY <1>9, <2>1
        <5>. QED  BY <4>6, <5>1 DEF Reached
      <4>. DEFINE l == N + 1
      <4>9. l \in DOMAIN E /\ n = E[l] /\ \A i \in DOMAIN E : i <= l
        BY <1>9, <2>1
      <4>10. \A i, j \in DOMAIN E : E[i] = E[j] => i = j
        BY <2>1, <2>2
      <4>. HIDE DEF l
      <4>. QED  BY <2>1, <4>1, <4>5, <4>7, <4>8, <4>9, <4>10, AddsRecorded
    <3>3. Linked(E)' /\ Headed(E, k)' /\ Listed(E, k)' /\ Pending(E, k)'
      BY <2>5, <2>6, <2>7
    <3>. QED  BY <2>8, <3>1, <3>2, <3>3 DEF IsLog
  <2>. QED  BY <1>8, <1>15, <1>16, <2>1, <2>9 DEF ChainInv
<1>. QED  BY <1>17, <1>18

\* zil_lwb_write_start() links the block to the one it got.
StartsLink(f, n) ==
  /\ f[w.lwb].next = n /\ f[w.lwb].content = blk[w.lwb].content
  /\ f[w.lwb].recs = blk[w.lwb].recs /\ f[w.lwb].max_txg = blk[w.lwb].max_txg
  /\ n # NULL => /\ f[n].birth = open /\ f[n].content = "none" /\ f[n].next = NULL
                 /\ f[n].recs = <<>>

\* It does.
LEMMA StartLinks ==
  ASSUME ZilInv, w.lwb # NULL, NEW n \in Alloc
  PROVE  StartsLink(Start(w.lwb, n), n)
<1>. DEFINE x == [blk[w.lwb] EXCEPT !.io = "issued", !.next = n]
            y == NewLwb(n, open)
            S == Start(w.lwb, n)
<1>1. w.lwb \in Blocks /\ IsBlk(blk[w.lwb]) /\ (n # NULL => n \in Blocks /\ n # w.lwb)
  BY StartFact DEF ZilInv, ShapeInv, IsWriter
<1>2. S = [c \in Blocks |-> IF c = w.lwb THEN x ELSE IF c = n THEN y ELSE blk[c]]
  BY DEF Start
<1>3. /\ x.next = n /\ x.content = blk[w.lwb].content
      /\ x.recs = blk[w.lwb].recs /\ x.max_txg = blk[w.lwb].max_txg
  BY <1>1 DEF IsBlk
<1>4. y.birth = open /\ y.content = "none" /\ y.next = NULL /\ y.recs = <<>>
  BY DEF NewLwb, NoBlk
<1>. HIDE DEF S, x, y
<1>5. S[w.lwb] = x /\ (n # NULL => S[n] = y)
  BY <1>1, <1>2
<1>. QED  BY <1>3, <1>4, <1>5 DEF S, StartsLink

\* A record that is logged does not change where its block points to.
LEMMA LogRecordLinks ==
  ASSUME IsZl(zl), Current(w.itx),
         NEW t, NEW f, DOMAIN f = Blocks, NEW b \in Blocks, IsBlk(f[b]), LogRecord(t, f, b)
  PROVE  blk'[b].next = f[b].next /\ blk'[b].content = f[b].content /\ Adds(b, f[b].recs)
<1>. DEFINE z == IF b = w.lwb THEN zl.lwb ELSE Append(zl.lwb, b)
<1>1. CASE blk' = AddRecord(f, b) /\ zl' = [zl EXCEPT !.lr_seq = zl.lr_seq + 1, !.lwb = z]
  <2>. DEFINE x == Larger(f[b].max_txg, rec[w.itx].txg)
              y == Append(f[b].recs, [itx |-> w.itx, seq |-> zl.lr_seq + 1])
  <2>1. blk' = [f EXCEPT ![b].io = "init", ![b].recs = y, ![b].max_txg = x]
    BY <1>1 DEF AddRecord
  <2>. HIDE DEF x, y, z
  <2>2. blk'[b].next = f[b].next /\ blk'[b].content = f[b].content /\ blk'[b].recs = y
    BY <2>1 DEF IsBlk
  <2>3. zl'.lr_seq = zl.lr_seq + 1
    BY <1>1 DEF IsZl
  <2>. QED  BY <2>2, <2>3 DEF Adds, y
<1>2. CASE blk' = [f EXCEPT ![b].io = "init"] /\ zl' = [zl EXCEPT !.lwb = z]
  <2>. HIDE DEF z
  <2>1. blk'[b].next = f[b].next /\ blk'[b].content = f[b].content /\ blk'[b].recs = f[b].recs
    BY <1>2 DEF IsBlk
  <2>2. zl'.lr_seq = zl.lr_seq
    BY <1>2 DEF IsZl
  <2>. QED  BY <2>1, <2>2 DEF Adds
<1>. QED  BY <1>1, <1>2 DEF LogRecord

\* zil_lwb_commit() keeps the invariant.
LEMMA zil_lwb_commitChain ==
  ASSUME ZilInv, BookInv, ChainInv, NEW t \in Procs, zil_lwb_commit(t)
  PROVE  ChainInv' /\ FreesOnce
<1>1. /\ p[t].pc = "log" /\ p[t].pc \in LoopPcs
      /\ UNCHANGED <<zsynced, zh, zh_disk, mode, rec, crashes>>
  BY DEF zil_lwb_commit, import_vars, LoopPcs
<1>0. Current(w.itx) /\ OpenInv
  BY <1>1 DEF ZilInv, RecInv, ChainInv
<1>2. /\ IsZl(zl) /\ DOMAIN blk = Blocks /\ \A b \in Blocks : IsBlk(blk[b])
      /\ IsProc(p[t]) /\ DOMAIN p = Procs
      /\ \A b \in Blocks : blk[b].io # "done" => blk[b].content = "none"
  BY DEF ZilInv, ShapeInv, ChainInv, OpenInv
<1>3. CASE /\ p' = [p EXCEPT ![t].pc = "push"]
           /\ UNCHANGED <<stable, active, dirty, zl, blk>>
  <2>1. p'[t].pc = "push" /\ \A u \in Procs : u # t => p'[u] = p[u]
    BY <1>2, <1>3 DEF IsProc
  <2>2. \A u \in Procs : StillThread(u)
    BY <1>1, <2>1, LoopStill DEF Woken
  <2>. QED  BY <1>1, <1>3, <2>2, SameRecords, SameChain DEF SameLog
<1>4. CASE /\ w.lwb # NULL
           /\ LogRecord(t, blk, w.lwb)
           /\ UNCHANGED <<stable, active, dirty>>
  <2>1. /\ w.lwb \in Blocks /\ blk[w.lwb].max_txg \in Nat /\ blk[w.lwb].max_txg <= open
        /\ blk[w.lwb].io \in {"none", "init"}
    BY <1>2, <1>4 DEF ZilInv, WriterInv, TailInv, ShapeInv, IsWriter, Last
  <2>2. /\ Logged(blk, w.lwb) /\ Longer(IF w.lwb = w.lwb THEN NULL ELSE w.lwb)
        /\ Moves(t, p'[t]) /\ p'[t].pc \in {"push", "recWait"}
    BY <1>1, <1>2, <1>4, <2>1, LogRecordFact
  <2>3. /\ blk'[w.lwb].next = blk[w.lwb].next /\ blk'[w.lwb].content = blk[w.lwb].content
        /\ Adds(w.lwb, blk[w.lwb].recs)
    BY <1>0, <1>2, <1>4, <2>1, LogRecordLinks
  <2>4. /\ zl'.lwb = zl.lwb /\ zl'.destroy_txg = zl.destroy_txg
        /\ zl'.keep_first = zl.keep_first
    BY <2>2 DEF Longer
  <2>5. ASSUME NEW c \in Blocks
        PROVE  StillBlock(c)
    <3>1. CASE c = w.lwb
      <4>1. blk'[c].io = "init" /\ blk'[c].freed = blk[c].freed /\ blk'[c].birth = blk[c].birth
        BY <2>2, <3>1 DEF Logged
      <4>2. blk[c].content = "none" /\ blk[c].io # "done" /\ blk[c].io # "issued"
        BY <1>2, <2>1, <3>1
      <4>. QED  BY <2>3, <3>1, <4>1, <4>2 DEF StillBlock, IssuedIn
    <3>2. CASE c # w.lwb
      <4>1. blk'[c] = blk[c]
        BY <2>2, <3>2 DEF Logged
      <4>. QED  BY <1>4, <4>1 DEF StillBlock, IssuedIn
    <3>. QED  BY <3>1, <3>2
  <2>6. \A u \in Procs : StillThread(u)
    BY <1>1, <2>2, LoopStill DEF Moves, Woken
  <2>7. Still
    <3>1. \A c \in Blocks : c # w.lwb => blk'[c].recs = blk[c].recs
      BY <2>2 DEF Logged
    <3>2. RecordsKept
      BY <1>0, <1>1, <1>4, <2>3, <3>1, WriterAdds
    <3>. QED  BY <1>1, <1>4, <2>4, <2>5, <2>6, <3>2 DEF Still
  <2>. QED  BY <2>7, StillKeeps
<1>5. ASSUME w.lwb # NULL, HoldTx(w.lwb), dirty' = dirty \cup {open}, NEW n \in Alloc,
             IF n # NULL THEN LogRecord(t, Start(w.lwb, n), n)
             ELSE /\ blk' = Start(w.lwb, NULL)
                  /\ p' = [p EXCEPT ![t].pc = "push"]
                  /\ UNCHANGED zl
      PROVE  ChainInv' /\ FreesOnce
  <2>. DEFINE f == Start(w.lwb, n)
  <2>1. /\ DOMAIN f = Blocks /\ \A c \in Blocks : IsBlk(f[c])
        /\ \A c \in Blocks : c \notin {w.lwb, n} => f[c] = blk[c]
        /\ f[w.lwb].io = "issued" /\ f[w.lwb].freed = blk[w.lwb].freed
        /\ f[w.lwb].birth = blk[w.lwb].birth
        /\ n # NULL => /\ n \in Blocks /\ n # w.lwb
                       /\ f[n].freed = 0 /\ f[n].io = "none"
                       /\ f[n].max_txg \in Nat /\ f[n].max_txg <= open
    BY <1>5, StartFact
  <2>2. StartsLink(f, n)
    BY <1>5, StartLinks
  <2>3. n = NULL => blk' = f
    BY <1>5
  <2>4. n # NULL => LogRecord(t, f, n)
    BY <1>5
  <2>. HIDE DEF f
  <2>5. w.lwb \in Blocks
    BY <1>5 DEF ZilInv, ShapeInv, IsWriter
  <2>6. \A u \in Procs : ~Creating(u)
    BY <1>1, OneWriter
  <2>7. \A u \in Procs : p[u].pc # "create"
    BY <2>6 DEF Creating
  <2>8. CASE n = NULL
    <3>1. LinksTo(n)
      BY <1>5, <2>1, <2>2, <2>3, <2>8 DEF LinksTo, StartsLink
    <3>2. \A u \in Procs : p'[u].pc # "create"
      BY <1>2, <1>5, <2>7, <2>8 DEF IsProc
    <3>. QED  BY <1>1, <1>5, <2>6, <2>8, <3>1, <3>2, IssueChain
  <2>9. CASE n # NULL
    <3>1. /\ Logged(f, n) /\ Longer(IF n = w.lwb THEN NULL ELSE n)
          /\ Moves(t, p'[t]) /\ p'[t].pc \in {"push", "recWait"}
      BY <1>1, <2>1, <2>4, <2>9, LogRecordFact
    <3>2. blk'[n].next = f[n].next /\ blk'[n].content = f[n].content /\ Adds(n, f[n].recs)
      BY <1>0, <1>2, <2>1, <2>4, <2>9, LogRecordLinks
    <3>3. LinksTo(n)
      <4>1. /\ \A c \in Blocks : c # n => blk'[c] = f[c]
            /\ blk'[n].io = "init" /\ blk'[n].freed = f[n].freed /\ blk'[n].birth = f[n].birth
        BY <3>1 DEF Logged
      <4>. QED  BY <2>1, <2>2, <2>5, <2>9, <3>2, <4>1 DEF LinksTo, StartsLink
    <3>4. /\ zl'.lwb = (IF n = NULL THEN zl.lwb ELSE Append(zl.lwb, n))
          /\ zl'.destroy_txg = zl.destroy_txg /\ zl'.keep_first = zl.keep_first
      BY <2>1, <2>9, <3>1 DEF Longer
    <3>5. \A u \in Procs : p'[u].pc # "create"
      BY <2>7, <3>1 DEF Moves
    <3>. QED  BY <1>1, <1>5, <2>6, <3>3, <3>4, <3>5, IssueChain
  <2>. QED  BY <2>8, <2>9
<1>. QED  BY <1>3, <1>4, <1>5 DEF zil_lwb_commit, gc_vars

\* WriteLast() keeps the invariant.
LEMMA WriteLastChain ==
  ASSUME ZilInv, BookInv, ChainInv, NEW t \in Procs, WriteLast(t)
  PROVE  ChainInv' /\ FreesOnce
<1>1. /\ p[t].pc = "push" /\ p[t].pc \in LoopPcs /\ p' = [p EXCEPT ![t].pc = "io"]
      /\ UNCHANGED <<zsynced, zh, zh_disk, mode, rec, crashes>>
  BY DEF WriteLast, fs_vars, import_vars, LoopPcs
<1>2. IsZl(zl) /\ IsProc(p[t]) /\ DOMAIN p = Procs
  BY DEF ZilInv, ShapeInv
<1>3. p'[t].pc = "io" /\ \A u \in Procs : u # t => p'[u] = p[u]
  BY <1>1, <1>2 DEF IsProc
<1>4. CASE UNCHANGED <<stable, active, dirty, zl, blk>>
  <2>1. \A u \in Procs : StillThread(u)
    BY <1>1, <1>3, LoopStill DEF Woken
  <2>. QED  BY <1>1, <1>4, <2>1, SameRecords, SameChain DEF SameLog
<1>5. ASSUME w.lwb # NULL, HoldTx(w.lwb), dirty' = dirty \cup {open}, NEW n \in Alloc,
             blk' = Start(w.lwb, n),
             zl' = IF n = NULL THEN zl ELSE [zl EXCEPT !.lwb = Append(@, n)]
      PROVE  ChainInv' /\ FreesOnce
  <2>1. StartsLink(blk', n)
    BY <1>5, StartLinks
  <2>3. /\ zl'.lwb = (IF n = NULL THEN zl.lwb ELSE Append(zl.lwb, n))
        /\ zl'.destroy_txg = zl.destroy_txg /\ zl'.keep_first = zl.keep_first
        /\ zl'.lr_seq = zl.lr_seq
    <3>1. CASE n = NULL
      BY <1>5, <3>1
    <3>2. CASE n # NULL
      <4>1. zl' = [zl EXCEPT !.lwb = Append(zl.lwb, n)]
        BY <1>5, <3>2
      <4>. QED  BY <1>2, <3>2, <4>1 DEF IsZl
    <3>. QED  BY <3>1, <3>2
  <2>4. \A u \in Procs : ~Creating(u)
    BY <1>1, OneWriter
  <2>5. \A u \in Procs : p'[u].pc # "create"
    BY <1>3, <2>4 DEF Creating
  <2>2. LinksTo(n)
    BY <1>5, <2>1, <2>3, StartFact DEF LinksTo, StartsLink, Adds
  <2>. QED  BY <1>1, <1>5, <2>2, <2>3, <2>4, <2>5, IssueChain
<1>. QED  BY <1>4, <1>5 DEF WriteLast, gc_vars

----------------------------------------------------------------------------
\* zil_create() and zil_destroy().

\* With no header there is no chain, but for blocks that are gone.
LEMMA NoHead ==
  ASSUME NEW D \in Seq(Blocks), NEW k \in Nat, IsLog(D, k), zh.log = NULL
  PROVE  k = Len(D)
<1>1. Len(D) \in Nat /\ k \in 0 .. Len(D)
  BY DEF IsLog, Headed
<1>. SUFFICES ASSUME k # Len(D)
              PROVE  FALSE
  OBVIOUS
<1>2. k < Len(D) /\ k + 1 \in DOMAIN D
  <2>1. k < Len(D)
    BY <1>1
  <2>2. k + 1 \in 1 .. Len(D)
    BY <1>1, <2>1
  <2>. QED  BY <2>1, <2>2
<1>3. zh.log = D[k + 1]
  BY <1>2 DEF IsLog, Headed
<1>. QED  BY <1>2, <1>3, NullFact

\* A log that is neither open nor being destroyed is the one block that was kept.
LEMMA KeptLog ==
  ASSUME NEW D \in Seq(Blocks), NEW k \in Nat, IsLog(D, k), zh.log # NULL, zl.lwb = <<>>,
         ~Importing, ~(Destroying /\ ~zl.keep_first)
  PROVE  Len(D) = 1 /\ k = 0 /\ D[1] = zh.log /\ blk[D[1]].freed = 0
<1>1. Len(D) \in Nat /\ k \in 0 .. Len(D)
  BY DEF IsLog, Headed
<1>2. k # Len(D)
  BY DEF IsLog, Headed
<1>3. k < Len(D)
  BY <1>1, <1>2
<1>4. Len(D) = 1 /\ k = 0 /\ blk[D[1]].freed = 0
  BY <1>3 DEF IsLog, Listed
<1>5. zh.log = D[k + 1]
  BY <1>3 DEF IsLog, Headed
<1>. QED  BY <1>4, <1>5

\* zil_create() keeps the invariant.
LEMMA zil_createChain ==
  ASSUME ZilInv, ChainInv, NEW t \in Procs, zil_create(t)
  PROVE  ChainInv' /\ FreesOnce
<1>1. /\ p[t].pc = "create" /\ DestroyDone
      /\ UNCHANGED <<open, stable, active, zsynced, zh, zh_disk, mode, rec, crashes>>
  BY DEF zil_create, gc_vars, fs_vars, import_vars
<1>2. /\ IsProc(p[t]) /\ DOMAIN p = Procs /\ IsHeader(zh) /\ IsZl(zl)
      /\ DOMAIN blk = Blocks /\ zl.lwb \in Seq(Blocks)
      /\ open \in Nat /\ stable \in Nat /\ stable < open /\ zl.destroy_txg \in Nat
  BY <1>1 DEF ZilInv, ShapeInv, GroupInv
<1>3. OpenInv /\ zl.lwb = <<>>
  BY <1>1 DEF ChainInv, OpenInv
<1>4. mode = "up" /\ \A u \in Procs : u # t => p[u].pc \notin WriterPcs
  BY <1>1, CreatingFact DEF Creating
<1>5. ~Importing /\ ~Importing'
  BY <1>1, <1>4 DEF Importing
<1>6. zl.destroy_txg <= stable /\ ~Destroying
  BY <1>1, <1>2 DEF DestroyDone, Destroying, Synced, SyncedIn
<1>7. PICK D \in Seq(Blocks), k \in Nat : IsLog(D, k)
  BY DEF ChainInv
<1>8. /\ k \in Nat /\ Len(D) \in Nat /\ DOMAIN D = 1 .. Len(D) /\ k \in 0 .. Len(D)
      /\ \A i \in DOMAIN D : D[i] \in Blocks
  BY <1>7 DEF IsLog, Headed
<1>9. ASSUME NEW b \in Blocks, NEW x, zl' = [zl EXCEPT !.lwb = <<b>>],
             blk' = [blk EXCEPT ![b] = x]
      PROVE  /\ zl'.lwb = <<b>> /\ zl'.destroy_txg = zl.destroy_txg
             /\ zl'.keep_first = zl.keep_first /\ zl'.lr_seq = zl.lr_seq
             /\ blk'[b] = x /\ \A c \in Blocks : c # b => blk'[c] = blk[c]
  BY <1>2, <1>9 DEF IsZl
<1>10. ASSUME NEW b \in Blocks, NEW x, blk'[b] = x, \A c \in Blocks : c # b => blk'[c] = blk[c],
              x.birth \in Nat, x.content = "none", zl'.destroy_txg = zl.destroy_txg,
              dirty \subseteq dirty', \A u \in Procs : p'[u].pc # "create"
       PROVE  OpenInv'
  <2>1. \A c \in Blocks : blk'[c].birth \in Nat /\ (blk'[c].io # "done" => blk'[c].content = "none")
    BY <1>3, <1>10 DEF OpenInv
  <2>. QED  BY <1>1, <1>3, <1>4, <1>10, <2>1 DEF OpenInv, Importing
<1>11. CASE zh.log # NULL
  <2>. DEFINE e == blk[zh.log].birth
              x == [NoBlk EXCEPT !.birth = e]
  <2>1. /\ zl' = [zl EXCEPT !.lwb = <<zh.log>>] /\ blk' = [blk EXCEPT ![zh.log] = x]
        /\ p' = [p EXCEPT ![t].pc = "created"] /\ dirty' = dirty
    BY <1>11 DEF zil_create
  <2>2. zh.log \in Blocks /\ e # 0 /\ e \in Nat
    BY <1>2, <1>3, <1>11 DEF ZilInv, BirthInv, IsHeader, OpenInv
  <2>. HIDE DEF e
  <2>3. /\ x.birth = e /\ x.freed = 0 /\ x.io = "none" /\ x.next = NULL /\ x.content = "none"
        /\ x.recs = <<>>
    BY DEF NoBlk
  <2>. HIDE DEF x
  <2>4. /\ zl'.lwb = <<zh.log>> /\ zl'.destroy_txg = zl.destroy_txg
        /\ zl'.keep_first = zl.keep_first /\ zl'.lr_seq = zl.lr_seq
        /\ blk'[zh.log] = x /\ \A c \in Blocks : c # zh.log => blk'[c] = blk[c]
    BY <1>9, <2>1, <2>2
  <2>5. \A u \in Procs : p'[u].pc # "create"
    BY <1>2, <1>4, <2>1 DEF IsProc, WriterPcs
  <2>6. OpenInv'
    BY <1>10, <2>1, <2>2, <2>3, <2>4, <2>5
  <2>7. Len(D) = 1 /\ k = 0 /\ D[1] = zh.log /\ blk[D[1]].freed = 0
    BY <1>3, <1>5, <1>6, <1>7, <1>11, KeptLog
  <2>8. FreesOnce
    BY <2>3, <2>4 DEF FreesOnce
  <2>9. DOMAIN D = {1}
    BY <1>8, <2>7
  <2>10. Linked(D)'
    <3>1. ~LiveIn(blk', zh.log)
      BY <2>3, <2>4 DEF LiveIn
    <3>2. blk'[zh.log].birth # 0
      BY <2>2, <2>3, <2>4
    <3>3. ASSUME NEW i \in DOMAIN D
          PROVE  /\ blk'[D[i]].birth # 0
                 /\ i < Len(D) => blk'[D[i]].next = D[i + 1]
                 /\ i = Len(D) => ~Live(D[i])'
      BY <2>7, <2>9, <3>1, <3>2 DEF Live
    <3>. QED  BY <1>7, <3>3 DEF IsLog, Linked
  <2>11. Headed(D, k)'
    <3>1. 1 .. k = {} /\ k < Len(D) /\ k # Len(D)
      BY <2>7
    <3>. QED  BY <1>1, <1>7, <2>7, <3>1 DEF IsLog, Headed
  <2>12. Listed(D, k)' /\ Pending(D, k)'
    BY <2>4, <2>7 DEF Listed, Pending
  <2>13. ASSUME ~LogErrors
         PROVE  Written(D)'
    <3>1. \A c \in Blocks : blk'[c].birth = blk[c].birth
      BY <2>3, <2>4 DEF e
    <3>2. \A c \in Blocks : blk'[c].birth # 0 => \E i \in DOMAIN D : c = D[i]
      BY <1>3, <1>7, <2>13, <3>1 DEF IsLog, Written
    <3>3. \A i \in DOMAIN D : ~(i < Len(D))
      BY <2>7, <2>9
    <3>. QED  BY <3>2, <3>3 DEF Written
  <2>14. IsLog(D, k)'
    <3>1. SameRecs /\ SameCurrent
      BY <1>1, <2>3, <2>4, SameRecords DEF SameRecs
    <3>2. Opened' => Opened
      BY <1>1, <2>4 DEF Opened, Importing
    <3>3. \A i \in DOMAIN D : blk'[D[i]].recs = <<>>
      BY <2>3, <2>4, <2>7, <2>9
    <3>4. Recorded(D) /\ Recent(D)
      BY <1>7 DEF IsLog, Recorded
    <3>5. Recorded(D)'
      BY <2>4, <3>1, <3>2, <3>3, <3>4, RecentKeeps, RecordedKeeps
    <3>. QED  BY <1>1, <2>7, <2>10, <2>11, <2>12, <2>13, <3>5 DEF IsLog
  <2>. QED  BY <1>7, <2>6, <2>8, <2>14 DEF ChainInv
<1>12. CASE zh.log = NULL
  <2>1. /\ dirty' = dirty \cup {open}
        /\ p' = [p EXCEPT ![t].pc = "created", ![t].txg = open]
        /\ \E n \in Alloc :
             IF n = NULL THEN UNCHANGED <<zl, blk>>
             ELSE /\ zl' = [zl EXCEPT !.lwb = <<n>>]
                  /\ blk' = [blk EXCEPT ![n] = NewLwb(n, open)]
    BY <1>12 DEF zil_create
  <2>2. p'[t].pc = "created" /\ p'[t].txg = open /\ \A u \in Procs : u # t => p'[u] = p[u]
    BY <1>2, <2>1 DEF IsProc
  <2>3. ASSUME UNCHANGED <<zl, blk>>
        PROVE  ChainInv' /\ FreesOnce
    <3>1. \A u \in Procs : StillThread(u)
      BY <1>1, <2>2 DEF StillThread
    <3>. QED  BY <1>1, <2>1, <2>3, <3>1, SameRecords, SameChain DEF SameLog
  <2>4. ASSUME NEW n \in Alloc, n # NULL, zl' = [zl EXCEPT !.lwb = <<n>>],
               blk' = [blk EXCEPT ![n] = NewLwb(n, open)]
        PROVE  ChainInv' /\ FreesOnce
    <3>. DEFINE x == NewLwb(n, open)
    <3>1. n \in Blocks /\ blk[n] = NoBlk
      BY <2>4, AllocFact
    <3>2. /\ x.birth = open /\ x.freed = 0 /\ x.io = "none" /\ x.next = NULL /\ x.content = "none"
          /\ x.recs = <<>>
      BY DEF NewLwb, NoBlk
    <3>. HIDE DEF x
    <3>3. /\ zl'.lwb = <<n>> /\ zl'.destroy_txg = zl.destroy_txg
          /\ zl'.keep_first = zl.keep_first /\ zl'.lr_seq = zl.lr_seq
          /\ blk'[n] = x /\ \A c \in Blocks : c # n => blk'[c] = blk[c]
      BY <1>9, <2>4, <3>1 DEF x
    <3>4. \A u \in Procs : p'[u].pc # "create"
      BY <1>4, <2>2 DEF WriterPcs
    <3>5. OpenInv'
      BY <1>2, <1>10, <2>1, <3>1, <3>2, <3>3, <3>4
    <3>6. k = Len(D)
      BY <1>7, <1>12, NoHead
    <3>7. \A i \in DOMAIN D : D[i] # n /\ blk'[D[i]] = blk[D[i]]
      <4>1. NoBlk.birth = 0
        BY DEF NoBlk
      <4>2. \A i \in DOMAIN D : blk[D[i]].birth # 0
        BY <1>7 DEF IsLog, Linked
      <4>. QED  BY <1>8, <3>1, <3>3, <4>1, <4>2
    <3>8. FreesOnce
      BY <3>2, <3>3 DEF FreesOnce
    <3>9. Linked(D)'
      <4>1. \A i \in DOMAIN D : Live(D[i])' => Live(D[i])
        BY <3>7 DEF Live, LiveIn
      <4>. QED  BY <1>7, <3>7, <4>1 DEF IsLog, Linked
    <3>10. Headed(D, k)'
      <4>1. \A i \in 1 .. k : i \in DOMAIN D
        BY <1>8
      <4>2. \A i \in 1 .. k : blk'[D[i]].freed = stable + 1
        BY <1>7, <3>7, <4>1 DEF IsLog, Headed
      <4>3. ~(k < Len(D))
        BY <1>8, <3>6
      <4>. QED  BY <1>1, <1>5, <1>7, <1>12, <4>2, <4>3 DEF IsLog, Headed
    <3>11. Listed(D, k)'
      BY <1>8, <3>6 DEF Listed
    <3>12. Pending(D, k)'
      <4>1. ~LiveIn(blk', n)
        BY <3>2, <3>3 DEF LiveIn
      <4>2. p'[t].pc = "created" /\ p'[t].txg > stable' /\ blk'[n].birth = p'[t].txg
        BY <1>1, <1>2, <2>2, <3>2, <3>3
      <4>3. zl'.lwb[1] = n /\ blk'[n].recs = <<>>
        BY <3>2, <3>3
      <4>. QED  BY <3>7, <4>1, <4>2, <4>3 DEF Pending, Live
    <3>13. ASSUME ~LogErrors
           PROVE  Written(D)'
      <4>1. Written(D)
        BY <1>7, <3>13 DEF IsLog
      <4>2. ASSUME NEW i \in DOMAIN D, i < Len(D)
            PROVE  /\ Issued(D[i])' /\ (blk'[D[i]].io = "done" => blk'[D[i]].content \in {"cache", "disk"})
                   /\ \A j \in i + 1 .. Len(D) :
                        /\ blk'[D[i]].io = "issued" => active'[D[i]] <= blk'[D[j]].birth
                        /\ blk'[D[j]].birth <= stable' => blk'[D[i]].content = "disk"
        <5>1. \A j \in i + 1 .. Len(D) : blk'[D[j]] = blk[D[j]]
          <6>1. \A j \in i + 1 .. Len(D) : j \in DOMAIN D
            BY <1>8
          <6>. QED  BY <3>7, <6>1
        <5>. QED  BY <1>1, <3>7, <4>1, <4>2, <5>1 DEF Written, Issued, IssuedIn
      <4>3. 1 \in DOMAIN zl'.lwb /\ n = zl'.lwb[1]
        BY <3>3
      <4>4. \A c \in Blocks : blk'[c].birth # 0 =>
              (\E i \in DOMAIN D : c = D[i]) \/ (\E m \in DOMAIN zl'.lwb : c = zl'.lwb[m])
        BY <1>3, <3>3, <4>1, <4>3 DEF Written
      <4>. QED  BY <4>2, <4>4 DEF Written
    <3>14. IsLog(D, k)'
      <4>1. SameRecs /\ SameCurrent
        BY <1>1, <3>2, <3>3, SameRecords DEF SameRecs
      <4>2. Opened' => Opened
        BY <1>1, <3>3 DEF Opened, Importing
      <4>3. \A i \in DOMAIN D : \A m \in DOMAIN zl'.lwb : D[i] # zl'.lwb[m]
        BY <3>3, <3>7
      <4>4. Recorded(D) /\ Recent(D)
        BY <1>7 DEF IsLog, Recorded
      <4>5. Recorded(D)'
        BY <3>3, <4>1, <4>2, <4>3, <4>4, RecentKeeps, RecordedKeeps
      <4>. QED  BY <1>1, <1>7, <3>9, <3>10, <3>11, <3>12, <3>13, <4>5 DEF IsLog
    <3>. QED  BY <1>7, <3>5, <3>8, <3>14 DEF ChainInv
  <2>. QED  BY <2>1, <2>3, <2>4
<1>. QED  BY <1>11, <1>12

\* Blocks whose writes have all ended well are all visited.
LEMMA WholeChain ==
  ASSUME NEW D \in Seq(Blocks), Linked(D), D # <<>>,
         \A i \in DOMAIN D : i < Len(D) => blk[D[i]].content = "disk"
  PROVE  /\ Begins(Chain(blk, D[1]), D, Len(D))
         /\ Range(Chain(blk, D[1])) = {D[i] : i \in 1 .. Len(D)}
<1>. DEFINE N == Len(D)
            C == Chain(blk, D[1])
<1>1. N \in Nat /\ N # 0
  OBVIOUS
<1>2. N \in 1 .. N /\ \A i \in 1 .. N - 1 : i \in 1 .. N /\ i + 1 \in 1 .. N /\ i < N
  BY <1>1
<1>3. DOMAIN D = 1 .. N /\ \A i \in 1 .. N : D[i] \in Blocks
  OBVIOUS
<1>4. ~Valid(blk, D[N])
  <2>1. ~Live(D[N])
    BY <1>2, <1>3 DEF Linked
  <2>. QED  BY <2>1 DEF Live, LiveIn, Valid
<1>5. ASSUME NEW i \in 1 .. N - 1
      PROVE  Valid(blk, D[i]) /\ blk[D[i]].next = D[i + 1]
  <2>1. i \in DOMAIN D /\ i < Len(D) /\ D[i + 1] \in Blocks
    BY <1>2, <1>3, <1>5
  <2>2. blk[D[i]].next = D[i + 1] /\ blk[D[i]].content = "disk"
    BY <2>1 DEF Linked
  <2>. QED  BY <2>1, <2>2, NullFact DEF Valid
<1>6. EndsAt(blk, D, N)
  BY <1>2, <1>3, <1>4, <1>5 DEF EndsAt
<1>7. \A i, j \in DOMAIN D : D[i] = D[j] => i = j
  BY DEF Linked
<1>8. Begins(C, D, N)
  BY <1>6, <1>7, ChainIs
<1>. HIDE DEF C
<1>9. DOMAIN C = 1 .. N /\ \A i \in 1 .. N : C[i] = D[i]
  BY <1>8 DEF Begins
<1>. QED  BY <1>8, <1>9 DEF C, Range

\* zil_destroy() of the blocks that are left of the chain.
LEMMA DestroyedChain ==
  ASSUME ZilInv, OpenInv, NEW D \in Seq(Blocks), NEW k \in Nat, IsLog(D, k), k < Len(D),
         zl.lwb # <<>> => OpenLog(D, k),
         NEW X, X = {D[i] : i \in k + 1 .. Len(D)},
         \A i \in k + 1 .. Len(D) : blk[D[i]].freed = 0,
         blk' = FreeBlocks(X, open), dirty \subseteq dirty',
         zl'.destroy_txg = open, ~zl'.keep_first, zl'.lwb = <<>>, zl'.lr_seq = zl.lr_seq,
         mode' = "replayed" \/ (mode' = "up" /\ mode = "up"),
         UNCHANGED <<open, stable, active, zsynced, zh, zh_disk, rec, crashes>>
  PROVE  ChainInv' /\ FreesOnce
<1>1. open \in Nat /\ stable \in Nat /\ stable < open /\ (zsynced => stable + 1 < open)
  BY DEF ZilInv, GroupInv
<1>2. ~Importing'
  BY DEF Importing
<1>3. Destroying'
  BY <1>1 DEF Destroying, Synced, SyncedIn
<1>4. \A b \in Blocks : blk'[b].io = blk[b].io /\ blk'[b].birth = blk[b].birth
                        /\ blk'[b].freed = IF b \in X THEN open ELSE blk[b].freed
  BY FreeFact
<1>5. \A b \in Blocks : /\ blk'[b].next = blk[b].next /\ blk'[b].content = blk[b].content
                        /\ blk'[b].recs = blk[b].recs
  <2>1. \A b \in Blocks : IsBlk(blk[b])
    BY DEF ZilInv, ShapeInv
  <2>2. \A b \in Blocks : blk'[b] = blk[b] \/ blk'[b] = [blk[b] EXCEPT !.freed = open]
    BY DEF FreeBlocks
  <2>. QED  BY <2>1, <2>2 DEF IsBlk
<1>6. DOMAIN D = 1 .. Len(D) /\ \A i \in DOMAIN D : D[i] \in Blocks
  OBVIOUS
<1>7. Len(D) \in Nat /\ k \in Nat /\ k < Len(D)
  OBVIOUS
<1>8. \A i \in k + 1 .. Len(D) : i \in 1 .. Len(D)
  BY <1>7
<1>9. OpenInv'
  BY <1>1, <1>2, <1>4, <1>5 DEF OpenInv, Importing
<1>10. \A b \in Blocks : b \in X => blk[b].birth # 0 /\ blk[b].freed = 0
  BY <1>6, <1>8 DEF IsLog, Linked
<1>11. FreesOnce
  <2>1. NoBlk.birth = 0
    BY DEF NoBlk
  <2>. QED  BY <1>4, <1>10, <2>1 DEF FreesOnce
<1>12. Linked(D)'
  <2>1. \A i \in DOMAIN D : Live(D[i])' => Live(D[i])
    BY <1>4, <1>5, <1>6 DEF Live, LiveIn
  <2>2. \A i \in DOMAIN D : blk'[D[i]].birth = blk[D[i]].birth /\ blk'[D[i]].next = blk[D[i]].next
    BY <1>4, <1>5, <1>6
  <2>. QED  BY <2>1, <2>2 DEF IsLog, Linked
<1>13. Headed(D, k)'
  <2>1. \A i \in 1 .. k : i \in 1 .. Len(D) /\ i \notin k + 1 .. Len(D)
    BY <1>7
  <2>2. \A i \in 1 .. k : D[i] \in Blocks /\ D[i] \notin X
    BY <1>6, <1>8, <2>1 DEF IsLog, Linked
  <2>3. \A i \in 1 .. k : blk'[D[i]].freed = stable + 1
    BY <1>4, <2>2 DEF IsLog, Headed
  <2>4. k # Len(D)
    BY <1>7
  <2>. QED  BY <1>2, <2>3, <2>4 DEF IsLog, Headed
<1>14. Listed(D, k)'
  <2>1. \A i \in k + 1 .. Len(D) : blk'[D[i]].freed = open
    BY <1>4, <1>6, <1>8
  <2>. QED  BY <1>2, <1>3, <2>1 DEF Listed
<1>15. Pending(D, k)'
  BY DEF Pending
<1>16. ASSUME ~LogErrors
       PROVE  Written(D)'
  <2>1. Written(D)
    BY <1>16 DEF IsLog
  <2>2. ASSUME NEW i \in DOMAIN D, i < Len(D)
        PROVE  /\ Issued(D[i])' /\ (blk'[D[i]].io = "done" => blk'[D[i]].content \in {"cache", "disk"})
               /\ \A j \in i + 1 .. Len(D) :
                    /\ blk'[D[i]].io = "issued" => active'[D[i]] <= blk'[D[j]].birth
                    /\ blk'[D[j]].birth <= stable' => blk'[D[i]].content = "disk"
    <3>1. \A j \in i + 1 .. Len(D) : j \in DOMAIN D
      BY <1>6
    <3>2. \A j \in i + 1 .. Len(D) : blk'[D[j]].birth = blk[D[j]].birth
      BY <1>4, <1>6, <3>1
    <3>3. blk'[D[i]].io = blk[D[i]].io /\ blk'[D[i]].content = blk[D[i]].content
      BY <1>4, <1>5, <1>6
    <3>. QED  BY <2>1, <2>2, <3>2, <3>3 DEF Written, Issued, IssuedIn
  <2>3. \A n \in DOMAIN zl.lwb : \E i \in DOMAIN D : zl.lwb[n] = D[i]
    <3>. SUFFICES ASSUME NEW n \in DOMAIN zl.lwb
                  PROVE  \E i \in DOMAIN D : zl.lwb[n] = D[i]
      OBVIOUS
    <3>1. zl.lwb \in Seq(Blocks)
      BY DEF ZilInv, ShapeInv
    <3>2. zl.lwb # <<>> /\ n \in 1 .. Len(zl.lwb) /\ Len(zl.lwb) \in Nat
      BY <3>1
    <3>3. Len(zl.lwb) = Len(D) - k /\ zl.lwb[n] = D[k + n]
      BY <3>2 DEF OpenLog
    <3>4. k + n \in 1 .. Len(D)
      BY <1>7, <3>2, <3>3
    <3>. QED  BY <1>6, <3>3, <3>4
  <2>4. \A b \in Blocks : blk'[b].birth # 0 => \E i \in DOMAIN D : b = D[i]
    BY <1>4, <2>1, <2>3 DEF Written
  <2>. QED  BY <2>2, <2>4 DEF Written
<1>17. Recorded(D)'
  <2>1. SameRecs /\ SameCurrent
    BY <1>5, SameRecords DEF SameRecs
  <2>2. Opened' => Opened
    BY <1>1 DEF Opened, Importing
  <2>3. Recorded(D) /\ Recent(D)
    BY DEF IsLog, Recorded
  <2>. QED  BY <2>1, <2>2, <2>3, RecentKeeps, RecordedKeeps
<1>18. IsLog(D, k)'
  BY <1>12, <1>13, <1>14, <1>15, <1>16, <1>17 DEF IsLog
<1>. QED  BY <1>9, <1>11, <1>18 DEF ChainInv

\* The blocks of an open log have not been freed.
LEMMA OpenNotFreed ==
  ASSUME ZilInv, NEW D \in Seq(Blocks), NEW k \in Nat, OpenLog(D, k)
  PROVE  /\ \A i \in k + 1 .. Len(D) : blk[D[i]].freed = 0
         /\ Range(zl.lwb) = {D[i] : i \in k + 1 .. Len(D)}
<1>1. zl.lwb \in Seq(Blocks) /\ Len(zl.lwb) \in Nat /\ DOMAIN zl.lwb = 1 .. Len(zl.lwb)
  BY DEF ZilInv, ShapeInv
<1>2. Len(D) \in Nat /\ k \in Nat /\ Len(zl.lwb) = Len(D) - k
  BY DEF OpenLog
<1>3. /\ \A i \in k + 1 .. Len(D) : i - k \in 1 .. Len(zl.lwb) /\ k + (i - k) = i
      /\ \A n \in 1 .. Len(zl.lwb) : k + n \in k + 1 .. Len(D)
  BY <1>1, <1>2
<1>4. \A n \in DOMAIN zl.lwb : zl.lwb[n] = D[k + n] /\ blk[zl.lwb[n]].freed = 0
  BY DEF OpenLog, ZilInv, TailInv
<1>5. ASSUME NEW i \in k + 1 .. Len(D)
      PROVE  i - k \in DOMAIN zl.lwb /\ D[i] = zl.lwb[i - k]
  <2>1. i - k \in DOMAIN zl.lwb /\ k + (i - k) = i
    BY <1>1, <1>3
  <2>. QED  BY <1>4, <2>1
<1>6. \A i \in k + 1 .. Len(D) : blk[D[i]].freed = 0
  BY <1>4, <1>5
<1>7. Range(zl.lwb) \subseteq {D[i] : i \in k + 1 .. Len(D)}
  BY <1>1, <1>3, <1>4 DEF Range
<1>8. {D[i] : i \in k + 1 .. Len(D)} \subseteq Range(zl.lwb)
  BY <1>5 DEF Range
<1>. QED  BY <1>6, <1>7, <1>8

\* SuspendDestroy() keeps the invariant.
LEMMA SuspendDestroyChain ==
  ASSUME ZilInv, ChainInv, NEW t \in Suspenders, SuspendDestroy(t)
  PROVE  ChainInv' /\ FreesOnce
<1>. DEFINE n == FALSE
            z == [zl EXCEPT !.suspending = n]
            s == [Idle EXCEPT !.pc = "suspended"]
<1>1. /\ p[t].pc = "destroy" /\ DestroyDone /\ Destroy(FALSE, z)
      /\ p' = [u \in Procs |-> IF u = t \/ p[u].pc = "suspWait" THEN s ELSE p[u]]
      /\ UNCHANGED <<open, stable, active, zsynced, zh, zh_disk, mode, rec, crashes>>
  BY DEF SuspendDestroy, gc_vars, fs_vars, import_vars
<1>2. /\ t \in Procs /\ mode = "up" /\ IsZl(zl)
      /\ stable \in Nat /\ zl.destroy_txg \in Nat
  BY <1>1, BusyUp, NullFact DEF ZilInv, ShapeInv, GroupInv
<1>. HIDE DEF n
<1>3. /\ IsZl(z) /\ z.lwb = zl.lwb /\ z.lr_seq = zl.lr_seq
      /\ z.destroy_txg = zl.destroy_txg /\ z.keep_first = zl.keep_first
  BY <1>2 DEF IsZl
<1>. HIDE DEF z
<1>4. s.pc = "suspended"
  BY DEF Idle
<1>. HIDE DEF s
<1>5. \A u \in Procs : p'[u] = (IF u = t \/ p[u].pc = "suspWait" THEN s ELSE p[u])
  BY <1>1
<1>6. Closed
  <2>1. zl.suspend # 0
    BY <1>1, SuspendCount
  <2>. QED  BY <1>1, <2>1 DEF Closed
<1>7. \A u \in Procs : p[u].pc \notin {"create", "created"} /\ p'[u].pc # "create"
  BY <1>4, <1>5, <1>6 DEF ZilInv, SuspendInv, Creating
<1>8. zl.destroy_txg <= stable /\ ~Destroying
  BY <1>1, <1>2 DEF DestroyDone, Destroying, Synced, SyncedIn
<1>9. CASE zh.log = NULL
  <2>1. zl' = z /\ UNCHANGED <<dirty, blk>>
    BY <1>1, <1>9 DEF Destroy
  <2>2. \A u \in Procs : StillThread(u)
    BY <1>7 DEF StillThread
  <2>. QED  BY <1>1, <1>3, <2>1, <2>2, SameRecords, SameChain DEF SameLog
<1>10. CASE zh.log # NULL
  <2>. DEFINE X == IF zl.lwb # <<>> THEN Range(zl.lwb) ELSE Range(Chain(blk, zh.log))
              keep == FALSE
  <2>1. /\ zl' = [z EXCEPT !.destroy_txg = open, !.keep_first = keep, !.lwb = <<>>]
        /\ dirty' = dirty \cup {open}
    BY <1>1, <1>10 DEF Destroy, Destroyed
  <2>2. blk' = FreeBlocks(X, open)
    BY <1>1, <1>10 DEF Destroy
  <2>3. ~keep
    OBVIOUS
  <2>. HIDE DEF X, keep
  <2>4. zl'.destroy_txg = open /\ ~zl'.keep_first /\ zl'.lwb = <<>> /\ zl'.lr_seq = zl.lr_seq
    <3>1. /\ zl'.destroy_txg = open /\ zl'.keep_first = keep /\ zl'.lwb = <<>>
          /\ zl'.lr_seq = z.lr_seq
      BY <1>3, <2>1 DEF IsZl
    <3>. QED  BY <1>3, <2>3, <3>1
  <2>5. PICK D \in Seq(Blocks), k \in Nat : IsLog(D, k)
    BY DEF ChainInv
  <2>6. mode' = "up" /\ mode = "up" /\ OpenInv /\ dirty \subseteq dirty'
    BY <1>1, <1>2, <2>1 DEF ChainInv
  <2>7. /\ k < Len(D) /\ (zl.lwb # <<>> => OpenLog(D, k))
        /\ X = {D[i] : i \in k + 1 .. Len(D)}
        /\ \A i \in k + 1 .. Len(D) : blk[D[i]].freed = 0
    <3>1. CASE zl.lwb # <<>>
      <4>1. OpenLog(D, k) /\ k < Len(D)
        BY <1>7, <2>5, <3>1, OpenLogFact DEF OpenLog
      <4>. QED  BY <3>1, <4>1, OpenNotFreed DEF X
    <3>2. CASE zl.lwb = <<>>
      <4>1. ~Importing
        BY <1>2 DEF Importing
      <4>2. Len(D) = 1 /\ k = 0 /\ D[1] = zh.log /\ blk[D[1]].freed = 0
        BY <1>8, <1>10, <2>5, <3>2, <4>1, KeptLog
      <4>3. DOMAIN D = {1} /\ D # <<>> /\ Linked(D)
        <5>1. Linked(D)
          BY <2>5 DEF IsLog
        <5>2. DOMAIN D = 1 .. Len(D)
          OBVIOUS
        <5>3. Len(D) = 1
          BY <4>2
        <5>4. D # <<>>
          BY <5>3
        <5>5. DOMAIN D = {1}
          BY <5>2, <5>3
        <5>. QED  BY <5>1, <5>4, <5>5
      <4>4. k + 1 .. Len(D) = {1} /\ 1 .. Len(D) = {1} /\ k < Len(D)
        BY <4>2
      <4>5. \A i \in DOMAIN D : i < Len(D) => blk[D[i]].content = "disk"
        BY <4>2, <4>3
      <4>6. Range(Chain(blk, D[1])) = {D[i] : i \in 1 .. Len(D)}
        BY <4>3, <4>5, WholeChain
      <4>7. X = {D[i] : i \in k + 1 .. Len(D)}
        BY <3>2, <4>2, <4>4, <4>6 DEF X
      <4>. QED  BY <3>2, <4>2, <4>4, <4>7
    <3>. QED  BY <3>1, <3>2
  <2>. QED  BY <1>1, <2>2, <2>4, <2>5, <2>6, <2>7, DestroyedChain
<1>. QED  BY <1>9, <1>10

\* While the log waits for the import it is all there.
LEMMA ImportLog ==
  ASSUME ZilInv, NEW D \in Seq(Blocks), NEW k \in Nat, IsLog(D, k), Importing
  PROVE  /\ k = 0 /\ (zh.log = NULL <=> D = <<>>) /\ zl.lwb = <<>> /\ ~Destroying
         /\ \A i \in DOMAIN D : /\ blk[D[i]].freed = 0
                                /\ i < Len(D) => blk[D[i]].content = "disk"
         /\ D # <<>> => D[1] = zh.log
<1>1. k = 0 /\ Len(D) \in Nat
  BY DEF IsLog, Headed
<1>2. zl.lwb = <<>> /\ zl.destroy_txg = 0 /\ stable \in Nat
  BY ImportFact DEF Importing, ZilInv, DestroyInv, GroupInv
<1>3. ~Destroying
  BY <1>2 DEF Destroying, Synced, SyncedIn
<1>4. CASE D = <<>>
  <2>1. zh.log = NULL
    BY <1>1, <1>2, <1>4 DEF IsLog, Headed
  <2>. QED  BY <1>1, <1>2, <1>3, <1>4, <2>1
<1>5. CASE D # <<>>
  <2>1. 0 < Len(D) /\ D[1] \in Blocks
    BY <1>1, <1>5
  <2>2. zh.log = D[1]
    BY <1>1, <2>1 DEF IsLog, Headed
  <2>3. \A i \in DOMAIN D : /\ blk[D[i]].freed = 0
                            /\ i < Len(D) => blk[D[i]].content = "disk"
    BY <1>1, <1>2, <2>1 DEF IsLog, Listed
  <2>. QED  BY <1>1, <1>2, <1>3, <1>5, <2>1, <2>2, <2>3, NullFact
<1>. QED  BY <1>4, <1>5

\* ReplayDestroy() keeps the invariant.
LEMMA ReplayDestroyChain ==
  ASSUME ZilInv, ChainInv, ReplayDestroy
  PROVE  ChainInv' /\ FreesOnce
<1>. DEFINE keep == FALSE
            X == Range(Chain(blk, zh.log))
<1>1. /\ mode = "replay" /\ Destroy(FALSE, zl) /\ mode' = "replayed"
      /\ UNCHANGED <<open, stable, active, zsynced, zh, zh_disk, rec, crashes>>
  BY DEF ReplayDestroy, gc_vars, fs_vars
<1>2. /\ zh.log # NULL /\ zl.lwb = <<>> /\ IsZl(zl) /\ Importing
  BY <1>1, ImportFact DEF ZilInv, DestroyInv, Importing
<1>3. /\ zl' = [zl EXCEPT !.destroy_txg = open, !.keep_first = keep, !.lwb = <<>>]
      /\ dirty' = dirty \cup {open} /\ blk' = FreeBlocks(X, open)
  BY <1>1, <1>2 DEF Destroy, Destroyed
<1>4. ~keep
  OBVIOUS
<1>. HIDE DEF X, keep
<1>5. zl'.destroy_txg = open /\ ~zl'.keep_first /\ zl'.lwb = <<>> /\ zl'.lr_seq = zl.lr_seq
  <2>1. /\ zl'.destroy_txg = open /\ zl'.keep_first = keep /\ zl'.lwb = <<>>
        /\ zl'.lr_seq = zl.lr_seq
    BY <1>2, <1>3 DEF IsZl
  <2>. QED  BY <1>4, <2>1
<1>6. PICK D \in Seq(Blocks), k \in Nat : IsLog(D, k)
  BY DEF ChainInv
<1>7. /\ k = 0 /\ D # <<>> /\ D[1] = zh.log
      /\ \A i \in DOMAIN D : /\ blk[D[i]].freed = 0
                             /\ i < Len(D) => blk[D[i]].content = "disk"
  BY <1>2, <1>6, ImportLog
<1>8. k < Len(D) /\ DOMAIN D = 1 .. Len(D) /\ k + 1 .. Len(D) = 1 .. Len(D)
  BY <1>7
<1>9. Linked(D)
  BY <1>6 DEF IsLog
<1>10. X = {D[i] : i \in 1 .. Len(D)}
  BY <1>7, <1>9, WholeChain DEF X
<1>11. X = {D[i] : i \in k + 1 .. Len(D)} /\ \A i \in k + 1 .. Len(D) : blk[D[i]].freed = 0
  BY <1>7, <1>8, <1>10
<1>12. mode' = "replayed" /\ OpenInv /\ dirty \subseteq dirty'
  BY <1>1, <1>3 DEF ChainInv
<1>. QED  BY <1>1, <1>2, <1>3, <1>5, <1>6, <1>8, <1>11, <1>12, DestroyedChain

\* zil_replay() keeps the invariant.
LEMMA zil_replayChain ==
  ASSUME ZilInv, ChainInv, zil_replay
  PROVE  ChainInv' /\ FreesOnce
<1>1. /\ mode = "claimed"
      /\ UNCHANGED <<open, stable, active, zsynced, zh, zh_disk, p, rec, crashes>>
  BY DEF zil_replay, gc_vars, fs_vars
<1>2. /\ zl.lwb = <<>> /\ IsZl(zl) /\ Importing /\ \A u \in Procs : p[u].pc = "idle"
      /\ open \in Nat /\ stable \in Nat /\ stable < open /\ (zsynced => stable + 1 < open)
  BY <1>1, ImportFact DEF ZilInv, GroupInv, Importing
<1>3. OpenInv
  BY DEF ChainInv
<1>4. CASE zh.needed
  <2>1. mode' = "replay" /\ UNCHANGED <<zl, dirty, blk>>
    BY <1>4 DEF zil_replay
  <2>2. RecordsKept
    BY <1>1, <2>1, SameRecords, KeptRecords DEF SameRecs, SameLog, Opened, Importing
  <2>3. Still
    BY <1>1, <1>2, <2>1, <2>2 DEF Still, StillBlock, StillThread
  <2>. QED  BY <2>3, StillKeeps
<1>5. CASE ~zh.needed
  <2>1. mode' = "up" /\ Destroy(TRUE, zl)
    BY <1>5 DEF zil_replay
  <2>2. PICK D \in Seq(Blocks), k \in Nat : IsLog(D, k)
    BY DEF ChainInv
  <2>3. /\ k = 0 /\ (zh.log = NULL <=> D = <<>>)
        /\ \A i \in DOMAIN D : blk[D[i]].freed = 0
    BY <1>2, <2>2, ImportLog
  <2>4. ~Importing'
    BY <2>1 DEF Importing
  <2>5. /\ dirty \subseteq dirty' /\ zl'.lwb = <<>> /\ \A b \in Blocks : blk'[b] = blk[b]
        /\ zh.log = NULL => zl'.destroy_txg = zl.destroy_txg
        /\ zh.log # NULL => zl'.destroy_txg = open /\ zl'.keep_first
    <3>1. CASE zh.log = NULL
      BY <1>2, <2>1, <3>1 DEF Destroy
    <3>2. CASE zh.log # NULL
      <4>. DEFINE keep == TRUE
      <4>1. /\ zl' = [zl EXCEPT !.destroy_txg = open, !.keep_first = keep, !.lwb = <<>>]
            /\ dirty' = dirty \cup {open} /\ blk' = FreeBlocks({}, open)
        BY <1>2, <2>1, <3>2 DEF Destroy, Destroyed
      <4>2. \A b \in Blocks : blk'[b] = blk[b]
        BY <4>1 DEF FreeBlocks
      <4>3. keep
        OBVIOUS
      <4>. HIDE DEF keep
      <4>4. zl'.lwb = <<>> /\ zl'.destroy_txg = open /\ zl'.keep_first = keep
        BY <1>2, <4>1 DEF IsZl
      <4>. QED  BY <3>2, <4>1, <4>2, <4>3, <4>4
    <3>. QED  BY <3>1, <3>2
  <2>6. OpenInv'
    <3>1. zh.log = NULL => Fresh(zh_disk)
      <4>. SUFFICES ASSUME zh.log = NULL
                    PROVE  zh_disk.log = NULL
        BY DEF ZilInv, DestroyInv
      <4>. QED  BY <2>2, <2>3 DEF IsLog, Headed, First
    <3>2. zh.log # NULL => ~(zl'.destroy_txg <= stable)
      BY <1>2, <2>5
    <3>. QED  BY <1>1, <1>2, <1>3, <2>1, <2>5, <3>1, <3>2 DEF OpenInv, Importing, Fresh
  <2>7. \A i \in DOMAIN D : D[i] \in Blocks /\ blk'[D[i]] = blk[D[i]] /\ (Live(D[i])' => Live(D[i]))
    BY <2>5 DEF Live, LiveIn
  <2>8. FreesOnce
    BY <2>5 DEF FreesOnce
  <2>9. Linked(D)'
    BY <2>2, <2>7 DEF IsLog, Linked
  <2>10. Headed(D, k)'
    <3>1. 1 .. k = {} /\ (k # 0 <=> FALSE)
      BY <2>3
    <3>. QED  BY <1>1, <1>2, <2>2, <2>5, <3>1 DEF IsLog, Headed
  <2>11. Listed(D, k)'
    <3>. SUFFICES ASSUME k < Len(D)
                  PROVE  Listed(D, k)'
      BY DEF Listed
    <3>1. D # <<>> /\ zh.log # NULL
      BY <2>3
    <3>2. Len(D) <= 1
      BY <1>1, <1>3, <1>5, <2>2, <3>1 DEF OpenInv, IsLog
    <3>3. Len(D) = 1 /\ 1 \in DOMAIN D
      <4>1. Len(D) \in Nat /\ Len(D) # 0 /\ DOMAIN D = 1 .. Len(D)
        BY <3>1
      <4>2. Len(D) = 1
        BY <3>2, <4>1
      <4>. QED  BY <4>1, <4>2
    <3>4. blk'[D[1]].freed = 0
      BY <2>3, <2>7, <3>3
    <3>. QED  BY <2>3, <2>4, <2>5, <3>1, <3>3, <3>4 DEF Listed
  <2>12. Pending(D, k)'
    BY <2>5 DEF Pending
  <2>13. ASSUME ~LogErrors
         PROVE  Written(D)'
    <3>1. Written(D)
      BY <2>2, <2>13 DEF IsLog
    <3>2. ASSUME NEW i \in DOMAIN D, i < Len(D)
          PROVE  /\ Issued(D[i])' /\ (blk'[D[i]].io = "done" => blk'[D[i]].content \in {"cache", "disk"})
                 /\ \A j \in i + 1 .. Len(D) :
                      /\ blk'[D[i]].io = "issued" => active'[D[i]] <= blk'[D[j]].birth
                      /\ blk'[D[j]].birth <= stable' => blk'[D[i]].content = "disk"
      <4>1. \A j \in i + 1 .. Len(D) : j \in DOMAIN D
        <5>1. DOMAIN D = 1 .. Len(D) /\ Len(D) \in Nat
          OBVIOUS
        <5>. QED  BY <5>1
      <4>2. \A j \in i + 1 .. Len(D) : blk'[D[j]] = blk[D[j]]
        BY <2>7, <4>1
      <4>. QED  BY <1>1, <2>7, <3>1, <3>2, <4>2 DEF Written, Issued, IssuedIn
    <3>3. \A b \in Blocks : blk'[b].birth # 0 => \E i \in DOMAIN D : b = D[i]
      BY <1>2, <2>5, <3>1 DEF Written
    <3>. QED  BY <3>2, <3>3 DEF Written
  <2>14. IsLog(D, k)'
    <3>1. SameRecs /\ SameCurrent
      BY <1>1, <2>5, SameRecords DEF SameRecs
    <3>2. \A i \in DOMAIN D : ~(i < Len(D))
      <4>1. D # <<>> => Len(D) <= 1
        BY <1>1, <1>3, <1>5, <2>2, <2>3 DEF OpenInv, IsLog
      <4>2. DOMAIN D = 1 .. Len(D) /\ Len(D) \in Nat
        OBVIOUS
      <4>. QED  BY <4>1, <4>2
    <3>3. Recent(D)'
      BY <2>5, <3>2 DEF Recent
    <3>4. Recorded(D)
      BY <2>2 DEF IsLog
    <3>5. Recorded(D)'
      BY <3>1, <3>3, <3>4, RecordedKeeps
    <3>. QED  BY <1>1, <2>2, <2>9, <2>10, <2>11, <2>12, <2>13, <3>5 DEF IsLog
  <2>. QED  BY <2>2, <2>6, <2>8, <2>14 DEF ChainInv
<1>. QED  BY <1>4, <1>5

\* zil_claim() keeps the invariant.
LEMMA zil_claimChain ==
  ASSUME ZilInv, ChainInv, zil_claim
  PROVE  ChainInv' /\ FreesOnce
<1>1. /\ mode = "down" /\ mode' = "claimed"
      /\ UNCHANGED <<open, stable, active, zsynced, zl, zh_disk, p, rec, crashes>>
  BY DEF zil_claim, gc_vars, fs_vars
<1>2. /\ zl.lwb = <<>> /\ Importing /\ Importing' /\ \A u \in Procs : p[u].pc = "idle"
      /\ open \in Nat /\ stable \in Nat /\ stable < open
      /\ \A b \in Blocks : blk[b].io = "issued" => active[b] <= open
  <2>1. \A b \in Blocks : blk[b].io = "issued" => active[b] <= open
    BY DEF ZilInv, ActiveInv
  <2>. QED  BY <1>1, <2>1, ImportFact DEF ZilInv, GroupInv, Importing
<1>3. OpenInv /\ \A b \in Blocks : blk[b].birth \in Nat
  BY DEF ChainInv, OpenInv
<1>4. PICK D \in Seq(Blocks), k \in Nat : IsLog(D, k)
  BY DEF ChainInv
<1>5. /\ k = 0 /\ (zh.log = NULL <=> D = <<>>) /\ (D # <<>> => D[1] = zh.log)
      /\ \A i \in DOMAIN D : /\ blk[D[i]].freed = 0
                             /\ i < Len(D) => blk[D[i]].content = "disk"
  BY <1>2, <1>4, ImportLog
<1>6. /\ dirty \subseteq dirty' /\ zh'.log = zh.log
      /\ zh.log # NULL => zh'.claim_txg # 0 /\ (~zh'.needed => Len(D) <= 1)
      /\ \A b \in Blocks :
           /\ blk'[b].io = blk[b].io /\ blk'[b].freed = blk[b].freed
           /\ blk'[b].next = blk[b].next /\ blk'[b].content = blk[b].content
           /\ blk'[b].recs = blk[b].recs
           /\ blk'[b].birth = blk[b].birth \/ (blk[b].birth # 0 /\ blk'[b].birth = open)
  <2>1. CASE zh.claim_txg = 0 /\ zh.log # NULL
    <3>. DEFINE c == Len(Chain(blk, zh.log)) > 1
                x == LogRecords(blk, zh.log) # <<>> \/ c
    <3>1. /\ zh' = [zh EXCEPT !.claim_txg = open, !.needed = x]
          /\ blk' = [b \in Blocks |-> IF b \in Claimed THEN [blk[b] EXCEPT !.birth = open]
                                                       ELSE blk[b]]
          /\ dirty' = dirty \cup {open}
      BY <2>1 DEF zil_claim
    <3>2. x \in BOOLEAN /\ (c => x)
      OBVIOUS
    <3>. HIDE DEF x
    <3>3. zh'.log = zh.log /\ zh'.claim_txg = open /\ zh'.needed = x
      <4>1. IsHeader(zh)
        BY DEF ZilInv, ShapeInv
      <4>. QED  BY <3>1, <4>1 DEF IsHeader
    <3>4. ~c => Len(D) <= 1
      <4>1. Begins(Chain(blk, D[1]), D, Len(D))
        BY <1>4, <1>5, <2>1, WholeChain DEF IsLog
      <4>2. Len(Chain(blk, zh.log)) = Len(D) /\ Len(D) \in Nat
        BY <1>5, <2>1, <4>1 DEF Begins
      <4>. QED  BY <4>2
    <3>. HIDE DEF c
    <3>5. ASSUME NEW b \in Blocks
          PROVE  /\ blk'[b].io = blk[b].io /\ blk'[b].freed = blk[b].freed
                 /\ blk'[b].next = blk[b].next /\ blk'[b].content = blk[b].content
                 /\ blk'[b].recs = blk[b].recs
                 /\ blk'[b].birth = blk[b].birth \/ (blk[b].birth # 0 /\ blk'[b].birth = open)
      <4>1. IsBlk(blk[b])
        BY DEF ZilInv, ShapeInv
      <4>2. CASE b \in Claimed
        <5>1. blk'[b] = [blk[b] EXCEPT !.birth = open] /\ blk[b].birth > stable
          BY <3>1, <4>2 DEF Claimed
        <5>2. blk[b].birth # 0
          BY <1>2, <1>3, <5>1
        <5>. QED  BY <4>1, <5>1, <5>2 DEF IsBlk
      <4>3. CASE b \notin Claimed
        BY <3>1, <4>3
      <4>. QED  BY <4>2, <4>3
    <3>6. open # 0
      BY <1>2
    <3>. QED  BY <3>1, <3>2, <3>3, <3>4, <3>5, <3>6
  <2>2. CASE ~(zh.claim_txg = 0 /\ zh.log # NULL)
    <3>1. UNCHANGED <<zh, blk, dirty>>
      BY <2>2 DEF zil_claim
    <3>2. zh.log # NULL => zh.claim_txg # 0 /\ (~zh.needed => Len(D) <= 1)
      BY <1>4, <2>2 DEF IsLog
    <3>. QED  BY <3>1, <3>2
  <2>. QED  BY <2>1, <2>2
<1>7. \A b \in Blocks : /\ blk'[b].birth \in Nat /\ (blk'[b].birth # 0 <=> blk[b].birth # 0)
                        /\ Live(b)' => Live(b)
  BY <1>2, <1>3, <1>6 DEF Live, LiveIn
<1>8. OpenInv'
  BY <1>1, <1>2, <1>3, <1>6, <1>7 DEF OpenInv
<1>9. FreesOnce
  BY <1>6 DEF FreesOnce
<1>10. \A i \in DOMAIN D :
         /\ D[i] \in Blocks /\ (blk'[D[i]].birth # 0 <=> blk[D[i]].birth # 0)
         /\ blk'[D[i]].io = blk[D[i]].io /\ blk'[D[i]].freed = blk[D[i]].freed
         /\ blk'[D[i]].next = blk[D[i]].next /\ blk'[D[i]].content = blk[D[i]].content
         /\ Live(D[i])' => Live(D[i])
  BY <1>6, <1>7
<1>11. Linked(D)'
  BY <1>4, <1>10 DEF IsLog, Linked
<1>12. Headed(D, k)'
  <2>1. 1 .. k = {} /\ (k # 0 <=> FALSE)
    BY <1>5
  <2>. QED  BY <1>1, <1>2, <1>4, <1>6, <2>1 DEF IsLog, Headed
<1>13. Listed(D, k)' /\ Pending(D, k)'
  BY <1>1, <1>2, <1>5, <1>10 DEF Listed, Pending
<1>14. ASSUME ~LogErrors
       PROVE  Written(D)'
  <2>1. Written(D)
    BY <1>4, <1>14 DEF IsLog
  <2>2. ASSUME NEW i \in DOMAIN D, i < Len(D)
        PROVE  /\ Issued(D[i])' /\ (blk'[D[i]].io = "done" => blk'[D[i]].content \in {"cache", "disk"})
               /\ \A j \in i + 1 .. Len(D) :
                    /\ blk'[D[i]].io = "issued" => active'[D[i]] <= blk'[D[j]].birth
                    /\ blk'[D[j]].birth <= stable' => blk'[D[i]].content = "disk"
    <3>1. Issued(D[i])' /\ blk'[D[i]].content = "disk"
      BY <1>5, <1>10, <2>1, <2>2 DEF Written, Issued, IssuedIn
    <3>2. ASSUME NEW j \in i + 1 .. Len(D), blk'[D[i]].io = "issued"
          PROVE  active'[D[i]] <= blk'[D[j]].birth
      <4>1. D[j] \in Blocks
        <5>1. DOMAIN D = 1 .. Len(D) /\ Len(D) \in Nat
          OBVIOUS
        <5>2. j \in 1 .. Len(D)
          BY <5>1
        <5>. QED  BY <5>1, <5>2
      <4>2. blk[D[i]].io = "issued" /\ D[i] \in Blocks
        BY <1>10, <3>2
      <4>3. active[D[i]] <= blk[D[j]].birth
        BY <2>1, <2>2, <4>2 DEF Written
      <4>4. active[D[i]] <= open
        BY <1>2, <4>2
      <4>. QED  BY <1>1, <1>6, <4>1, <4>3, <4>4
    <3>. QED  BY <3>1, <3>2
  <2>3. \A b \in Blocks : blk'[b].birth # 0 => \E i \in DOMAIN D : b = D[i]
    BY <1>2, <1>7, <2>1 DEF Written
  <2>. QED  BY <2>2, <2>3 DEF Written
<1>15. IsLog(D, k)'
  <2>1. Recorded(D)'
    <3>1. SameRecs /\ SameCurrent
      BY <1>1, <1>6, SameRecords DEF SameRecs
    <3>2. Recent(D)'
      BY <1>2 DEF Recent, Opened
    <3>. QED  BY <1>4, <3>1, <3>2, RecordedKeeps DEF IsLog
  <2>. QED  BY <1>1, <1>4, <1>6, <1>11, <1>12, <1>13, <1>14, <2>1 DEF IsLog
<1>. QED  BY <1>4, <1>8, <1>9, <1>15 DEF ChainInv

----------------------------------------------------------------------------
\* Groups.

\* Before zil_sync() has run, the header in memory has all of the chain, and so has
\* zl_lwb_list if the log is open, unless it has just been created.
LEMMA UnsyncedLog ==
  ASSUME ZilInv, NEW D \in Seq(Blocks), NEW k \in Nat, IsLog(D, k), ~zsynced
  PROVE  /\ k = 0 /\ zh.log = First(D) /\ zh_disk.log = First(D)
         /\ zl.lwb # <<>> /\ D # <<>> =>
              Len(zl.lwb) = Len(D) /\ \A n \in DOMAIN zl.lwb : zl.lwb[n] = D[n]
         /\ zl.lwb # <<>> /\ D = <<>> => Pending(D, k) /\ \E t \in Procs : p[t].pc = "created"
<1>1. k = 0 /\ zh.log = First(D) /\ zh_disk.log = First(D) /\ Len(D) \in Nat
  BY DEF IsLog, Headed
<1>2. ASSUME zl.lwb # <<>>, D # <<>>
      PROVE  Len(zl.lwb) = Len(D) /\ \A n \in DOMAIN zl.lwb : zl.lwb[n] = D[n]
  <2>1. 0 < Len(D)
    BY <1>2
  <2>2. Len(zl.lwb) = Len(D) - 0 /\ \A n \in DOMAIN zl.lwb : zl.lwb[n] = D[0 + n]
    BY <1>1, <1>2, <2>1 DEF IsLog, Listed
  <2>3. zl.lwb \in Seq(Blocks)
    BY DEF ZilInv, ShapeInv
  <2>4. \A n \in DOMAIN zl.lwb : 0 + n = n
    BY <2>3
  <2>. QED  BY <1>1, <2>2, <2>4
<1>3. ASSUME zl.lwb # <<>>, D = <<>>
      PROVE  Pending(D, k) /\ \E t \in Procs : p[t].pc = "created"
  <2>1. k = Len(D) /\ Pending(D, k)
    BY <1>1, <1>3 DEF IsLog
  <2>. QED  BY <1>3, <2>1 DEF Pending
<1>. QED  BY <1>1, <1>2, <1>3

\* zil_sync() keeps the invariant.
LEMMA zil_syncChain ==
  ASSUME ZilInv, ChainInv, zil_sync
  PROVE  ChainInv' /\ FreesOnce
<1>. DEFINE txg == stable + 1
            l == Cardinality(Obsolete(txg))
            rest == SubSeq(zl.lwb, l + 1, Len(zl.lwb))
            X == {zl.lwb[n] : n \in 1 .. l}
<1>1. /\ Quiesced /\ txg \in dirty /\ ~zsynced
      /\ blk' = FreeBlocks(X, txg) /\ zsynced'
      /\ UNCHANGED <<open, stable, active, dirty, zh_disk, p, mode, rec, crashes>>
  BY DEF zil_sync, gc_vars, fs_vars, import_vars
<1>2. \E f : zl' = [zl EXCEPT !.lwb = rest, !.replayed = f]
  BY DEF zil_sync
<1>3. /\ open \in Nat /\ stable \in Nat /\ txg \in Nat /\ txg # 0 /\ zl.destroy_txg \in Nat
      /\ zl.lwb \in Seq(Blocks) /\ Len(zl.lwb) \in Nat /\ DOMAIN zl.lwb = 1 .. Len(zl.lwb)
      /\ \A n \in DOMAIN zl.lwb : zl.lwb[n] \in Blocks
  BY DEF ZilInv, GroupInv, ShapeInv
<1>4. l \in Nat /\ l <= Len(zl.lwb) /\ \A t \in Procs : p[t].pc = "created" => l = 0
  BY <1>1, ObsoleteFact
<1>5. /\ rest \in Seq(Blocks) /\ Len(rest) = Len(zl.lwb) - l
      /\ \A n \in DOMAIN rest : l + n \in DOMAIN zl.lwb /\ rest[n] = zl.lwb[l + n]
  BY <1>3, <1>4, DropFact
<1>6. SyncsHeader(rest)
  <2>1. rest = SubSeq(zl.lwb, Cardinality(Obsolete(stable + 1)) + 1, Len(zl.lwb))
    OBVIOUS
  <2>. HIDE DEF rest
  <2>. QED  BY <1>5, <2>1, SyncHeaderFact
<1>. HIDE DEF l, rest
<1>7. /\ zl'.lwb = rest /\ zl'.destroy_txg = zl.destroy_txg /\ zl'.keep_first = zl.keep_first
      /\ zl'.lr_seq = zl.lr_seq
  BY <1>2 DEF ZilInv, ShapeInv, IsZl
<1>8. /\ zl.lwb = <<>> => rest = <<>> /\ l = 0
      /\ l = 0 => rest = zl.lwb /\ X = {}
      /\ l < Len(zl.lwb) => rest # <<>> /\ 1 \in DOMAIN rest /\ Head(rest) = rest[1]
      /\ l = Len(zl.lwb) => rest = <<>>
  <2>1. zl.lwb = <<>> => rest = <<>> /\ l = 0
    BY <1>3, <1>4, <1>5
  <2>2. l = 0 => rest = zl.lwb /\ X = {}
    BY <1>3, <1>5
  <2>3. l < Len(zl.lwb) => rest # <<>> /\ 1 \in DOMAIN rest /\ Head(rest) = rest[1]
    BY <1>3, <1>4, <1>5
  <2>4. l = Len(zl.lwb) => rest = <<>>
    BY <1>3, <1>5
  <2>. QED  BY <2>1, <2>2, <2>3, <2>4
<1>9. \A b \in Blocks : blk'[b].io = blk[b].io /\ blk'[b].birth = blk[b].birth
                        /\ blk'[b].freed = (IF b \in X THEN txg ELSE blk[b].freed)
  BY <1>1, FreeFact
<1>10. \A b \in Blocks : /\ blk'[b].next = blk[b].next /\ blk'[b].content = blk[b].content
                         /\ blk'[b].recs = blk[b].recs
  <2>1. \A b \in Blocks : IsBlk(blk[b])
    BY DEF ZilInv, ShapeInv
  <2>2. \A b \in Blocks : blk'[b] = blk[b] \/ blk'[b] = [blk[b] EXCEPT !.freed = txg]
    BY <1>1 DEF FreeBlocks
  <2>. QED  BY <2>1, <2>2 DEF IsBlk
<1>11. FreesOnce
  <2>1. \A n \in 1 .. l : n \in DOMAIN zl.lwb
    BY <1>3, <1>4
  <2>2. \A b \in Blocks : b \in X => blk[b].freed = 0 /\ blk[b].birth # 0
    BY <2>1 DEF ZilInv, TailInv, BirthInv
  <2>3. NoBlk.birth = 0
    BY DEF NoBlk
  <2>. QED  BY <1>9, <2>2, <2>3 DEF FreesOnce
<1>12. \A i \in 1 .. l : i \in DOMAIN zl.lwb /\ blk'[zl.lwb[i]].freed = txg
  <2>1. \A n \in 1 .. l : n \in DOMAIN zl.lwb
    BY <1>3, <1>4
  <2>. QED  BY <1>3, <1>9, <2>1
<1>13. X = {} => \A b \in Blocks : blk'[b].freed = blk[b].freed
  BY <1>9
<1>. HIDE DEF X
<1>14. /\ Importing' <=> Importing
       /\ Destroying' <=> Destroying /\ zl.destroy_txg # txg
       /\ zl.destroy_txg = txg => Destroying /\ ~Importing
  <2>1. zl.destroy_txg = txg => ~Importing
    BY <1>3 DEF ZilInv, DestroyInv, Importing
  <2>2. /\ Destroying' <=> ~(zl.destroy_txg <= txg)
        /\ Destroying <=> ~(zl.destroy_txg <= stable)
    BY <1>1, <1>3, <1>7 DEF Destroying, Synced, SyncedIn
  <2>. QED  BY <1>1, <1>3, <2>1, <2>2 DEF Importing
<1>15. zl.lwb # <<>> => ~Importing
  BY ImportFact DEF Importing
<1>16. OpenInv'
  <2>1. OpenInv
    BY DEF ChainInv
  <2>2. mode = "claimed" => zh'.log = zh.log /\ zh'.claim_txg = zh.claim_txg
    <3>1. mode = "claimed" => zl.lwb = <<>> /\ zl.destroy_txg # txg
      BY <1>14, <1>15 DEF Importing
    <3>. QED  BY <1>6, <3>1 DEF SyncsHeader
  <2>3. \A b \in Blocks : blk'[b].birth \in Nat /\ (blk'[b].io # "done" => blk'[b].content = "none")
    BY <1>9, <1>10, <2>1 DEF OpenInv
  <2>4. \A t \in Procs : p'[t].pc = "create" => zl'.lwb = <<>>
    BY <1>1, <1>7, <1>8, <2>1 DEF OpenInv
  <2>. QED  BY <1>1, <1>7, <1>14, <2>1, <2>2, <2>3, <2>4 DEF OpenInv, Fresh
<1>17. PICK D \in Seq(Blocks), k \in Nat : IsLog(D, k)
  BY DEF ChainInv
<1>18. /\ k = 0 /\ zh.log = First(D) /\ zh_disk.log = First(D)
       /\ zl.lwb # <<>> /\ D # <<>> =>
            Len(zl.lwb) = Len(D) /\ \A n \in DOMAIN zl.lwb : zl.lwb[n] = D[n]
       /\ zl.lwb # <<>> /\ D = <<>> => Pending(D, k) /\ \E t \in Procs : p[t].pc = "created"
  BY <1>1, <1>17, UnsyncedLog
<1>19. Len(D) \in Nat /\ DOMAIN D = 1 .. Len(D) /\ \A i \in DOMAIN D : D[i] \in Blocks
  OBVIOUS
<1>20. \A b \in Blocks : Live(b)' <=> Live(b)
  BY <1>9, <1>10 DEF Live, LiveIn
<1>21. Linked(D)'
  <2>1. \A i \in DOMAIN D : /\ blk'[D[i]].birth = blk[D[i]].birth
                            /\ blk'[D[i]].next = blk[D[i]].next /\ (Live(D[i])' <=> Live(D[i]))
    BY <1>9, <1>10, <1>19, <1>20
  <2>. QED  BY <1>17, <2>1 DEF IsLog, Linked
<1>22. ASSUME ~LogErrors
       PROVE  Written(D)'
  <2>1. Written(D)
    BY <1>17, <1>22 DEF IsLog
  <2>2. ASSUME NEW i \in DOMAIN D, i < Len(D)
        PROVE  /\ Issued(D[i])' /\ (blk'[D[i]].io = "done" => blk'[D[i]].content \in {"cache", "disk"})
               /\ \A j \in i + 1 .. Len(D) :
                    /\ blk'[D[i]].io = "issued" => active'[D[i]] <= blk'[D[j]].birth
                    /\ blk'[D[j]].birth <= stable' => blk'[D[i]].content = "disk"
    <3>1. \A j \in i + 1 .. Len(D) : j \in DOMAIN D
      BY <1>19
    <3>2. \A j \in i + 1 .. Len(D) : blk'[D[j]].birth = blk[D[j]].birth
      BY <1>9, <1>19, <3>1
    <3>3. blk'[D[i]].io = blk[D[i]].io /\ blk'[D[i]].content = blk[D[i]].content
      BY <1>9, <1>10, <1>19
    <3>. QED  BY <1>1, <2>1, <2>2, <3>2, <3>3 DEF Written, Issued, IssuedIn
  <2>3. ASSUME NEW n \in DOMAIN zl.lwb
        PROVE  (\E i \in DOMAIN D : zl.lwb[n] = D[i]) \/ (\E m \in DOMAIN zl'.lwb : zl.lwb[n] = zl'.lwb[m])
    <3>1. zl.lwb # <<>>
      BY <1>3
    <3>2. CASE D = <<>>
      BY <1>4, <1>7, <1>8, <1>18, <3>1, <3>2
    <3>3. CASE D # <<>>
      BY <1>3, <1>18, <1>19, <3>1, <3>3
    <3>. QED  BY <3>2, <3>3
  <2>4. \A b \in Blocks : blk'[b].birth # 0 =>
          (\E i \in DOMAIN D : b = D[i]) \/ (\E m \in DOMAIN zl'.lwb : b = zl'.lwb[m])
    BY <1>9, <2>1, <2>3 DEF Written
  <2>. QED  BY <2>2, <2>4 DEF Written
<1>23. \A h \in {zh', zh_disk'} : h.log # NULL /\ h.claim_txg # 0 /\ ~h.needed => Len(D) <= 1
  <2>1. \A h \in {zh, zh_disk} : h.log # NULL /\ h.claim_txg # 0 /\ ~h.needed => Len(D) <= 1
    BY <1>17 DEF IsLog
  <2>2. CASE D = <<>>
    BY <2>2
  <2>3. CASE D # <<>>
    <3>1. zh.log # NULL
      BY <1>18, <1>19, <2>3, NullFact DEF First
    <3>2. (zh'.claim_txg = zh.claim_txg /\ zh'.needed = zh.needed) \/ zh'.claim_txg = 0
      BY <1>6 DEF SyncsHeader, Fresh
    <3>. QED  BY <1>1, <2>1, <3>1, <3>2
  <2>. QED  BY <2>2, <2>3
<1>0. Recorded(D)'
  <2>1. SameRecs /\ SameCurrent /\ (Opened' => Opened)
    BY <1>1, <1>7, <1>10, SameRecords DEF SameRecs, Opened, Importing
  <2>2. Recorded(D) /\ Recent(D)
    BY <1>17 DEF IsLog, Recorded
  <2>3. \A m \in DOMAIN zl'.lwb : \E n \in DOMAIN zl.lwb : zl'.lwb[m] = zl.lwb[n]
    BY <1>5, <1>7
  <2>4. Recent(D)'
    BY <1>7, <2>1, <2>2, <2>3, RecentKeeps
  <2>. QED  BY <2>1, <2>2, <2>4, RecordedKeeps
<1>24. ASSUME NEW m \in Nat, Headed(D, m)', Listed(D, m)', Pending(D, m)'
       PROVE  ChainInv'
  <2>1. IsLog(D, m)'
    BY <1>0, <1>21, <1>22, <1>23, <1>24 DEF IsLog
  <2>. QED  BY <1>16, <2>1 DEF ChainInv
<1>25. CASE zl.lwb # <<>> /\ D # <<>>
  <2>1. Len(zl.lwb) = Len(D) /\ \A n \in DOMAIN zl.lwb : zl.lwb[n] = D[n]
    BY <1>18, <1>25
  <2>2. zh'.log = LogHead(zh, rest)
    BY <1>6, <1>25 DEF SyncsHeader
  <2>3. l \in 0 .. Len(D) /\ l \in Nat
    BY <1>4, <1>19, <2>1
  <2>4. \A i \in 1 .. l : blk'[D[i]].freed = stable + 1
    BY <1>12, <2>1
  <2>5. ASSUME l < Len(D)
        PROVE  /\ zh'.log = D[l + 1] /\ rest # <<>> /\ Len(rest) = Len(D) - l
               /\ \A n \in DOMAIN rest : rest[n] = D[l + n]
    <3>1. rest # <<>> /\ 1 \in DOMAIN rest /\ Head(rest) = rest[1]
      BY <1>8, <2>1, <2>5
    <3>2. \A n \in DOMAIN rest : rest[n] = D[l + n]
      BY <1>5, <2>1
    <3>3. zh'.log = Head(rest)
      BY <2>2, <3>1 DEF LogHead
    <3>4. Len(rest) = Len(D) - l
      BY <1>5, <2>1
    <3>. QED  BY <3>1, <3>2, <3>3, <3>4
  <2>6. l = Len(D) => rest = <<>> /\ zh'.log = NULL
    BY <1>8, <2>1, <2>2 DEF LogHead
  <2>0. PICK m \in Nat : m = l
    BY <2>3
  <2>7. Headed(D, m)'
    BY <1>1, <1>14, <1>15, <1>18, <1>25, <2>0, <2>3, <2>4, <2>5, <2>6 DEF Headed
  <2>8. Listed(D, m)' /\ Pending(D, m)'
    BY <1>7, <2>0, <2>5, <2>6 DEF Listed, Pending
  <2>. QED  BY <1>11, <1>24, <2>7, <2>8
<1>26. CASE zl.lwb # <<>> /\ D = <<>>
  <2>1. Pending(D, k) /\ l = 0 /\ rest = zl.lwb /\ X = {}
    BY <1>4, <1>8, <1>18, <1>26
  <2>2. zh'.log = zl.lwb[1] /\ zl.lwb[1] \in Blocks
    <3>1. zh'.log = Head(zl.lwb)
      BY <1>6, <1>26, <2>1 DEF SyncsHeader, LogHead
    <3>. QED  BY <1>3, <1>26, <3>1
  <2>3. k = 0 /\ Len(D) = 0 /\ DOMAIN D = {} /\ 1 .. k = {} /\ 0 \in 0 .. 0 /\ ~(0 < 0)
    BY <1>18, <1>26
  <2>4. Headed(D, k)'
    BY <1>1, <1>7, <1>18, <1>26, <2>1, <2>2, <2>3 DEF Headed
  <2>5. Listed(D, k)'
    BY <2>3 DEF Listed
  <2>6. Pending(D, k)'
    <3>1. /\ blk'[zl.lwb[1]].birth = blk[zl.lwb[1]].birth
          /\ LiveIn(blk', zl.lwb[1]) <=> LiveIn(blk, zl.lwb[1])
          /\ blk'[zl.lwb[1]].recs = blk[zl.lwb[1]].recs
      BY <1>9, <1>10, <1>20, <2>2 DEF Live
    <3>. QED  BY <1>1, <1>7, <2>1, <3>1 DEF Pending, Live
  <2>. QED  BY <1>11, <1>24, <2>4, <2>5, <2>6
<1>27. CASE zl.lwb = <<>>
  <2>1. l = 0 /\ rest = <<>> /\ X = {} /\ zl'.lwb = <<>>
    BY <1>7, <1>8, <1>27
  <2>2. \A i \in DOMAIN D : blk'[D[i]].freed = blk[D[i]].freed /\ blk'[D[i]].content = blk[D[i]].content
    BY <1>10, <1>13, <1>19, <2>1
  <2>3. \A m \in Nat : Pending(D, m)'
    BY <2>1 DEF Pending
  <2>4. k < Len(D) =>
          IF Importing
          THEN \A i \in DOMAIN D : /\ blk[D[i]].freed = 0
                                   /\ i < Len(D) => blk[D[i]].content = "disk"
          ELSE IF Destroying /\ ~zl.keep_first
          THEN \A i \in k + 1 .. Len(D) : blk[D[i]].freed = zl.destroy_txg
          ELSE Len(D) = 1 /\ k = 0 /\ blk[D[1]].freed = 0
    BY <1>17, <1>27 DEF IsLog, Listed
  <2>5. CASE zl.destroy_txg = txg /\ ~zl.keep_first
    <3>. DEFINE N == Len(D)
    <3>1. zh'.log = NULL /\ ~Importing /\ Destroying
      BY <1>6, <1>14, <1>27, <2>5 DEF SyncsHeader
    <3>2. N # 0 => k < N
      BY <1>18, <1>19
    <3>3. k + 1 .. N = 1 .. N
      BY <1>18, <1>19
    <3>4. \A i \in 1 .. N : blk[D[i]].freed = txg
      <4>1. CASE N # 0
        BY <2>4, <2>5, <3>1, <3>2, <3>3, <4>1
      <4>2. CASE N = 0
        BY <4>2
      <4>. QED  BY <4>1, <4>2
    <3>5. \A i \in 1 .. N : blk'[D[i]].freed = stable + 1
      BY <1>19, <2>2, <3>4
    <3>6. N \in 0 .. N /\ N \in Nat /\ ~(N < N)
      BY <1>19
    <3>7. Headed(D, N)'
      BY <1>1, <1>14, <1>18, <3>1, <3>5, <3>6 DEF Headed
    <3>8. Listed(D, N)'
      BY <3>6 DEF Listed
    <3>9. Pending(D, N)'
      BY <2>3, <3>6
    <3>. HIDE DEF N
    <3>. QED  BY <1>11, <1>24, <3>6, <3>7, <3>8, <3>9
  <2>6. CASE ~(zl.destroy_txg = txg /\ ~zl.keep_first)
    <3>1. zh'.log = zh.log
      BY <1>6, <1>27, <2>6 DEF SyncsHeader
    <3>2. /\ 1 .. k = {} /\ (k # 0 <=> FALSE) /\ k \in 0 .. Len(D) /\ k + 1 = 1
      BY <1>18, <1>19
    <3>3. (k < Len(D) => zh.log = D[1]) /\ (k = Len(D) => zh.log = NULL)
      BY <1>18, <1>19 DEF First
    <3>4. Headed(D, k)'
      BY <1>1, <1>18, <3>1, <3>2, <3>3 DEF Headed
    <3>5. Destroying' /\ ~zl.keep_first <=> Destroying /\ ~zl.keep_first
      BY <1>14, <2>6
    <3>6. Listed(D, k)'
      <4>. SUFFICES ASSUME k < Len(D)
                    PROVE  Listed(D, k)'
        BY DEF Listed
      <4>1. \A i \in k + 1 .. Len(D) : i \in DOMAIN D
        BY <1>18, <1>19
      <4>2. Len(D) = 1 => 1 \in DOMAIN D
        BY <1>19
      <4>. QED  BY <1>7, <1>14, <2>1, <2>2, <2>4, <3>5, <4>1, <4>2 DEF Listed
    <3>. QED  BY <1>11, <1>24, <2>3, <3>4, <3>6
  <2>. QED  BY <2>5, <2>6
<1>. QED  BY <1>25, <1>26, <1>27

\* E is the log of the header in memory: the rest of the chain, or one block that
\* has just been created.
Rest(D, k, E) ==
  /\ E \in Seq(Blocks) /\ zh.log = First(E)
  /\ k < Len(D) => Len(E) = Len(D) - k /\ \A n \in DOMAIN E : E[n] = D[k + n]
  /\ k = Len(D) => Len(E) <= 1
  /\ k = Len(D) /\ E # <<>> => Len(E) = 1 /\ zl.lwb # <<>> /\ E[1] = zl.lwb[1]

\* There is such a log.
LEMMA RestExists ==
  ASSUME ZilInv, NEW D \in Seq(Blocks), NEW k \in Nat, IsLog(D, k)
  PROVE  \E E \in Seq(Blocks) : Rest(D, k, E)
<1>1. Len(D) \in Nat /\ k \in Nat /\ k <= Len(D)
  BY DEF IsLog, Headed
<1>2. CASE k < Len(D)
  <2>. DEFINE E == SubSeq(D, k + 1, Len(D))
  <2>1. E \in Seq(Blocks) /\ Len(E) = Len(D) - k /\ \A n \in DOMAIN E : E[n] = D[k + n]
    BY <1>1, DropFact
  <2>. HIDE DEF E
  <2>2. E # <<>> /\ 1 \in DOMAIN E
    BY <1>1, <1>2, <2>1
  <2>3. zh.log = E[1]
    BY <1>2, <2>1, <2>2 DEF IsLog, Headed
  <2>4. k # Len(D)
    BY <1>1, <1>2
  <2>5. Rest(D, k, E)
    BY <2>1, <2>2, <2>3, <2>4 DEF Rest, First
  <2>. QED  BY <2>1, <2>5
<1>3. CASE k = Len(D) /\ zh.log = NULL
  <2>. DEFINE E == <<>>
  <2>1. E \in Seq(Blocks) /\ Rest(D, k, E)
    BY <1>1, <1>3 DEF Rest, First
  <2>. HIDE DEF E
  <2>. QED  BY <2>1
<1>4. CASE k = Len(D) /\ zh.log # NULL
  <2>. DEFINE b == zl.lwb[1]
  <2>1. zl.lwb # <<>> /\ zh.log = b /\ b \in Blocks
    BY <1>4 DEF IsLog, Headed, ZilInv, ShapeInv
  <2>. HIDE DEF b
  <2>. DEFINE E == <<b>>
  <2>2. E \in Seq(Blocks) /\ Len(E) = 1 /\ E[1] = b /\ E # <<>>
    BY <2>1
  <2>. HIDE DEF E
  <2>3. Rest(D, k, E)
    BY <1>1, <1>4, <2>1, <2>2 DEF Rest, First, b
  <2>. QED  BY <2>2, <2>3
<1>. QED  BY <1>1, <1>2, <1>3, <1>4

\* It is linked as well, and none of it is gone with the group.
LEMMA RestLinked ==
  ASSUME ZilInv, NEW D \in Seq(Blocks), NEW k \in Nat, IsLog(D, k),
         NEW E \in Seq(Blocks), Rest(D, k, E), stable + 1 \in dirty => zsynced
  PROVE  Linked(E) /\ \A i \in DOMAIN E : blk[E[i]].freed # stable + 1
<1>1. Len(D) \in Nat /\ k \in Nat /\ k <= Len(D) /\ Len(E) \in Nat /\ stable \in Nat
  BY DEF IsLog, Headed, ZilInv, GroupInv
<1>2. DOMAIN D = 1 .. Len(D) /\ DOMAIN E = 1 .. Len(E) /\ zl.lwb \in Seq(Blocks)
  BY DEF ZilInv, ShapeInv
<1>3. CASE k < Len(D)
  <2>1. Len(E) = Len(D) - k /\ \A n \in DOMAIN E : E[n] = D[k + n]
    BY <1>3 DEF Rest
  <2>2. \A i \in 1 .. Len(E) : /\ k + i \in 1 .. Len(D)
                               /\ i < Len(E) => k + i < Len(D) /\ i + 1 \in 1 .. Len(E)
                               /\ i = Len(E) => k + i = Len(D)
                               /\ k + (i + 1) = (k + i) + 1
    BY <1>1, <1>3, <2>1
  <2>3. \A i, j \in 1 .. Len(E) : k + i = k + j => i = j
    BY <1>1
  <2>4. ASSUME NEW i \in DOMAIN E, NEW j \in DOMAIN E, E[i] = E[j]
        PROVE  i = j
    <3>1. k + i \in DOMAIN D /\ k + j \in DOMAIN D /\ D[k + i] = D[k + j]
      BY <1>2, <2>1, <2>2, <2>4
    <3>2. k + i = k + j
      BY <3>1 DEF IsLog, Linked
    <3>. QED  BY <1>2, <2>3, <3>2
  <2>5. ASSUME NEW i \in DOMAIN E
        PROVE  /\ blk[E[i]].birth # 0
               /\ i < Len(E) => blk[E[i]].next = E[i + 1]
               /\ i = Len(E) => ~Live(E[i])
    <3>1. E[i] = D[k + i] /\ k + i \in DOMAIN D
      BY <1>2, <2>1, <2>2
    <3>2. /\ blk[D[k + i]].birth # 0
          /\ k + i < Len(D) => blk[D[k + i]].next = D[(k + i) + 1]
          /\ k + i = Len(D) => ~Live(D[k + i])
      BY <3>1 DEF IsLog, Linked
    <3>3. ASSUME i < Len(E)
          PROVE  E[i + 1] = D[(k + i) + 1] /\ k + i < Len(D)
      <4>1. i \in 1 .. Len(E)
        BY <1>2
      <4>2. i + 1 \in 1 .. Len(E) /\ k + (i + 1) = (k + i) + 1 /\ k + i < Len(D)
        BY <2>2, <3>3, <4>1
      <4>3. E[i + 1] = D[k + (i + 1)]
        BY <1>2, <2>1, <4>2
      <4>. QED  BY <4>2, <4>3
    <3>4. i = Len(E) => k + i = Len(D)
      BY <1>2, <2>2
    <3>. QED  BY <3>1, <3>2, <3>3, <3>4
  <2>6. Linked(E)
    BY <2>4, <2>5 DEF Linked
  <2>7. ASSUME NEW i \in DOMAIN E
        PROVE  blk[E[i]].freed # stable + 1
    <3>1. E[i] = D[k + i] /\ k + i \in k + 1 .. Len(D) /\ k + i \in DOMAIN D
      <4>1. k + i \in k + 1 .. Len(D)
        BY <1>1, <1>2, <2>1
      <4>. QED  BY <1>2, <2>1, <2>2, <4>1
    <3>2. stable + 1 # 0
      BY <1>1
    <3>3. CASE zl.lwb # <<>>
      <4>1. Len(zl.lwb) = Len(D) - k /\ \A n \in DOMAIN zl.lwb : zl.lwb[n] = D[k + n]
        BY <1>3, <3>3 DEF IsLog, Listed
      <4>2. i \in DOMAIN zl.lwb
        <5>1. Len(zl.lwb) = Len(E)
          BY <2>1, <4>1
        <5>2. DOMAIN zl.lwb = 1 .. Len(zl.lwb)
          BY <1>2
        <5>. QED  BY <1>2, <5>1, <5>2
      <4>3. blk[zl.lwb[i]].freed = 0
        BY <4>2 DEF ZilInv, TailInv
      <4>. QED  BY <3>1, <3>2, <4>1, <4>2, <4>3
    <3>4. CASE zl.lwb = <<>> /\ ~Importing /\ Destroying /\ ~zl.keep_first
      <4>1. blk[E[i]].freed = zl.destroy_txg
        BY <1>3, <3>1, <3>4 DEF IsLog, Listed
      <4>2. zl.destroy_txg # stable + 1
        <5>. SUFFICES ASSUME zl.destroy_txg = stable + 1
                      PROVE  FALSE
          OBVIOUS
        <5>1. zl.destroy_txg \in dirty
          BY <1>1 DEF ZilInv, DestroyInv
        <5>. QED  BY <3>4, <5>1 DEF Destroying, Synced, SyncedIn
      <4>. QED  BY <4>1, <4>2
    <3>5. CASE zl.lwb = <<>> /\ (Importing \/ ~(Destroying /\ ~zl.keep_first))
      <4>1. CASE Importing
        BY <1>3, <3>1, <3>2, <3>5, <4>1 DEF IsLog, Listed
      <4>2. CASE ~Importing
        <5>1. Len(D) = 1 /\ k = 0 /\ blk[D[1]].freed = 0
          BY <1>3, <3>5, <4>2 DEF IsLog, Listed
        <5>2. k + i = 1
          BY <1>2, <2>1, <5>1
        <5>. QED  BY <3>1, <3>2, <5>1, <5>2
      <4>. QED  BY <4>1, <4>2
    <3>. QED  BY <3>3, <3>4, <3>5
  <2>. QED  BY <2>6, <2>7
<1>4. CASE k = Len(D)
  <2>. SUFFICES ASSUME E # <<>>
                PROVE  Linked(E) /\ \A i \in DOMAIN E : blk[E[i]].freed # stable + 1
    BY <1>2 DEF Linked
  <2>1. Len(E) = 1 /\ DOMAIN E = {1} /\ zl.lwb # <<>> /\ E[1] = zl.lwb[1]
    BY <1>2, <1>4 DEF Rest
  <2>2. 1 \in DOMAIN zl.lwb
    BY <1>2, <2>1
  <2>3. blk[E[1]].freed = 0 /\ blk[E[1]].birth # 0
    BY <2>1, <2>2 DEF ZilInv, TailInv, BirthInv
  <2>4. ~Live(E[1])
    BY <1>4, <2>1 DEF IsLog, Pending
  <2>5. stable + 1 # 0 /\ ~(1 < 1)
    BY <1>1
  <2>. QED  BY <2>1, <2>3, <2>4, <2>5 DEF Linked
<1>. QED  BY <1>1, <1>3, <1>4

\* Stabilize() keeps the invariant.
LEMMA StabilizeChain ==
  ASSUME ZilInv, ChainInv, Stabilize
  PROVE  ChainInv' /\ FreesOnce
<1>. DEFINE txg == stable + 1
            x == zl.clean \/ (txg \in dirty /\ zl.itx # <<>> /\ rec[Head(zl.itx)].txg <= txg)
<1>1. /\ txg < open /\ \A c \in Procs \cup Blocks : active[c] # txg
      /\ stable' = txg /\ UNCHANGED <<open, active>>
  BY DEF Stabilize, GC!Stabilize
<1>2. /\ txg \in dirty => zsynced
      /\ zh_disk' = (IF txg \in dirty THEN zh ELSE zh_disk)
      /\ blk' = [b \in Blocks |-> IF blk[b].freed = txg THEN NoBlk ELSE Flushed[b]]
      /\ zl' = [zl EXCEPT !.clean = x]
      /\ ~zsynced' /\ UNCHANGED <<zh, p, mode, rec, crashes>>
  BY DEF Stabilize, fs_vars, import_vars
<1>. HIDE DEF x
<1>3. /\ stable \in Nat /\ txg \in Nat /\ txg # 0 /\ txg > stable /\ zl.destroy_txg \in Nat
      /\ zl.lwb \in Seq(Blocks) /\ Len(zl.lwb) \in Nat /\ DOMAIN zl.lwb = 1 .. Len(zl.lwb)
  BY DEF ZilInv, GroupInv, ShapeInv
<1>4. /\ zl'.lwb = zl.lwb /\ zl'.destroy_txg = zl.destroy_txg /\ zl'.keep_first = zl.keep_first
      /\ zl'.lr_seq = zl.lr_seq
  BY <1>2 DEF ZilInv, ShapeInv, IsZl
<1>5. OpenInv /\ \A b \in Blocks : blk[b].birth \in Nat
  BY DEF ChainInv, OpenInv
<1>6. ASSUME NEW b \in Blocks
      PROVE  /\ blk[b].freed = txg => blk'[b] = NoBlk
             /\ blk[b].freed # txg =>
                  /\ blk'[b].birth = blk[b].birth /\ blk'[b].freed = blk[b].freed
                  /\ blk'[b].next = blk[b].next /\ blk'[b].io = blk[b].io
                  /\ blk'[b].content = (IF blk[b].content = "cache" THEN "disk" ELSE blk[b].content)
                  /\ LiveIn(blk', b) => LiveIn(blk, b)
                  /\ blk'[b].recs = blk[b].recs
  <2>1. blk'[b] = (IF blk[b].freed = txg THEN NoBlk ELSE Flushed[b])
    BY <1>2
  <2>. HIDE DEF txg
  <2>. QED  BY <2>1, FlushBlocks DEF LiveIn
<1>7. /\ NoBlk.birth = 0 /\ NoBlk.freed = 0 /\ NoBlk.io = "none" /\ NoBlk.content = "none"
      /\ NoBlk.recs = <<>>
  BY DEF NoBlk
<1>8. FreesOnce
  BY <1>6, <1>7 DEF FreesOnce
<1>9. /\ Importing' <=> Importing
      /\ Destroying' <=> Destroying
      /\ zl.destroy_txg <= txg => ~Destroying /\ (zl.destroy_txg = txg => txg \in dirty)
  <2>1. zl.destroy_txg > stable => zl.destroy_txg \in dirty
    BY DEF ZilInv, DestroyInv
  <2>2. /\ Destroying' <=> ~(zl.destroy_txg <= txg)
        /\ Destroying <=> ~(zl.destroy_txg <= stable \/ (zl.destroy_txg = txg /\ zsynced))
    BY <1>1, <1>2, <1>3, <1>4 DEF Destroying, Synced, SyncedIn
  <2>. QED  BY <1>2, <1>3, <2>1, <2>2 DEF Importing
<1>10. zsynced => txg \in dirty
  BY <1>5 DEF OpenInv
<1>11. OpenInv'
  <2>1. ~Importing /\ zl.destroy_txg <= txg => Fresh(zh_disk')
    <3>. SUFFICES ASSUME ~Importing, zl.destroy_txg <= txg
                  PROVE  Fresh(zh_disk')
      OBVIOUS
    <3>1. Fresh(zh)
      <4>1. mode \in {"up", "replayed"}
        BY DEF ZilInv, ShapeInv, Modes, Importing
      <4>. QED  BY <1>9, <4>1 DEF ZilInv, DestroyInv
    <3>2. CASE txg \in dirty
      BY <1>2, <3>1, <3>2
    <3>3. CASE txg \notin dirty
      <4>1. zl.destroy_txg <= stable
        BY <1>3, <1>9, <3>3
      <4>. QED  BY <1>2, <1>5, <3>3, <4>1 DEF OpenInv
    <3>. QED  BY <3>2, <3>3
  <2>2. \A b \in Blocks : blk'[b].birth \in Nat /\ (blk'[b].io # "done" => blk'[b].content = "none")
    <3>. SUFFICES ASSUME NEW b \in Blocks
                  PROVE  blk'[b].birth \in Nat /\ (blk'[b].io # "done" => blk'[b].content = "none")
      OBVIOUS
    <3>1. CASE blk[b].freed = txg
      BY <1>6, <1>7, <3>1
    <3>2. CASE blk[b].freed # txg
      BY <1>5, <1>6, <3>2 DEF OpenInv
    <3>. QED  BY <3>1, <3>2
  <2>. QED  BY <1>1, <1>2, <1>4, <1>5, <1>9, <2>1, <2>2 DEF OpenInv
<1>12. PICK D \in Seq(Blocks), k \in Nat : IsLog(D, k)
  BY DEF ChainInv
<1>13. PICK E \in Seq(Blocks) : Rest(D, k, E)
  BY <1>12, RestExists
<1>14. Linked(E) /\ \A i \in DOMAIN E : blk[E[i]].freed # txg
  BY <1>2, <1>12, <1>13, RestLinked
<1>15. Len(D) \in Nat /\ k \in Nat /\ k <= Len(D) /\ Len(E) \in Nat
  BY <1>12 DEF IsLog, Headed
<1>16. /\ DOMAIN E = 1 .. Len(E) /\ DOMAIN D = 1 .. Len(D)
       /\ \A i \in DOMAIN D : D[i] \in Blocks
  OBVIOUS
<1>17. \A i \in DOMAIN E :
         /\ E[i] \in Blocks
         /\ blk'[E[i]].birth = blk[E[i]].birth /\ blk'[E[i]].freed = blk[E[i]].freed
         /\ blk'[E[i]].next = blk[E[i]].next /\ blk'[E[i]].io = blk[E[i]].io
         /\ blk'[E[i]].content = (IF blk[E[i]].content = "cache" THEN "disk" ELSE blk[E[i]].content)
         /\ LiveIn(blk', E[i]) => LiveIn(blk, E[i])
  <2>1. \A i \in DOMAIN E : E[i] \in Blocks /\ blk[E[i]].freed # txg
    BY <1>14
  <2>. HIDE DEF txg
  <2>. QED  BY <1>6, <2>1
<1>18. Linked(E)'
  BY <1>14, <1>17 DEF Linked, Live
<1>19. Headed(E, 0)'
  <2>1. zh_disk'.log = zh.log
    <3>1. CASE txg \in dirty
      BY <1>2, <3>1
    <3>2. CASE txg \notin dirty
      <4>1. ~zsynced
        BY <1>10, <3>2
      <4>. QED  BY <1>2, <1>12, <3>2, <4>1 DEF IsLog, Headed
    <3>. QED  BY <3>1, <3>2
  <2>2. zh.log = First(E)
    BY <1>13 DEF Rest
  <2>3. 0 \in 0 .. Len(E) /\ 1 .. 0 = {} /\ (0 < Len(E) => E # <<>>) /\ (0 = Len(E) => E = <<>>)
        /\ 0 + 1 = 1
    BY <1>15
  <2>. QED  BY <1>2, <2>1, <2>2, <2>3 DEF Headed, First
<1>20. Listed(E, 0)'
  <2>. SUFFICES ASSUME 0 < Len(E)
                PROVE  Listed(E, 0)'
    BY DEF Listed
  <2>1. ASSUME zl.lwb # <<>>
        PROVE  Len(zl.lwb) = Len(E) - 0 /\ \A n \in DOMAIN zl.lwb : zl.lwb[n] = E[0 + n]
    <3>1. \A n \in DOMAIN zl.lwb : 0 + n = n
      BY <1>3
    <3>2. CASE k < Len(D)
      <4>1. Len(zl.lwb) = Len(D) - k /\ \A n \in DOMAIN zl.lwb : zl.lwb[n] = D[k + n]
        BY <1>12, <2>1, <3>2 DEF IsLog, Listed
      <4>2. Len(E) = Len(D) - k /\ \A n \in DOMAIN E : E[n] = D[k + n]
        BY <1>13, <3>2 DEF Rest
      <4>3. Len(zl.lwb) = Len(E)
        BY <4>1, <4>2
      <4>4. DOMAIN zl.lwb = DOMAIN E
        BY <1>3, <1>16, <4>3
      <4>5. \A n \in DOMAIN zl.lwb : zl.lwb[n] = E[n]
        BY <4>1, <4>2, <4>4
      <4>. QED  BY <1>15, <3>1, <4>3, <4>5
    <3>3. CASE k = Len(D)
      <4>1. Len(E) = 1 /\ E[1] = zl.lwb[1]
        BY <1>13, <3>3 DEF Rest
      <4>2. \E t \in Procs : p[t].pc = "created"
        BY <1>12, <2>1, <3>3 DEF IsLog, Pending
      <4>3. Len(zl.lwb) = 1
        BY <2>1, <4>2 DEF ZilInv, HeadInv, CreatedOK
      <4>4. DOMAIN zl.lwb = {1}
        BY <1>3, <4>3
      <4>. QED  BY <4>1, <4>3, <4>4
    <3>. QED  BY <1>15, <3>2, <3>3
  <2>2. ASSUME zl.lwb = <<>>
        PROVE  IF Importing
               THEN \A i \in DOMAIN E : /\ blk'[E[i]].freed = 0
                                        /\ i < Len(E) => blk'[E[i]].content = "disk"
               ELSE IF Destroying /\ ~zl.keep_first
               THEN \A i \in 0 + 1 .. Len(E) : blk'[E[i]].freed = zl.destroy_txg
               ELSE Len(E) = 1 /\ 0 = 0 /\ blk'[E[1]].freed = 0
    <3>1. k < Len(D)
      <4>1. k # Len(D)
        BY <1>13, <2>2 DEF Rest
      <4>. QED  BY <1>15, <4>1
    <3>2. Len(E) = Len(D) - k /\ \A n \in DOMAIN E : E[n] = D[k + n]
      BY <1>13, <3>1 DEF Rest
    <3>3. \A i \in 1 .. Len(E) : /\ k + i \in 1 .. Len(D) /\ k + i \in k + 1 .. Len(D)
                                 /\ i < Len(E) => k + i < Len(D)
      BY <1>15, <3>1, <3>2
    <3>4. CASE Importing
      <4>1. \A i \in DOMAIN D : /\ blk[D[i]].freed = 0
                                /\ i < Len(D) => blk[D[i]].content = "disk"
        BY <1>12, <2>2, <3>1, <3>4 DEF IsLog, Listed
      <4>2. \A i \in DOMAIN E : /\ blk[E[i]].freed = 0
                                /\ i < Len(E) => blk[E[i]].content = "disk"
        BY <1>16, <3>2, <3>3, <4>1
      <4>. QED  BY <1>17, <3>4, <4>2
    <3>5. CASE ~Importing /\ Destroying /\ ~zl.keep_first
      <4>1. \A i \in k + 1 .. Len(D) : blk[D[i]].freed = zl.destroy_txg
        BY <1>12, <2>2, <3>1, <3>5 DEF IsLog, Listed
      <4>2. \A i \in DOMAIN E : blk[E[i]].freed = zl.destroy_txg
        BY <1>16, <3>2, <3>3, <4>1
      <4>3. 0 + 1 .. Len(E) = DOMAIN E
        BY <1>16
      <4>. QED  BY <1>17, <3>5, <4>2, <4>3
    <3>6. CASE ~Importing /\ ~(Destroying /\ ~zl.keep_first)
      <4>1. Len(D) = 1 /\ k = 0 /\ blk[D[1]].freed = 0
        BY <1>12, <2>2, <3>1, <3>6 DEF IsLog, Listed
      <4>2. Len(E) = 1 /\ k + 1 = 1
        BY <3>2, <4>1
      <4>3. 1 \in DOMAIN E
        BY <1>16, <4>2
      <4>4. E[1] = D[1]
        BY <3>2, <4>2, <4>3
      <4>. QED  BY <1>17, <3>6, <4>1, <4>2, <4>3, <4>4
    <3>. QED  BY <3>4, <3>5, <3>6
  <2>. QED  BY <1>4, <1>9, <2>1, <2>2 DEF Listed
<1>21. Pending(E, 0)'
  <2>. SUFFICES ASSUME zl.lwb # <<>>, 0 = Len(E)
                PROVE  Pending(E, 0)'
    BY <1>4 DEF Pending
  <2>1. k = Len(D)
    <3>1. k < Len(D) => Len(E) = Len(D) - k
      BY <1>13 DEF Rest
    <3>. QED  BY <1>15, <3>1
  <2>2. E = <<>> /\ DOMAIN E = {} /\ zh.log = NULL
    <3>1. E = <<>>
      BY <1>16
    <3>. QED  BY <1>13, <3>1 DEF Rest, First
  <2>3. PICK t \in Procs : p[t].pc = "created" /\ p[t].txg > stable
                           /\ blk[zl.lwb[1]].birth = p[t].txg
    BY <1>12, <2>1 DEF IsLog, Pending
  <2>4. p[t].txg > txg
    <3>1. /\ p[t].txg \in Nat /\ p[t].txg \in dirty
          /\ Synced(p[t].txg) => zh.log = Head(zl.lwb)
      BY <2>3 DEF ZilInv, HeadInv, CreatedOK
    <3>2. Head(zl.lwb) \in Blocks
      BY <1>3
    <3>3. ~Synced(p[t].txg)
      BY <2>2, <3>1, <3>2, NullFact
    <3>4. p[t].txg # txg
      BY <1>2, <3>1, <3>3 DEF Synced, SyncedIn
    <3>. QED  BY <1>3, <2>3, <3>1, <3>4
  <2>5. 1 \in DOMAIN zl.lwb /\ zl.lwb[1] \in Blocks
    BY <1>3
  <2>6. blk[zl.lwb[1]].freed # txg
    BY <1>3, <2>5 DEF ZilInv, TailInv
  <2>7. ~LiveIn(blk, zl.lwb[1])
    BY <1>12, <2>1 DEF IsLog, Pending, Live
  <2>8. /\ blk'[zl.lwb[1]].birth = blk[zl.lwb[1]].birth /\ ~LiveIn(blk', zl.lwb[1])
        /\ blk'[zl.lwb[1]].recs = <<>>
    BY <1>6, <1>12, <2>1, <2>5, <2>6, <2>7 DEF IsLog, Pending
  <2>. QED  BY <1>1, <1>2, <1>4, <2>2, <2>3, <2>4, <2>8 DEF Pending, Live
<1>25. ASSUME NEW i \in DOMAIN D, blk[D[i]].freed # txg
       PROVE  \E n \in DOMAIN E : D[i] = E[n]
  <2>1. i \in 1 .. Len(D)
    BY <1>16
  <2>2. i \notin 1 .. k
    BY <1>12, <1>25 DEF IsLog, Headed
  <2>3. k < Len(D)
    BY <1>15, <2>1, <2>2
  <2>4. Len(E) = Len(D) - k /\ \A n \in DOMAIN E : E[n] = D[k + n]
    BY <1>13, <2>3 DEF Rest
  <2>5. i - k \in 1 .. Len(E) /\ k + (i - k) = i
    BY <1>15, <2>1, <2>2, <2>4
  <2>6. i - k \in DOMAIN E /\ E[i - k] = D[i]
    BY <1>16, <2>4, <2>5
  <2>. QED  BY <2>6
<1>22. ASSUME ~LogErrors
       PROVE  Written(E)'
  <2>1. Written(D)
    BY <1>12, <1>22 DEF IsLog
  <2>2. ASSUME NEW i \in DOMAIN E, i < Len(E)
        PROVE  /\ Issued(E[i])' /\ (blk'[E[i]].io = "done" => blk'[E[i]].content \in {"cache", "disk"})
               /\ \A j \in i + 1 .. Len(E) :
                    /\ blk'[E[i]].io = "issued" => active'[E[i]] <= blk'[E[j]].birth
                    /\ blk'[E[j]].birth <= stable' => blk'[E[i]].content = "disk"
    <3>1. i \in 1 .. Len(E) /\ k < Len(D)
      <4>1. k = Len(D) => Len(E) <= 1
        BY <1>13 DEF Rest
      <4>2. i \in 1 .. Len(E)
        BY <1>16
      <4>. QED  BY <1>15, <2>2, <4>1, <4>2
    <3>2. Len(E) = Len(D) - k /\ \A n \in DOMAIN E : E[n] = D[k + n]
      BY <1>13, <3>1 DEF Rest
    <3>3. k + i \in 1 .. Len(D) /\ k + i < Len(D)
      BY <1>15, <2>2, <3>1, <3>2
    <3>4. E[i] = D[k + i] /\ k + i \in DOMAIN D /\ E[i] \in Blocks
      BY <1>16, <1>17, <3>2, <3>3
    <3>5. Issued(E[i]) /\ (blk[E[i]].io = "done" => blk[E[i]].content \in {"cache", "disk"})
      BY <2>1, <3>3, <3>4 DEF Written
    <3>6. Issued(E[i])' /\ (blk'[E[i]].io = "done" => blk'[E[i]].content = "disk")
      BY <1>17, <3>5 DEF Issued, IssuedIn
    <3>7. ASSUME NEW j \in i + 1 .. Len(E)
          PROVE  /\ blk'[E[i]].io = "issued" => active'[E[i]] <= blk'[E[j]].birth
                 /\ blk'[E[j]].birth <= stable' => blk'[E[i]].content = "disk"
      <4>1. j \in 1 .. Len(E) /\ k + j \in (k + i) + 1 .. Len(D)
        BY <1>15, <3>1, <3>2
      <4>2. j \in DOMAIN E /\ E[j] = D[k + j] /\ E[j] \in Blocks
        BY <1>16, <1>17, <3>2, <4>1
      <4>3. /\ blk[E[i]].io = "issued" => active[E[i]] <= blk[E[j]].birth
            /\ blk[E[j]].birth <= stable => blk[E[i]].content = "disk"
        BY <2>1, <3>3, <3>4, <4>1, <4>2 DEF Written
      <4>4. blk'[E[j]].birth = blk[E[j]].birth /\ blk'[E[i]].io = blk[E[i]].io
        BY <1>17, <4>2
      <4>5. ASSUME blk[E[j]].birth <= txg
            PROVE  blk'[E[i]].content = "disk"
        <5>1. blk[E[i]].io # "issued"
          <6>. SUFFICES ASSUME blk[E[i]].io = "issued"
                        PROVE  FALSE
            OBVIOUS
          <6>1. active[E[i]] \in Nat /\ active[E[i]] > stable /\ active[E[i]] # txg
            BY <1>1, <3>4 DEF ZilInv, ActiveInv
          <6>2. active[E[i]] <= blk[E[j]].birth /\ blk[E[j]].birth \in Nat
            BY <1>5, <4>2, <4>3
          <6>. QED  BY <1>3, <4>5, <6>1, <6>2
        <5>2. blk'[E[i]].io = "done"
          BY <3>5, <4>4, <5>1 DEF Issued, IssuedIn
        <5>. QED  BY <3>6, <5>2
      <4>. QED  BY <1>1, <4>3, <4>4, <4>5
    <3>. QED  BY <3>6, <3>7
  <2>3. ASSUME NEW b \in Blocks, blk'[b].birth # 0
        PROVE  (\E i \in DOMAIN E : b = E[i]) \/ (\E n \in DOMAIN zl'.lwb : b = zl'.lwb[n])
    <3>1. blk[b].freed # txg /\ blk[b].birth # 0
      BY <1>6, <1>7, <2>3
    <3>2. \A i \in DOMAIN D : b = D[i] => \E n \in DOMAIN E : b = E[n]
      BY <1>25, <3>1
    <3>. QED  BY <1>4, <2>1, <3>1, <3>2 DEF Written
  <2>. QED  BY <2>2, <2>3 DEF Written
<1>23. \A h \in {zh', zh_disk'} : h.log # NULL /\ h.claim_txg # 0 /\ ~h.needed => Len(E) <= 1
  <2>1. Len(D) <= 1 => Len(E) <= 1
    <3>1. k < Len(D) => Len(E) = Len(D) - k
      BY <1>13 DEF Rest
    <3>2. k = Len(D) => Len(E) <= 1
      BY <1>13 DEF Rest
    <3>. QED  BY <1>15, <3>1, <3>2
  <2>2. {zh', zh_disk'} \subseteq {zh, zh_disk}
    BY <1>2
  <2>. QED  BY <1>12, <2>1, <2>2 DEF IsLog
<1>26. SameRecs /\ SameCurrent
  <2>1. \A b \in Blocks : blk'[b].recs \in {blk[b].recs, <<>>}
    BY <1>6, <1>7
  <2>. QED  BY <1>2, <2>1, SameRecords DEF SameRecs
<1>27. Recorded(D)
  BY <1>12 DEF IsLog
<1>28. \/ /\ k < Len(D) /\ Len(E) = Len(D) - k
          /\ \A i \in DOMAIN E : k + i \in DOMAIN D /\ E[i] = D[k + i]
       \/ \A i \in DOMAIN E : blk'[E[i]].recs = <<>>
  <2>1. CASE k < Len(D)
    <3>1. Len(E) = Len(D) - k /\ \A n \in DOMAIN E : E[n] = D[k + n]
      BY <1>13, <2>1 DEF Rest
    <3>2. \A i \in 1 .. Len(E) : k + i \in 1 .. Len(D)
      BY <1>15, <2>1, <3>1
    <3>. QED  BY <1>16, <2>1, <3>1, <3>2
  <2>2. CASE k = Len(D)
    <3>. SUFFICES ASSUME NEW i \in DOMAIN E
                  PROVE  blk'[E[i]].recs = <<>>
      OBVIOUS
    <3>1. zl.lwb # <<>> /\ E[i] = zl.lwb[1]
      <4>1. E # <<>>
        BY <1>16
      <4>2. Len(E) = 1 /\ zl.lwb # <<>> /\ E[1] = zl.lwb[1]
        BY <1>13, <2>2, <4>1 DEF Rest
      <4>. QED  BY <1>16, <4>2
    <3>2. blk[E[i]].recs = <<>>
      BY <1>12, <2>2, <3>1 DEF IsLog, Pending
    <3>3. E[i] \in Blocks
      BY <1>17
    <3>. QED  BY <1>26, <3>2, <3>3 DEF SameRecs
  <2>. QED  BY <1>15, <2>1, <2>2
<1>29. Ordered(E)'
  <2>1. CASE \A i \in DOMAIN E : k + i \in DOMAIN D /\ E[i] = D[k + i]
    BY <1>26, <1>27, <2>1, OrderKeeps DEF Recorded
  <2>2. CASE \A i \in DOMAIN E : blk'[E[i]].recs = <<>>
    BY <2>2 DEF Ordered
  <2>. QED  BY <1>28, <2>1, <2>2
<1>30. Reached(E)'
  <2>. SUFFICES ASSUME NEW b \in Blocks, NEW n \in DOMAIN blk'[b].recs,
                       CurrentIn(rec', crashes', blk'[b].recs[n].itx)
                PROVE  \E i \in DOMAIN E : b = E[i]
    BY DEF Reached, Current
  <2>1. blk'[b].recs # <<>>
    OBVIOUS
  <2>2. blk[b].freed # txg /\ blk'[b].recs = blk[b].recs
    BY <1>6, <1>7, <2>1
  <2>3. Reached(D)'
    BY <1>26, <1>27, ReachedKeeps DEF Recorded
  <2>4. PICK i \in DOMAIN D : b = D[i]
    BY <2>3 DEF Reached, Current
  <2>. QED  BY <1>25, <2>2, <2>4
<1>31. Recent(E)'
  <2>. SUFFICES ASSUME Opened', NEW i \in DOMAIN E,
                       i < Len(E) \/ (\E n \in DOMAIN zl.lwb : E[i] = zl.lwb[n]),
                       NEW n \in DOMAIN blk'[E[i]].recs
                PROVE  /\ blk'[E[i]].recs[n].seq <= zl'.lr_seq
                       /\ CurrentIn(rec', crashes', blk'[E[i]].recs[n].itx)
    BY <1>4 DEF Recent, Current
  <2>1. E[i] \in Blocks /\ blk'[E[i]].recs # <<>> /\ i \in 1 .. Len(E)
    BY <1>16, <1>17
  <2>2. blk'[E[i]].recs = blk[E[i]].recs
    BY <1>26, <2>1 DEF SameRecs
  <2>3. /\ k < Len(D) /\ Len(E) = Len(D) - k
        /\ k + i \in DOMAIN D /\ E[i] = D[k + i]
    BY <1>28, <2>1
  <2>4. i < Len(E) => k + i < Len(D)
    BY <1>15, <2>1, <2>3
  <2>5. CASE Opened
    <3>1. Recent(D)
      BY <1>27 DEF Recorded
    <3>2. k + i < Len(D) \/ (\E m \in DOMAIN zl.lwb : D[k + i] = zl.lwb[m])
      BY <2>3, <2>4
    <3>3. blk[D[k + i]].recs[n].seq <= zl.lr_seq /\ Current(blk[D[k + i]].recs[n].itx)
      BY <2>2, <2>3, <2>5, <3>1, <3>2 DEF Recent
    <3>. QED  BY <1>2, <1>4, <2>2, <2>3, <3>3 DEF Current
  <2>6. CASE ~Opened
    <3>1. ~Importing /\ zl.destroy_txg > stable /\ zl.destroy_txg <= txg
      BY <1>1, <1>2, <1>3, <1>4, <1>9, <2>6 DEF Opened
    <3>2. zl.lwb = <<>>
      BY <3>1 DEF ZilInv, DestroyInv
    <3>3. ~Destroying
      BY <1>9, <3>1
    <3>4. zh.log = E[1] /\ 1 \in DOMAIN E
      <4>1. E # <<>> /\ 1 \in 1 .. Len(E)
        BY <1>15, <2>1
      <4>2. zh.log = First(E)
        BY <1>13 DEF Rest
      <4>. QED  BY <1>16, <4>1, <4>2 DEF First
    <3>5. Len(D) = 1 /\ k = 0
      <4>1. zh.log # NULL
        BY <1>17, <3>4, NullFact
      <4>. QED  BY <1>12, <3>1, <3>2, <3>3, <4>1, KeptLog
    <3>6. ~(i < Len(E)) /\ DOMAIN zl.lwb = {}
      BY <2>1, <2>3, <3>2, <3>5
    <3>. QED  BY <3>6
  <2>. QED  BY <2>5, <2>6
<1>24. IsLog(E, 0)'
  <2>1. Recorded(E)'
    BY <1>29, <1>30, <1>31 DEF Recorded
  <2>. QED  BY <2>1, <1>18, <1>19, <1>20, <1>21, <1>22, <1>23 DEF IsLog
<1>. QED  BY <1>8, <1>11, <1>24 DEF ChainInv

----------------------------------------------------------------------------
\* Crash.

\* Without a header there is nothing to visit.
LEMMA ChainNull ==
  ASSUME NEW f
  PROVE  Chain(f, NULL) = <<>> /\ Range(Chain(f, NULL)) = {}
<1>0. NBlocks \in Nat
  BY ZilAssumption
<1>1. PICK g : WalksTo(f, NULL, g, Chain(f, NULL))
  BY ChainFact
<1>2. /\ Chain(f, NULL) = g[NBlocks] /\ g[0] = <<>>
      /\ \A n \in 1 .. NBlocks : g[n] = WalkStep(f, g[n - 1])
  BY <1>1 DEF WalksTo
<1>. DEFINE S == {n \in 0 .. NBlocks : g[n] # <<>>}
<1>3. S = {}
  <2>. SUFFICES ASSUME S # {}
                PROVE  FALSE
    OBVIOUS
  <2>1. S \in SUBSET Nat
    BY <1>0
  <2>2. PICK n \in S : \A k \in S : ~(<<k, n>> \in OpToRel(<, Nat))
    BY <2>1, WFMin, NatLessThanWellFounded
  <2>3. n \in 0 .. NBlocks /\ g[n] # <<>> /\ \A k \in S : ~(k < n)
    BY <2>1, <2>2 DEF OpToRel
  <2>4. n # 0
    BY <1>2, <2>3
  <2>5. n - 1 \in 0 .. NBlocks /\ n - 1 < n /\ n \in 1 .. NBlocks
    BY <1>0, <2>3, <2>4
  <2>6. g[n - 1] = <<>>
    BY <2>3, <2>5
  <2>7. g[n] = <<>>
    BY <1>2, <2>5, <2>6 DEF WalkStep
  <2>. QED  BY <2>3, <2>7
<1>4. Chain(f, NULL) = <<>>
  BY <1>0, <1>2, <1>3
<1>5. DOMAIN Chain(f, NULL) = {}
  BY <1>4
<1>. QED  BY <1>4, <1>5 DEF Range

\* From the header on, zil_parse() visits the first m blocks of D.
Visits(f, D, m) == EndsAt(f, D, m) /\ Range(Chain(f, D[1])) = {D[i] : i \in 1 .. m}

\* f is what a crash may leave of the blocks: a block is on disk only if its write
\* had been issued, and it is if its write had ended and the cache was flushed.
Image(f) ==
  \A b \in Blocks :
    /\ f[b].next = blk[b].next
    /\ f[b].content = "disk" => blk[b].io = "issued" \/ blk[b].content # "none"
    /\ blk[b].content = "disk" => f[b].content = "disk"

\* Of that zil_parse() visits some first part of the chain.
LEMMA ImageChain ==
  ASSUME NEW D \in Seq(Blocks), Linked(D), D # <<>>, NEW f, Image(f)
  PROVE  \E m \in DOMAIN D : Visits(f, D, m)
<1>. DEFINE N == Len(D)
<1>1. N \in Nat /\ N # 0
  OBVIOUS
<1>2. N \in 1 .. N /\ \A i \in 1 .. N - 1 : i \in 1 .. N /\ i < N
  BY <1>1
<1>3. DOMAIN D = 1 .. N /\ \A i \in 1 .. N : D[i] \in Blocks
  OBVIOUS
<1>4. ~Valid(f, D[N])
  <2>1. ~Live(D[N]) /\ D[N] \in Blocks
    BY <1>2, <1>3 DEF Linked
  <2>. QED  BY <2>1 DEF Live, LiveIn, Valid, Image
<1>5. \A i \in 1 .. N - 1 : f[D[i]].next = D[i + 1]
  BY <1>2, <1>3 DEF Linked, Image
<1>6. PICK m \in DOMAIN D : EndsAt(f, D, m)
  BY <1>4, <1>5, EndExists
<1>7. \A i, j \in DOMAIN D : D[i] = D[j] => i = j
  BY DEF Linked
<1>. DEFINE C == Chain(f, D[1])
<1>8. Begins(C, D, m)
  BY <1>6, <1>7, ChainIs
<1>. HIDE DEF C
<1>9. DOMAIN C = 1 .. m /\ \A i \in 1 .. m : C[i] = D[i]
  BY <1>8 DEF Begins
<1>10. Range(C) = {D[i] : i \in 1 .. m}
  BY <1>9 DEF Range
<1>. QED  BY <1>6, <1>10 DEF C, Visits

\* Unless a log write has failed, what is allocated on disk is in the chain.
LEMMA OnDiskInLog ==
  ASSUME ZilInv, NEW D \in Seq(Blocks), NEW k \in Nat, IsLog(D, k), ~LogErrors,
         NEW b \in Blocks, OnDisk(b)
  PROVE  \E i \in DOMAIN D : b = D[i]
<1>1. /\ Len(D) \in Nat /\ k \in Nat /\ k <= Len(D) /\ stable \in Nat
  BY DEF IsLog, Headed, ZilInv, GroupInv
<1>2. /\ DOMAIN D = 1 .. Len(D) /\ zl.lwb \in Seq(Blocks)
      /\ DOMAIN zl.lwb = 1 .. Len(zl.lwb) /\ Len(zl.lwb) \in Nat
  BY DEF ZilInv, ShapeInv
<1>. SUFFICES ASSUME NEW n \in DOMAIN zl.lwb, b = zl.lwb[n]
              PROVE  \E i \in DOMAIN D : b = D[i]
  BY DEF IsLog, Written, OnDisk
<1>3. zl.lwb # <<>> /\ n \in 1 .. Len(zl.lwb)
  BY <1>2
<1>4. CASE k < Len(D)
  <2>1. Len(zl.lwb) = Len(D) - k /\ zl.lwb[n] = D[k + n]
    BY <1>3, <1>4 DEF IsLog, Listed
  <2>2. k + n \in 1 .. Len(D)
    BY <1>1, <1>3, <2>1
  <2>. QED  BY <1>2, <2>1, <2>2
<1>5. CASE k = Len(D)
  <2>1. PICK t \in Procs : p[t].pc = "created" /\ p[t].txg > stable
                           /\ blk[zl.lwb[1]].birth = p[t].txg
    BY <1>3, <1>5 DEF IsLog, Pending
  <2>2. Len(zl.lwb) = 1 /\ p[t].txg \in Nat
    BY <1>3, <2>1 DEF ZilInv, HeadInv, CreatedOK
  <2>3. n = 1
    BY <1>3, <2>2
  <2>. QED  BY <1>1, <2>1, <2>2, <2>3 DEF OnDisk
<1>. QED  BY <1>1, <1>4, <1>5

\* And it is visited.
LEMMA OnDiskVisited ==
  ASSUME ZilInv, NEW D \in Seq(Blocks), NEW k \in Nat, IsLog(D, k), ~LogErrors,
         NEW f, Image(f), NEW m, Visits(f, D, m), NEW b \in Blocks, OnDisk(b)
  PROVE  b \in {D[i] : i \in 1 .. m}
<1>1. PICK i \in DOMAIN D : b = D[i]
  BY OnDiskInLog
<1>2. DOMAIN D = 1 .. Len(D)
  OBVIOUS
<1>3. Len(D) \in Nat /\ i \in 1 .. Len(D) /\ m \in 1 .. Len(D)
  BY <1>1, <1>2 DEF Visits, EndsAt
<1>4. ~(m < i)
  <2>. SUFFICES ASSUME m < i
                PROVE  FALSE
    OBVIOUS
  <2>1. m < Len(D) /\ i \in m + 1 .. Len(D) /\ m + 1 \in 1 .. Len(D)
    BY <1>3
  <2>2. m \in DOMAIN D /\ D[m] \in Blocks /\ D[m + 1] \in Blocks
    BY <1>2, <1>3, <2>1
  <2>3. blk[D[m]].content = "disk" /\ blk[D[m]].next = D[m + 1]
    BY <1>1, <2>1, <2>2 DEF IsLog, Written, Linked, OnDisk
  <2>4. Valid(f, D[m])
    BY <2>2, <2>3, NullFact DEF Image, Valid
  <2>. QED  BY <2>4 DEF Visits, EndsAt
<1>5. i \in 1 .. m
  BY <1>3, <1>4
<1>. QED  BY <1>1, <1>5

\* Crash() keeps the invariant.
LEMMA CrashChain ==
  ASSUME ZilInv, ChainInv, Crash
  PROVE  ChainInv' /\ FreesOnce
<1>1. /\ zl' = NoLog /\ zh' = zh_disk /\ ~zsynced' /\ p' = [t \in Procs |-> Idle]
      /\ mode' = "down" /\ crashes' = crashes + 1 /\ UNCHANGED <<stable, zh_disk, rec>>
  BY DEF Crash
<1>2. PICK kept \in SUBSET {b \in Blocks : blk[b].io = "issued" \/ blk[b].content = "cache"} :
        LET f == [b \in Blocks |->
                    [blk[b] EXCEPT !.freed = 0, !.max_txg = 0, !.io = "done",
                       !.content = IF b \in kept \/ @ = "disk" THEN "disk" ELSE "none"]]
            here == {b \in Blocks : OnDisk(b)} \cup Range(Chain(f, zh_disk.log))
        IN blk' = [b \in Blocks |-> IF b \in here THEN f[b] ELSE NoBlk]
  BY DEF Crash
<1>. DEFINE f == [b \in Blocks |->
                    [blk[b] EXCEPT !.freed = 0, !.max_txg = 0, !.io = "done",
                       !.content = IF b \in kept \/ @ = "disk" THEN "disk" ELSE "none"]]
            here == {b \in Blocks : OnDisk(b)} \cup Range(Chain(f, zh_disk.log))
<1>3. \A b \in Blocks : blk'[b] = IF b \in here THEN f[b] ELSE NoBlk
  BY <1>2
<1>4. ASSUME NEW b \in Blocks
      PROVE  /\ f[b].freed = 0 /\ f[b].io = "done" /\ f[b].birth = blk[b].birth
             /\ f[b].next = blk[b].next /\ f[b].recs = blk[b].recs
             /\ f[b].content = IF b \in kept \/ blk[b].content = "disk" THEN "disk" ELSE "none"
  <2>. DEFINE x == IF b \in kept \/ blk[b].content = "disk" THEN "disk" ELSE "none"
  <2>1. f[b] = [blk[b] EXCEPT !.freed = 0, !.max_txg = 0, !.io = "done", !.content = x]
    OBVIOUS
  <2>2. IsBlk(blk[b])
    BY DEF ZilInv, ShapeInv
  <2>. HIDE DEF f
  <2>. QED  BY <2>1, <2>2 DEF IsBlk
<1>. HIDE DEF f
<1>5. Image(f)
  BY <1>4 DEF Image
<1>6. \A b \in here : b \in Blocks => blk'[b] = f[b]
  BY <1>3
<1>7. \A b \in Blocks : b \in here <=> OnDisk(b) \/ b \in Range(Chain(f, zh_disk.log))
  OBVIOUS
<1>. HIDE DEF here
<1>8. NoBlk.freed = 0 /\ NoBlk.birth = 0 /\ NoBlk.content = "none" /\ NoBlk.recs = <<>>
  BY DEF NoBlk
<1>9. FreesOnce
  BY <1>3, <1>4, <1>8 DEF FreesOnce
<1>10. zl'.lwb = <<>> /\ Importing' /\ \A t \in Procs : p'[t].pc = "idle"
  BY <1>1 DEF NoLog, Idle, Importing
<1>11. OpenInv'
  <2>1. \A b \in Blocks : blk'[b].birth \in Nat /\ (blk'[b].io # "done" => blk'[b].content = "none")
    BY <1>3, <1>4, <1>8 DEF ChainInv, OpenInv
  <2>. QED  BY <1>1, <1>10, <2>1 DEF OpenInv
<1>12. PICK D \in Seq(Blocks), k \in Nat : IsLog(D, k)
  BY DEF ChainInv
<1>13. Linked(D) /\ zh_disk.log = First(D)
  BY <1>12 DEF IsLog, Headed
<1>16. ASSUME NEW E \in Seq(Blocks), \A i \in DOMAIN E : i \in DOMAIN D /\ E[i] = D[i]
       PROVE  Recorded(E)'
  <2>1. SameRecs
    BY <1>3, <1>4, <1>8 DEF SameRecs
  <2>2. Ordered(D)
    BY <1>12 DEF IsLog, Recorded
  <2>3. Ordered(E)'
    <3>. DEFINE d == 0
    <3>1. d \in Nat /\ \A i \in DOMAIN E : d + i \in DOMAIN D /\ E[i] = D[d + i]
      BY <1>16
    <3>. HIDE DEF d
    <3>. QED  BY <2>1, <2>2, <3>1, OrderKeeps
  <2>4. Recent(E)'
    BY <1>10 DEF Recent, Opened
  <2>5. \A i : ~CurrentIn(rec', crashes', i)
    BY <1>1 DEF ZilInv, RecInv, IsRec, CurrentIn
  <2>6. Reached(E)'
    BY <2>5 DEF Reached, Current
  <2>. QED  BY <2>3, <2>4, <2>6 DEF Recorded
<1>14. CASE D = <<>>
  <2>1. zh_disk.log = NULL
    BY <1>13, <1>14 DEF First
  <2>2. DOMAIN D = {} /\ Len(D) = 0 /\ 0 \in 0 .. 0 /\ ~(0 < 0) /\ 1 .. 0 = {}
    BY <1>14
  <2>3. Linked(D)'
    BY <2>2 DEF Linked
  <2>4. Headed(D, 0)'
    BY <1>1, <1>14, <2>1, <2>2 DEF Headed, First
  <2>5. Listed(D, 0)' /\ Pending(D, 0)'
    BY <1>10, <2>2 DEF Listed, Pending
  <2>6. ASSUME ~LogErrors
        PROVE  Written(D)'
    <3>1. \A b \in Blocks : ~OnDisk(b)
      BY <1>12, <2>2, <2>6, OnDiskInLog
    <3>2. \A b \in Blocks : b \notin here
      BY <1>7, <2>1, <3>1, ChainNull
    <3>3. \A b \in Blocks : blk'[b].birth = 0
      BY <1>3, <1>8, <3>2
    <3>. QED  BY <2>2, <3>3 DEF Written
  <2>7. IsLog(D, 0)'
    BY <1>1, <1>16, <2>1, <2>3, <2>4, <2>5, <2>6 DEF IsLog
  <2>. QED  BY <1>9, <1>11, <2>7 DEF ChainInv
<1>15. CASE D # <<>>
  <2>1. PICK m \in DOMAIN D : Visits(f, D, m)
    BY <1>5, <1>13, <1>15, ImageChain
  <2>2. DOMAIN D = 1 .. Len(D) /\ \A i \in DOMAIN D : D[i] \in Blocks
    OBVIOUS
  <2>3. Len(D) \in Nat /\ m \in 1 .. Len(D) /\ m \in Nat /\ 0 < m
    BY <2>1, <2>2
  <2>4. \A i \in 1 .. m : i \in 1 .. Len(D) /\ (i < m => i \in 1 .. m - 1 /\ i + 1 \in 1 .. m)
    BY <2>3
  <2>. DEFINE E == SubSeq(D, 1, m)
  <2>5. E \in Seq(Blocks) /\ Len(E) = m /\ \A i \in 1 .. m : E[i] = D[i]
    <3>1. 1 \in Nat /\ 1 \in 1 .. Len(D) + 1 /\ m <= Len(D)
      BY <2>3
    <3>. QED  BY <2>2, <2>3, <2>4, <3>1
  <2>6. DOMAIN E = 1 .. m
    BY <2>5
  <2>. HIDE DEF E
  <2>7. \A i \in 1 .. m : D[i] \in Blocks /\ D[i] \in here /\ blk'[D[i]] = f[D[i]]
    <3>1. zh_disk.log = D[1]
      BY <1>13, <1>15 DEF First
    <3>2. \A i \in 1 .. m : D[i] \in Blocks
      BY <2>2, <2>4
    <3>3. \A i \in 1 .. m : D[i] \in Range(Chain(f, zh_disk.log))
      BY <2>1, <3>1 DEF Visits
    <3>. QED  BY <1>6, <1>7, <3>2, <3>3
  <2>8. /\ ~Valid(f, D[m])
        /\ \A i \in 1 .. m - 1 : Valid(f, D[i]) /\ f[D[i]].next = D[i + 1]
    BY <2>1 DEF Visits, EndsAt
  <2>9. Linked(E)'
    <3>1. \A i, j \in DOMAIN E : E[i] = E[j] => i = j
      BY <1>13, <2>2, <2>4, <2>5, <2>6 DEF Linked
    <3>2. ASSUME NEW i \in DOMAIN E
          PROVE  /\ blk'[E[i]].birth # 0
                 /\ i < Len(E) => blk'[E[i]].next = E[i + 1]
                 /\ i = Len(E) => ~LiveIn(blk', E[i])
      <4>1. i \in 1 .. m /\ E[i] = D[i] /\ i \in DOMAIN D
        BY <2>2, <2>4, <2>5, <2>6
      <4>2. blk'[E[i]] = f[D[i]] /\ D[i] \in Blocks
        BY <2>7, <4>1
      <4>3. blk'[E[i]].birth # 0
        BY <1>4, <1>13, <4>1, <4>2 DEF Linked
      <4>4. ASSUME i < Len(E)
            PROVE  blk'[E[i]].next = E[i + 1]
        <5>1. i \in 1 .. m - 1 /\ i + 1 \in 1 .. m
          BY <2>4, <2>5, <4>1, <4>4
        <5>. QED  BY <2>5, <2>8, <4>2, <5>1
      <4>5. ASSUME i = Len(E)
            PROVE  ~LiveIn(blk', E[i])
        <5>1. ~Valid(f, D[i])
          BY <2>5, <2>8, <4>5
        <5>2. f[D[i]].io = "done" /\ f[D[i]].content \in {"disk", "none"}
          BY <1>4, <4>2
        <5>. QED  BY <4>2, <5>1, <5>2 DEF LiveIn, Valid
      <4>. QED  BY <4>3, <4>4, <4>5
    <3>. QED  BY <2>5, <3>1, <3>2 DEF Linked, Live
  <2>10. Headed(E, 0)'
    <3>1. E # <<>> /\ E[1] = D[1] /\ 0 + 1 = 1
      BY <2>3, <2>5
    <3>2. 0 \in 0 .. Len(E) /\ 1 .. 0 = {} /\ 0 # Len(E)
      BY <2>3, <2>5
    <3>3. zh_disk.log = E[1]
      BY <1>13, <1>15, <3>1 DEF First
    <3>. QED  BY <1>1, <3>1, <3>2, <3>3 DEF Headed, First
  <2>11. \A i \in DOMAIN E : /\ blk'[E[i]].freed = 0 /\ blk'[E[i]].io = "done"
                             /\ i < Len(E) => blk'[E[i]].content = "disk"
    <3>. SUFFICES ASSUME NEW i \in DOMAIN E
                  PROVE  /\ blk'[E[i]].freed = 0 /\ blk'[E[i]].io = "done"
                         /\ i < Len(E) => blk'[E[i]].content = "disk"
      OBVIOUS
    <3>1. i \in 1 .. m /\ blk'[E[i]] = f[D[i]] /\ D[i] \in Blocks
      BY <2>5, <2>6, <2>7
    <3>2. i < Len(E) => Valid(f, D[i])
      BY <2>4, <2>5, <2>8, <3>1
    <3>. QED  BY <1>4, <3>1, <3>2 DEF Valid
  <2>12. Listed(E, 0)' /\ Pending(E, 0)'
    BY <1>10, <2>11 DEF Listed, Pending
  <2>13. ASSUME ~LogErrors
         PROVE  Written(E)'
    <3>1. ASSUME NEW b \in Blocks, blk'[b].birth # 0
          PROVE  \E i \in DOMAIN E : b = E[i]
      <4>1. b \in here
        BY <1>3, <1>8, <3>1
      <4>2. zh_disk.log = D[1]
        BY <1>13, <1>15 DEF First
      <4>3. b \in {D[i] : i \in 1 .. m}
        <5>1. CASE OnDisk(b)
          BY <1>5, <1>12, <2>1, <2>13, <5>1, OnDiskVisited
        <5>2. CASE b \in Range(Chain(f, zh_disk.log))
          BY <2>1, <4>2, <5>2 DEF Visits
        <5>. QED  BY <1>7, <4>1, <5>1, <5>2
      <4>. QED  BY <2>5, <2>6, <4>3
    <3>. QED  BY <2>11, <3>1 DEF Written, Issued, IssuedIn
  <2>14. \A h \in {zh', zh_disk'} : h.log # NULL /\ h.claim_txg # 0 /\ ~h.needed => Len(E) <= 1
    <3>1. Len(D) <= 1 => Len(E) <= 1
      BY <2>3, <2>5
    <3>. QED  BY <1>1, <1>12, <3>1 DEF IsLog
  <2>15. IsLog(E, 0)'
    <3>1. \A i \in DOMAIN E : i \in DOMAIN D /\ E[i] = D[i]
      BY <2>2, <2>4, <2>5, <2>6
    <3>2. Recorded(E)'
      BY <1>16, <2>5, <3>1
    <3>. QED  BY <2>9, <2>10, <2>12, <2>13, <2>14, <3>2 DEF IsLog
  <2>. QED  BY <1>9, <1>11, <2>5, <2>15 DEF ChainInv
<1>. QED  BY <1>14, <1>15

----------------------------------------------------------------------------
\* The records in the blocks.

\* The log writer adds its record to a block, or to one that it has just got.
WritesRecord ==
  \E b \in Blocks : \E s \in {blk[b].recs, <<>>} :
    /\ w.lwb # NULL /\ \E t \in Procs : p[t].pc = "log"
    /\ blk'[b].recs = Append(s, [itx |-> w.itx, seq |-> zl.lr_seq + 1])
    /\ zl'.lr_seq = zl.lr_seq + 1 /\ zl'.itx = zl.itx /\ \A u \in Procs : p'[u].pc # "log"
    /\ \A c \in Blocks : c # b => blk'[c].recs = blk[c].recs

RecsStep == WritesRecord \/ (SameRecs /\ zl'.lr_seq \in {zl.lr_seq, 0})

\* A step of zil_commit_writer() or of a caller that leaves the blocks alone.
LEMMA IdleRecs ==
  ASSUME ZilInv, UNCHANGED blk, zl'.lr_seq = zl.lr_seq
  PROVE  RecsStep
BY DEF RecsStep, SameRecs

\* zil_commit() and what follows its wake-up log nothing themselves.
LEMMA CommitRecs ==
  ASSUME ZilInv, NEW t \in Procs,
         \/ zil_commit_wakeup(t) \/ zil_created(t) \/ TakeItx(t) \/ RecordSynced(t)
         \/ WaitForSync(t) \/ (\E f, seq : zil_commit(t, f, seq))
  PROVE  RecsStep
<1>1. IsZl(zl)
  BY DEF ZilInv, ShapeInv
<1>2. ASSUME NEW q, BecomeWriter(t, q)
      PROVE  zl'.lr_seq = zl.lr_seq
  BY <1>1, <1>2 DEF BecomeWriter, IsZl
<1>3. ASSUME Publish(t)
      PROVE  zl'.lr_seq = zl.lr_seq
  BY <1>1, <1>3 DEF Publish, IsZl
<1>4. CASE zil_commit_wakeup(t)
  BY <1>2, <1>4, IdleRecs DEF zil_commit_wakeup
<1>5. CASE zil_created(t) \/ RecordSynced(t)
  BY <1>5, IdleRecs DEF zil_created, RecordSynced
<1>6. CASE TakeItx(t)
  <2>. DEFINE s == RemoveItx(zl.itx, NextItx(t))
  <2>1. UNCHANGED blk /\ zl' = [zl EXCEPT !.itx = s]
    BY <1>6 DEF TakeItx
  <2>. HIDE DEF s
  <2>2. zl'.lr_seq = zl.lr_seq
    BY <1>1, <2>1 DEF IsZl
  <2>. QED  BY <2>1, <2>2, IdleRecs
<1>7. CASE WaitForSync(t)
  BY <1>3, <1>7, IdleRecs DEF WaitForSync
<1>8. ASSUME NEW f, NEW seq, zil_commit(t, f, seq)
      PROVE  RecsStep
  <2>. DEFINE q == [p EXCEPT ![t].seq = seq, ![t].foid = f]
  <2>1. UNCHANGED blk /\ (UNCHANGED zl \/ BecomeWriter(t, q))
    BY <1>8 DEF zil_commit
  <2>. HIDE DEF q
  <2>. QED  BY <1>2, <2>1, IdleRecs
<1>. QED  BY <1>4, <1>5, <1>6, <1>7, <1>8

\* zil_lwb_commit() logs a record.
LEMMA zil_lwb_commitRecs ==
  ASSUME ZilInv, NEW t \in Procs, zil_lwb_commit(t)
  PROVE  RecsStep
<1>1. p[t].pc = "log" /\ Current(w.itx)
  BY DEF zil_lwb_commit, ZilInv, RecInv
<1>2. IsZl(zl) /\ DOMAIN blk = Blocks /\ \A b \in Blocks : IsBlk(blk[b])
  BY DEF ZilInv, ShapeInv
<1>6. ASSUME NEW f, NEW b, LogRecord(t, f, b)
      PROVE  zl'.itx = zl.itx /\ \A u \in Procs : p'[u].pc # "log"
  <2>. DEFINE s == IF b = w.lwb THEN zl.lwb ELSE Append(zl.lwb, b)
  <2>1. zl' = [zl EXCEPT !.lr_seq = @ + 1, !.lwb = s] \/ zl' = [zl EXCEPT !.lwb = s]
    BY <1>6 DEF LogRecord
  <2>. HIDE DEF s
  <2>2. zl'.itx = zl.itx
    BY <1>2, <2>1 DEF IsZl
  <2>3. \A u \in Procs : u # t => p[u].pc # "log"
    BY <1>1, OneWriter DEF LoopPcs, WriterPcs
  <2>4. DOMAIN p = Procs /\ IsProc(p[t])
    BY DEF ZilInv, ShapeInv
  <2>5. \/ p' = [p EXCEPT ![t].pc = "recWait", ![t].txg = rec[w.itx].txg]
        \/ p' = [p EXCEPT ![t].pc = "push"]
    BY <1>6 DEF LogRecord
  <2>6. \A u \in Procs : u # t => p'[u] = p[u]
    BY <2>4, <2>5
  <2>7. p'[t].pc # "log"
    BY <2>4, <2>5 DEF IsProc
  <2>. QED  BY <2>2, <2>3, <2>6, <2>7
<1>3. CASE UNCHANGED <<zl, blk>>
  BY <1>3, IdleRecs
<1>4. CASE w.lwb # NULL /\ LogRecord(t, blk, w.lwb)
  <2>1. w.lwb \in Blocks
    BY <1>4 DEF ZilInv, ShapeInv, IsWriter
  <2>2. Adds(w.lwb, blk[w.lwb].recs)
    BY <1>1, <1>2, <1>4, <2>1, LogRecordLinks
  <2>3. \A c \in Blocks : c # w.lwb => blk'[c] = blk[c]
    BY <1>2, <1>4, <2>1 DEF LogRecord, AddRecord
  <2>. QED  BY <1>1, <1>4, <1>6, <2>1, <2>2, <2>3 DEF Adds, RecsStep, WritesRecord, SameRecs
<1>5. ASSUME w.lwb # NULL, NEW n \in Alloc,
             IF n # NULL THEN LogRecord(t, Start(w.lwb, n), n)
             ELSE blk' = Start(w.lwb, NULL) /\ UNCHANGED zl
      PROVE  RecsStep
  <2>. DEFINE f == Start(w.lwb, n)
  <2>1. /\ DOMAIN f = Blocks /\ \A c \in Blocks : IsBlk(f[c])
        /\ \A c \in Blocks : c \notin {w.lwb, n} => f[c] = blk[c]
        /\ n # NULL => n \in Blocks /\ n # w.lwb
    BY <1>5, StartFact
  <2>2. f[w.lwb].recs = blk[w.lwb].recs /\ (n # NULL => f[n].recs = <<>>)
    BY <1>5, StartLinks DEF StartsLink
  <2>3. n = NULL => blk' = f /\ UNCHANGED zl
    BY <1>5
  <2>4. n # NULL => LogRecord(t, f, n)
    BY <1>5
  <2>. HIDE DEF f
  <2>5. \A c \in Blocks : c # n => f[c].recs = blk[c].recs
    BY <2>1, <2>2
  <2>6. CASE n = NULL
    BY <2>3, <2>5, <2>6, NullFact DEF RecsStep, SameRecs
  <2>7. CASE n # NULL
    <3>1. Adds(n, <<>>)
      BY <1>1, <1>2, <2>1, <2>2, <2>4, <2>7, LogRecordLinks
    <3>2. \A c \in Blocks : c # n => blk'[c] = f[c]
      BY <2>1, <2>4, <2>7 DEF LogRecord, AddRecord
    <3>3. \A c \in Blocks : c # n => blk'[c].recs = blk[c].recs
      BY <2>5, <3>2
    <3>4. zl'.itx = zl.itx /\ \A u \in Procs : p'[u].pc # "log"
      BY <1>6, <2>4, <2>7
    <3>. QED  BY <1>1, <1>5, <2>1, <2>7, <3>1, <3>3, <3>4 DEF Adds, RecsStep, WritesRecord, SameRecs
  <2>. QED  BY <2>6, <2>7
<1>. QED  BY <1>3, <1>4, <1>5 DEF zil_lwb_commit

\* The last block of a commit is issued with what it holds.
LEMMA WriteLastRecs ==
  ASSUME ZilInv, NEW t \in Procs, WriteLast(t)
  PROVE  RecsStep
<1>1. CASE UNCHANGED <<zl, blk>>
  BY <1>1, IdleRecs
<1>2. ASSUME w.lwb # NULL, NEW n \in Alloc, blk' = Start(w.lwb, n),
             zl' = IF n = NULL THEN zl ELSE [zl EXCEPT !.lwb = Append(@, n)]
      PROVE  RecsStep
  <2>. DEFINE s == Append(zl.lwb, n)
  <2>1. zl' = zl \/ zl' = [zl EXCEPT !.lwb = s]
    BY <1>2
  <2>. HIDE DEF s
  <2>2. zl'.lr_seq = zl.lr_seq
    BY <2>1 DEF ZilInv, ShapeInv, IsZl
  <2>3. /\ \A c \in Blocks : c \notin {w.lwb, n} => blk'[c] = blk[c]
        /\ n # NULL => n \in Blocks
    BY <1>2, StartFact
  <2>4. blk'[w.lwb].recs = blk[w.lwb].recs /\ (n # NULL => blk'[n].recs = <<>>)
    BY <1>2, StartLinks DEF StartsLink
  <2>. QED  BY <2>2, <2>3, <2>4, NullFact DEF RecsStep, SameRecs
<1>. QED  BY <1>1, <1>2 DEF WriteLast

\* zil_create() wipes the block that was kept, or gets an empty one.
LEMMA zil_createRecs ==
  ASSUME ZilInv, NEW t \in Procs, zil_create(t)
  PROVE  RecsStep
<1>1. DOMAIN blk = Blocks /\ IsZl(zl) /\ IsHeader(zh)
  BY DEF ZilInv, ShapeInv
<1>2. CASE UNCHANGED <<zl, blk>>
  BY <1>2, IdleRecs
<1>3. ASSUME NEW b \in Blocks, NEW x, x.recs = <<>>, blk' = [blk EXCEPT ![b] = x],
             zl' = [zl EXCEPT !.lwb = <<b>>]
      PROVE  RecsStep
  <2>1. zl'.lr_seq = zl.lr_seq
    BY <1>1, <1>3 DEF IsZl
  <2>. QED  BY <1>1, <1>3, <2>1 DEF RecsStep, SameRecs
<1>4. CASE zh.log # NULL
  <2>. DEFINE x == [NoBlk EXCEPT !.birth = blk[zh.log].birth]
  <2>1. x.recs = <<>> /\ zh.log \in Blocks
    BY <1>1, <1>4 DEF NoBlk, IsHeader
  <2>2. blk' = [blk EXCEPT ![zh.log] = x] /\ zl' = [zl EXCEPT !.lwb = <<zh.log>>]
    BY <1>4 DEF zil_create
  <2>. HIDE DEF x
  <2>. QED  BY <1>3, <2>1, <2>2
<1>5. CASE zh.log = NULL
  <2>1. PICK n \in Alloc :
          IF n = NULL THEN UNCHANGED <<zl, blk>>
          ELSE zl' = [zl EXCEPT !.lwb = <<n>>] /\ blk' = [blk EXCEPT ![n] = NewLwb(n, open)]
    BY <1>5 DEF zil_create
  <2>2. n # NULL => n \in Blocks
    BY DEF Alloc
  <2>3. NewLwb(n, open).recs = <<>>
    BY DEF NewLwb, NoBlk
  <2>. QED  BY <1>2, <1>3, <2>1, <2>2, <2>3
<1>. QED  BY <1>4, <1>5

\* zil_destroy() and zil_sync() free blocks with what they hold.
LEMMA FreeRecs ==
  ASSUME ZilInv, NEW X, NEW g
  PROVE  \A b \in Blocks : FreeBlocks(X, g)[b].recs = blk[b].recs
<1>1. \A b \in Blocks : IsBlk(blk[b])
  BY DEF ZilInv, ShapeInv
<1>. QED  BY <1>1 DEF FreeBlocks, IsBlk

\* So what zil_destroy() changes in zl is not zl_lr_seq.
LEMMA DestroyRecs ==
  ASSUME ZilInv, NEW keep, NEW z, IsZl(z), Destroy(keep, z)
  PROVE  SameRecs /\ zl'.lr_seq = z.lr_seq
         /\ (zh.log # NULL => zl'.destroy_txg = open /\ zl'.keep_first = keep)
<1>1. CASE zh.log = NULL
  BY <1>1 DEF Destroy, SameRecs
<1>2. CASE zh.log # NULL
  <2>. DEFINE X == IF zl.lwb # <<>> THEN Range(zl.lwb)
                   ELSE IF keep THEN {} ELSE Range(Chain(blk, zh.log))
  <2>1. blk' = FreeBlocks(X, open) /\ zl' = Destroyed(z, keep)
    BY <1>2 DEF Destroy
  <2>. HIDE DEF X
  <2>2. zl'.lr_seq = z.lr_seq /\ zl'.destroy_txg = open /\ zl'.keep_first = keep
    BY <2>1 DEF Destroyed, IsZl
  <2>. QED  BY <2>1, <2>2, FreeRecs DEF SameRecs
<1>. QED  BY <1>1, <1>2

\* Every step is one of these.
LEMMA RecsNext ==
  ASSUME ZilInv, [Next]_vars
  PROVE  RecsStep
<1>1. IsZl(zl) /\ DOMAIN blk = Blocks /\ \A b \in Blocks : IsBlk(blk[b])
  BY DEF ZilInv, ShapeInv
<1>2. ASSUME NEW t \in Procs, WaitForWrites(t)
      PROVE  RecsStep
  <2>1. blk' = Flushed /\ (UNCHANGED zl \/ Publish(t))
    BY <1>2 DEF WaitForWrites
  <2>2. zl'.lr_seq = zl.lr_seq
    BY <1>1, <2>1 DEF Publish, IsZl
  <2>. QED  BY <2>1, <2>2, FlushBlocks DEF RecsStep, SameRecs
<1>3. ASSUME NEW t \in Procs, CommitStep(t)
      PROVE  RecsStep
  BY <1>2, <1>3, CommitRecs, zil_createRecs, zil_lwb_commitRecs, WriteLastRecs DEF CommitStep
<1>4. ASSUME NEW t \in Suspenders, SuspendDestroy(t)
      PROVE  RecsStep
  <2>. DEFINE z == [zl EXCEPT !.suspending = FALSE]
  <2>1. Destroy(FALSE, z)
    BY <1>4 DEF SuspendDestroy
  <2>2. IsZl(z) /\ z.lr_seq = zl.lr_seq
    BY <1>1 DEF IsZl
  <2>. HIDE DEF z
  <2>. QED  BY <2>1, <2>2, DestroyRecs DEF RecsStep
<1>5. ASSUME NEW t \in Suspenders, zil_suspend(t) \/ SuspendStep(t)
      PROVE  RecsStep
  <2>0. t \in Procs
    BY NullFact
  <2>1. CASE zil_commit(t, 0, LastItx(0))
    BY <2>0, <2>1, CommitRecs
  <2>2. CASE SuspendDrain(t)
    BY <2>2, IdleRecs DEF SuspendDrain
  <2>3. CASE zil_resume(t)
    <3>1. UNCHANGED blk /\ zl' = [zl EXCEPT !.suspend = @ - 1]
      BY <2>3 DEF zil_resume
    <3>2. zl'.lr_seq = zl.lr_seq
      BY <1>1, <3>1 DEF IsZl
    <3>. QED  BY <3>1, <3>2, IdleRecs
  <2>4. CASE zil_suspend(t)
    <3>. DEFINE x == zl.suspending \/ zl.suspend = 0
    <3>1. UNCHANGED blk /\ zl' = [zl EXCEPT !.suspend = @ + 1, !.suspending = x]
      BY <2>4 DEF zil_suspend
    <3>. HIDE DEF x
    <3>2. zl'.lr_seq = zl.lr_seq
      BY <1>1, <3>1 DEF IsZl
    <3>. QED  BY <3>1, <3>2, IdleRecs
  <2>. QED  BY <1>4, <1>5, <2>1, <2>2, <2>3, <2>4 DEF SuspendStep
<1>6. ASSUME NEW t \in Threads,
             \/ (\E k \in Kinds : CallBegin(t, k)) \/ zil_itx_assign(t)
             \/ \E f, seq : zil_commit(t, f, seq)
      PROVE  RecsStep
  <2>0. t \in Procs
    BY NullFact
  <2>1. CASE \E k \in Kinds : CallBegin(t, k)
    BY <2>1, IdleRecs DEF CallBegin
  <2>2. CASE zil_itx_assign(t)
    <3>. DEFINE s == Append(zl.itx, Len(rec) + 1)
    <3>1. UNCHANGED blk /\ zl' = [zl EXCEPT !.itx = s]
      BY <2>2 DEF zil_itx_assign
    <3>. HIDE DEF s
    <3>2. zl'.lr_seq = zl.lr_seq
      BY <1>1, <3>1 DEF IsZl
    <3>. QED  BY <3>1, <3>2, IdleRecs
  <2>. QED  BY <1>6, <2>0, <2>1, <2>2, CommitRecs
<1>7. ASSUME NEW b \in Blocks, NEW ok \in BOOLEAN, zil_lwb_write_done(b, ok)
      PROVE  RecsStep
  <2>. DEFINE x == IF ok THEN "cache" ELSE "none"
  <2>1. blk' = [blk EXCEPT ![b] = [blk[b] EXCEPT !.io = "done", !.content = x]] /\ UNCHANGED zl
    BY <1>7 DEF zil_lwb_write_done
  <2>. HIDE DEF x
  <2>2. \A c \in Blocks : blk'[c].recs = blk[c].recs
    BY <1>1, <2>1 DEF IsBlk
  <2>. QED  BY <2>1, <2>2 DEF RecsStep, SameRecs
<1>8. CASE zil_itx_clean
  <2>. DEFINE synced == {n \in DOMAIN zl.itx : \A m \in 1 .. n : rec[zl.itx[m]].txg <= stable}
              s == SubSeq(zl.itx, Cardinality(synced) + 1, Len(zl.itx))
  <2>1. UNCHANGED blk /\ zl' = [zl EXCEPT !.clean = FALSE, !.itx = s]
    BY <1>8 DEF zil_itx_clean
  <2>. HIDE DEF s
  <2>2. zl'.lr_seq = zl.lr_seq
    BY <1>1, <2>1 DEF IsZl
  <2>. QED  BY <2>1, <2>2, IdleRecs
<1>9. CASE SyncStep
  <2>1. CASE zil_sync
    <3>. DEFINE l == Cardinality(Obsolete(stable + 1))
                X == {zl.lwb[n] : n \in 1 .. l}
    <3>1. /\ blk' = FreeBlocks(X, stable + 1)
          /\ \E s, f : zl' = [zl EXCEPT !.lwb = s, !.replayed = f]
      BY <2>1 DEF zil_sync
    <3>. HIDE DEF X
    <3>2. zl'.lr_seq = zl.lr_seq
      BY <1>1, <3>1 DEF IsZl
    <3>. QED  BY <3>1, <3>2, FreeRecs DEF RecsStep, SameRecs
  <2>2. CASE Stabilize
    <3>. DEFINE x == \/ zl.clean
                     \/ (stable + 1 \in dirty /\ zl.itx # <<>> /\ rec[Head(zl.itx)].txg <= stable + 1)
    <3>1. /\ \A b \in Blocks : blk'[b] \in {NoBlk, Flushed[b]}
          /\ zl' = [zl EXCEPT !.clean = x]
      BY <2>2 DEF Stabilize
    <3>. HIDE DEF x
    <3>2. zl'.lr_seq = zl.lr_seq
      BY <1>1, <3>1 DEF IsZl
    <3>3. \A b \in Blocks : Flushed[b].recs = blk[b].recs
      BY FlushBlocks
    <3>4. NoBlk.recs = <<>>
      BY DEF NoBlk
    <3>. QED  BY <3>1, <3>2, <3>3, <3>4 DEF RecsStep, SameRecs
  <2>3. CASE Advance
    BY <2>3, IdleRecs DEF Advance
  <2>. QED  BY <1>9, <2>1, <2>2, <2>3 DEF SyncStep
<1>10. CASE ImportStep
  <2>1. CASE zil_claim
    <3>1. /\ UNCHANGED zl
          /\ \A b \in Blocks : blk'[b] \in {blk[b], [blk[b] EXCEPT !.birth = open]}
      <4>1. CASE zh.claim_txg = 0 /\ zh.log # NULL
        BY <2>1, <4>1 DEF zil_claim
      <4>2. CASE ~(zh.claim_txg = 0 /\ zh.log # NULL)
        BY <2>1, <4>2 DEF zil_claim
      <4>. QED  BY <4>1, <4>2
    <3>2. \A b \in Blocks : blk'[b].recs = blk[b].recs
      BY <1>1, <3>1 DEF IsBlk
    <3>. QED  BY <3>1, <3>2 DEF RecsStep, SameRecs
  <2>2. CASE zil_replay
    <3>1. CASE zh.needed
      BY <2>2, <3>1, IdleRecs DEF zil_replay
    <3>2. CASE ~zh.needed
      BY <1>1, <2>2, <3>2, DestroyRecs DEF zil_replay, RecsStep
    <3>. QED  BY <3>1, <3>2
  <2>3. CASE zil_replay_log_record
    <3>. DEFINE y == [zl.replayed EXCEPT ![open % TXG_SIZE] = Log[r.pos + 1].seq]
    <3>1. UNCHANGED blk /\ (zl' = zl \/ zl' = [zl EXCEPT !.replayed = y])
      BY <2>3 DEF zil_replay_log_record
    <3>. HIDE DEF y
    <3>2. zl'.lr_seq = zl.lr_seq
      BY <1>1, <3>1 DEF IsZl
    <3>. QED  BY <3>1, <3>2, IdleRecs
  <2>4. CASE ReplayDestroy
    BY <1>1, <2>4, DestroyRecs DEF ReplayDestroy, RecsStep
  <2>5. CASE ReplayDone
    BY <2>5, IdleRecs DEF ReplayDone
  <2>. QED  BY <1>10, <2>1, <2>2, <2>3, <2>4, <2>5 DEF ImportStep
<1>11. CASE Crash
  <2>1. PICK kept \in SUBSET Blocks :
          LET f == [b \in Blocks |->
                      [blk[b] EXCEPT !.freed = 0, !.max_txg = 0, !.io = "done",
                         !.content = IF b \in kept \/ @ = "disk" THEN "disk" ELSE "none"]]
              here == {b \in Blocks : OnDisk(b)} \cup Range(Chain(f, zh_disk.log))
          IN blk' = [b \in Blocks |-> IF b \in here THEN f[b] ELSE NoBlk]
    BY <1>11 DEF Crash
  <2>2. ASSUME NEW b \in Blocks
        PROVE  blk'[b].recs \in {blk[b].recs, <<>>}
    <3>. DEFINE x == IF b \in kept \/ blk[b].content = "disk" THEN "disk" ELSE "none"
    <3>1. blk'[b] = NoBlk \/ blk'[b] = [blk[b] EXCEPT !.freed = 0, !.max_txg = 0, !.io = "done",
                                          !.content = x]
      BY <2>1
    <3>. HIDE DEF x
    <3>2. IsBlk(blk[b])
      BY <1>1
    <3>3. NoBlk.recs = <<>>
      BY DEF NoBlk
    <3>. QED  BY <3>1, <3>2, <3>3 DEF IsBlk
  <2>3. zl'.lr_seq = 0
    BY <1>11 DEF Crash, NoLog
  <2>. QED  BY <2>2, <2>3 DEF RecsStep, SameRecs
<1>12. CASE UNCHANGED vars
  BY <1>12, IdleRecs DEF vars
<1>. QED  BY <1>3, <1>5, <1>6, <1>7, <1>8, <1>9, <1>10, <1>11, <1>12 DEF Next

\* Records are only added.
LEMMA RecNext ==
  ASSUME ZilInv, [Next]_vars
  PROVE  \/ rec' = rec
         \/ /\ Len(rec') = Len(rec) + 1 /\ \A i \in 1 .. Len(rec) : rec'[i] = rec[i]
            /\ crashes' = crashes /\ mode' = mode
<1>1. ASSUME NEW t \in Threads, zil_itx_assign(t)
      PROVE  /\ Len(rec') = Len(rec) + 1 /\ \A i \in 1 .. Len(rec) : rec'[i] = rec[i]
             /\ crashes' = crashes /\ mode' = mode
  BY <1>1, AssignRec DEF zil_itx_assign, import_vars
<1>2. ASSUME NEW t \in Procs, CommitStep(t)
      PROVE  rec' = rec
  BY <1>2 DEF CommitStep, zil_commit_wakeup, zil_create, zil_created, TakeItx, zil_lwb_commit,
              RecordSynced, WriteLast, WaitForWrites, WaitForSync, fs_vars
<1>3. ASSUME NEW t \in Suspenders, zil_suspend(t) \/ SuspendStep(t)
      PROVE  rec' = rec
  BY <1>3 DEF SuspendStep, zil_suspend, zil_commit, SuspendDrain, SuspendDestroy, zil_resume, fs_vars
<1>4. ASSUME NEW t \in Threads,
             (\E k \in Kinds : CallBegin(t, k)) \/ \E f, seq : zil_commit(t, f, seq)
      PROVE  rec' = rec
  BY <1>4 DEF CallBegin, zil_commit, fs_vars
<1>5. CASE SyncStep \/ ImportStep \/ Crash \/ zil_itx_clean
  BY <1>5 DEF SyncStep, ImportStep, zil_sync, Stabilize, Advance, zil_claim, zil_replay,
              zil_replay_log_record, ReplayDestroy, ReplayDone, Crash, zil_itx_clean, fs_vars
<1>6. ASSUME NEW b \in Blocks, NEW ok \in BOOLEAN, zil_lwb_write_done(b, ok)
      PROVE  rec' = rec
  BY <1>6 DEF zil_lwb_write_done, fs_vars
<1>7. CASE UNCHANGED vars
  BY <1>7 DEF vars, fs_vars
<1>. QED  BY <1>1, <1>2, <1>3, <1>4, <1>5, <1>6, <1>7 DEF Next

\* While the import waits for the log to be destroyed, nobody else destroys one.
LEMMA WaitNext ==
  ASSUME ZilInv, [Next]_vars, mode' = "replayed"
  PROVE  r'.txg = zl'.destroy_txg \/ (mode = "replayed" /\ r' = r /\ zl'.destroy_txg = zl.destroy_txg)
<1>. DEFINE Goal == mode = "replayed" /\ r' = r /\ zl'.destroy_txg = zl.destroy_txg
<1>1. IsZl(zl) /\ \A t \in Procs : mode # "up" => p[t].pc = "idle"
  BY DEF ZilInv, ShapeInv, WriterInv, Idle
<1>2. ASSUME NEW t \in Procs, p[t].pc # "idle", UNCHANGED mode
      PROVE  Goal
  BY <1>1, <1>2
<1>3. ASSUME NEW t \in Procs, CommitStep(t)
      PROVE  Goal
  BY <1>2, <1>3 DEF CommitStep, zil_commit_wakeup, zil_create, zil_created, TakeItx, zil_lwb_commit,
              RecordSynced, WriteLast, WaitForWrites, WaitForSync, import_vars
<1>4. ASSUME NEW t \in Suspenders, zil_suspend(t) \/ SuspendStep(t)
      PROVE  Goal
  <2>1. t \in Procs
    BY NullFact
  <2>2. CASE zil_suspend(t) \/ zil_commit(t, 0, LastItx(0))
    BY <2>2 DEF zil_suspend, zil_commit, import_vars
  <2>3. CASE SuspendDrain(t) \/ SuspendDestroy(t) \/ zil_resume(t)
    BY <1>2, <2>1, <2>3 DEF SuspendDrain, SuspendDestroy, zil_resume, import_vars
  <2>. QED  BY <1>4, <2>2, <2>3 DEF SuspendStep
<1>5. ASSUME NEW t \in Threads,
             \/ (\E k \in Kinds : CallBegin(t, k)) \/ zil_itx_assign(t)
             \/ \E f, seq : zil_commit(t, f, seq)
      PROVE  Goal
  <2>1. t \in Procs
    BY NullFact
  <2>2. CASE zil_itx_assign(t)
    BY <1>2, <2>1, <2>2 DEF zil_itx_assign, import_vars
  <2>. QED  BY <1>5, <2>2 DEF CallBegin, zil_commit, import_vars
<1>6. ASSUME NEW b \in Blocks, NEW ok \in BOOLEAN, zil_lwb_write_done(b, ok)
      PROVE  Goal
  BY <1>6 DEF zil_lwb_write_done, import_vars
<1>7. ASSUME NEW s, NEW f, zl' = [zl EXCEPT !.clean = f, !.itx = s], UNCHANGED <<mode, r>>
      PROVE  Goal
  BY <1>1, <1>7 DEF IsZl
<1>8. CASE zil_itx_clean
  BY <1>7, <1>8 DEF zil_itx_clean, import_vars
<1>9. CASE SyncStep
  <2>1. CASE zil_sync
    <3>1. (\E s, f : zl' = [zl EXCEPT !.lwb = s, !.replayed = f]) /\ UNCHANGED <<mode, r>>
      BY <2>1 DEF zil_sync, import_vars
    <3>. QED  BY <1>1, <3>1 DEF IsZl
  <2>2. CASE Stabilize
    <3>1. (\E f : zl' = [zl EXCEPT !.clean = f]) /\ UNCHANGED <<mode, r>>
      BY <2>2 DEF Stabilize, import_vars
    <3>. QED  BY <1>1, <3>1 DEF IsZl
  <2>3. CASE Advance
    BY <2>3 DEF Advance, import_vars
  <2>. QED  BY <1>9, <2>1, <2>2, <2>3 DEF SyncStep
<1>10. CASE ImportStep \/ Crash
  <2>1. CASE ReplayDestroy
    <3>1. zh.log # NULL
      BY <2>1 DEF ReplayDestroy, ZilInv, DestroyInv
    <3>2. zl'.destroy_txg = open
      BY <1>1, <2>1, <3>1, DestroyRecs DEF ReplayDestroy
    <3>. QED  BY <2>1, <3>2 DEF ReplayDestroy
  <2>. QED  BY <1>10, <2>1 DEF ImportStep, zil_claim, zil_replay, zil_replay_log_record, ReplayDone,
                               Crash
<1>11. CASE UNCHANGED vars
  BY <1>11 DEF vars, import_vars
<1>. QED  BY <1>3, <1>4, <1>5, <1>6, <1>8, <1>9, <1>10, <1>11 DEF Next

\* So the blocks hold what they may.
LEMMA BookNext ==
  ASSUME ZilInv, BookInv, [Next]_vars
  PROVE  BookInv'
<1>1. Len(rec) \in Nat /\ DOMAIN rec = 1 .. Len(rec) /\ zl.lr_seq \in Nat
  BY DEF ZilInv, RecInv, BookInv
<1>2. Len(rec') \in Nat /\ Len(rec) <= Len(rec')
  BY <1>1, RecNext
<1>3. mode' = "replayed" => r'.txg = zl'.destroy_txg
  BY WaitNext DEF BookInv
<1>4. \A b \in Blocks : /\ blk[b].recs \in Seq(Entries)
                         /\ \A n \in DOMAIN blk[b].recs : blk[b].recs[n].itx \in 1 .. Len(rec')
  BY <1>1, <1>2 DEF BookInv
<1>5. CASE SameRecs /\ zl'.lr_seq \in {zl.lr_seq, 0}
  <2>1. \A b \in Blocks : /\ blk'[b].recs \in Seq(Entries)
                           /\ \A n \in DOMAIN blk'[b].recs : blk'[b].recs[n].itx \in 1 .. Len(rec')
    <3>. SUFFICES ASSUME NEW b \in Blocks
                  PROVE  /\ blk'[b].recs \in Seq(Entries)
                         /\ \A n \in DOMAIN blk'[b].recs : blk'[b].recs[n].itx \in 1 .. Len(rec')
      OBVIOUS
    <3>1. CASE blk'[b].recs = blk[b].recs
      BY <1>4, <3>1
    <3>2. CASE blk'[b].recs = <<>>
      BY <3>2
    <3>. QED  BY <1>5, <3>1, <3>2 DEF SameRecs
  <2>. QED  BY <1>1, <1>3, <1>5, <2>1 DEF BookInv
<1>6. CASE WritesRecord
  <2>0. PICK b \in Blocks : \E s \in {blk[b].recs, <<>>} :
          /\ \E t \in Procs : p[t].pc = "log"
          /\ blk'[b].recs = Append(s, [itx |-> w.itx, seq |-> zl.lr_seq + 1])
          /\ zl'.lr_seq = zl.lr_seq + 1
          /\ \A c \in Blocks : c # b => blk'[c].recs = blk[c].recs
    BY <1>6 DEF WritesRecord
  <2>1. PICK s \in {blk[b].recs, <<>>} :
          /\ \E t \in Procs : p[t].pc = "log"
          /\ blk'[b].recs = Append(s, [itx |-> w.itx, seq |-> zl.lr_seq + 1])
          /\ zl'.lr_seq = zl.lr_seq + 1
          /\ \A c \in Blocks : c # b => blk'[c].recs = blk[c].recs
    BY <2>0
  <2>. DEFINE x == [itx |-> w.itx, seq |-> zl.lr_seq + 1]
  <2>2. w.itx \in 1 .. Len(rec)
    BY <2>1 DEF ZilInv, RecInv, Current, CurrentIn
  <2>3. x \in Entries /\ x.itx \in 1 .. Len(rec')
    BY <1>1, <1>2, <2>2 DEF Entries
  <2>4. blk'[b].recs = Append(s, x)
    BY <2>1
  <2>. HIDE DEF x
  <2>5. s \in Seq(Entries) /\ \A n \in DOMAIN s : s[n].itx \in 1 .. Len(rec')
    <3>1. CASE s = blk[b].recs
      BY <1>4, <3>1
    <3>2. CASE s = <<>>
      BY <3>2
    <3>. QED  BY <3>1, <3>2
  <2>6. /\ blk'[b].recs \in Seq(Entries)
        /\ \A n \in DOMAIN blk'[b].recs : blk'[b].recs[n].itx \in 1 .. Len(rec')
    BY <2>3, <2>4, <2>5
  <2>7. \A c \in Blocks : /\ blk'[c].recs \in Seq(Entries)
                           /\ \A n \in DOMAIN blk'[c].recs : blk'[c].recs[n].itx \in 1 .. Len(rec')
    BY <1>4, <2>1, <2>6
  <2>. QED  BY <1>1, <1>3, <2>1, <2>7 DEF BookInv
<1>. QED  BY <1>5, <1>6, RecsNext DEF RecsStep

\* At the first mount there are none.
LEMMA BookInit == Init => BookInv
<1>. SUFFICES ASSUME Init
              PROVE  BookInv
  OBVIOUS
<1>1. zl.lr_seq = 0 /\ mode = "up" /\ \A b \in Blocks : blk[b].recs = <<>>
  BY DEF Init, NoLog, NoBlk
<1>2. <<>> \in Seq(Entries) /\ DOMAIN <<>> = {}
  OBVIOUS
<1>3. \A b \in Blocks : /\ blk[b].recs \in Seq(Entries)
                       /\ \A n \in DOMAIN blk[b].recs : blk[b].recs[n].itx \in 1 .. Len(rec)
  BY <1>1, <1>2
<1>. QED  BY <1>1, <1>3 DEF BookInv

\* The blocks of the log hold records that there are, whatever crashes and
\* replays there have been.
THEOREM ZilBook == Spec => []BookInv
<1>1. ZilInv /\ BookInv /\ [Next]_vars => BookInv'
  BY BookNext
<1>. QED  BY <1>1, BookInit, ZilInvariant, PTL DEF Spec

----------------------------------------------------------------------------
\* The invariant, and what follows from it.

\* At the first mount there is no log.
LEMMA ChainInit == Init => ChainInv
<1>. SUFFICES ASSUME Init
              PROVE  ChainInv
  OBVIOUS
<1>1. /\ stable = 0 /\ ~zsynced /\ zl.lwb = <<>> /\ zh.log = NULL /\ zh_disk.log = NULL
      /\ mode = "up"
  BY DEF Init, NoLog, NoHeader
<1>2. \A b \in Blocks : blk[b].birth = 0 /\ blk[b].content = "none" /\ blk[b].recs = <<>>
  BY DEF Init, NoBlk
<1>3. \A t \in Procs : p[t].pc = "idle"
  BY DEF Init, Idle
<1>4. OpenInv
  <2>1. Fresh(zh_disk)
    BY DEF Init, NoHeader, Fresh
  <2>. QED  BY <1>1, <1>2, <1>3, <2>1 DEF OpenInv
<1>. DEFINE D == <<>>
<1>5. D \in Seq(Blocks) /\ DOMAIN D = {} /\ Len(D) = 0 /\ 0 \in 0 .. 0 /\ ~(0 < 0) /\ 1 .. 0 = {}
      /\ First(D) = NULL
  BY DEF First
<1>. HIDE DEF D
<1>6. Linked(D) /\ Headed(D, 0) /\ Listed(D, 0) /\ Pending(D, 0) /\ Written(D)
  BY <1>1, <1>2, <1>5 DEF Linked, Headed, Listed, Pending, Written
<1>10. Recorded(D)
  BY <1>2, <1>5 DEF Recorded, Ordered, Recent, Reached
<1>7. IsLog(D, 0)
  BY <1>1, <1>6, <1>10 DEF IsLog
<1>. DEFINE k == 0
<1>8. k \in Nat /\ IsLog(D, k)
  BY <1>7
<1>. HIDE DEF k
<1>9. \E E \in Seq(Blocks), j \in Nat : IsLog(E, j)
  BY <1>5, <1>8
<1>. QED  BY <1>4, <1>9 DEF ChainInv

\* Every step keeps the invariant, and frees no block twice.
LEMMA ChainNext == ZilInv /\ BookInv /\ ChainInv /\ [Next]_vars => ChainInv' /\ FreesOnce
<1>. SUFFICES ASSUME ZilInv, BookInv, ChainInv, [Next]_vars
              PROVE  ChainInv' /\ FreesOnce
  OBVIOUS
<1>1. ASSUME NEW t \in Procs, CommitStep(t)
      PROVE  ChainInv' /\ FreesOnce
  BY <1>1, zil_commit_wakeupChain, zil_createChain, zil_createdChain, TakeItxChain,
     zil_lwb_commitChain, RecordSyncedChain, WriteLastChain, WaitForWritesChain,
     WaitForSyncChain DEF CommitStep
<1>2. ASSUME NEW t \in Suspenders, SuspendStep(t)
      PROVE  ChainInv' /\ FreesOnce
  <2>1. t \in Procs
    BY NullFact
  <2>. QED  BY <1>2, <2>1, zil_commitChain, SuspendDrainChain, SuspendDestroyChain,
               zil_resumeChain DEF SuspendStep
<1>3. CASE SyncStep
  BY <1>3, zil_syncChain, StabilizeChain, AdvanceChain DEF SyncStep
<1>4. CASE ImportStep
  BY <1>4, zil_claimChain, zil_replayChain, zil_replay_log_recordChain, ReplayDestroyChain,
     ReplayDoneChain DEF ImportStep
<1>5. ASSUME NEW t \in Threads, NEW f, NEW seq, zil_commit(t, f, seq)
      PROVE  ChainInv' /\ FreesOnce
  <2>1. t \in Procs
    BY NullFact
  <2>. QED  BY <1>5, <2>1, zil_commitChain
<1>6. CASE UNCHANGED vars
  <2>1. UNCHANGED <<stable, active, dirty, zsynced, zl, blk, zh, zh_disk, p, mode, rec, crashes>>
    BY <1>6 DEF vars, gc_vars, fs_vars, import_vars
  <2>2. \A t \in Procs : StillThread(t)
    BY <2>1 DEF StillThread
  <2>. QED  BY <2>1, <2>2, SameChain, SameRecords DEF SameLog
<1>. QED  BY <1>1, <1>2, <1>3, <1>4, <1>5, <1>6, CallBeginChain, zil_itx_assignChain,
             zil_suspendChain, zil_lwb_write_doneChain, zil_itx_cleanChain, CrashChain
          DEF Next

\* The inductive invariant of the chain holds always: from the header on disk on
\* there is a chain of allocated blocks whose end is in zl_lwb_list, is being
\* destroyed or waits for the import, across crashes and imports.
THEOREM ZilChain == Spec => []ChainInv
<1>1. ZilInv /\ BookInv /\ ChainInv /\ [Next]_vars => ChainInv'
  BY ChainNext
<1>. QED  BY <1>1, ChainInit, ZilInvariant, ZilBook, PTL DEF Spec

\* FreedOnce: zil_sync(), which frees blocks whose records are on disk, and
\* zil_destroy(), which frees the list or what it finds by zil_parse(), never free
\* a block that has been freed already.
THEOREM ZilFreedOnce == Spec => FreedOnce
<1>1. ZilInv /\ BookInv /\ ChainInv /\ [Next]_vars =>
        [\A b \in Blocks : blk[b].freed # 0 \/ blk[b] = NoBlk
            => blk'[b].freed \in {0, blk[b].freed}]_vars
  BY ChainNext DEF FreesOnce
<1>. QED  BY <1>1, ZilInvariant, ZilBook, ZilChain, PTL DEF Spec, FreedOnce

\* NoDangling: whatever log writes a crash lets through, zil_parse() finds only
\* allocated blocks from the header on disk on.
THEOREM ZilNoDangling == Spec => []NoDangling
<1>1. ZilInv /\ ChainInv => NoDangling
  <2>. SUFFICES ASSUME ZilInv, ChainInv
                PROVE  NoDangling
    OBVIOUS
  <2>. DEFINE f == Platter(TRUE)
  <2>1. Image(f)
    <3>. SUFFICES ASSUME NEW b \in Blocks
                  PROVE  /\ f[b].next = blk[b].next
                         /\ f[b].content = "disk" => blk[b].io = "issued" \/ blk[b].content # "none"
                         /\ blk[b].content = "disk" => f[b].content = "disk"
      BY DEF Image
    <3>1. IsBlk(blk[b])
      BY DEF ZilInv, ShapeInv
    <3>2. f[b] = [blk[b] EXCEPT !.content =
                    IF blk[b].content = "disk" \/ blk[b].content = "cache" \/ blk[b].io = "issued"
                    THEN "disk" ELSE "none"]
      BY DEF Platter
    <3>. QED  BY <3>1, <3>2 DEF IsBlk
  <2>. HIDE DEF f
  <2>2. PICK D \in Seq(Blocks), k \in Nat : IsLog(D, k)
    BY DEF ChainInv
  <2>3. Linked(D) /\ zh_disk.log = First(D)
    BY <2>2 DEF IsLog, Headed
  <2>4. \A b \in Range(Chain(f, zh_disk.log)) : \E i \in DOMAIN D : b = D[i]
    <3>1. CASE D = <<>>
      BY <2>3, <3>1, ChainNull DEF First
    <3>2. CASE D # <<>>
      <4>1. PICK m \in DOMAIN D : Visits(f, D, m)
        BY <2>1, <2>3, <3>2, ImageChain
      <4>2. DOMAIN D = 1 .. Len(D) /\ Len(D) \in Nat
        OBVIOUS
      <4>3. \A i \in 1 .. m : i \in DOMAIN D
        BY <4>2
      <4>. QED  BY <2>3, <3>2, <4>1, <4>3 DEF First, Visits
    <3>. QED  BY <3>1, <3>2
  <2>5. \A i \in DOMAIN D : blk[D[i]].birth # 0
    BY <2>3 DEF Linked
  <2>6. NoBlk.birth = 0
    BY DEF NoBlk
  <2>. QED  BY <2>4, <2>5, <2>6 DEF NoDangling, f
<1>. QED  BY <1>1, ZilInvariant, ZilChain, PTL

\* NoLeak: if log writes do not fail, what is allocated to the log on disk can be
\* reached from the header on disk, even if all writes in flight are lost: lwb_tx
\* holds the group that allocates a block until the block that points to it has
\* been written.
THEOREM ZilNoLeak ==
  ASSUME ~LogErrors
  PROVE  Spec => []NoLeak
<1>1. ZilInv /\ ChainInv => NoLeak
  <2>. SUFFICES ASSUME ZilInv, ChainInv, NEW b \in Blocks, OnDisk(b)
                PROVE  b \in Range(Chain(Platter(FALSE), zh_disk.log))
    BY DEF NoLeak
  <2>. DEFINE f == Platter(FALSE)
  <2>1. Image(f)
    <3>. SUFFICES ASSUME NEW c \in Blocks
                  PROVE  /\ f[c].next = blk[c].next
                         /\ f[c].content = "disk" => blk[c].io = "issued" \/ blk[c].content # "none"
                         /\ blk[c].content = "disk" => f[c].content = "disk"
      BY DEF Image
    <3>1. IsBlk(blk[c])
      BY DEF ZilInv, ShapeInv
    <3>2. f[c] = [blk[c] EXCEPT !.content = IF blk[c].content = "disk" THEN "disk" ELSE "none"]
      BY DEF Platter
    <3>. QED  BY <3>1, <3>2 DEF IsBlk
  <2>. HIDE DEF f
  <2>2. PICK D \in Seq(Blocks), k \in Nat : IsLog(D, k)
    BY DEF ChainInv
  <2>3. Linked(D) /\ zh_disk.log = First(D)
    BY <2>2 DEF IsLog, Headed
  <2>4. PICK i \in DOMAIN D : b = D[i]
    BY <2>2, OnDiskInLog
  <2>5. D # <<>>
    BY <2>4
  <2>6. PICK m \in DOMAIN D : Visits(f, D, m)
    BY <2>1, <2>3, <2>5, ImageChain
  <2>7. b \in {D[n] : n \in 1 .. m}
    BY <2>1, <2>2, <2>6, OnDiskVisited
  <2>. QED  BY <2>3, <2>5, <2>6, <2>7 DEF First, Visits, f
<1>. QED  BY <1>1, ZilInvariant, ZilChain, PTL

=============================================================================
