----------------------------- MODULE RangeLock -----------------------------
(***************************************************************************)
(* The byte-range locks of a file or volume, fs/zfs/zfs_rlock.c, and what  *)
(* write, append and truncate do to the file while they hold one.  Sizes   *)
(* are in units of SPA_MINBLOCKSIZE.                                       *)
(*                                                                         *)
(* z_range_lock makes each stretch between two sleeps one action; only the *)
(* broadcasts that follow its release are steps of their own.  The tree is *)
(* the set of its nodes, which the code keeps disjoint and sorted by       *)
(* offset.  A node that is somebody's own rl_t is named after the thread,  *)
(* a proxy after its offset.                                               *)
(***************************************************************************)
EXTENDS Naturals, FiniteSets, FiniteSetsExt

CONSTANTS
  Threads,
  NONE,           \* no node, for a thread that does not wait
  SPA_MAXBLOCKSIZE,
  Limit,          \* bound: the largest size of the file
  MaxLen,         \* bound: the longest request that is not the whole file
  Offs, Lens,     \* bound: the offsets and lengths of requests
  Ops             \* what the threads do, of AllOps

\* Larger than any offset plus any length that a caller passes.
UINT64_MAX == Limit + MaxLen

AllOps == {"read", "write", "append", "resize", "putpage"}

\* In C it holds of 0 too, which makes no difference where it is asked.
ISP2(n) == \E k \in 0 .. n : n = 2^k

\* A thread is not an offset.
ASSUME RangeAssumption ==
  /\ NONE \notin Threads /\ IsFiniteSet(Threads) /\ Threads \cap Nat = {}
  /\ SPA_MAXBLOCKSIZE \in Nat \ {0} /\ ISP2(SPA_MAXBLOCKSIZE)
  /\ Limit \in Nat \ {0} /\ MaxLen \in Nat \ {0}
  /\ Offs \subseteq 0 .. Limit - 1 /\ Lens \subseteq 1 .. MaxLen
  /\ Ops \subseteq AllOps

\* What z_max_blksz may be: blksz_changed_cb() takes the recordsize property, or
\* SPA_MAXBLOCKSIZE if that is no power of two.  It may run between any two
\* reads of z_max_blksz, which no lock protects: each finds one of these.
MaxBlksz == {n \in 1 .. SPA_MAXBLOCKSIZE : ISP2(n)}

VARIABLES
  z_vnode,          \* TRUE for a file, FALSE for the dummy znode of a zvol
  z_range_avl,      \* the nodes of the tree
  zp_size, z_blksz, \* size and block size of the file
  several,          \* it has had several blocks of that size
  rl,               \* rl[t]: the rl_t of t's call, with the caller's arguments
  wait,             \* wait[t]: the node on whose condition variable t sleeps
  pc

vars == <<z_vnode, z_range_avl, zp_size, z_blksz, several, rl, wait, pc>>

Offsets == 0 .. UINT64_MAX
Types == {"RL_READER", "RL_WRITER"}

End(n) == n.r_off + n.r_len

Node(i, off, len, cnt, type) ==
  [id |-> i, r_off |-> off, r_len |-> len, r_cnt |-> cnt, r_type |-> type,
   r_write_wanted |-> FALSE, r_read_wanted |-> FALSE]

Proxy(off, len, cnt) == Node(off, off, len, cnt, "RL_READER")

NoLock == [op |-> "none", off |-> 0, len |-> 0,
           r_off |-> 0, r_len |-> 0, r_cnt |-> 0,
           r_write_wanted |-> FALSE, r_read_wanted |-> FALSE]

Init ==
  /\ z_vnode \in BOOLEAN
  /\ z_range_avl = {}
  /\ zp_size = 0
  /\ z_blksz \in IF z_vnode THEN {0, 1} ELSE {0}
  /\ several = FALSE
  /\ rl = [t \in Threads |-> NoLock]
  /\ wait = [t \in Threads |-> NONE]
  /\ pc = [t \in Threads |-> "idle"]

\* A broadcast on the condition variables of the nodes of S, by t, which goes
\* on at p.
Broadcast(S, t, p) ==
  LET wr == {u \in Threads : pc[u] = "wrSleep" /\
               \E n \in S : n.id = wait[u] /\ n.r_write_wanted}
      rd == {u \in Threads : pc[u] = "rdSleep" /\
               \E n \in S : n.id = wait[u] /\ n.r_read_wanted}
  IN /\ pc' = [u \in Threads |-> IF u = t THEN p
                                 ELSE IF u \in wr THEN "wrWoken"
                                 ELSE IF u \in rd THEN "rdWoken" ELSE pc[u]]
     /\ wait' = [u \in Threads |-> IF u \in wr \cup rd THEN NONE ELSE wait[u]]

----------------------------------------------------------------------------
\* zfs_range_lock_writer()

\* The end of the file once the write is done.
EndSize(off, len) == Max({zp_size, off + len})

\* The range to lock: from the end of the file for an append, and all of it
\* if the block has to grow, max being z_max_blksz.
WriterRange(q, max) ==
  LET off == IF q.op = "append" THEN zp_size ELSE q.off
      grow == /\ EndSize(off, q.len) > z_blksz
              /\ ~ISP2(z_blksz) \/ z_blksz < max
  IN IF z_vnode /\ grow THEN <<0, UINT64_MAX>> ELSE <<off, q.len>>

\* avl_nearest()
Nearest(S, off) ==
  CHOOSE n \in S : \A m \in S : IF m.r_off > off THEN n.r_off <= m.r_off
                                                 ELSE n.r_off >= m.r_off

\* Fault: the node before the range is not looked at.
BlockerBefore_None(off) == {}

\* The nearest node that begins before off, if it reaches past it.
BlockerBefore(off) ==
  LET before == {n \in z_range_avl : n.r_off < off}
  IN IF before # {} /\ End(Nearest(before, off)) > off
     THEN {Nearest(before, off)} ELSE {}

\* The node that keeps a writer out, if any: the one at its offset, the next
\* one or the one before.
WriterBlockers(off, len) ==
  LET at == {n \in z_range_avl : n.r_off = off}
      after == {n \in z_range_avl : n.r_off > off}
  IN IF at # {} THEN at
     ELSE IF after # {} /\ Nearest(after, off).r_off < off + len
     THEN {Nearest(after, off)} ELSE BlockerBefore(off)

\* The writer takes the range r or sleeps on what keeps it out.  q is the call's
\* rl_t, with the offset and length it was made with.
WriterTry(t, q, r) ==
  LET blockers == WriterBlockers(r[1], r[2])
  IN IF blockers = {}
     THEN /\ z_range_avl' = z_range_avl \cup {Node(t, r[1], r[2], 1, "RL_WRITER")}
          /\ rl' = [rl EXCEPT ![t] = [q EXCEPT !.r_off = r[1], !.r_len = r[2],
                                               !.r_cnt = 1]]
          /\ pc' = [pc EXCEPT ![t] = "held"]
          /\ wait' = [wait EXCEPT ![t] = NONE]
     ELSE \E n \in blockers :
          /\ z_range_avl' = (z_range_avl \ {n})
                              \cup {[n EXCEPT !.r_write_wanted = TRUE]}
          /\ rl' = [rl EXCEPT ![t] = q]
          /\ pc' = [pc EXCEPT ![t] = "wrSleep"]
          /\ wait' = [wait EXCEPT ![t] = n.id]

WriterLoop(t, q) == \E max \in MaxBlksz : WriterTry(t, q, WriterRange(q, max))

----------------------------------------------------------------------------
\* zfs_range_lock_reader()

Overlapping(off, len) ==
  {n \in z_range_avl : n.r_off < off + len /\ off < End(n)}

\* The nodes of the range that a writer holds or waits for.
ReaderBlockers(off, len) ==
  {n \in Overlapping(off, len) : n.r_type = "RL_WRITER" \/ n.r_write_wanted}

\* zfs_range_split() of the node that x cuts in two, if there is one.
SplitAt(T, x) ==
  LET cut == {n \in T : n.r_off < x /\ x < End(n)}
  IN (T \ cut) \cup {Proxy(n.r_off, x - n.r_off, n.r_cnt) : n \in cut}
               \cup {Proxy(x, End(n) - x, n.r_cnt) : n \in cut}

\* The gaps that the nodes of S leave between off and end.
Gaps(S, off, end) ==
  {g \in ({off} \cup {End(n) : n \in S}) \X ({end} \cup {n.r_off : n \in S}) :
     g[1] < g[2] /\ \A n \in S : End(n) <= g[1] \/ g[2] <= n.r_off}

\* The tree with one more reader: nodes it cuts are split, those it covers
\* become proxies with one more reference, the gaps get proxies of their own.
zfs_range_add_reader(t, off, len) ==
  LET end == off + len
      T == SplitAt(SplitAt(z_range_avl, off), end)
      shared == {n \in T : off <= n.r_off /\ n.r_off < end}
  IN IF shared = {}
     THEN z_range_avl \cup {Node(t, off, len, 1, "RL_READER")}
     ELSE (T \ shared)
            \cup {Proxy(n.r_off, n.r_len, n.r_cnt + 1) : n \in shared}
            \cup {Proxy(g[1], g[2] - g[1], 1) : g \in Gaps(shared, off, end)}

InTree(T, t) == \E n \in T : n.id = t

ReaderLoop(t, q) ==
  LET blockers == ReaderBlockers(q.off, q.len)
  IN IF blockers = {}
     THEN LET T == zfs_range_add_reader(t, q.off, q.len) IN
          /\ z_range_avl' = T
          /\ rl' = [u \in Threads |->
                      IF u = t
                      THEN [q EXCEPT !.r_off = q.off, !.r_len = q.len,
                                     !.r_cnt = IF InTree(T, t) THEN 1 ELSE 0]
                      ELSE IF InTree(z_range_avl, u) /\ ~InTree(T, u)
                      THEN [rl[u] EXCEPT !.r_cnt = 0] ELSE rl[u]]
          /\ pc' = [pc EXCEPT ![t] = "held"]
          /\ wait' = [wait EXCEPT ![t] = NONE]
     ELSE \E n \in blockers :
          /\ \A m \in blockers : n.r_off <= m.r_off
          /\ z_range_avl' = (z_range_avl \ {n})
                              \cup {[n EXCEPT !.r_read_wanted = TRUE]}
          /\ rl' = [rl EXCEPT ![t] = q]
          /\ pc' = [pc EXCEPT ![t] = "rdSleep"]
          /\ wait' = [wait EXCEPT ![t] = n.id]

----------------------------------------------------------------------------
\* The calls.

Requests(op) ==
  IF op = "append" THEN {0} \X Lens
  ELSE IF op = "resize" THEN {<<0, UINT64_MAX>>}
  ELSE IF op = "putpage" THEN Offs \X {UINT64_MAX}
  ELSE Offs \X Lens

\* Fault: the length of a request that wraps is kept.
ClipLen_Kept(off, len) == len

\* off + len wraps around: up to the end of the file, then.
ClipLen(off, len) ==
  IF (off + len) % (UINT64_MAX + 1) < off THEN UINT64_MAX - off ELSE len

zfs_range_lock(t) ==
  /\ pc[t] = "idle"
  /\ \E op \in IF z_vnode THEN Ops ELSE Ops \cap {"read", "write"} :
     \E req \in Requests(op) :
       LET q == [NoLock EXCEPT !.op = op, !.off = req[1],
                               !.len = ClipLen(req[1], req[2])]
       IN IF op = "read" THEN ReaderLoop(t, q) ELSE WriterLoop(t, q)
  /\ UNCHANGED <<z_vnode, zp_size, z_blksz, several>>

zfs_range_lock_reader_wakeup(t) ==
  /\ pc[t] = "rdWoken"
  /\ ReaderLoop(t, rl[t])
  /\ UNCHANGED <<z_vnode, zp_size, z_blksz, several>>

zfs_range_lock_writer_wakeup(t) ==
  /\ pc[t] = "wrWoken"
  /\ WriterLoop(t, rl[t])
  /\ UNCHANGED <<z_vnode, zp_size, z_blksz, several>>

\* Fault: only the first node of the range is given up.
NodesOf_FirstOnly(t) == {n \in z_range_avl : n.r_off = rl[t].r_off}

\* The rl_t of a reader itself, or every node that makes up its range.
NodesOf(t) ==
  IF rl[t].r_cnt = 1 THEN {n \in z_range_avl : n.id = t}
  ELSE {n \in z_range_avl : rl[t].r_off <= n.r_off /\ n.r_off < End(rl[t])}

\* Each of its nodes loses a reference; one that has none left leaves the
\* tree and wakes those who wait for it.
zfs_range_unlock_reader(t) ==
  LET gone == {n \in NodesOf(t) : n.r_cnt = 1}
  IN /\ z_range_avl' = (z_range_avl \ NodesOf(t))
           \cup {[n EXCEPT !.r_cnt = @ - 1] : n \in NodesOf(t) \ gone}
     /\ Broadcast(gone, t, "idle")

zfs_range_unlock_read(t) ==
  /\ pc[t] = "held"
  /\ rl[t].op = "read"
  /\ zfs_range_unlock_reader(t)
  /\ rl' = [rl EXCEPT ![t] = NoLock]
  /\ UNCHANGED <<z_vnode, zp_size, z_blksz, several>>

\* A writer takes its node out of the tree and lets go of z_range_lock before
\* it looks at who waits.
zfs_range_unlock_write(t) ==
  /\ pc[t] = "held"
  /\ rl[t].op # "read"
  /\ \E n \in z_range_avl :
       /\ n.id = t
       /\ z_range_avl' = z_range_avl \ {n}
       /\ rl' = [rl EXCEPT ![t] =
                    [NoLock EXCEPT !.r_write_wanted = n.r_write_wanted,
                                   !.r_read_wanted = n.r_read_wanted]]
  /\ pc' = [pc EXCEPT ![t] = "unlocked"]
  /\ UNCHANGED <<z_vnode, zp_size, z_blksz, several, wait>>

\* Fault: either the writers or the readers are woken.
Wanted_WritersFirst(t) ==
  [id |-> t, r_write_wanted |-> rl[t].r_write_wanted,
   r_read_wanted |-> rl[t].r_read_wanted /\ ~rl[t].r_write_wanted]

\* What the node of t, out of the tree, says of who waits for it.
Wanted(t) == [id |-> t, r_write_wanted |-> rl[t].r_write_wanted,
              r_read_wanted |-> rl[t].r_read_wanted]

zfs_range_unlock_broadcast(t) ==
  /\ pc[t] = "unlocked"
  /\ Broadcast({Wanted(t)}, t, "idle")
  /\ rl' = [rl EXCEPT ![t] = NoLock]
  /\ UNCHANGED <<z_vnode, z_range_avl, zp_size, z_blksz, several>>

----------------------------------------------------------------------------
\* What holders do to the file.

\* Fault: a block that is larger than z_max_blksz is not thought of.
NewBlksz_Capped(end, max) == Min({end, max})

\* The block that a file of that size wants.
NewBlksz(end, max) ==
  Min({end, IF z_blksz > max THEN SPA_MAXBLOCKSIZE ELSE max})

\* What zfs_grow_blocksize() makes of the block.  A file of several blocks keeps
\* it; and if it has been one, blocks past the first may still be on disk or
\* cached, so that dnode_set_blksz() refuses (ENOTSUP).
zfs_grow_blocksize(size) ==
  IF size <= z_blksz \/ (z_blksz # 0 /\ zp_size > z_blksz) THEN {z_blksz}
  ELSE IF several THEN {size, z_blksz} ELSE {size}

\* Whether a file of that size and block has blocks past the first, or has had.
Several(size, blksz) == size > blksz \/ (several /\ blksz = z_blksz)

\* zfs_write() that over-locked: the block grows if it can, then
\* zfs_range_reduce() to what is written.  max_blksz was read when the call
\* began.  woff is past the limit only for an append (EFBIG).
Woff(t) == IF rl[t].op = "append" THEN zp_size ELSE rl[t].off

zfs_range_reduce(t) ==
  /\ pc[t] = "held"
  /\ rl[t].op \in {"write", "append"}
  /\ rl[t].r_len = UINT64_MAX
  /\ Woff(t) < Limit
  /\ LET n == Min({rl[t].len, Limit - Woff(t)})
         end_size == Max({zp_size, Woff(t) + n})
     IN /\ \E max_blksz \in MaxBlksz :
             z_blksz' \in zfs_grow_blocksize(NewBlksz(end_size, max_blksz))
        /\ rl' = [rl EXCEPT ![t].r_off = Woff(t), ![t].r_len = n]
        /\ z_range_avl' = {IF m.id = t THEN [m EXCEPT !.r_off = Woff(t), !.r_len = n]
                                       ELSE m : m \in z_range_avl}
  /\ several' = Several(zp_size, z_blksz')
  /\ pc' = [pc EXCEPT ![t] = "reduced"]
  /\ UNCHANGED <<z_vnode, zp_size, wait>>

zfs_range_reduce_broadcast(t) ==
  /\ pc[t] = "reduced"
  /\ Broadcast({n \in z_range_avl : n.id = t}, t, "held")
  /\ UNCHANGED <<z_vnode, z_range_avl, zp_size, z_blksz, several, rl>>

\* zfs_write() writes in chunks and moves the end of the file after each one
\* that passes it.
WriteData(t) ==
  /\ z_vnode
  /\ pc[t] = "held"
  /\ rl[t].op \in {"write", "append"}
  /\ rl[t].r_len # UINT64_MAX
  /\ \E uio_loffset \in rl[t].r_off + 1 .. Min({End(rl[t]), Limit}) :
       /\ zp_size < uio_loffset
       /\ zp_size' = uio_loffset
  /\ several' = Several(zp_size', z_blksz)
  /\ UNCHANGED <<z_vnode, z_range_avl, z_blksz, rl, wait, pc>>

\* zfs_trunc(), which holds the whole file.
Truncate(t) ==
  /\ pc[t] = "held"
  /\ rl[t].op = "resize"
  /\ \E end \in 0 .. Limit : end < zp_size /\ zp_size' = end
  /\ several' = Several(zp_size', z_blksz)
  /\ UNCHANGED <<z_vnode, z_range_avl, z_blksz, rl, wait, pc>>

\* zfs_extend(), which holds the whole file too.  It reads z_max_blksz to see
\* whether the block should grow and again to see how far.
Extend(t) ==
  /\ pc[t] = "held"
  /\ rl[t].op = "resize"
  /\ \E end \in 0 .. Limit, max, max2 \in MaxBlksz :
       /\ end > zp_size
       /\ zp_size' = end
       /\ IF end > z_blksz /\ (~ISP2(z_blksz) \/ z_blksz < max)
          THEN z_blksz' \in zfs_grow_blocksize(NewBlksz(end, max2))
          ELSE UNCHANGED z_blksz
  /\ several' = Several(zp_size', z_blksz')
  /\ UNCHANGED <<z_vnode, z_range_avl, rl, wait, pc>>

Next ==
  \E t \in Threads :
    \/ zfs_range_lock(t)
    \/ zfs_range_lock_reader_wakeup(t)
    \/ zfs_range_lock_writer_wakeup(t)
    \/ zfs_range_unlock_read(t)
    \/ zfs_range_unlock_write(t)
    \/ zfs_range_unlock_broadcast(t)
    \/ zfs_range_reduce(t)
    \/ zfs_range_reduce_broadcast(t)
    \/ WriteData(t)
    \/ Truncate(t)
    \/ Extend(t)

Spec == Init /\ [][Next]_vars

\* Woken threads run, broadcasts that are due happen and nobody holds a lock
\* for ever.  Nobody has to ask for one.
Fairness ==
  \A t \in Threads :
    /\ WF_vars(zfs_range_lock_reader_wakeup(t))
    /\ WF_vars(zfs_range_lock_writer_wakeup(t))
    /\ WF_vars(zfs_range_unlock_read(t))
    /\ WF_vars(zfs_range_unlock_write(t))
    /\ WF_vars(zfs_range_unlock_broadcast(t))
    /\ WF_vars(zfs_range_reduce_broadcast(t))

FairSpec == Spec /\ Fairness

----------------------------------------------------------------------------
Pcs == {"idle", "rdSleep", "rdWoken", "wrSleep", "wrWoken", "held", "unlocked",
        "reduced"}

\* Every variable has its type: whatever lengths callers pass, no node reaches
\* past the last offset and every node is referenced.
TypeOK ==
  /\ \A n \in z_range_avl :
       /\ n.r_off \in Offsets /\ End(n) \in Offsets
       /\ n.r_len \in Offsets \ {0} /\ n.r_cnt \in 1 .. Cardinality(Threads)
       /\ n.r_type \in Types
       /\ n.id \in Threads \/ n.id = n.r_off
  /\ zp_size \in 0 .. Limit
  /\ z_blksz \in 0 .. SPA_MAXBLOCKSIZE /\ several \in BOOLEAN
  /\ pc \in [Threads -> Pcs]

Holding == {t \in Threads : pc[t] \in {"held", "reduced"}}
Covers(r, b) == r.r_off <= b /\ b < End(r)

\* What zfs_range_unlock() and zfs_range_unlock_reader() rely on: an rl_t
\* with r_cnt = 1 is a node of the tree, one with r_cnt = 0 begins and ends
\* where nodes do.
HandlesTile ==
  \A t \in Holding :
    IF rl[t].r_cnt = 1
    THEN \E n \in z_range_avl :
           n.id = t /\ n.r_off = rl[t].r_off /\ n.r_len = rl[t].r_len
    ELSE /\ rl[t].op = "read" /\ rl[t].r_cnt = 0
         /\ \E n \in z_range_avl : n.r_off = rl[t].r_off
         /\ \E n \in z_range_avl : End(n) = End(rl[t])

\* The tree and the callers agree on every byte: it is in at most one node,
\* in none if nobody holds it, and the node's r_cnt says how many do and its
\* type how, however the ranges were split and proxied; and the unlock of
\* every range finds its nodes.
TreeIsExact ==
  /\ HandlesTile
  /\ \A b \in 0 .. UINT64_MAX - 1 :
       LET nodes == {n \in z_range_avl : Covers(n, b)}
           holders == {t \in Holding : Covers(rl[t], b)}
       IN /\ Cardinality(nodes) <= 1
          /\ nodes = {} <=> holders = {}
          /\ \A n \in nodes :
               /\ n.r_cnt = Cardinality(holders)
               /\ \A t \in holders : n.r_type = "RL_READER" <=> rl[t].op = "read"

\* No wakeup is lost: the node a thread sleeps on is in the tree, or just out
\* of it and about to be broadcast, and says that it is wanted.
SleepersAreFlagged ==
  \A t \in Threads : pc[t] \in {"rdSleep", "wrSleep"} =>
    LET flag(n) == IF pc[t] = "rdSleep" THEN n.r_read_wanted ELSE n.r_write_wanted
    IN \/ \E n \in z_range_avl : n.id = wait[t] /\ flag(n)
       \/ \E u \in Threads : wait[t] = u /\ pc[u] = "unlocked" /\ flag(rl[u])

FitsBlock(end) == end <= z_blksz \/ ISP2(z_blksz)

\* Nobody makes dmu_buf_hold_array_by_dnode() access past the end of the object
\* (zfs_panic_recover): blocks past the first can be reached only if the block
\* size is a power of two.  So the file, and every write that has been let in
\* beside others, fits in its block or the block is a power of two, although the
\* end of the file moves, z_max_blksz goes up and down and a block is not always
\* grown when a writer has locked the whole file for it.
NoAccessPastBlock ==
  z_vnode =>
    /\ FitsBlock(zp_size)
    /\ \A t \in Holding : rl[t].op # "read" /\ rl[t].r_len # UINT64_MAX =>
         FitsBlock(Min({End(rl[t]), Limit}))

ByteHolds ==
  [t \in Threads |->
     IF t \in Holding
     THEN [bytes |-> {b \in 0 .. UINT64_MAX - 1 : Covers(rl[t], b)},
           excl |-> rl[t].op # "read"]
     ELSE [bytes |-> {}, excl |-> FALSE]]

Abstract == INSTANCE ByteLocks WITH
              Bytes <- 0 .. UINT64_MAX - 1, held <- ByteHolds

\* zfs_range_lock(), zfs_range_reduce() and zfs_range_unlock() implement
\* shared and exclusive locks on bytes.
ImplementsByteLocks == Abstract!Spec

\* Once the requests stop, everyone who waits gets the range: threads that
\* sleep on each other's nodes, on proxies or on a lock that is reduced are
\* all woken.
WaitersGranted ==
  <>[][\A t \in Threads : pc[t] = "idle" => pc'[t] = "idle"]_vars =>
    \A t \in Threads :
      pc[t] \in {"rdSleep", "rdWoken", "wrSleep", "wrWoken"} ~> pc[t] = "held"

=============================================================================
