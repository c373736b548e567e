-------------------------- MODULE RangeLockProofs --------------------------
(***************************************************************************)
(* Proofs about the byte-range locks of RangeLock.                         *)
(***************************************************************************)
EXTENDS RangeLock, FiniteSetTheorems, WellFoundedInduction, TLAPS

----------------------------------------------------------------------------
\* The inductive invariant.

NodeSet ==
  [id : Threads \cup Nat, r_off : Nat, r_len : Nat, r_cnt : Nat,
   r_type : Types, r_write_wanted : BOOLEAN, r_read_wanted : BOOLEAN]

LockSet ==
  [op : AllOps \cup {"none"}, off : Nat, len : Nat,
   r_off : Nat, r_len : Nat, r_cnt : {0, 1},
   r_write_wanted : BOOLEAN, r_read_wanted : BOOLEAN]

\* Two ranges have no byte in common, and one lies within the other.
Apart(r, s) == End(r) <= s.r_off \/ End(s) <= r.r_off
Within(r, s) == s.r_off <= r.r_off /\ End(r) <= End(s)

\* What a node is by itself.  A proxy is a reader's; only a node that a writer
\* holds or waits for keeps a reader out.
NodeOK(n) ==
  /\ n \in NodeSet
  /\ n.r_len >= 1 /\ End(n) <= UINT64_MAX /\ n.r_cnt >= 1
  /\ n.id \notin Threads => n.id = n.r_off /\ n.r_type = "RL_READER"
  /\ n.r_read_wanted => n.r_type = "RL_WRITER" \/ n.r_write_wanted

\* A tree: sound nodes, pairwise apart.
TreeOK(T) ==
  /\ \A n \in T : NodeOK(n)
  /\ \A n, m \in T : n # m => Apart(n, m)

\* The arguments of a call, as the callers pass them and zfs_range_lock()
\* clips them.
CallOK(q) ==
  /\ q \in LockSet
  /\ q.op # "none"
  /\ q.off < Limit /\ q.len >= 1 /\ q.off + q.len <= UINT64_MAX
  /\ q.op \in {"write", "append"} => q.len <= MaxLen
  /\ q.op = "resize" => q.off = 0 /\ q.len = UINT64_MAX

CallsOK ==
  /\ rl \in [Threads -> LockSet]
  /\ \A t \in Threads :
       /\ pc[t] \in {"rdSleep", "rdWoken"} => CallOK(rl[t]) /\ rl[t].op = "read"
       /\ pc[t] \in {"wrSleep", "wrWoken"} => CallOK(rl[t]) /\ rl[t].op # "read"

\* The agreement between a tree T and the threads of H, which hold the ranges
\* that L says.

\* What a thread that holds a range knows of its rl_t.
HoldersOK(T, H, L) ==
  \A t \in H :
    /\ CallOK(L[t])
    /\ L[t].r_len >= 1 /\ End(L[t]) <= UINT64_MAX
    /\ L[t].op = "resize" => L[t].r_len = UINT64_MAX
    /\ L[t].r_cnt = 1 => InTree(T, t)
    /\ L[t].r_cnt # 1 => L[t].op = "read"

\* A node that is some thread's rl_t is the range that the thread holds, and
\* nobody shares it.
OwnersOK(T, H, L) ==
  \A n \in T : n.id \in Threads =>
    /\ n.id \in H
    /\ L[n.id].r_cnt = 1 /\ n.r_cnt = 1
    /\ n.r_off = L[n.id].r_off /\ n.r_len = L[n.id].r_len

HoldersAt(H, L, b) == {t \in H : Covers(L[t], b)}

\* No node straddles the end of a range that is held.
NoStraddle(T, H, L) ==
  \A n \in T : \A t \in H : Apart(n, L[t]) \/ Within(n, L[t])

\* Every byte held is in the tree.
Covered(T, H, L) ==
  \A t \in H : \A b \in Nat :
    Covers(L[t], b) => \E n \in T : Covers(n, b)

\* A node counts those who hold its bytes, and knows how they do.
CountsOK(T, H, L) ==
  \A n \in T :
    /\ n.r_cnt = Cardinality(HoldersAt(H, L, n.r_off))
    /\ \A t \in HoldersAt(H, L, n.r_off) :
         n.r_type = "RL_READER" <=> L[t].op = "read"

Agree(T, H, L) ==
  /\ TreeOK(T) /\ HoldersOK(T, H, L) /\ OwnersOK(T, H, L)
  /\ NoStraddle(T, H, L) /\ Covered(T, H, L) /\ CountsOK(T, H, L)

FileOK ==
  /\ z_vnode \in BOOLEAN
  /\ zp_size \in 0 .. Limit
  /\ z_blksz \in 0 .. SPA_MAXBLOCKSIZE /\ several \in BOOLEAN
  /\ pc \in [Threads -> Pcs]

LockInv == FileOK /\ CallsOK /\ Agree(z_range_avl, Holding, rl)

----------------------------------------------------------------------------
\* Facts about numbers.

\* A set of naturals that is not empty has a least element.
LEMMA LeastExists ==
  ASSUME NEW S \in SUBSET Nat, S # {}
  PROVE  \E x \in S : \A y \in S : x <= y
<1>1. PICK x \in S : \A y \in S : ~(<<y, x>> \in OpToRel(<, Nat))
  BY WFMin, NatLessThanWellFounded
<1>2. \A y \in S : ~(y < x)
  BY <1>1 DEF OpToRel
<1>. QED  BY <1>2

\* One that has a bound has a greatest element.
LEMMA GreatestExists ==
  ASSUME NEW S \in SUBSET Nat, S # {}, NEW k \in Nat, \A y \in S : y <= k
  PROVE  \E x \in S : \A y \in S : y <= x
<1>. DEFINE D == {d \in 0 .. k : k - d \in S}
<1>1. PICK s \in S : TRUE
  OBVIOUS
<1>2. k - s \in D
  BY <1>1
<1>3. PICK d \in D : \A e \in D : d <= e
  <2>1. D \in SUBSET Nat /\ D # {}
    BY <1>2
  <2>. HIDE DEF D
  <2>. QED  BY <2>1, LeastExists
<1>4. ASSUME NEW y \in S
      PROVE  y <= k - d
  <2>1. k - y \in 0 .. k /\ k - (k - y) = y
    OBVIOUS
  <2>2. k - y \in D
    BY <2>1
  <2>3. d <= k - y
    BY <1>3, <2>2 DEF D
  <2>4. d \in 0 .. k
    BY <1>3
  <2>. HIDE DEF D
  <2>. QED  BY <2>3, <2>4
<1>5. k - d \in S
  BY <1>3
<1>. QED  BY <1>4, <1>5

\* The larger of two numbers.
LEMMA MaxOfTwo ==
  ASSUME NEW a \in Nat, NEW b \in Nat
  PROVE  /\ Max({a, b}) \in {a, b}
         /\ Max({a, b}) >= a /\ Max({a, b}) >= b
<1>1. \E x \in {a, b} : \A y \in {a, b} : x >= y
  BY SMT
<1>. QED  BY <1>1 DEF Max

\* The smaller of two numbers.
LEMMA MinOfTwo ==
  ASSUME NEW a \in Nat, NEW b \in Nat
  PROVE  /\ Min({a, b}) \in {a, b}
         /\ Min({a, b}) <= a /\ Min({a, b}) <= b
<1>1. \E x \in {a, b} : \A y \in {a, b} : x <= y
  BY SMT
<1>. QED  BY <1>1 DEF Min

\* What the clipped length of a request is: a request that reaches past the
\* last offset ends there.
LEMMA ClipLenFact ==
  ASSUME NEW off \in Nat, NEW len \in Nat,
         off <= UINT64_MAX, len <= UINT64_MAX, UINT64_MAX \in Nat
  PROVE  ClipLen(off, len) = IF off + len <= UINT64_MAX THEN len
                                                        ELSE UINT64_MAX - off
<1>. DEFINE M == UINT64_MAX + 1
<1>1. CASE off + len <= UINT64_MAX
  <2>1. (off + len) % M = off + len
    BY <1>1
  <2>. QED  BY <1>1, <2>1 DEF ClipLen
<1>2. CASE off + len > UINT64_MAX
  <2>1. (off + len) % M = off + len - M
    BY <1>2
  <2>. QED  BY <1>2, <2>1 DEF ClipLen
<1>. QED  BY <1>1, <1>2

----------------------------------------------------------------------------
\* Facts about trees: avl_nearest() and the nodes that keep a writer out.

\* The numbers of a node.
LEMMA NodeNumbers ==
  ASSUME NEW n, NodeOK(n)
  PROVE  /\ n.r_off \in Nat /\ n.r_len \in Nat /\ n.r_len >= 1
         /\ n.r_cnt \in Nat /\ n.r_cnt >= 1
         /\ End(n) \in Nat /\ End(n) = n.r_off + n.r_len /\ n.r_off < End(n)
         /\ End(n) <= UINT64_MAX
BY DEF NodeOK, NodeSet, End

\* The nearest node after an offset is the first one.
LEMMA NearestAfter ==
  ASSUME NEW T, TreeOK(T), NEW off \in Nat,
         NEW S, S = {n \in T : n.r_off > off}, S # {}
  PROVE  Nearest(S, off) \in S /\ \A m \in S : Nearest(S, off).r_off <= m.r_off
<1>. DEFINE O == {n.r_off : n \in S}
<1>0. \A n \in S : n.r_off \in Nat /\ n.r_off > off
  BY NodeNumbers DEF TreeOK
<1>1. O \in SUBSET Nat /\ O # {}
  BY <1>0
<1>2. PICK x \in O : \A y \in O : x <= y
  <2>. HIDE DEF O
  <2>. QED  BY <1>1, LeastExists
<1>3. PICK n \in S : n.r_off = x
  OBVIOUS
<1>4. \A m \in S : IF m.r_off > off THEN n.r_off <= m.r_off
                                    ELSE n.r_off >= m.r_off
  BY <1>0, <1>2, <1>3
<1>5. /\ Nearest(S, off) \in S
      /\ \A m \in S : IF m.r_off > off THEN Nearest(S, off).r_off <= m.r_off
                                       ELSE Nearest(S, off).r_off >= m.r_off
  <2>. HIDE DEF O
  <2>. QED  BY <1>4 DEF Nearest
<1>. QED  BY <1>0, <1>5

\* The nearest node before an offset is the last one.
LEMMA NearestBefore ==
  ASSUME NEW T, TreeOK(T), NEW off \in Nat,
         NEW S, S = {n \in T : n.r_off < off}, S # {}
  PROVE  Nearest(S, off) \in S /\ \A m \in S : Nearest(S, off).r_off >= m.r_off
<1>. DEFINE O == {n.r_off : n \in S}
<1>0. \A n \in S : n.r_off \in Nat /\ n.r_off < off
  BY NodeNumbers DEF TreeOK
<1>1. O \in SUBSET Nat /\ O # {} /\ \A y \in O : y <= off
  BY <1>0
<1>2. PICK x \in O : \A y \in O : y <= x
  <2>. HIDE DEF O
  <2>. QED  BY <1>1, GreatestExists
<1>3. PICK n \in S : n.r_off = x
  OBVIOUS
<1>4. \A m \in S : IF m.r_off > off THEN n.r_off <= m.r_off
                                    ELSE n.r_off >= m.r_off
  BY <1>0, <1>2, <1>3
<1>5. /\ Nearest(S, off) \in S
      /\ \A m \in S : IF m.r_off > off THEN Nearest(S, off).r_off <= m.r_off
                                       ELSE Nearest(S, off).r_off >= m.r_off
  <2>. HIDE DEF O
  <2>. QED  BY <1>4 DEF Nearest
<1>. QED  BY <1>0, <1>5

\* zfs_range_lock_writer() looks at no more than three nodes, and that is
\* enough: if none of them blocks the range, no node of the tree has a byte
\* of it.
LEMMA WriterBlockersFact ==
  ASSUME TreeOK(z_range_avl), NEW off \in Nat, NEW len \in Nat, len >= 1
  PROVE  /\ WriterBlockers(off, len) \subseteq z_range_avl
         /\ WriterBlockers(off, len) = {} =>
              \A n \in z_range_avl : off + len <= n.r_off \/ End(n) <= off
<1>. DEFINE at == {n \in z_range_avl : n.r_off = off}
            after == {n \in z_range_avl : n.r_off > off}
            before == {n \in z_range_avl : n.r_off < off}
<1>1. after # {} =>
        /\ Nearest(after, off) \in after
        /\ \A m \in after : Nearest(after, off).r_off <= m.r_off
  BY NearestAfter
<1>2. before # {} =>
        /\ Nearest(before, off) \in before
        /\ \A m \in before : Nearest(before, off).r_off >= m.r_off
  BY NearestBefore
<1>3. \A n \in z_range_avl : /\ n.r_off \in Nat /\ End(n) \in Nat
                             /\ n.r_off < End(n)
  BY NodeNumbers DEF TreeOK
<1>4. \A n, m \in z_range_avl :
        n # m => End(n) <= m.r_off \/ End(m) <= n.r_off
  BY DEF TreeOK, Apart
<1>5. WriterBlockers(off, len) =
        IF at # {} THEN at
        ELSE IF after # {} /\ Nearest(after, off).r_off < off + len
        THEN {Nearest(after, off)} ELSE BlockerBefore(off)
  BY DEF WriterBlockers
<1>6. BlockerBefore(off) =
        IF before # {} /\ End(Nearest(before, off)) > off
        THEN {Nearest(before, off)} ELSE {}
  BY DEF BlockerBefore
<1>7. WriterBlockers(off, len) \subseteq z_range_avl
  BY <1>1, <1>2, <1>5, <1>6
<1>8. ASSUME WriterBlockers(off, len) = {}, NEW n \in z_range_avl
      PROVE  off + len <= n.r_off \/ End(n) <= off
  <2>1. at = {} /\ BlockerBefore(off) = {}
    BY <1>5, <1>8
  <2>2. CASE n \in after
    <3>1. ~(Nearest(after, off).r_off < off + len)
      BY <1>5, <1>8, <2>1, <2>2
    <3>2. Nearest(after, off).r_off <= n.r_off /\ Nearest(after, off).r_off \in Nat
      BY <1>1, <1>3, <2>2
    <3>. QED  BY <1>3, <3>1, <3>2
  <2>3. CASE n \in before
    <3>. DEFINE m == Nearest(before, off)
    <3>1. m \in before /\ m.r_off >= n.r_off
      BY <1>2, <2>3
    <3>2. End(m) \in Nat /\ ~(End(m) > off)
      BY <1>3, <1>6, <2>1, <2>3, <3>1
    <3>3. n = m \/ End(n) <= m.r_off \/ End(m) <= n.r_off
      BY <1>4, <3>1
    <3>. HIDE DEF m
    <3>. QED  BY <1>3, <3>1, <3>2, <3>3
  <2>. QED  BY <1>3, <2>1, <2>2, <2>3
<1>. QED  BY <1>7, <1>8

----------------------------------------------------------------------------
\* Facts about zfs_range_split() and zfs_range_add_reader().

Cuts(x, n) == n.r_off < x /\ x < End(n)
IsProxy(m) == m = Proxy(m.r_off, m.r_len, m.r_cnt)

\* A proxy with a length and a reference is a sound node, of no thread.
LEMMA ProxyOK ==
  ASSUME NEW off \in Nat, NEW len \in Nat, NEW cnt \in Nat,
         len >= 1, cnt >= 1, off + len <= UINT64_MAX,
         NEW m, m = Proxy(off, len, cnt)
  PROVE  /\ NodeOK(m) /\ IsProxy(m)
         /\ m.r_off = off /\ m.r_len = len /\ m.r_cnt = cnt
         /\ End(m) = off + len
         /\ m.id = off /\ m.id \notin Threads /\ m.r_type = "RL_READER"
         /\ ~m.r_write_wanted /\ ~m.r_read_wanted
<1>1. /\ m.id = off /\ m.r_off = off /\ m.r_len = len /\ m.r_cnt = cnt
      /\ m.r_type = "RL_READER" /\ End(m) = off + len
      /\ m.r_write_wanted = FALSE /\ m.r_read_wanted = FALSE
  BY DEF Proxy, Node, End
<1>2. m \in NodeSet
  BY DEF NodeSet, Types, Proxy, Node
<1>3. off \notin Threads
  BY RangeAssumption
<1>4. IsProxy(m)
  BY <1>1 DEF IsProxy
<1>5. NodeOK(m)
  BY <1>1, <1>2, <1>3 DEF NodeOK
<1>. QED  BY <1>1, <1>3, <1>4, <1>5

\* What zfs_range_split() does: the node that the offset cuts becomes two
\* proxies with the references of the node, the others stay, and no byte is
\* lost.
LEMMA SplitFact ==
  ASSUME NEW T, TreeOK(T), NEW x \in Nat
  PROVE  LET S == SplitAt(T, x)
         IN /\ TreeOK(S)
            /\ \A m \in S : ~Cuts(x, m)
            /\ \A n \in T : ~Cuts(x, n) => n \in S
            /\ \A m \in S : \/ m \in T
                            \/ /\ IsProxy(m)
                               /\ \E n \in T : /\ Cuts(x, n) /\ Within(m, n)
                                               /\ m.r_cnt = n.r_cnt
            /\ \A n \in T : \A b \in Nat :
                 Covers(n, b) => \E m \in S : Covers(m, b) /\ Within(m, n)
<1>. DEFINE S == SplitAt(T, x)
            Lo(n) == Proxy(n.r_off, x - n.r_off, n.r_cnt)
            Hi(n) == Proxy(x, End(n) - x, n.r_cnt)
<1>0. \A n \in T : NodeOK(n) /\ \A m \in T : n # m => Apart(n, m)
  BY DEF TreeOK
<1>1. S = {n \in T : ~Cuts(x, n)} \cup {Lo(n) : n \in {n \in T : Cuts(x, n)}}
                                  \cup {Hi(n) : n \in {n \in T : Cuts(x, n)}}
  BY DEF SplitAt, Cuts
<1>2. ASSUME NEW n \in T, Cuts(x, n)
      PROVE  /\ NodeOK(Lo(n)) /\ IsProxy(Lo(n)) /\ Lo(n).r_off = n.r_off
             /\ End(Lo(n)) = x /\ Lo(n).r_cnt = n.r_cnt
             /\ NodeOK(Hi(n)) /\ IsProxy(Hi(n)) /\ Hi(n).r_off = x
             /\ End(Hi(n)) = End(n) /\ Hi(n).r_cnt = n.r_cnt
  <2>1. /\ n.r_off \in Nat /\ End(n) \in Nat /\ End(n) <= UINT64_MAX
        /\ n.r_cnt \in Nat /\ n.r_cnt >= 1
    BY <1>0, NodeNumbers
  <2>2. n.r_off < x /\ x < End(n)
    BY <1>2 DEF Cuts
  <2>3. /\ x - n.r_off \in Nat /\ x - n.r_off >= 1
        /\ n.r_off + (x - n.r_off) = x /\ x <= UINT64_MAX
        /\ End(n) - x \in Nat /\ End(n) - x >= 1
        /\ x + (End(n) - x) = End(n)
    BY <2>1, <2>2, RangeAssumption DEF UINT64_MAX
  <2>4. /\ NodeOK(Lo(n)) /\ IsProxy(Lo(n)) /\ Lo(n).r_off = n.r_off
        /\ End(Lo(n)) = x /\ Lo(n).r_cnt = n.r_cnt
    <3>. DEFINE l == x - n.r_off
    <3>1. /\ l \in Nat /\ l >= 1 /\ n.r_off + l = x /\ n.r_off + l <= UINT64_MAX
          /\ Lo(n) = Proxy(n.r_off, l, n.r_cnt)
      BY <2>3
    <3>. HIDE DEF l, Lo
    <3>. QED  BY <2>1, <3>1, ProxyOK
  <2>5. /\ NodeOK(Hi(n)) /\ IsProxy(Hi(n)) /\ Hi(n).r_off = x
        /\ End(Hi(n)) = End(n) /\ Hi(n).r_cnt = n.r_cnt
    <3>. DEFINE l == End(n) - x
    <3>1. /\ l \in Nat /\ l >= 1 /\ x + l = End(n) /\ x + l <= UINT64_MAX
          /\ Hi(n) = Proxy(x, l, n.r_cnt)
      BY <2>1, <2>3
    <3>. HIDE DEF l, Hi
    <3>. QED  BY <2>1, <3>1, ProxyOK
  <2>. QED  BY <2>4, <2>5
<1>. HIDE DEF Lo, Hi, S
<1>3. ASSUME NEW m \in S
      PROVE  /\ NodeOK(m) /\ ~Cuts(x, m)
             /\ \E n \in T : /\ Within(m, n) /\ m.r_cnt = n.r_cnt
                             /\ m = n \/ (IsProxy(m) /\ Cuts(x, n))
  <2>1. CASE m \in T /\ ~Cuts(x, m)
    <3>1. Within(m, m)
      BY <1>0, <2>1, NodeNumbers DEF Within
    <3>. QED  BY <1>0, <2>1, <3>1
  <2>2. CASE \E n \in T : Cuts(x, n) /\ (m = Lo(n) \/ m = Hi(n))
    <3>1. PICK n \in T : Cuts(x, n) /\ (m = Lo(n) \/ m = Hi(n))
      BY <2>2
    <3>2. n.r_off \in Nat /\ End(n) \in Nat /\ n.r_off < x /\ x < End(n)
      BY <1>0, <3>1, NodeNumbers DEF Cuts
    <3>3. Within(m, n) /\ ~Cuts(x, m)
      BY <1>2, <3>1, <3>2 DEF Within, Cuts
    <3>. QED  BY <1>2, <3>1, <3>3
  <2>. QED  BY <1>1, <2>1, <2>2
<1>4. ASSUME NEW m1 \in S, NEW m2 \in S, m1 # m2
      PROVE  Apart(m1, m2)
  <2>1. PICK n1 \in T : Within(m1, n1) /\ (m1 = n1 \/ Cuts(x, n1))
    BY <1>3
  <2>2. PICK n2 \in T : Within(m2, n2) /\ (m2 = n2 \/ Cuts(x, n2))
    BY <1>3
  <2>3. NodeOK(m1) /\ NodeOK(m2) /\ NodeOK(n1) /\ NodeOK(n2)
    BY <1>0, <1>3
  <2>4. CASE n1 # n2
    <3>1. Apart(n1, n2)
      BY <1>0, <2>4
    <3>. QED  BY <2>1, <2>2, <2>3, <3>1, NodeNumbers DEF Apart, Within
  <2>5. CASE n1 = n2
    <3>1. Cuts(x, n1)
      BY <1>4, <2>1, <2>2, <2>5
    <3>2. m1 # n1 /\ m2 # n1
      BY <1>3, <3>1
    <3>3. \A m \in S : m \in {Lo(n1), Hi(n1)} \/ Apart(m, n1)
      <4>. SUFFICES ASSUME NEW m \in S
                    PROVE  m \in {Lo(n1), Hi(n1)} \/ Apart(m, n1)
        OBVIOUS
      <4>1. CASE m \in T
        BY <1>0, <1>3, <3>1, <4>1
      <4>2. CASE \E n \in T : Cuts(x, n) /\ (m = Lo(n) \/ m = Hi(n))
        <5>1. PICK n \in T : Cuts(x, n) /\ (m = Lo(n) \/ m = Hi(n))
          BY <4>2
        <5>2. n = n1
          <6>1. n # n1 => Apart(n, n1)
            BY <1>0
          <6>. QED  BY <6>1, <5>1, <3>1, <1>0, NodeNumbers DEF Apart, Cuts
        <5>. QED  BY <5>1, <5>2
      <4>. QED  BY <1>1, <4>1, <4>2
    <3>4. ~Apart(m1, n1) /\ ~Apart(m2, n1)
      BY <2>1, <2>2, <2>3, <2>5, NodeNumbers DEF Apart, Within
    <3>5. (m1 = Lo(n1) /\ m2 = Hi(n1)) \/ (m1 = Hi(n1) /\ m2 = Lo(n1))
      BY <1>4, <3>3, <3>4
    <3>. QED  BY <1>2, <3>1, <3>5 DEF Apart
  <2>. QED  BY <2>4, <2>5
<1>5. ASSUME NEW n \in T, NEW b \in Nat, Covers(n, b)
      PROVE  \E m \in S : Covers(m, b) /\ Within(m, n)
  <2>0. n.r_off \in Nat /\ End(n) \in Nat /\ n.r_off < End(n)
    BY <1>0, NodeNumbers
  <2>1. CASE ~Cuts(x, n)
    <3>1. n \in S /\ Within(n, n)
      BY <1>1, <2>0, <2>1 DEF Within
    <3>. QED  BY <1>5, <3>1
  <2>2. CASE Cuts(x, n) /\ b < x
    <3>1. Lo(n) \in S /\ Covers(Lo(n), b) /\ Within(Lo(n), n)
      BY <1>1, <1>2, <1>5, <2>0, <2>2 DEF Covers, Within, Cuts
    <3>. QED  BY <3>1
  <2>3. CASE Cuts(x, n) /\ ~(b < x)
    <3>1. Hi(n) \in S /\ Covers(Hi(n), b) /\ Within(Hi(n), n)
      BY <1>1, <1>2, <1>5, <2>0, <2>3 DEF Covers, Within, Cuts
    <3>. QED  BY <3>1
  <2>. QED  BY <2>1, <2>2, <2>3
<1>6. TreeOK(S)
  BY <1>3, <1>4 DEF TreeOK
<1>. QED  BY <1>1, <1>3, <1>5, <1>6 DEF S

\* The gaps between the nodes of a range: they lie in the range, apart from
\* the nodes and from each other, and leave out no byte.
LEMMA GapsFact ==
  ASSUME NEW S, \A n \in S : NodeOK(n), NEW off \in Nat, NEW end \in Nat,
         off < end, \A n \in S : off <= n.r_off /\ End(n) <= end
  PROVE  LET G == Gaps(S, off, end)
         IN /\ \A g \in G :
                 /\ g[1] \in Nat /\ g[2] \in Nat
                 /\ off <= g[1] /\ g[1] < g[2] /\ g[2] <= end
                 /\ \A n \in S : End(n) <= g[1] \/ g[2] <= n.r_off
            /\ \A g, h \in G : g = h \/ g[2] <= h[1] \/ h[2] <= g[1]
            /\ \A b \in Nat : off <= b /\ b < end =>
                 \/ \E n \in S : Covers(n, b)
                 \/ \E g \in G : g[1] <= b /\ b < g[2]
<1>. DEFINE G == Gaps(S, off, end)
            Los == {off} \cup {End(n) : n \in S}
            His == {end} \cup {n.r_off : n \in S}
<1>0. \A n \in S : /\ n.r_off \in Nat /\ End(n) \in Nat /\ n.r_off < End(n)
                   /\ off <= n.r_off /\ End(n) <= end
  BY NodeNumbers
<1>1. Los \in SUBSET Nat /\ His \in SUBSET Nat
  BY <1>0
<1>2. G = {g \in Los \X His :
             g[1] < g[2] /\ \A n \in S : End(n) <= g[1] \/ g[2] <= n.r_off}
  BY DEF Gaps
<1>3. ASSUME NEW g \in G
      PROVE  /\ g[1] \in Los /\ g[2] \in His /\ g = <<g[1], g[2]>>
             /\ g[1] < g[2] /\ \A n \in S : End(n) <= g[1] \/ g[2] <= n.r_off
  <2>. HIDE DEF Los, His, G
  <2>. QED  BY <1>2
<1>4. ASSUME NEW x \in Los
      PROVE  x \in Nat /\ off <= x /\ (x = off \/ \E n \in S : x = End(n))
  BY <1>0
<1>5. ASSUME NEW x \in His
      PROVE  x \in Nat /\ x <= end /\ (x = end \/ \E n \in S : x = n.r_off)
  BY <1>0
<1>. HIDE DEF G
<1>6. ASSUME NEW g \in G, NEW h \in G, g[1] < h[1]
      PROVE  g[2] <= h[1]
  <2>. HIDE DEF Los, His
  <2>1. PICK n \in S : h[1] = End(n)
    BY <1>3, <1>4, <1>6
  <2>2. End(n) <= g[1] \/ g[2] <= n.r_off
    BY <1>3
  <2>3. g[1] \in Nat /\ g[2] \in Nat /\ h[1] \in Nat
    BY <1>3, <1>4, <1>5
  <2>. QED  BY <1>0, <1>6, <2>1, <2>2, <2>3
<1>7. ASSUME NEW g \in G, NEW h \in G, g[1] = h[1], g[2] < h[2]
      PROVE  FALSE
  <2>. HIDE DEF Los, His
  <2>1. PICK n \in S : g[2] = n.r_off
    BY <1>3, <1>5, <1>7
  <2>2. End(n) <= h[1] \/ h[2] <= n.r_off
    BY <1>3
  <2>3. g[1] \in Nat /\ g[2] \in Nat /\ h[1] \in Nat /\ h[2] \in Nat
    BY <1>3, <1>4, <1>5
  <2>4. g[1] < g[2]
    BY <1>3
  <2>. QED  BY <1>0, <1>7, <2>1, <2>2, <2>3, <2>4
<1>8. ASSUME NEW g \in G, NEW h \in G
      PROVE  g = h \/ g[2] <= h[1] \/ h[2] <= g[1]
  <2>. HIDE DEF Los, His
  <2>1. g[1] \in Nat /\ g[2] \in Nat /\ h[1] \in Nat /\ h[2] \in Nat
    BY <1>3, <1>4, <1>5
  <2>2. CASE g[1] < h[1]
    BY <1>6, <2>2
  <2>3. CASE h[1] < g[1]
    BY <1>6, <2>3
  <2>4. CASE g[1] = h[1]
    <3>1. g[2] = h[2]
      BY <1>7, <2>1, <2>4
    <3>. QED  BY <1>3, <2>4, <3>1
  <2>. QED  BY <2>1, <2>2, <2>3, <2>4
<1>9. ASSUME NEW b \in Nat, off <= b, b < end, \A n \in S : ~Covers(n, b)
      PROVE  \E g \in G : g[1] <= b /\ b < g[2]
  <2>. DEFINE L == {x \in Los : x <= b}
              H == {x \in His : b < x}
  <2>1. \A n \in S : End(n) \in L \/ n.r_off \in H
    BY <1>0, <1>9 DEF Covers
  <2>2. L \in SUBSET Nat /\ off \in L /\ \A x \in L : x <= b
    BY <1>1, <1>9
  <2>3. PICK lo \in L : \A x \in L : x <= lo
    <3>. HIDE DEF L
    <3>. QED  BY <2>2, GreatestExists
  <2>4. H \in SUBSET Nat /\ end \in H
    BY <1>1, <1>9
  <2>5. PICK hi \in H : \A x \in H : hi <= x
    <3>. HIDE DEF H
    <3>. QED  BY <2>4, LeastExists
  <2>6. lo \in Los /\ hi \in His /\ lo <= b /\ b < hi
    BY <2>3, <2>5
  <2>7. \A n \in S : End(n) <= lo \/ hi <= n.r_off
    BY <2>1, <2>3, <2>5
  <2>. HIDE DEF Los, His, L, H
  <2>8. lo < hi
    BY <1>1, <1>9, <2>6
  <2>9. <<lo, hi>> \in G
    BY <1>2, <2>6, <2>7, <2>8
  <2>. QED  BY <2>6, <2>9
<1>. HIDE DEF Los, His
<1>10. \A g \in G :
         /\ g[1] \in Nat /\ g[2] \in Nat
         /\ off <= g[1] /\ g[1] < g[2] /\ g[2] <= end
         /\ \A n \in S : End(n) <= g[1] \/ g[2] <= n.r_off
  BY <1>3, <1>4, <1>5
<1>. QED  BY <1>8, <1>9, <1>10 DEF G

\* Where a node m of the tree with one more reader, of range r, comes from: it
\* is apart from r and a node, or a piece of a node that r overlapped; or it
\* lies in r, is a piece of such a node and has a reference more, or fills a
\* gap; or it is the reader's own.
Origin(T, r, m) ==
  \/ m \in T /\ Apart(m, r)
  \/ /\ IsProxy(m)
     /\ \E n \in T : /\ ~Apart(n, r) /\ Within(m, n)
                     /\ \/ Apart(m, r) /\ m.r_cnt = n.r_cnt
                        \/ Within(m, r) /\ m.r_cnt = n.r_cnt + 1
  \/ /\ IsProxy(m) /\ m.r_cnt = 1
     /\ Within(m, r) /\ \A n \in T : Apart(m, n)
  \/ m = r /\ \A n \in T : Apart(n, r)

\* What the two calls of zfs_range_split() in zfs_range_add_reader() leave: no
\* node is cut by either end of the range.
LEMMA SplitTwice ==
  ASSUME NEW T0, TreeOK(T0), NEW off \in Nat, NEW end \in Nat, off < end,
         NEW r, r.r_off = off, End(r) = end,
         NEW T, T = SplitAt(SplitAt(T0, off), end)
  PROVE  /\ TreeOK(T)
         /\ \A m \in T : ~Cuts(off, m) /\ ~Cuts(end, m)
         /\ \A n \in T0 : Apart(n, r) => n \in T
         /\ \A m \in T : \/ m \in T0
                         \/ /\ IsProxy(m)
                            /\ \E n \in T0 : /\ ~Apart(n, r) /\ Within(m, n)
                                             /\ m.r_cnt = n.r_cnt
         /\ \A n \in T0 : \A b \in Nat :
              Covers(n, b) => \E m \in T : Covers(m, b) /\ Within(m, n)
<1>. DEFINE T1 == SplitAt(T0, off)
<1>1. /\ TreeOK(T1)
      /\ \A m \in T1 : ~Cuts(off, m)
      /\ \A n \in T0 : ~Cuts(off, n) => n \in T1
      /\ \A m \in T1 : \/ m \in T0
                       \/ /\ IsProxy(m)
                          /\ \E n \in T0 : /\ Cuts(off, n) /\ Within(m, n)
                                           /\ m.r_cnt = n.r_cnt
      /\ \A n \in T0 : \A b \in Nat :
           Covers(n, b) => \E m \in T1 : Covers(m, b) /\ Within(m, n)
  BY SplitFact
<1>. HIDE DEF T1
<1>2. /\ TreeOK(T)
      /\ \A m \in T : ~Cuts(end, m)
      /\ \A n \in T1 : ~Cuts(end, n) => n \in T
      /\ \A m \in T : \/ m \in T1
                      \/ /\ IsProxy(m)
                         /\ \E n \in T1 : /\ Cuts(end, n) /\ Within(m, n)
                                          /\ m.r_cnt = n.r_cnt
      /\ \A n \in T1 : \A b \in Nat :
           Covers(n, b) => \E m \in T : Covers(m, b) /\ Within(m, n)
  BY <1>1, SplitFact DEF T1
<1>3. /\ \A n \in T0 : n.r_off \in Nat /\ End(n) \in Nat /\ n.r_off < End(n)
      /\ \A n \in T1 : n.r_off \in Nat /\ End(n) \in Nat /\ n.r_off < End(n)
      /\ \A n \in T : n.r_off \in Nat /\ End(n) \in Nat /\ n.r_off < End(n)
  BY <1>1, <1>2, NodeNumbers DEF TreeOK
<1>4. \A n \in T0 : Cuts(off, n) \/ Cuts(end, n) => ~Apart(n, r)
  BY <1>3 DEF Cuts, Apart
<1>5. ASSUME NEW n1 \in T1, Cuts(end, n1)
      PROVE  \E n \in T0 : /\ ~Apart(n, r) /\ Within(n1, n)
                           /\ n1.r_cnt = n.r_cnt
  <2>1. CASE n1 \in T0
    BY <1>3, <1>4, <1>5, <2>1 DEF Within
  <2>2. CASE n1 \notin T0
    BY <1>1, <1>4, <2>2
  <2>. QED  BY <2>1, <2>2
<1>6. ASSUME NEW m \in T
      PROVE  \/ m \in T0
             \/ /\ IsProxy(m)
                /\ \E n \in T0 : /\ ~Apart(n, r) /\ Within(m, n)
                                 /\ m.r_cnt = n.r_cnt
  <2>1. CASE m \in T1
    BY <1>1, <1>4, <2>1
  <2>2. CASE m \notin T1
    <3>1. IsProxy(m)
      BY <1>2, <2>2
    <3>2. PICK n1 \in T1 : Cuts(end, n1) /\ Within(m, n1) /\ m.r_cnt = n1.r_cnt
      BY <1>2, <2>2
    <3>3. PICK n \in T0 : ~Apart(n, r) /\ Within(n1, n) /\ n1.r_cnt = n.r_cnt
      BY <1>5, <3>2
    <3>4. Within(m, n)
      BY <1>3, <3>2, <3>3 DEF Within
    <3>. QED  BY <3>1, <3>2, <3>3, <3>4
  <2>. QED  BY <2>1, <2>2
<1>7. ASSUME NEW m \in T
      PROVE  ~Cuts(off, m)
  <2>1. CASE m \in T1
    BY <1>1, <2>1
  <2>2. CASE m \notin T1
    <3>1. PICK n1 \in T1 : Within(m, n1)
      BY <1>2, <2>2
    <3>2. ~Cuts(off, n1)
      BY <1>1
    <3>. QED  BY <1>3, <3>1, <3>2 DEF Within, Cuts
  <2>. QED  BY <2>1, <2>2
<1>8. ASSUME NEW n \in T0, NEW b \in Nat, Covers(n, b)
      PROVE  \E m \in T : Covers(m, b) /\ Within(m, n)
  <2>1. PICK n1 \in T1 : Covers(n1, b) /\ Within(n1, n)
    BY <1>1, <1>8
  <2>2. PICK m \in T : Covers(m, b) /\ Within(m, n1)
    BY <1>2, <2>1
  <2>3. Within(m, n)
    BY <1>3, <2>1, <2>2 DEF Within
  <2>. QED  BY <2>2, <2>3
<1>9. \A n \in T0 : Apart(n, r) => n \in T
  BY <1>1, <1>2, <1>4
<1>. QED  BY <1>2, <1>6, <1>7, <1>8, <1>9

\* What zfs_range_add_reader() makes of a tree: a tree again, whose nodes come
\* from the old ones as Origin says, and which has every byte that the old one
\* had or the reader asked for.
LEMMA AddReaderFact ==
  ASSUME TreeOK(z_range_avl), NEW t \in Threads,
         NEW off \in Nat, NEW len \in Nat, len >= 1, off + len <= UINT64_MAX,
         NEW r, r = Node(t, off, len, 1, "RL_READER"),
         NEW T, T = zfs_range_add_reader(t, off, len)
  PROVE  /\ TreeOK(T)
         /\ \A m \in T : Origin(z_range_avl, r, m)
         /\ \A n \in z_range_avl : Apart(n, r) => n \in T
         /\ \A b \in Nat :
              Covers(r, b) \/ (\E n \in z_range_avl : Covers(n, b)) =>
                \E m \in T : Covers(m, b)
<1>. DEFINE T0 == z_range_avl
            end == off + len
            U == SplitAt(SplitAt(T0, off), end)
            shared == {n \in U : off <= n.r_off /\ n.r_off < end}
            Bump(n) == Proxy(n.r_off, n.r_len, n.r_cnt + 1)
            G == Gaps(shared, off, end)
            Fill(g) == Proxy(g[1], g[2] - g[1], 1)
<1>0. /\ r.id = t /\ r.r_off = off /\ r.r_len = len /\ r.r_cnt = 1
      /\ r.r_type = "RL_READER" /\ End(r) = end
      /\ ~r.r_write_wanted /\ ~r.r_read_wanted
  BY DEF Node, End
<1>1. NodeOK(r)
  <2>1. r \in NodeSet
    BY DEF NodeSet, Types, Node
  <2>. QED  BY <1>0, <2>1 DEF NodeOK
<1>2. end \in Nat /\ off < end /\ end <= UINT64_MAX
  OBVIOUS
<1>3. T = IF shared = {} THEN T0 \cup {r}
          ELSE (U \ shared) \cup {Bump(n) : n \in shared} \cup {Fill(g) : g \in G}
  BY DEF zfs_range_add_reader
<1>. HIDE DEF T0, U, shared, G, Bump, Fill, end
<1>4. TreeOK(T0)
  BY DEF T0
<1>5. /\ TreeOK(U)
      /\ \A m \in U : ~Cuts(off, m) /\ ~Cuts(end, m)
      /\ \A n \in T0 : Apart(n, r) => n \in U
      /\ \A m \in U : \/ m \in T0
                      \/ /\ IsProxy(m)
                         /\ \E n \in T0 : /\ ~Apart(n, r) /\ Within(m, n)
                                          /\ m.r_cnt = n.r_cnt
      /\ \A n \in T0 : \A b \in Nat :
           Covers(n, b) => \E m \in U : Covers(m, b) /\ Within(m, n)
  BY <1>0, <1>2, <1>4, SplitTwice DEF U
<1>6. /\ \A n \in T0 : n.r_off \in Nat /\ End(n) \in Nat /\ n.r_off < End(n)
      /\ \A n \in U : n.r_off \in Nat /\ End(n) \in Nat /\ n.r_off < End(n)
  BY <1>4, <1>5, NodeNumbers DEF TreeOK
<1>7. \A m \in U : IF m \in shared THEN Within(m, r) ELSE Apart(m, r)
  BY <1>0, <1>2, <1>5, <1>6 DEF shared, Within, Apart, Cuts
<1>8. ASSUME shared = {}
      PROVE  \A n \in T0 : Apart(n, r)
  <2>. SUFFICES ASSUME NEW n \in T0, ~Apart(n, r)
                PROVE  FALSE
    OBVIOUS
  <2>1. PICK b \in Nat : Covers(n, b) /\ off <= b /\ b < end
    <3>1. CASE n.r_off <= off
      BY <1>0, <1>2, <1>6, <3>1 DEF Apart, Covers
    <3>2. CASE off < n.r_off
      BY <1>0, <1>2, <1>6, <3>2 DEF Apart, Covers
    <3>. QED  BY <1>6, <3>1, <3>2
  <2>2. PICK m \in U : Covers(m, b)
    BY <1>5, <2>1
  <2>3. ~Cuts(off, m)
    BY <1>5
  <2>4. m \in shared
    BY <1>2, <1>6, <2>1, <2>2, <2>3 DEF Cuts, Covers, shared
  <2>. QED  BY <1>8, <2>4
<1>9. CASE shared = {}
  <2>1. T = T0 \cup {r}
    BY <1>3, <1>9
  <2>2. TreeOK(T)
    BY <1>1, <1>4, <1>8, <1>9, <2>1 DEF TreeOK, Apart
  <2>3. \A m \in T : Origin(T0, r, m)
    BY <1>8, <1>9, <2>1 DEF Origin
  <2>. QED  BY <2>1, <2>2, <2>3 DEF T0
<1>10. CASE shared # {}
  <2>1. T = (U \ shared) \cup {Bump(n) : n \in shared} \cup {Fill(g) : g \in G}
    BY <1>3, <1>10
  <2>2. /\ \A g \in G :
             /\ g[1] \in Nat /\ g[2] \in Nat
             /\ off <= g[1] /\ g[1] < g[2] /\ g[2] <= end
             /\ \A n \in shared : End(n) <= g[1] \/ g[2] <= n.r_off
        /\ \A g, h \in G : g = h \/ g[2] <= h[1] \/ h[2] <= g[1]
        /\ \A b \in Nat : off <= b /\ b < end =>
             \/ \E n \in shared : Covers(n, b)
             \/ \E g \in G : g[1] <= b /\ b < g[2]
    <3>1. shared \subseteq U
      BY DEF shared
    <3>2. \A n \in shared : off <= n.r_off /\ End(n) <= end /\ NodeOK(n)
      BY <1>0, <1>5, <1>7, <3>1 DEF Within, TreeOK
    <3>. QED  BY <1>2, <3>2, GapsFact DEF G
  <2>3. ASSUME NEW n \in shared
        PROVE  /\ NodeOK(Bump(n)) /\ IsProxy(Bump(n))
               /\ Bump(n).r_off = n.r_off /\ End(Bump(n)) = End(n)
               /\ Bump(n).r_cnt = n.r_cnt + 1
    <3>1. n \in U
      BY DEF shared
    <3>2. /\ n.r_off \in Nat /\ n.r_len \in Nat /\ n.r_len >= 1
          /\ n.r_cnt + 1 \in Nat /\ n.r_cnt + 1 >= 1
          /\ End(n) = n.r_off + n.r_len /\ End(n) <= UINT64_MAX
      BY <1>5, <3>1, NodeNumbers DEF TreeOK
    <3>. QED  BY <3>2, ProxyOK DEF Bump
  <2>4. ASSUME NEW g \in G
        PROVE  /\ NodeOK(Fill(g)) /\ IsProxy(Fill(g))
               /\ Fill(g).r_off = g[1] /\ End(Fill(g)) = g[2]
               /\ Fill(g).r_cnt = 1
    <3>. DEFINE l == g[2] - g[1]
    <3>1. /\ g[1] \in Nat /\ l \in Nat /\ l >= 1 /\ g[1] + l = g[2]
          /\ g[1] + l <= UINT64_MAX
      BY <1>2, <2>2, RangeAssumption DEF UINT64_MAX
    <3>2. Fill(g) = Proxy(g[1], l, 1)
      BY DEF Fill
    <3>. HIDE DEF l
    <3>. QED  BY <3>1, <3>2, ProxyOK
  <2>5. \A n \in shared : n \in U /\ Within(n, r)
    BY <1>7 DEF shared
  <2>6. \A g \in G : /\ Within(Fill(g), r)
                     /\ \A n \in shared : Apart(Fill(g), n) /\ Apart(n, Fill(g))
    BY <1>0, <2>2, <2>4 DEF Within, Apart
  <2>7. ASSUME NEW m \in T
        PROVE  NodeOK(m)
    BY <1>5, <2>1, <2>3, <2>4 DEF TreeOK
  <2>8. ASSUME NEW m \in T
        PROVE  \/ m \in U /\ m \notin shared /\ Apart(m, r)
               \/ \E n \in shared : m = Bump(n)
               \/ \E g \in G : m = Fill(g)
    BY <1>7, <2>1
  <2>9. \A n1, n2 \in U : n1 # n2 => Apart(n1, n2)
    BY <1>5 DEF TreeOK
  <2>10. ASSUME NEW m1 \in T, NEW m2 \in T, m1 # m2
         PROVE  Apart(m1, m2)
    <3>0. /\ m1.r_off \in Nat /\ End(m1) \in Nat /\ m1.r_off < End(m1)
          /\ m2.r_off \in Nat /\ End(m2) \in Nat /\ m2.r_off < End(m2)
      BY <2>7, NodeNumbers
    <3>1. CASE m1 \in U /\ m1 \notin shared /\ Apart(m1, r)
      <4>1. CASE m2 \in U
        BY <2>9, <2>10, <3>1, <4>1
      <4>2. CASE Within(m2, r)
        BY <1>0, <1>2, <3>0, <3>1, <4>2 DEF Apart, Within
      <4>3. Within(m2, r) \/ m2 \in U
        BY <2>3, <2>5, <2>6, <2>8 DEF Within
      <4>. QED  BY <4>1, <4>2, <4>3
    <3>2. CASE m2 \in U /\ m2 \notin shared /\ Apart(m2, r)
      <4>1. CASE m1 \in U
        BY <2>9, <2>10, <3>2, <4>1
      <4>2. CASE Within(m1, r)
        BY <1>0, <1>2, <3>0, <3>2, <4>2 DEF Apart, Within
      <4>3. Within(m1, r) \/ m1 \in U
        BY <2>3, <2>5, <2>6, <2>8 DEF Within
      <4>. QED  BY <4>1, <4>2, <4>3
    <3>3. CASE /\ \E n \in shared : m1 = Bump(n)
               /\ \E n \in shared : m2 = Bump(n)
      BY <2>3, <2>5, <2>9, <2>10, <3>3 DEF Apart
    <3>4. CASE /\ \E n \in shared : m1 = Bump(n)
               /\ \E g \in G : m2 = Fill(g)
      BY <2>3, <2>6, <3>4 DEF Apart
    <3>5. CASE /\ \E g \in G : m1 = Fill(g)
               /\ \E n \in shared : m2 = Bump(n)
      BY <2>3, <2>6, <3>5 DEF Apart
    <3>6. CASE /\ \E g \in G : m1 = Fill(g)
               /\ \E g \in G : m2 = Fill(g)
      BY <2>2, <2>4, <2>10, <3>6 DEF Apart
    <3>. QED  BY <2>8, <3>1, <3>2, <3>3, <3>4, <3>5, <3>6
  <2>11. TreeOK(T)
    BY <2>7, <2>10 DEF TreeOK
  <2>12. ASSUME NEW b \in Nat, Covers(r, b) \/ \E n \in T0 : Covers(n, b)
         PROVE  \E m \in T : Covers(m, b)
    <3>1. CASE Covers(r, b)
      <4>1. off <= b /\ b < end
        BY <1>0, <3>1 DEF Covers
      <4>2. CASE \E n \in shared : Covers(n, b)
        <5>1. PICK n \in shared : Covers(n, b)
          BY <4>2
        <5>2. Bump(n) \in T /\ Covers(Bump(n), b)
          BY <2>1, <2>3, <5>1 DEF Covers
        <5>. QED  BY <5>2
      <4>3. CASE \E g \in G : g[1] <= b /\ b < g[2]
        <5>1. PICK g \in G : g[1] <= b /\ b < g[2]
          BY <4>3
        <5>2. Fill(g) \in T /\ Covers(Fill(g), b)
          BY <2>1, <2>4, <5>1 DEF Covers
        <5>. QED  BY <5>2
      <4>. QED  BY <2>2, <4>1, <4>2, <4>3
    <3>2. CASE \E n \in T0 : Covers(n, b)
      <4>1. PICK m \in U : Covers(m, b)
        BY <1>5, <3>2
      <4>2. CASE m \in shared
        <5>1. Bump(m) \in T /\ Covers(Bump(m), b)
          BY <2>1, <2>3, <4>1, <4>2 DEF Covers
        <5>. QED  BY <5>1
      <4>3. CASE m \notin shared
        BY <2>1, <4>1, <4>3
      <4>. QED  BY <4>2, <4>3
    <3>. QED  BY <2>12, <3>1, <3>2
  <2>13. ASSUME NEW n \in T0, Apart(n, r)
         PROVE  n \in T
    <3>1. n \in U
      BY <1>5, <2>13
    <3>2. n \notin shared
      BY <1>0, <1>2, <1>6, <2>13 DEF shared, Apart
    <3>. QED  BY <2>1, <3>1, <3>2
  <2>14. ASSUME NEW n \in U, Within(n, r)
         PROVE  \E n0 \in T0 : /\ ~Apart(n0, r) /\ Within(n, n0)
                               /\ n.r_cnt = n0.r_cnt
    <3>1. CASE n \in T0
      BY <1>0, <1>2, <1>6, <2>14, <3>1 DEF Apart, Within
    <3>2. CASE n \notin T0
      BY <1>5, <3>2
    <3>. QED  BY <3>1, <3>2
  <2>15. ASSUME NEW g \in G, NEW n \in T0
         PROVE  Apart(Fill(g), n)
    <3>. SUFFICES ASSUME ~Apart(Fill(g), n)
                  PROVE  FALSE
      OBVIOUS
    <3>0. /\ Fill(g).r_off = g[1] /\ End(Fill(g)) = g[2]
          /\ g[1] \in Nat /\ g[2] \in Nat /\ g[1] < g[2]
          /\ off <= g[1] /\ g[2] <= end
      BY <2>2, <2>4
    <3>1. PICK b \in Nat : Covers(n, b) /\ g[1] <= b /\ b < g[2]
      <4>1. CASE n.r_off <= g[1]
        BY <1>6, <3>0, <4>1 DEF Apart, Covers
      <4>2. CASE g[1] < n.r_off
        BY <1>6, <3>0, <4>2 DEF Apart, Covers
      <4>. QED  BY <1>6, <3>0, <4>1, <4>2
    <3>2. PICK m \in U : Covers(m, b)
      BY <1>5, <3>1
    <3>3. m \in shared
      BY <1>2, <1>5, <1>6, <3>0, <3>1, <3>2 DEF shared, Covers, Cuts
    <3>4. End(m) <= g[1] \/ g[2] <= m.r_off
      BY <2>2, <3>3
    <3>. QED  BY <1>6, <3>0, <3>1, <3>2, <3>4 DEF Covers
  <2>16. ASSUME NEW m \in T
         PROVE  Origin(T0, r, m)
    <3>1. CASE m \in U /\ m \notin shared /\ Apart(m, r)
      BY <1>5, <3>1 DEF Origin
    <3>2. CASE \E n \in shared : m = Bump(n)
      <4>1. PICK n \in shared : m = Bump(n)
        BY <3>2
      <4>2. PICK n0 \in T0 : ~Apart(n0, r) /\ Within(n, n0) /\ n.r_cnt = n0.r_cnt
        BY <2>5, <2>14
      <4>3. /\ IsProxy(m) /\ Within(m, n0) /\ Within(m, r)
            /\ m.r_cnt = n0.r_cnt + 1
        BY <2>3, <2>5, <4>1, <4>2 DEF Within
      <4>. QED  BY <4>2, <4>3 DEF Origin
    <3>3. CASE \E g \in G : m = Fill(g)
      BY <2>4, <2>6, <2>15, <3>3 DEF Origin
    <3>. QED  BY <2>8, <3>1, <3>2, <3>3
  <2>. QED  BY <2>11, <2>12, <2>13, <2>16 DEF T0
<1>. QED  BY <1>9, <1>10

----------------------------------------------------------------------------
\* Facts about a tree that agrees with the holders.

\* The numbers of a range that is held.
LEMMA HolderNumbers ==
  ASSUME NEW T, NEW H, NEW L, HoldersOK(T, H, L), NEW t \in H
  PROVE  /\ L[t].r_off \in Nat /\ L[t].r_len \in Nat /\ L[t].r_len >= 1
         /\ End(L[t]) \in Nat /\ L[t].r_off < End(L[t])
         /\ End(L[t]) = L[t].r_off + L[t].r_len
         /\ End(L[t]) <= UINT64_MAX
         /\ L[t].r_cnt \in {0, 1} /\ L[t].op \in AllOps
BY DEF HoldersOK, CallOK, LockSet, End

\* One who holds a byte of a node holds all of it.
LEMMA HoldsWhole ==
  ASSUME NEW T, NEW H, NEW L, Agree(T, H, L), NEW n \in T, NEW t \in H
  PROVE  /\ t \in HoldersAt(H, L, n.r_off) <=> Within(n, L[t])
         /\ \A b \in Nat : Covers(n, b) => (Covers(L[t], b) <=> Within(n, L[t]))
<1>1. /\ n.r_off \in Nat /\ End(n) \in Nat /\ n.r_off < End(n)
      /\ L[t].r_off \in Nat /\ End(L[t]) \in Nat /\ L[t].r_off < End(L[t])
  BY NodeNumbers, HolderNumbers DEF Agree, TreeOK
<1>2. Apart(n, L[t]) \/ Within(n, L[t])
  BY DEF Agree, NoStraddle
<1>. QED  BY <1>1, <1>2 DEF HoldersAt, Covers, Apart, Within

\* The same threads hold every byte of a node.
LEMMA SameHolders ==
  ASSUME NEW T, NEW H, NEW L, Agree(T, H, L), NEW n \in T,
         NEW b \in Nat, Covers(n, b)
  PROVE  HoldersAt(H, L, b) = HoldersAt(H, L, n.r_off)
BY HoldsWhole DEF HoldersAt

\* A byte is in one node.
LEMMA OneNode ==
  ASSUME NEW T, TreeOK(T), NEW n \in T, NEW m \in T, NEW b \in Nat,
         Covers(n, b), Covers(m, b)
  PROVE  n = m
<1>1. /\ n.r_off \in Nat /\ End(n) \in Nat
      /\ m.r_off \in Nat /\ End(m) \in Nat
  BY NodeNumbers DEF TreeOK
<1>2. n = m \/ End(n) <= m.r_off \/ End(m) <= n.r_off
  BY DEF TreeOK, Apart
<1>. QED  BY <1>1, <1>2 DEF Covers

\* Sets of threads are finite.
LEMMA HoldersFinite ==
  ASSUME NEW H \in SUBSET Threads, NEW L, NEW b
  PROVE  /\ IsFiniteSet(HoldersAt(H, L, b))
         /\ Cardinality(HoldersAt(H, L, b)) \in Nat
         /\ Cardinality(HoldersAt(H, L, b)) <= Cardinality(Threads)
         /\ Cardinality(HoldersAt(H, L, b)) = 0 <=> HoldersAt(H, L, b) = {}
<1>1. HoldersAt(H, L, b) \in SUBSET Threads
  BY DEF HoldersAt
<1>2. IsFiniteSet(Threads)
  BY RangeAssumption
<1>. QED  BY <1>1, <1>2, FS_Subset, FS_CardinalityType, FS_EmptySet

\* The rl_t of a thread that has one in the tree is alone in its range.
LEMMA OwnerAlone ==
  ASSUME NEW T, NEW H \in SUBSET Threads, NEW L, Agree(T, H, L),
         NEW n \in T, n.id \in Threads
  PROVE  /\ n.id \in HoldersAt(H, L, n.r_off)
         /\ \A u \in HoldersAt(H, L, n.r_off) : u = n.id
<1>1. n.id \in H /\ n.r_cnt = 1 /\ n.r_off = L[n.id].r_off /\ n.r_len = L[n.id].r_len
  BY DEF Agree, OwnersOK
<1>2. n.id \in HoldersAt(H, L, n.r_off)
  BY <1>1, HolderNumbers DEF Agree, HoldersAt, Covers, End
<1>3. Cardinality(HoldersAt(H, L, n.r_off)) = 1
  BY <1>1 DEF Agree, CountsOK
<1>4. PICK x : HoldersAt(H, L, n.r_off) = {x}
  BY <1>3, HoldersFinite, FS_Singleton
<1>. QED  BY <1>2, <1>4

\* How the thread of a node holds it.
LEMMA OwnerReads ==
  ASSUME NEW T, NEW H \in SUBSET Threads, NEW L, Agree(T, H, L),
         NEW n \in T, n.id \in Threads
  PROVE  n.id \in H /\ (n.r_type = "RL_READER" <=> L[n.id].op = "read")
<1>1. n.id \in HoldersAt(H, L, n.r_off)
  BY OwnerAlone
<1>. QED  BY <1>1 DEF Agree, CountsOK, OwnersOK

\* n is the rl_t of t, in the tree.
IsOwn(T, H, L, t, n) ==
  /\ n.id = t /\ n.r_off = L[t].r_off /\ n.r_len = L[t].r_len
  /\ End(n) = End(L[t]) /\ n.r_cnt = 1
  /\ HoldersAt(H, L, n.r_off) = {t}
  /\ n.r_type = "RL_READER" <=> L[t].op = "read"
  /\ \A m \in T : m.id = t => m = n

\* A thread whose rl_t has a reference finds it in the tree.
LEMMA OwnNode ==
  ASSUME NEW T, NEW H \in SUBSET Threads, NEW L, Agree(T, H, L),
         NEW t \in H, L[t].r_cnt = 1
  PROVE  \E n \in T : IsOwn(T, H, L, t, n)
<1>1. PICK n \in T : n.id = t
  BY DEF Agree, HoldersOK, InTree
<1>2. n.r_cnt = 1 /\ n.r_off = L[t].r_off /\ n.r_len = L[t].r_len
  BY <1>1 DEF Agree, OwnersOK
<1>3. HoldersAt(H, L, n.r_off) = {t}
  BY <1>1, OwnerAlone
<1>4. n.r_type = "RL_READER" <=> L[t].op = "read"
  BY <1>3 DEF Agree, CountsOK
<1>5. ASSUME NEW m \in T, m.id = t
      PROVE  m = n
  <2>1. m.r_off = n.r_off
    BY <1>2, <1>5 DEF Agree, OwnersOK
  <2>2. Covers(m, n.r_off) /\ Covers(n, n.r_off) /\ n.r_off \in Nat
    BY <2>1, NodeNumbers DEF Covers, Agree, TreeOK
  <2>. QED  BY <2>2, OneNode DEF Agree
<1>. QED  BY <1>1, <1>2, <1>3, <1>4, <1>5 DEF IsOwn, End

\* A writer's range is one node, with nobody else in it.
LEMMA WriterAlone ==
  ASSUME NEW T, NEW H \in SUBSET Threads, NEW L, Agree(T, H, L),
         NEW t \in H, L[t].op # "read", NEW u \in H, u # t
  PROVE  Apart(L[t], L[u])
<1>. SUFFICES ASSUME ~Apart(L[t], L[u])
              PROVE  FALSE
  OBVIOUS
<1>1. L[t].r_cnt = 1
  BY HolderNumbers DEF Agree, HoldersOK
<1>2. PICK n \in T : IsOwn(T, H, L, t, n)
  BY <1>1, OwnNode
<1>3. Apart(n, L[u]) \/ Within(n, L[u])
  BY DEF Agree, NoStraddle
<1>4. u \in HoldersAt(H, L, n.r_off)
  BY <1>2, <1>3, HoldsWhole DEF Apart, IsOwn
<1>. QED  BY <1>2, <1>4 DEF IsOwn

\* What the threads do besides holding does not matter to the tree.
LEMMA AgreeSame ==
  ASSUME NEW T, NEW H, NEW L, NEW L2, Agree(T, H, L), \A u \in H : L2[u] = L[u]
  PROVE  Agree(T, H, L2)
<1>1. \A b : HoldersAt(H, L2, b) = HoldersAt(H, L, b)
  BY DEF HoldersAt
<1>2. HoldersOK(T, H, L2) /\ NoStraddle(T, H, L2) /\ Covered(T, H, L2)
  BY DEF Agree, HoldersOK, NoStraddle, Covered
<1>3. OwnersOK(T, H, L2)
  BY DEF Agree, OwnersOK
<1>4. CountsOK(T, H, L2)
  <2>. SUFFICES ASSUME NEW n \in T
                PROVE  /\ n.r_cnt = Cardinality(HoldersAt(H, L, n.r_off))
                       /\ \A t \in HoldersAt(H, L, n.r_off) :
                            n.r_type = "RL_READER" <=> L2[t].op = "read"
    BY <1>1 DEF CountsOK
  <2>. QED  BY DEF Agree, CountsOK, HoldersAt
<1>. QED  BY <1>2, <1>3, <1>4 DEF Agree

\* A node of which only the flags change.
LEMMA AgreeFlag ==
  ASSUME NEW T, NEW H, NEW L, Agree(T, H, L), NEW n \in T, NEW m, NodeOK(m),
         m.id = n.id, m.r_off = n.r_off, m.r_len = n.r_len, m.r_cnt = n.r_cnt,
         m.r_type = n.r_type
  PROVE  Agree((T \ {n}) \cup {m}, H, L)
<1>. DEFINE T2 == (T \ {n}) \cup {m}
<1>1. End(m) = End(n)
  BY DEF End
<1>2. \A k \in T2 : \E l \in T :
        /\ k.id = l.id /\ k.r_off = l.r_off /\ k.r_len = l.r_len
        /\ k.r_cnt = l.r_cnt /\ k.r_type = l.r_type /\ End(k) = End(l)
  BY <1>1
<1>3. \A l \in T : \E k \in T2 :
        /\ k.id = l.id /\ k.r_off = l.r_off /\ k.r_len = l.r_len
        /\ k.r_cnt = l.r_cnt /\ k.r_type = l.r_type /\ End(k) = End(l)
  BY <1>1
<1>4. TreeOK(T2)
  BY <1>1 DEF Agree, TreeOK, Apart
<1>. HIDE DEF T2
<1>5. HoldersOK(T2, H, L)
  BY <1>3 DEF Agree, HoldersOK, InTree
<1>6. OwnersOK(T2, H, L)
  BY <1>2 DEF Agree, OwnersOK
<1>7. NoStraddle(T2, H, L)
  BY <1>2 DEF Agree, NoStraddle, Apart, Within
<1>8. Covered(T2, H, L)
  BY <1>3 DEF Agree, Covered, Covers
<1>9. CountsOK(T2, H, L)
  BY <1>2 DEF Agree, CountsOK
<1>. QED  BY <1>4, <1>5, <1>6, <1>7, <1>8, <1>9 DEF Agree, T2

\* L2 gives the new holder t the range r, and leaves the others theirs.
Grants(H, L, L2, t, r) ==
  /\ CallOK(L2[t]) /\ L2[t].r_off = r.r_off /\ L2[t].r_len = r.r_len
  /\ \A u \in H : /\ L2[u].r_off = L[u].r_off /\ L2[u].r_len = L[u].r_len
                  /\ L2[u].op = L[u].op /\ CallOK(L2[u])

\* One more holder: who holds a byte of its range, and how many.
LEMMA HoldersGrow ==
  ASSUME NEW H \in SUBSET Threads, NEW L, NEW L2, NEW t, t \notin H,
         NEW r, Grants(H, L, L2, t, r), NEW b, Covers(r, b)
  PROVE  /\ HoldersAt(H \cup {t}, L2, b) = HoldersAt(H, L, b) \cup {t}
         /\ Cardinality(HoldersAt(H \cup {t}, L2, b)) =
              Cardinality(HoldersAt(H, L, b)) + 1
<1>1. HoldersAt(H \cup {t}, L2, b) = HoldersAt(H, L, b) \cup {t}
  BY DEF Grants, Covers, End, HoldersAt
<1>2. t \notin HoldersAt(H, L, b) /\ IsFiniteSet(HoldersAt(H, L, b))
  BY HoldersFinite DEF HoldersAt
<1>. QED  BY <1>1, <1>2, FS_AddElement

\* The holders of the other bytes stay.
LEMMA HoldersStay ==
  ASSUME NEW H, NEW L, NEW L2, NEW t, NEW r, Grants(H, L, L2, t, r),
         NEW b, ~Covers(r, b)
  PROVE  HoldersAt(H \cup {t}, L2, b) = HoldersAt(H, L, b)
BY DEF Grants, Covers, End, HoldersAt

\* A range that nobody has a byte of can be given to t as a node of its own.
LEMMA AgreeOwn ==
  ASSUME NEW T, NEW H \in SUBSET Threads, NEW L, NEW L2, Agree(T, H, L),
         NEW t \in Threads \ H, NEW r, NodeOK(r), r.id = t, r.r_cnt = 1,
         \A n \in T : Apart(n, r),
         Grants(H, L, L2, t, r), L2[t].r_cnt = 1,
         \A u \in H : L2[u].r_cnt = L[u].r_cnt,
         r.r_type = "RL_READER" <=> L2[t].op = "read",
         L2[t].op = "resize" => r.r_len = UINT64_MAX
  PROVE  Agree(T \cup {r}, H \cup {t}, L2)
<1>. DEFINE T2 == T \cup {r}
            H2 == H \cup {t}
<1>0. /\ r.r_off \in Nat /\ r.r_len \in Nat /\ r.r_len >= 1 /\ End(r) \in Nat
      /\ r.r_off < End(r) /\ End(r) <= UINT64_MAX
  BY NodeNumbers
<1>1. /\ \A u \in H : End(L2[u]) = End(L[u]) /\ L2[u].r_off = L[u].r_off
      /\ End(L2[t]) = End(r) /\ L2[t].r_off = r.r_off
  BY DEF Grants, End
<1>2. TreeOK(T2)
  BY DEF Agree, TreeOK, Apart
<1>3. HoldersOK(T2, H2, L2)
  <2>1. ASSUME NEW u \in H
        PROVE  /\ CallOK(L2[u])
               /\ L2[u].r_len >= 1 /\ End(L2[u]) <= UINT64_MAX
               /\ L2[u].op = "resize" => L2[u].r_len = UINT64_MAX
               /\ L2[u].r_cnt = 1 => InTree(T2, u)
               /\ L2[u].r_cnt # 1 => L2[u].op = "read"
    BY <1>1 DEF Agree, HoldersOK, Grants, InTree
  <2>2. /\ CallOK(L2[t])
        /\ L2[t].r_len >= 1 /\ End(L2[t]) <= UINT64_MAX
        /\ L2[t].op = "resize" => L2[t].r_len = UINT64_MAX
        /\ InTree(T2, t)
    BY <1>0, <1>1 DEF Grants, InTree
  <2>. QED  BY <2>1, <2>2 DEF HoldersOK
<1>4. OwnersOK(T2, H2, L2)
  BY DEF Agree, OwnersOK, Grants
<1>5. ASSUME NEW u \in H
      PROVE  Apart(r, L[u])
  <2>. SUFFICES ASSUME ~Apart(r, L[u])
                PROVE  FALSE
    OBVIOUS
  <2>0. L[u].r_off \in Nat /\ End(L[u]) \in Nat /\ L[u].r_off < End(L[u])
    BY HolderNumbers DEF Agree
  <2>1. PICK b \in Nat : Covers(r, b) /\ Covers(L[u], b)
    <3>1. CASE r.r_off <= L[u].r_off
      BY <1>0, <2>0, <3>1 DEF Apart, Covers
    <3>2. CASE L[u].r_off < r.r_off
      BY <1>0, <2>0, <3>2 DEF Apart, Covers
    <3>. QED  BY <1>0, <2>0, <3>1, <3>2
  <2>2. PICK n \in T : Covers(n, b)
    BY <2>1 DEF Agree, Covered
  <2>3. n.r_off \in Nat /\ End(n) \in Nat
    BY NodeNumbers DEF Agree, TreeOK
  <2>. QED  BY <1>0, <2>1, <2>2, <2>3 DEF Apart, Covers
<1>6. NoStraddle(T2, H2, L2)
  <2>1. ASSUME NEW n \in T, NEW u \in H
        PROVE  Apart(n, L2[u]) \/ Within(n, L2[u])
    BY <1>1 DEF Agree, NoStraddle, Apart, Within
  <2>2. ASSUME NEW n \in T
        PROVE  Apart(n, L2[t])
    BY <1>1 DEF Apart
  <2>3. ASSUME NEW u \in H
        PROVE  Apart(r, L2[u])
    BY <1>1, <1>5 DEF Apart
  <2>4. Within(r, L2[t])
    BY <1>0, <1>1 DEF Within
  <2>. QED  BY <2>1, <2>2, <2>3, <2>4 DEF NoStraddle
<1>7. Covered(T2, H2, L2)
  <2>. SUFFICES ASSUME NEW u \in H2, NEW b \in Nat, Covers(L2[u], b)
                PROVE  \E n \in T2 : Covers(n, b)
    BY DEF Covered
  <2>1. CASE u = t
    BY <1>1, <2>1 DEF Covers
  <2>2. CASE u # t
    <3>1. u \in H /\ Covers(L[u], b)
      BY <1>1, <2>2 DEF Covers
    <3>. QED  BY <3>1 DEF Agree, Covered
  <2>. QED  BY <2>1, <2>2
<1>8. CountsOK(T2, H2, L2)
  <2>1. ASSUME NEW n \in T
        PROVE  /\ n.r_cnt = Cardinality(HoldersAt(H2, L2, n.r_off))
               /\ \A u \in HoldersAt(H2, L2, n.r_off) :
                    n.r_type = "RL_READER" <=> L2[u].op = "read"
    <3>1. n.r_off \in Nat /\ End(n) \in Nat /\ n.r_off < End(n)
      BY NodeNumbers DEF Agree, TreeOK
    <3>2. ~Covers(r, n.r_off)
      BY <1>0, <3>1 DEF Covers, Apart
    <3>3. HoldersAt(H2, L2, n.r_off) = HoldersAt(H, L, n.r_off)
      BY <3>2, HoldersStay
    <3>4. /\ n.r_cnt = Cardinality(HoldersAt(H, L, n.r_off))
          /\ \A u \in HoldersAt(H, L, n.r_off) :
               n.r_type = "RL_READER" <=> L[u].op = "read"
      BY DEF Agree, CountsOK
    <3>5. \A u \in HoldersAt(H, L, n.r_off) : L2[u].op = L[u].op
      BY DEF HoldersAt, Grants
    <3>. QED  BY <3>3, <3>4, <3>5
  <2>2. HoldersAt(H2, L2, r.r_off) = {t}
    <3>1. \A u \in H : ~Covers(L2[u], r.r_off)
      BY <1>0, <1>1, <1>5, HolderNumbers DEF Covers, Apart, Agree
    <3>2. Covers(L2[t], r.r_off)
      BY <1>0, <1>1 DEF Covers
    <3>. QED  BY <3>1, <3>2 DEF HoldersAt
  <2>3. r.r_cnt = Cardinality(HoldersAt(H2, L2, r.r_off))
    BY <2>2, FS_Singleton
  <2>. QED  BY <2>1, <2>2, <2>3 DEF CountsOK
<1>. QED  BY <1>2, <1>3, <1>4, <1>6, <1>7, <1>8 DEF Agree

\* A range whose nodes are all readers' can be shared: zfs_range_add_reader()
\* keeps the tree exact however it splits and proxies the nodes, and the rl_t
\* that it takes out of the tree know it.
LEMMA AgreeReader ==
  ASSUME NEW T, NEW H \in SUBSET Threads, NEW L, NEW L2, Agree(T, H, L),
         NEW t \in Threads, t \notin H,
         NEW r, NodeOK(r), r.id = t, r.r_cnt = 1, r.r_type = "RL_READER",
         \A n \in T : ~Apart(n, r) => n.r_type = "RL_READER",
         NEW T2, TreeOK(T2), \A m \in T2 : Origin(T, r, m),
         \A n \in T : Apart(n, r) => n \in T2,
         \A b \in Nat : Covers(r, b) \/ (\E n \in T : Covers(n, b)) =>
                          \E m \in T2 : Covers(m, b),
         Grants(H, L, L2, t, r), L2[t].op = "read",
         L2[t].r_cnt = IF InTree(T2, t) THEN 1 ELSE 0,
         \A u \in H : L2[u].r_cnt = IF InTree(T, u) /\ ~InTree(T2, u)
                                    THEN 0 ELSE L[u].r_cnt
  PROVE  Agree(T2, H \cup {t}, L2)
<1>. DEFINE H2 == H \cup {t}
<1>0. /\ r.r_off \in Nat /\ r.r_len \in Nat /\ r.r_len >= 1 /\ End(r) \in Nat
      /\ r.r_off < End(r) /\ End(r) <= UINT64_MAX
      /\ \A n \in T : n.r_off \in Nat /\ End(n) \in Nat /\ n.r_off < End(n)
      /\ \A n \in T2 : n.r_off \in Nat /\ End(n) \in Nat /\ n.r_off < End(n)
      /\ \A u \in H : L[u].r_off \in Nat /\ End(L[u]) \in Nat /\ L[u].r_off < End(L[u])
  BY NodeNumbers, HolderNumbers DEF Agree, TreeOK
<1>1. /\ \A u \in H : /\ End(L2[u]) = End(L[u]) /\ L2[u].r_off = L[u].r_off
                      /\ L2[u].op = L[u].op
      /\ End(L2[t]) = End(r) /\ L2[t].r_off = r.r_off
  BY DEF Grants, End
<1>2. ASSUME NEW m \in T2, IsProxy(m)
      PROVE  m.id \notin Threads /\ m.r_type = "RL_READER"
  <2>1. m.id = m.r_off /\ m.r_type = "RL_READER"
    BY <1>2 DEF IsProxy, Proxy, Node
  <2>. QED  BY <1>0, <2>1, RangeAssumption
<1>3. ASSUME NEW n \in T, n.id \in Threads, ~Apart(n, r)
      PROVE  n.id \in H /\ L[n.id].op = "read"
  <2>1. n.r_type = "RL_READER"
    BY <1>3
  <2>. QED  BY <1>3, <2>1, OwnerReads
<1>4. HoldersOK(T2, H2, L2)
  <2>1. ASSUME NEW u \in H
        PROVE  /\ CallOK(L2[u])
               /\ L2[u].r_len >= 1 /\ End(L2[u]) <= UINT64_MAX
               /\ L2[u].op = "resize" => L2[u].r_len = UINT64_MAX
    BY <1>1 DEF Agree, HoldersOK, Grants
  <2>2. ASSUME NEW u \in H
        PROVE  L2[u].r_cnt = 1 => InTree(T2, u)
    BY DEF Agree, HoldersOK
  <2>3. ASSUME NEW u \in H, L2[u].r_cnt # 1
        PROVE  L2[u].op = "read"
    <3>1. CASE L[u].r_cnt # 1
      BY <1>1, <3>1 DEF Agree, HoldersOK
    <3>2. CASE InTree(T, u) /\ ~InTree(T2, u)
      <4>1. PICK n \in T : n.id = u
        BY <3>2 DEF InTree
      <4>2. ~Apart(n, r)
        BY <3>2, <4>1 DEF InTree
      <4>. QED  BY <1>1, <1>3, <4>1, <4>2
    <3>. QED  BY <2>3, <3>1, <3>2
  <2>4. /\ CallOK(L2[t])
        /\ L2[t].r_len >= 1 /\ End(L2[t]) <= UINT64_MAX
        /\ L2[t].op = "read"
        /\ L2[t].r_cnt = 1 => InTree(T2, t)
    BY <1>0, <1>1 DEF Grants
  <2>. QED  BY <2>1, <2>2, <2>3, <2>4 DEF HoldersOK
<1>5. OwnersOK(T2, H2, L2)
  <2>. SUFFICES ASSUME NEW m \in T2, m.id \in Threads
                PROVE  /\ m.id \in H2
                       /\ L2[m.id].r_cnt = 1 /\ m.r_cnt = 1
                       /\ m.r_off = L2[m.id].r_off /\ m.r_len = L2[m.id].r_len
    BY DEF OwnersOK
  <2>0. InTree(T2, m.id)
    BY DEF InTree
  <2>1. CASE m \in T
    <3>1. /\ m.id \in H /\ L[m.id].r_cnt = 1 /\ m.r_cnt = 1
          /\ m.r_off = L[m.id].r_off /\ m.r_len = L[m.id].r_len
      BY <2>1 DEF Agree, OwnersOK
    <3>. QED  BY <2>0, <3>1 DEF Grants
  <2>2. CASE m = r
    BY <2>0, <2>2 DEF Grants
  <2>. QED  BY <1>2, <2>1, <2>2 DEF Origin
<1>6. ASSUME NEW u \in H, NEW b \in Nat, Covers(L[u], b)
      PROVE  \E n \in T : Covers(n, b)
  BY <1>6 DEF Agree, Covered
<1>7. ASSUME NEW m \in T2, \A n \in T : Apart(m, n)
      PROVE  \A u \in H : Apart(m, L[u])
  <2>. SUFFICES ASSUME NEW u \in H, ~Apart(m, L[u])
                PROVE  FALSE
    OBVIOUS
  <2>1. PICK b \in Nat : Covers(m, b) /\ Covers(L[u], b)
    <3>1. CASE m.r_off <= L[u].r_off
      BY <1>0, <3>1 DEF Apart, Covers
    <3>2. CASE L[u].r_off < m.r_off
      BY <1>0, <3>2 DEF Apart, Covers
    <3>. QED  BY <1>0, <3>1, <3>2
  <2>2. PICK n \in T : Covers(n, b)
    BY <1>6, <2>1
  <2>. QED  BY <1>0, <1>7, <2>1, <2>2 DEF Apart, Covers
<1>8. NoStraddle(T2, H2, L2)
  <2>1. ASSUME NEW m \in T2
        PROVE  Apart(m, L2[t]) \/ Within(m, L2[t])
    BY <1>0, <1>1 DEF Origin, Apart, Within
  <2>2. ASSUME NEW m \in T2, NEW u \in H
        PROVE  Apart(m, L[u]) \/ Within(m, L[u])
    <3>1. CASE m \in T
      BY <3>1 DEF Agree, NoStraddle
    <3>2. CASE \E n \in T : Within(m, n)
      <4>1. PICK n \in T : Within(m, n)
        BY <3>2
      <4>2. Apart(n, L[u]) \/ Within(n, L[u])
        BY DEF Agree, NoStraddle
      <4>. QED  BY <1>0, <4>1, <4>2 DEF Apart, Within
    <3>3. CASE \A n \in T : Apart(m, n)
      BY <1>7, <3>3
    <3>4. m = r => \A n \in T : Apart(n, r) => Apart(m, n)
      BY DEF Apart
    <3>. QED  BY <3>1, <3>2, <3>3, <3>4 DEF Origin
  <2>. QED  BY <1>1, <2>1, <2>2 DEF NoStraddle, Apart, Within
<1>9. Covered(T2, H2, L2)
  <2>. SUFFICES ASSUME NEW u \in H2, NEW b \in Nat, Covers(L2[u], b)
                PROVE  \E n \in T2 : Covers(n, b)
    BY DEF Covered
  <2>1. CASE u = t
    BY <1>1, <2>1 DEF Covers
  <2>2. CASE u # t
    <3>1. u \in H /\ Covers(L[u], b)
      BY <1>1, <2>2 DEF Covers
    <3>. QED  BY <1>6, <3>1
  <2>. QED  BY <2>1, <2>2
<1>10. CountsOK(T2, H2, L2)
  <2>. SUFFICES ASSUME NEW m \in T2
                PROVE  /\ m.r_cnt = Cardinality(HoldersAt(H2, L2, m.r_off))
                       /\ \A u \in HoldersAt(H2, L2, m.r_off) :
                            m.r_type = "RL_READER" <=> L2[u].op = "read"
    BY DEF CountsOK
  <2>. DEFINE W == HoldersAt(H, L, m.r_off)
              W2 == HoldersAt(H2, L2, m.r_off)
  <2>0. /\ \A u \in W : u \in H /\ L2[u].op = L[u].op
        /\ Apart(m, r) => W2 = W
        /\ Within(m, r) => W2 = W \cup {t} /\ Cardinality(W2) = Cardinality(W) + 1
    <3>1. \A u \in W : u \in H /\ L2[u].op = L[u].op
      BY <1>1 DEF HoldersAt
    <3>2. Apart(m, r) => ~Covers(r, m.r_off)
      BY <1>0 DEF Apart, Covers
    <3>3. Within(m, r) => Covers(r, m.r_off)
      BY <1>0 DEF Within, Covers
    <3>4. Apart(m, r) => W2 = W
      BY <3>2, HoldersStay
    <3>5. Within(m, r) => W2 = W \cup {t} /\ Cardinality(W2) = Cardinality(W) + 1
      BY <3>3, HoldersGrow
    <3>. QED  BY <3>1, <3>4, <3>5
  <2>1. CASE m \in T /\ Apart(m, r)
    <3>1. /\ m.r_cnt = Cardinality(W)
          /\ \A u \in W : m.r_type = "RL_READER" <=> L[u].op = "read"
      BY <2>1 DEF Agree, CountsOK
    <3>. HIDE DEF W, W2
    <3>2. m.r_cnt = Cardinality(W2)
      BY <2>0, <2>1, <3>1
    <3>3. \A u \in W2 : m.r_type = "RL_READER" <=> L2[u].op = "read"
      BY <2>0, <2>1, <3>1
    <3>. QED  BY <3>2, <3>3 DEF W2
  <2>2. CASE /\ IsProxy(m)
             /\ \E n \in T : /\ ~Apart(n, r) /\ Within(m, n)
                             /\ \/ Apart(m, r) /\ m.r_cnt = n.r_cnt
                                \/ Within(m, r) /\ m.r_cnt = n.r_cnt + 1
    <3>1. PICK n \in T : /\ ~Apart(n, r) /\ Within(m, n)
                         /\ \/ Apart(m, r) /\ m.r_cnt = n.r_cnt
                            \/ Within(m, r) /\ m.r_cnt = n.r_cnt + 1
      BY <2>2
    <3>2. Covers(n, m.r_off)
      BY <1>0, <3>1 DEF Within, Covers
    <3>3. HoldersAt(H, L, n.r_off) = W
      BY <1>0, <3>2, SameHolders
    <3>4. m.r_type = "RL_READER" /\ n.r_type = "RL_READER"
      BY <1>2, <2>2, <3>1
    <3>5. /\ n.r_cnt = Cardinality(W)
          /\ \A u \in W : n.r_type = "RL_READER" <=> L[u].op = "read"
      BY <3>3 DEF Agree, CountsOK
    <3>. HIDE DEF W, W2
    <3>6. m.r_cnt = Cardinality(W2)
      BY <2>0, <3>1, <3>5
    <3>7. \A u \in W2 : L2[u].op = "read"
      BY <2>0, <3>1, <3>4, <3>5
    <3>. QED  BY <3>4, <3>6, <3>7 DEF W2
  <2>3. CASE /\ m.r_cnt = 1 /\ m.r_type = "RL_READER"
             /\ Within(m, r) /\ \A n \in T : Apart(m, n)
    <3>1. W = {}
      BY <1>0, <1>7, <2>3 DEF HoldersAt, Covers, Apart
    <3>2. Cardinality(W) = 0
      BY <3>1, FS_EmptySet
    <3>. HIDE DEF W, W2
    <3>3. m.r_cnt = Cardinality(W2) /\ W2 = {t}
      BY <2>0, <2>3, <3>1, <3>2
    <3>. QED  BY <2>3, <3>3 DEF W2
  <2>4. CASE m = r /\ \A n \in T : Apart(n, r)
    <3>1. Within(m, r) /\ \A n \in T : Apart(m, n)
      BY <1>0, <2>4 DEF Within, Apart
    <3>. QED  BY <2>3, <2>4, <3>1
  <2>. QED  BY <1>2, <2>1, <2>2, <2>3, <2>4 DEF Origin
<1>. QED  BY <1>4, <1>5, <1>8, <1>9, <1>10 DEF Agree

\* A node with one reference less.
Dec(n) == [n EXCEPT !.r_cnt = @ - 1]

\* Giving a range up: each of its nodes loses a reference, and leaves the tree
\* with the last one.
LEMMA AgreeRelease ==
  ASSUME NEW T, NEW H \in SUBSET Threads, NEW L, NEW L2, Agree(T, H, L),
         NEW t \in H, \A u \in H \ {t} : L2[u] = L[u],
         NEW N, N = {n \in T : t \in HoldersAt(H, L, n.r_off)},
         NEW T2, T2 = (T \ N) \cup {Dec(n) : n \in {n \in N : n.r_cnt # 1}}
  PROVE  Agree(T2, H \ {t}, L2)
<1>. DEFINE H2 == H \ {t}
<1>0. \A n \in T : /\ NodeOK(n) /\ n.r_cnt \in Nat /\ n.r_cnt >= 1
                   /\ n.r_off \in Nat /\ End(n) \in Nat /\ n.r_off < End(n)
  BY NodeNumbers DEF Agree, TreeOK
<1>1. ASSUME NEW b
      PROVE  /\ HoldersAt(H2, L2, b) = HoldersAt(H, L, b) \ {t}
             /\ Cardinality(HoldersAt(H2, L2, b)) =
                  IF t \in HoldersAt(H, L, b) THEN Cardinality(HoldersAt(H, L, b)) - 1
                                              ELSE Cardinality(HoldersAt(H, L, b))
  <2>1. HoldersAt(H2, L2, b) = HoldersAt(H, L, b) \ {t}
    BY DEF HoldersAt
  <2>2. IsFiniteSet(HoldersAt(H, L, b))
    BY HoldersFinite
  <2>3. CASE t \in HoldersAt(H, L, b)
    BY <2>1, <2>2, <2>3, FS_RemoveElement
  <2>4. CASE t \notin HoldersAt(H, L, b)
    <3>1. HoldersAt(H2, L2, b) = HoldersAt(H, L, b)
      BY <2>1, <2>4
    <3>. QED  BY <2>1, <2>4, <3>1
  <2>. QED  BY <2>3, <2>4
<1>2. ASSUME NEW n \in N, n.r_cnt # 1
      PROVE  /\ NodeOK(Dec(n)) /\ Dec(n).r_off = n.r_off /\ Dec(n).r_len = n.r_len
             /\ Dec(n).r_cnt = n.r_cnt - 1 /\ Dec(n).r_type = n.r_type
             /\ Dec(n).id = n.id /\ End(Dec(n)) = End(n) /\ n.id \notin Threads
  <2>1. n \in T /\ NodeOK(n) /\ n.r_cnt \in Nat /\ n.r_cnt >= 1 /\ n \in NodeSet
    BY <1>0 DEF NodeOK
  <2>2. /\ Dec(n) \in NodeSet
        /\ Dec(n).r_off = n.r_off /\ Dec(n).r_len = n.r_len
        /\ Dec(n).r_cnt = n.r_cnt - 1 /\ Dec(n).r_type = n.r_type
        /\ Dec(n).id = n.id /\ End(Dec(n)) = End(n)
        /\ Dec(n).r_write_wanted = n.r_write_wanted
        /\ Dec(n).r_read_wanted = n.r_read_wanted
    BY <1>2, <2>1 DEF Dec, NodeSet, End
  <2>3. n.r_cnt - 1 >= 1
    BY <1>2, <2>1
  <2>4. NodeOK(Dec(n))
    BY <2>1, <2>2, <2>3 DEF NodeOK
  <2>5. n.id \notin Threads
    BY <1>2, <2>1 DEF Agree, OwnersOK
  <2>. QED  BY <2>2, <2>4, <2>5
<1>3. ASSUME NEW k \in T2
      PROVE  /\ NodeOK(k)
             /\ \E n \in T : /\ k.r_off = n.r_off /\ End(k) = End(n)
                             /\ k.r_type = n.r_type /\ k.id = n.id
                             /\ \/ k = n /\ n \notin N
                                \/ k = Dec(n) /\ n \in N /\ n.r_cnt # 1
  BY <1>0, <1>2
<1>4. ASSUME NEW n \in T, \E u \in H2 : u \in HoldersAt(H, L, n.r_off)
      PROVE  \E k \in T2 : /\ k.r_off = n.r_off /\ End(k) = End(n)
                           /\ k.id = n.id
  <2>1. CASE n \notin N
    BY <2>1
  <2>2. CASE n \in N
    <3>1. PICK u \in H2 : u \in HoldersAt(H, L, n.r_off)
      BY <1>4
    <3>2. t \in HoldersAt(H, L, n.r_off) /\ u # t
      BY <2>2
    <3>3. n.r_cnt = Cardinality(HoldersAt(H, L, n.r_off))
      BY DEF Agree, CountsOK
    <3>4. n.r_cnt # 1
      <4>. SUFFICES ASSUME n.r_cnt = 1
                    PROVE  FALSE
        OBVIOUS
      <4>1. PICK x : HoldersAt(H, L, n.r_off) = {x}
        BY <3>3, HoldersFinite, FS_Singleton
      <4>. QED  BY <3>1, <3>2, <4>1
    <3>5. Dec(n) \in T2
      BY <2>2, <3>4
    <3>. QED  BY <1>2, <2>2, <3>4, <3>5
  <2>. QED  BY <2>1, <2>2
<1>5. TreeOK(T2)
  <2>1. ASSUME NEW k1 \in T2, NEW k2 \in T2, k1 # k2
        PROVE  Apart(k1, k2)
    <3>1. PICK n1 \in T : /\ k1.r_off = n1.r_off /\ End(k1) = End(n1)
                          /\ \/ k1 = n1 /\ n1 \notin N
                             \/ k1 = Dec(n1) /\ n1 \in N
      BY <1>3
    <3>2. PICK n2 \in T : /\ k2.r_off = n2.r_off /\ End(k2) = End(n2)
                          /\ \/ k2 = n2 /\ n2 \notin N
                             \/ k2 = Dec(n2) /\ n2 \in N
      BY <1>3
    <3>3. n1 # n2
      BY <2>1, <3>1, <3>2
    <3>4. Apart(n1, n2)
      BY <3>3 DEF Agree, TreeOK
    <3>. QED  BY <3>1, <3>2, <3>4 DEF Apart
  <2>. QED  BY <1>3, <2>1 DEF TreeOK
<1>6. HoldersOK(T2, H2, L2)
  <2>. SUFFICES ASSUME NEW u \in H2
                PROVE  L[u].r_cnt = 1 => InTree(T2, u)
    BY DEF Agree, HoldersOK
  <2>1. HAVE L[u].r_cnt = 1
  <2>2. PICK n \in T : IsOwn(T, H, L, u, n)
    BY <2>1, OwnNode
  <2>3. u \in HoldersAt(H, L, n.r_off) /\ n.id = u
    BY <2>2 DEF IsOwn
  <2>. QED  BY <1>4, <2>3 DEF InTree
<1>7. OwnersOK(T2, H2, L2)
  <2>. SUFFICES ASSUME NEW k \in T2, k.id \in Threads
                PROVE  /\ k.id \in H2 /\ k \in T
                       /\ L2[k.id].r_cnt = 1 /\ k.r_cnt = 1
                       /\ k.r_off = L2[k.id].r_off /\ k.r_len = L2[k.id].r_len
    BY DEF OwnersOK
  <2>1. k \in T /\ k \notin N
    BY <1>2, <1>3
  <2>2. k.id \in HoldersAt(H, L, k.r_off)
    BY <2>1, OwnerAlone
  <2>3. k.id # t
    BY <2>1, <2>2
  <2>. QED  BY <2>1, <2>3 DEF Agree, OwnersOK
<1>8. NoStraddle(T2, H2, L2)
  <2>. SUFFICES ASSUME NEW k \in T2, NEW u \in H2
                PROVE  Apart(k, L[u]) \/ Within(k, L[u])
    BY DEF NoStraddle
  <2>1. PICK n \in T : k.r_off = n.r_off /\ End(k) = End(n)
    BY <1>3
  <2>2. Apart(n, L[u]) \/ Within(n, L[u])
    BY DEF Agree, NoStraddle
  <2>. QED  BY <2>1, <2>2 DEF Apart, Within
<1>9. Covered(T2, H2, L2)
  <2>. SUFFICES ASSUME NEW u \in H2, NEW b \in Nat, Covers(L[u], b)
                PROVE  \E k \in T2 : Covers(k, b)
    BY DEF Covered
  <2>1. PICK n \in T : Covers(n, b)
    BY DEF Agree, Covered
  <2>2. u \in HoldersAt(H, L, n.r_off)
    BY <2>1, HoldsWhole
  <2>3. PICK k \in T2 : k.r_off = n.r_off /\ End(k) = End(n)
    BY <1>4, <2>2
  <2>. QED  BY <2>1, <2>3 DEF Covers
<1>10. CountsOK(T2, H2, L2)
  <2>. SUFFICES ASSUME NEW k \in T2
                PROVE  /\ k.r_cnt = Cardinality(HoldersAt(H2, L2, k.r_off))
                       /\ \A u \in HoldersAt(H2, L2, k.r_off) :
                            k.r_type = "RL_READER" <=> L2[u].op = "read"
    BY DEF CountsOK
  <2>1. PICK n \in T : /\ k.r_off = n.r_off /\ k.r_type = n.r_type
                       /\ \/ k = n /\ n \notin N
                          \/ k = Dec(n) /\ n \in N /\ n.r_cnt # 1
    BY <1>3
  <2>2. /\ n.r_cnt = Cardinality(HoldersAt(H, L, n.r_off))
        /\ \A u \in HoldersAt(H, L, n.r_off) :
             n.r_type = "RL_READER" <=> L[u].op = "read"
    BY DEF Agree, CountsOK
  <2>3. k.r_cnt = IF n \in N THEN n.r_cnt - 1 ELSE n.r_cnt
    BY <1>2, <2>1
  <2>4. n \in N <=> t \in HoldersAt(H, L, n.r_off)
    OBVIOUS
  <2>5. k.r_cnt = Cardinality(HoldersAt(H2, L2, k.r_off))
    BY <1>1, <2>1, <2>2, <2>3, <2>4
  <2>6. ASSUME NEW u \in HoldersAt(H2, L2, k.r_off)
        PROVE  k.r_type = "RL_READER" <=> L2[u].op = "read"
    <3>1. u \in HoldersAt(H, L, n.r_off) /\ u \in H /\ u # t
      BY <1>1, <2>1 DEF HoldersAt
    <3>. QED  BY <2>1, <2>2, <3>1
  <2>. QED  BY <2>5, <2>6
<1>. QED  BY <1>5, <1>6, <1>7, <1>8, <1>9, <1>10 DEF Agree

\* A writer that holds the whole file holds it alone, as the only node.
LEMMA WholeAlone ==
  ASSUME NEW T, NEW H \in SUBSET Threads, NEW L, Agree(T, H, L),
         NEW t \in H, L[t].op # "read", L[t].r_len = UINT64_MAX
  PROVE  /\ L[t].r_off = 0 /\ End(L[t]) = UINT64_MAX
         /\ H = {t}
         /\ \E n \in T : T = {n} /\ IsOwn(T, H, L, t, n)
<1>1. L[t].r_off = 0 /\ End(L[t]) = UINT64_MAX
  <2>1. /\ L[t].r_off \in Nat /\ L[t].r_len \in Nat /\ End(L[t]) <= UINT64_MAX
        /\ End(L[t]) = L[t].r_off + L[t].r_len
    BY HolderNumbers DEF Agree
  <2>. QED  BY <2>1
<1>2. \A u \in H : u = t
  <2>. SUFFICES ASSUME NEW u \in H, u # t
                PROVE  FALSE
    OBVIOUS
  <2>1. Apart(L[t], L[u])
    BY WriterAlone
  <2>2. /\ L[u].r_off \in Nat /\ End(L[u]) \in Nat /\ L[u].r_off < End(L[u])
        /\ End(L[u]) <= UINT64_MAX /\ End(L[t]) \in Nat
    BY HolderNumbers DEF Agree
  <2>. QED  BY <1>1, <2>1, <2>2 DEF Apart
<1>3. L[t].r_cnt = 1
  BY HolderNumbers DEF Agree, HoldersOK
<1>4. PICK n \in T : IsOwn(T, H, L, t, n)
  BY <1>3, OwnNode
<1>5. \A m \in T : m = n
  <2>. SUFFICES ASSUME NEW m \in T, m # n
                PROVE  FALSE
    OBVIOUS
  <2>1. Apart(m, n)
    BY DEF Agree, TreeOK
  <2>2. n.r_off = 0 /\ End(n) = UINT64_MAX
    BY <1>1, <1>4 DEF IsOwn
  <2>3. /\ m.r_off \in Nat /\ End(m) \in Nat /\ m.r_off < End(m)
        /\ End(m) <= UINT64_MAX
    BY NodeNumbers DEF Agree, TreeOK
  <2>4. End(n) \in Nat
    BY NodeNumbers DEF Agree, TreeOK
  <2>. QED  BY <2>1, <2>2, <2>3, <2>4 DEF Apart
<1>. QED  BY <1>1, <1>2, <1>4, <1>5

----------------------------------------------------------------------------
\* The invariant is inductive.

\* Who holds a range after a step of t.
LEMMA HoldingNext ==
  ASSUME FileOK, NEW t \in Threads, NEW p, pc' = [pc EXCEPT ![t] = p]
  PROVE  Holding' = IF p \in {"held", "reduced"} THEN Holding \cup {t}
                                                 ELSE Holding \ {t}
BY DEF FileOK, Holding

\* Init establishes the invariant: an empty tree, and nobody holds anything.
LEMMA LockInvInit == Init => LockInv
<1>. SUFFICES ASSUME Init
              PROVE  LockInv
  OBVIOUS
<1>. USE DEF Init
<1>1. FileOK
  <2>1. z_blksz \in {0, 1} /\ zp_size = 0 /\ z_vnode \in BOOLEAN /\ several \in BOOLEAN
    OBVIOUS
  <2>2. pc \in [Threads -> Pcs]
    BY DEF Pcs
  <2>. QED  BY <2>1, <2>2, RangeAssumption DEF FileOK
<1>2. Holding = {}
  BY DEF Holding
<1>3. Agree(z_range_avl, Holding, rl)
  BY <1>2 DEF Agree, TreeOK, HoldersOK, OwnersOK, NoStraddle, Covered, CountsOK
<1>4. CallsOK
  BY DEF CallsOK, NoLock, LockSet
<1>. QED  BY <1>1, <1>3, <1>4 DEF LockInv

\* WriterRange() gives a range of the file.
LEMMA WriterRangeFact ==
  ASSUME FileOK, NEW q, CallOK(q), NEW max
  PROVE  LET r == WriterRange(q, max)
         IN /\ r[1] \in Nat /\ r[2] \in Nat /\ r[2] >= 1 /\ r[1] + r[2] <= UINT64_MAX
            /\ q.op = "resize" => r[2] = UINT64_MAX
            /\ r = <<r[1], r[2]>>
<1>1. Limit \in Nat /\ MaxLen \in Nat /\ Limit >= 1 /\ UINT64_MAX = Limit + MaxLen
  BY RangeAssumption DEF UINT64_MAX
<1>2. /\ q.off \in Nat /\ q.len \in Nat /\ q.len >= 1 /\ q.off + q.len <= UINT64_MAX
      /\ q.op = "append" => q.len <= MaxLen
      /\ q.op = "resize" => q.len = UINT64_MAX
  BY DEF CallOK, LockSet
<1>3. zp_size \in Nat /\ zp_size <= Limit
  BY <1>1 DEF FileOK
<1>. DEFINE off == IF q.op = "append" THEN zp_size ELSE q.off
<1>4. WriterRange(q, max) \in {<<0, UINT64_MAX>>, <<off, q.len>>}
  BY DEF WriterRange
<1>5. off \in Nat /\ off + q.len <= UINT64_MAX
  BY <1>1, <1>2, <1>3
<1>. HIDE DEF off
<1>. QED  BY <1>1, <1>2, <1>4, <1>5

\* The loop of zfs_range_lock_writer() keeps the invariant.
LEMMA WriterLoopInv ==
  ASSUME LockInv, NEW t \in Threads, pc[t] \in {"idle", "wrWoken"},
         NEW q, CallOK(q), q.op # "read", WriterLoop(t, q),
         UNCHANGED <<z_vnode, zp_size, z_blksz, several>>
  PROVE  LockInv'
<1>max. PICK max \in MaxBlksz : WriterTry(t, q, WriterRange(q, max))
  BY DEF WriterLoop
<1>. DEFINE a == WriterRange(q, max)[1]
            k == WriterRange(q, max)[2]
            blockers == WriterBlockers(a, k)
            r == Node(t, a, k, 1, "RL_WRITER")
<1>0. /\ FileOK /\ CallsOK /\ Agree(z_range_avl, Holding, rl)
      /\ TreeOK(z_range_avl)
      /\ Holding \in SUBSET Threads /\ t \notin Holding
      /\ pc \in [Threads -> Pcs] /\ rl \in [Threads -> LockSet]
  BY DEF LockInv, Agree, Holding, FileOK, CallsOK
<1>1. a \in Nat /\ k \in Nat /\ k >= 1 /\ a + k <= UINT64_MAX
      /\ (q.op = "resize" => k = UINT64_MAX)
  BY <1>0, WriterRangeFact
<1>2. /\ blockers \subseteq z_range_avl
      /\ blockers = {} => \A n \in z_range_avl : a + k <= n.r_off \/ End(n) <= a
  BY <1>0, <1>1, WriterBlockersFact
<1>3. q \in LockSet
  BY DEF CallOK
<1>4. CASE blockers = {}
  <2>1. /\ z_range_avl' = z_range_avl \cup {r}
        /\ rl' = [rl EXCEPT ![t] = [q EXCEPT !.r_off = a, !.r_len = k, !.r_cnt = 1]]
        /\ pc' = [pc EXCEPT ![t] = "held"]
    BY <1>max, <1>4 DEF WriterTry
  <2>. HIDE DEF a, k
  <2>2. /\ r.id = t /\ r.r_off = a /\ r.r_len = k /\ r.r_cnt = 1
        /\ r.r_type = "RL_WRITER" /\ End(r) = a + k /\ ~r.r_read_wanted
        /\ r \in NodeSet
    BY <1>1 DEF Node, End, NodeSet, Types
  <2>. HIDE DEF r
  <2>3. NodeOK(r)
    BY <1>1, <2>2 DEF NodeOK
  <2>4. \A n \in z_range_avl : Apart(n, r)
    BY <1>2, <1>4, <2>2 DEF Apart
  <2>5. /\ rl'[t] \in LockSet /\ rl'[t].r_off = a /\ rl'[t].r_len = k
        /\ rl'[t].r_cnt = 1 /\ rl'[t].op = q.op
        /\ rl'[t].off = q.off /\ rl'[t].len = q.len
        /\ rl' \in [Threads -> LockSet]
        /\ \A u \in Threads : u # t => rl'[u] = rl[u]
    BY <1>0, <1>1, <1>3, <2>1 DEF LockSet
  <2>6. CallOK(rl'[t])
    BY <2>5 DEF CallOK
  <2>7. \A u \in Holding : rl'[u] = rl[u] /\ CallOK(rl[u])
    BY <1>0, <2>5 DEF Agree, HoldersOK
  <2>8. Grants(Holding, rl, rl', t, r)
    BY <2>2, <2>5, <2>6, <2>7 DEF Grants
  <2>9. Holding' = Holding \cup {t}
    BY <1>0, <2>1, HoldingNext
  <2>10. Agree(z_range_avl', Holding', rl')
    BY <1>0, <1>1, <2>1, <2>2, <2>3, <2>4, <2>5, <2>7, <2>8, <2>9, AgreeOwn
  <2>11. CallsOK'
    BY <1>0, <2>1, <2>5 DEF CallsOK
  <2>12. FileOK'
    BY <1>0, <2>1 DEF FileOK, Pcs
  <2>. QED  BY <2>10, <2>11, <2>12 DEF LockInv
<1>5. CASE blockers # {}
  <2>1. PICK n \in blockers :
          /\ z_range_avl' = (z_range_avl \ {n})
                              \cup {[n EXCEPT !.r_write_wanted = TRUE]}
          /\ rl' = [rl EXCEPT ![t] = q]
          /\ pc' = [pc EXCEPT ![t] = "wrSleep"]
    BY <1>max, <1>5 DEF WriterTry
  <2>. HIDE DEF a, k, r, blockers
  <2>. DEFINE m == [n EXCEPT !.r_write_wanted = TRUE]
  <2>2. n \in z_range_avl /\ NodeOK(n)
    BY <1>0, <1>2 DEF TreeOK
  <2>3. /\ NodeOK(m) /\ m.id = n.id /\ m.r_off = n.r_off /\ m.r_len = n.r_len
        /\ m.r_cnt = n.r_cnt /\ m.r_type = n.r_type
    BY <2>2 DEF NodeOK, NodeSet, End
  <2>4. Agree(z_range_avl', Holding, rl)
    <3>. HIDE DEF m
    <3>. QED  BY <1>0, <2>1, <2>2, <2>3, AgreeFlag DEF m
  <2>5. /\ \A u \in Holding : rl'[u] = rl[u]
        /\ rl' \in [Threads -> LockSet]
    BY <1>0, <1>3, <2>1
  <2>6. Holding' = Holding
    <3>1. Holding' = Holding \ {t}
      BY <1>0, <2>1, HoldingNext
    <3>. QED  BY <1>0, <3>1
  <2>7. Agree(z_range_avl', Holding', rl')
    BY <2>4, <2>5, <2>6, AgreeSame
  <2>8. CallsOK'
    BY <1>0, <2>1, <2>5 DEF CallsOK
  <2>9. FileOK'
    BY <1>0, <2>1 DEF FileOK, Pcs
  <2>. QED  BY <2>7, <2>8, <2>9 DEF LockInv
<1>. QED  BY <1>4, <1>5

\* The loop of zfs_range_lock_reader() keeps the invariant.
LEMMA ReaderLoopInv ==
  ASSUME LockInv, NEW t \in Threads, pc[t] \in {"idle", "rdWoken"},
         NEW q, CallOK(q), q.op = "read", ReaderLoop(t, q),
         UNCHANGED <<z_vnode, zp_size, z_blksz, several>>
  PROVE  LockInv'
<1>. DEFINE blockers == ReaderBlockers(q.off, q.len)
            r == Node(t, q.off, q.len, 1, "RL_READER")
            T == zfs_range_add_reader(t, q.off, q.len)
<1>0. /\ FileOK /\ CallsOK /\ Agree(z_range_avl, Holding, rl)
      /\ TreeOK(z_range_avl)
      /\ Holding \in SUBSET Threads /\ t \notin Holding
      /\ pc \in [Threads -> Pcs] /\ rl \in [Threads -> LockSet]
  BY DEF LockInv, Agree, Holding, FileOK, CallsOK
<1>1. /\ q.off \in Nat /\ q.len \in Nat /\ q.len >= 1 /\ q.off + q.len <= UINT64_MAX
      /\ q \in LockSet
  BY DEF CallOK, LockSet
<1>2. CASE blockers = {}
  <2>1. /\ z_range_avl' = T
        /\ rl' = [u \in Threads |->
                    IF u = t
                    THEN [q EXCEPT !.r_off = q.off, !.r_len = q.len,
                                   !.r_cnt = IF InTree(T, t) THEN 1 ELSE 0]
                    ELSE IF InTree(z_range_avl, u) /\ ~InTree(T, u)
                    THEN [rl[u] EXCEPT !.r_cnt = 0] ELSE rl[u]]
        /\ pc' = [pc EXCEPT ![t] = "held"]
    BY <1>2 DEF ReaderLoop
  <2>2. /\ r.id = t /\ r.r_off = q.off /\ r.r_len = q.len /\ r.r_cnt = 1
        /\ r.r_type = "RL_READER" /\ End(r) = q.off + q.len /\ ~r.r_read_wanted
        /\ r \in NodeSet
    BY <1>1 DEF Node, End, NodeSet, Types
  <2>3. /\ TreeOK(T)
        /\ \A m \in T : Origin(z_range_avl, r, m)
        /\ \A n \in z_range_avl : Apart(n, r) => n \in T
        /\ \A b \in Nat :
             Covers(r, b) \/ (\E n \in z_range_avl : Covers(n, b)) =>
               \E m \in T : Covers(m, b)
    <3>. HIDE DEF r, T
    <3>. QED  BY <1>0, <1>1, AddReaderFact DEF r, T
  <2>. HIDE DEF r, T
  <2>4. NodeOK(r)
    BY <1>1, <2>2 DEF NodeOK
  <2>5. \A n \in z_range_avl : ~Apart(n, r) => n.r_type = "RL_READER"
    <3>. SUFFICES ASSUME NEW n \in z_range_avl, ~Apart(n, r)
                  PROVE  n.r_type = "RL_READER"
      OBVIOUS
    <3>1. n.r_off \in Nat /\ End(n) \in Nat /\ n.r_type \in Types
      BY <1>0, NodeNumbers DEF TreeOK, NodeOK, NodeSet
    <3>2. n \in Overlapping(q.off, q.len)
      BY <1>1, <2>2, <3>1 DEF Overlapping, Apart
    <3>3. n.r_type # "RL_WRITER"
      BY <1>2, <3>2 DEF ReaderBlockers
    <3>. QED  BY <3>1, <3>3 DEF Types
  <2>6. /\ rl'[t] \in LockSet /\ rl'[t].r_off = q.off /\ rl'[t].r_len = q.len
        /\ rl'[t].r_cnt = (IF InTree(T, t) THEN 1 ELSE 0) /\ rl'[t].op = q.op
        /\ rl'[t].off = q.off /\ rl'[t].len = q.len
    BY <1>1, <2>1 DEF LockSet
  <2>7. ASSUME NEW u \in Threads, u # t
        PROVE  /\ rl'[u] \in LockSet
               /\ rl'[u].r_cnt = (IF InTree(z_range_avl, u) /\ ~InTree(T, u)
                                  THEN 0 ELSE rl[u].r_cnt)
               /\ rl'[u].r_off = rl[u].r_off /\ rl'[u].r_len = rl[u].r_len
               /\ rl'[u].op = rl[u].op
               /\ rl'[u].off = rl[u].off /\ rl'[u].len = rl[u].len
    <3>1. rl[u] \in LockSet
      BY <1>0
    <3>2. CASE InTree(z_range_avl, u) /\ ~InTree(T, u)
      <4>1. rl'[u] = [rl[u] EXCEPT !.r_cnt = 0]
        BY <2>1, <2>7, <3>2
      <4>. QED  BY <3>1, <3>2, <4>1 DEF LockSet
    <3>3. CASE ~(InTree(z_range_avl, u) /\ ~InTree(T, u))
      <4>1. rl'[u] = rl[u]
        BY <2>1, <2>7, <3>3
      <4>. QED  BY <3>1, <3>3, <4>1
    <3>. QED  BY <3>2, <3>3
  <2>8. rl' \in [Threads -> LockSet]
    <3>1. rl' = [u \in Threads |-> rl'[u]]
      BY <2>1
    <3>2. \A u \in Threads : rl'[u] \in LockSet
      BY <2>6, <2>7
    <3>. QED  BY <3>1, <3>2
  <2>9. \A u \in Threads : u # t /\ CallOK(rl[u]) => CallOK(rl'[u])
    BY <2>7 DEF CallOK
  <2>10. CallOK(rl'[t])
    BY <2>6 DEF CallOK
  <2>11. Grants(Holding, rl, rl', t, r)
    <3>1. \A u \in Holding : CallOK(rl[u]) /\ u \in Threads /\ u # t
      BY <1>0 DEF Agree, HoldersOK
    <3>2. \A u \in Holding : CallOK(rl'[u])
      BY <2>9, <3>1
    <3>. QED  BY <2>2, <2>6, <2>7, <2>10, <3>1, <3>2 DEF Grants
  <2>12. Holding' = Holding \cup {t}
    BY <1>0, <2>1, HoldingNext
  <2>13. \A u \in Holding :
           rl'[u].r_cnt = IF InTree(z_range_avl, u) /\ ~InTree(T, u)
                          THEN 0 ELSE rl[u].r_cnt
    BY <1>0, <2>7
  <2>14. Agree(T, Holding \cup {t}, rl')
    BY <1>0, <2>2, <2>3, <2>4, <2>5, <2>6, <2>11, <2>13, AgreeReader
  <2>15. CallsOK'
    BY <1>0, <2>1, <2>7, <2>8, <2>9 DEF CallsOK
  <2>16. FileOK'
    BY <1>0, <2>1 DEF FileOK, Pcs
  <2>. QED  BY <2>1, <2>12, <2>14, <2>15, <2>16 DEF LockInv
<1>3. CASE blockers # {}
  <2>1. PICK n \in blockers :
          /\ z_range_avl' = (z_range_avl \ {n})
                              \cup {[n EXCEPT !.r_read_wanted = TRUE]}
          /\ rl' = [rl EXCEPT ![t] = q]
          /\ pc' = [pc EXCEPT ![t] = "rdSleep"]
    BY <1>3 DEF ReaderLoop
  <2>. DEFINE m == [n EXCEPT !.r_read_wanted = TRUE]
  <2>2. n \in z_range_avl /\ NodeOK(n) /\ (n.r_type = "RL_WRITER" \/ n.r_write_wanted)
    BY <1>0 DEF TreeOK, ReaderBlockers, Overlapping
  <2>3. /\ NodeOK(m) /\ m.id = n.id /\ m.r_off = n.r_off /\ m.r_len = n.r_len
        /\ m.r_cnt = n.r_cnt /\ m.r_type = n.r_type
    BY <2>2 DEF NodeOK, NodeSet, End
  <2>4. Agree(z_range_avl', Holding, rl)
    <3>. HIDE DEF m
    <3>. QED  BY <1>0, <2>1, <2>2, <2>3, AgreeFlag DEF m
  <2>5. /\ \A u \in Holding : rl'[u] = rl[u]
        /\ rl' \in [Threads -> LockSet]
    BY <1>0, <1>1, <2>1
  <2>6. Holding' = Holding
    <3>1. Holding' = Holding \ {t}
      BY <1>0, <2>1, HoldingNext
    <3>. QED  BY <1>0, <3>1
  <2>7. Agree(z_range_avl', Holding', rl')
    BY <2>4, <2>5, <2>6, AgreeSame
  <2>8. CallsOK'
    BY <1>0, <2>1, <2>5 DEF CallsOK
  <2>9. FileOK'
    BY <1>0, <2>1 DEF FileOK, Pcs
  <2>. QED  BY <2>7, <2>8, <2>9 DEF LockInv
<1>. QED  BY <1>2, <1>3

\* The arguments with which zfs_range_lock() enters its loops.
LEMMA RequestOK ==
  ASSUME NEW op \in AllOps, NEW req \in Requests(op), NEW q,
         q = [NoLock EXCEPT !.op = op, !.off = req[1],
                            !.len = ClipLen(req[1], req[2])]
  PROVE  CallOK(q) /\ q.op = op
<1>. DEFINE o == req[1]
            l == ClipLen(req[1], req[2])
<1>1. /\ Limit \in Nat /\ MaxLen \in Nat /\ Limit >= 1 /\ MaxLen >= 1
      /\ UINT64_MAX = Limit + MaxLen
  BY RangeAssumption DEF UINT64_MAX
<1>o. \A o2 \in Offs : o2 \in Nat /\ o2 < Limit
  BY <1>1, RangeAssumption
<1>l. \A l2 \in Lens : l2 \in Nat /\ l2 >= 1 /\ l2 <= MaxLen
  BY <1>1, RangeAssumption
<1>2. /\ req[1] \in Nat /\ req[2] \in Nat /\ req[1] < Limit /\ req[2] >= 1
      /\ op \in {"write", "append", "read"} => req[2] <= MaxLen
      /\ op = "resize" => req[1] = 0 /\ req[2] = UINT64_MAX
      /\ req[2] <= UINT64_MAX
  <2>1. CASE op = "append"
    BY <1>1, <1>o, <1>l, <2>1 DEF Requests
  <2>2. CASE op = "resize"
    BY <1>1, <2>2 DEF Requests
  <2>3. CASE op = "putpage"
    BY <1>1, <1>o, <1>l, <2>3 DEF Requests
  <2>4. CASE op \in {"read", "write"}
    BY <1>1, <1>o, <1>l, <2>4 DEF Requests
  <2>. QED  BY <2>1, <2>2, <2>3, <2>4 DEF AllOps
<1>3. l = IF req[1] + req[2] <= UINT64_MAX THEN req[2] ELSE UINT64_MAX - req[1]
  BY <1>1, <1>2, ClipLenFact
<1>. HIDE DEF l
<1>4. /\ l \in Nat /\ l >= 1 /\ o + l <= UINT64_MAX
      /\ op \in {"write", "append", "read"} => l <= MaxLen
      /\ op = "resize" => l = UINT64_MAX
  BY <1>1, <1>2, <1>3
<1>5. q = [op |-> op, off |-> o, len |-> l, r_off |-> 0, r_len |-> 0, r_cnt |-> 0,
           r_write_wanted |-> FALSE, r_read_wanted |-> FALSE]
  BY DEF l, NoLock
<1>6. q \in LockSet /\ q.op = op /\ q.off = o /\ q.len = l
  <2>1. o \in Nat
    BY <1>2
  <2>2. op \in AllOps \cup {"none"} /\ l \in Nat
    BY <1>4
  <2>. HIDE DEF o
  <2>3. q.op = op /\ q.off = o /\ q.len = l
    BY ONLY <1>5
  <2>4. q \in LockSet
    BY ONLY <1>5, <2>1, <2>2 DEF LockSet
  <2>. QED  BY <2>3, <2>4
<1>7. op # "none"
  BY DEF AllOps
<1>. QED  BY <1>2, <1>4, <1>6, <1>7 DEF CallOK

\* zfs_range_lock() keeps the invariant.
LEMMA LockKeeps ==
  ASSUME LockInv, NEW t \in Threads, zfs_range_lock(t)
  PROVE  LockInv'
<1>0. PICK op \in AllOps : \E req \in Requests(op) :
        LET q == [NoLock EXCEPT !.op = op, !.off = req[1],
                                !.len = ClipLen(req[1], req[2])]
        IN IF op = "read" THEN ReaderLoop(t, q) ELSE WriterLoop(t, q)
  BY RangeAssumption DEF zfs_range_lock
<1>1. PICK req \in Requests(op) :
        LET q == [NoLock EXCEPT !.op = op, !.off = req[1],
                                !.len = ClipLen(req[1], req[2])]
        IN IF op = "read" THEN ReaderLoop(t, q) ELSE WriterLoop(t, q)
  BY <1>0
<1>. DEFINE q == [NoLock EXCEPT !.op = op, !.off = req[1],
                                !.len = ClipLen(req[1], req[2])]
<1>2. CallOK(q) /\ q.op = op
  BY RequestOK
<1>3. IF op = "read" THEN ReaderLoop(t, q) ELSE WriterLoop(t, q)
  BY <1>1
<1>4. pc[t] = "idle" /\ UNCHANGED <<z_vnode, zp_size, z_blksz, several>>
  BY DEF zfs_range_lock
<1>. HIDE DEF q
<1>5. CASE op = "read"
  BY <1>2, <1>3, <1>4, <1>5, ReaderLoopInv
<1>6. CASE op # "read"
  BY <1>2, <1>3, <1>4, <1>6, WriterLoopInv
<1>. QED  BY <1>5, <1>6

\* What a broadcast does to the threads.
LEMMA BroadcastFact ==
  ASSUME FileOK, NEW t \in Threads, NEW p \in Pcs, NEW S, Broadcast(S, t, p)
  PROVE  /\ pc' \in [Threads -> Pcs] /\ pc'[t] = p
         /\ \A u \in Threads : u # t =>
              \/ pc'[u] = pc[u]
              \/ pc[u] = "wrSleep" /\ pc'[u] = "wrWoken"
              \/ pc[u] = "rdSleep" /\ pc'[u] = "rdWoken"
         /\ Holding' = IF p \in {"held", "reduced"} THEN Holding \cup {t}
                                                    ELSE Holding \ {t}
<1>1. /\ pc' \in [Threads -> Pcs] /\ pc'[t] = p
      /\ \A u \in Threads : u # t =>
           \/ pc'[u] = pc[u]
           \/ pc[u] = "wrSleep" /\ pc'[u] = "wrWoken"
           \/ pc[u] = "rdSleep" /\ pc'[u] = "rdWoken"
  BY DEF Broadcast, FileOK, Pcs
<1>2. \A u \in Threads : u # t => (u \in Holding' <=> u \in Holding)
  BY <1>1 DEF Holding
<1>3. t \in Holding' <=> p \in {"held", "reduced"}
  BY <1>1 DEF Holding
<1>. QED  BY <1>1, <1>2, <1>3 DEF Holding

\* The nodes that zfs_range_unlock_reader() visits are the ones of the range.
LEMMA NodesOfFact ==
  ASSUME LockInv, NEW t \in Holding
  PROVE  NodesOf(t) = {n \in z_range_avl : t \in HoldersAt(Holding, rl, n.r_off)}
<1>0. /\ Agree(z_range_avl, Holding, rl) /\ Holding \in SUBSET Threads
      /\ TreeOK(z_range_avl)
  BY DEF LockInv, Holding, Agree
<1>1. CASE rl[t].r_cnt = 1
  <2>1. PICK n \in z_range_avl : IsOwn(z_range_avl, Holding, rl, t, n)
    BY <1>0, <1>1, OwnNode
  <2>2. ASSUME NEW m \in z_range_avl, t \in HoldersAt(Holding, rl, m.r_off)
        PROVE  m = n
    <3>1. m.r_off \in Nat /\ n.r_off \in Nat /\ m.r_off < End(m)
      BY <1>0, NodeNumbers DEF TreeOK
    <3>2. Covers(n, m.r_off) /\ Covers(m, m.r_off)
      BY <2>1, <2>2, <3>1 DEF IsOwn, HoldersAt, Covers
    <3>. QED  BY <1>0, <3>1, <3>2, OneNode
  <2>3. NodesOf(t) = {n}
    BY <1>1, <2>1 DEF NodesOf, IsOwn
  <2>4. t \in HoldersAt(Holding, rl, n.r_off)
    BY <2>1 DEF IsOwn
  <2>. QED  BY <2>2, <2>3, <2>4
<1>2. CASE rl[t].r_cnt # 1
  BY <1>2 DEF NodesOf, HoldersAt, Covers
<1>. QED  BY <1>1, <1>2

\* zfs_range_unlock() of a reader keeps the invariant.
LEMMA UnlockReadKeeps ==
  ASSUME LockInv, NEW t \in Threads, zfs_range_unlock_read(t)
  PROVE  LockInv'
<1>. DEFINE N == NodesOf(t)
            gone == {n \in N : n.r_cnt = 1}
<1>0. /\ FileOK /\ CallsOK /\ Agree(z_range_avl, Holding, rl)
      /\ Holding \in SUBSET Threads /\ t \in Holding
      /\ pc \in [Threads -> Pcs] /\ rl \in [Threads -> LockSet]
  BY DEF LockInv, Holding, FileOK, CallsOK, zfs_range_unlock_read
<1>1. /\ z_range_avl' = (z_range_avl \ N) \cup {[n EXCEPT !.r_cnt = @ - 1] : n \in N \ gone}
      /\ Broadcast(gone, t, "idle")
      /\ rl' = [rl EXCEPT ![t] = NoLock]
      /\ UNCHANGED <<z_vnode, zp_size, z_blksz, several>>
  BY DEF zfs_range_unlock_read, zfs_range_unlock_reader
<1>2. N = {n \in z_range_avl : t \in HoldersAt(Holding, rl, n.r_off)}
  BY <1>0, NodesOfFact
<1>3. z_range_avl' = (z_range_avl \ N) \cup {Dec(n) : n \in {n \in N : n.r_cnt # 1}}
  BY <1>1 DEF Dec
<1>. HIDE DEF N, gone
<1>4. /\ pc' \in [Threads -> Pcs] /\ pc'[t] = "idle"
      /\ \A u \in Threads : u # t =>
           \/ pc'[u] = pc[u]
           \/ pc[u] = "wrSleep" /\ pc'[u] = "wrWoken"
           \/ pc[u] = "rdSleep" /\ pc'[u] = "rdWoken"
      /\ Holding' = Holding \ {t}
  <2>1. "idle" \in Pcs
    BY DEF Pcs
  <2>. QED  BY <1>0, <1>1, <2>1, BroadcastFact
<1>5. /\ \A u \in Threads : u # t => rl'[u] = rl[u]
      /\ rl' \in [Threads -> LockSet]
  BY <1>0, <1>1 DEF NoLock, LockSet
<1>6. Agree(z_range_avl', Holding \ {t}, rl')
  <2>1. \A u \in Holding \ {t} : rl'[u] = rl[u]
    BY <1>0, <1>5
  <2>. QED  BY <1>0, <1>2, <1>3, <2>1, AgreeRelease
<1>7. CallsOK'
  BY <1>0, <1>4, <1>5 DEF CallsOK
<1>8. FileOK'
  BY <1>0, <1>1, <1>4 DEF FileOK
<1>. QED  BY <1>4, <1>6, <1>7, <1>8 DEF LockInv

\* zfs_range_unlock() of a writer, up to its broadcasts, keeps the invariant.
LEMMA UnlockWriteKeeps ==
  ASSUME LockInv, NEW t \in Threads, zfs_range_unlock_write(t)
  PROVE  LockInv'
<1>0. /\ FileOK /\ CallsOK /\ Agree(z_range_avl, Holding, rl) /\ TreeOK(z_range_avl)
      /\ Holding \in SUBSET Threads /\ t \in Holding
      /\ pc \in [Threads -> Pcs] /\ rl \in [Threads -> LockSet]
  BY DEF LockInv, Holding, FileOK, CallsOK, zfs_range_unlock_write, Agree
<1>1. PICK n \in z_range_avl :
        /\ n.id = t
        /\ z_range_avl' = z_range_avl \ {n}
        /\ rl' = [rl EXCEPT ![t] =
                     [NoLock EXCEPT !.r_write_wanted = n.r_write_wanted,
                                    !.r_read_wanted = n.r_read_wanted]]
  BY DEF zfs_range_unlock_write
<1>2. pc' = [pc EXCEPT ![t] = "unlocked"] /\ UNCHANGED <<z_vnode, zp_size, z_blksz, several>>
  BY DEF zfs_range_unlock_write
<1>. DEFINE N == {m \in z_range_avl : t \in HoldersAt(Holding, rl, m.r_off)}
<1>3. NodesOf(t) = N
  BY <1>0, NodesOfFact
<1>4. n.r_cnt = 1 /\ rl[t].r_cnt = 1
  BY <1>0, <1>1 DEF Agree, OwnersOK
<1>5. PICK m \in z_range_avl : IsOwn(z_range_avl, Holding, rl, t, m)
  BY <1>0, <1>4, OwnNode
<1>6. NodesOf(t) = {n}
  BY <1>1, <1>4, <1>5 DEF NodesOf, IsOwn
<1>. HIDE DEF N
<1>7. z_range_avl' = (z_range_avl \ N) \cup {Dec(k) : k \in {k \in N : k.r_cnt # 1}}
  BY <1>1, <1>3, <1>4, <1>6
<1>8. /\ \A u \in Threads : u # t => rl'[u] = rl[u]
      /\ rl' \in [Threads -> LockSet]
  <2>1. n.r_write_wanted \in BOOLEAN /\ n.r_read_wanted \in BOOLEAN
    BY <1>0 DEF TreeOK, NodeOK, NodeSet
  <2>. QED  BY <1>0, <1>1, <2>1 DEF NoLock, LockSet
<1>9. Agree(z_range_avl', Holding \ {t}, rl')
  <2>1. \A u \in Holding \ {t} : rl'[u] = rl[u]
    BY <1>0, <1>8
  <2>2. N = {k \in z_range_avl : t \in HoldersAt(Holding, rl, k.r_off)}
    BY DEF N
  <2>. QED  BY <1>0, <1>7, <2>1, <2>2, AgreeRelease
<1>10. Holding' = Holding \ {t}
  BY <1>0, <1>2, HoldingNext
<1>11. CallsOK'
  BY <1>0, <1>2, <1>8 DEF CallsOK
<1>12. FileOK'
  BY <1>0, <1>2 DEF FileOK, Pcs
<1>. QED  BY <1>9, <1>10, <1>11, <1>12 DEF LockInv

\* The broadcasts of a writer's unlock keep the invariant.
LEMMA UnlockBroadcastKeeps ==
  ASSUME LockInv, NEW t \in Threads, zfs_range_unlock_broadcast(t)
  PROVE  LockInv'
<1>0. /\ FileOK /\ CallsOK /\ Agree(z_range_avl, Holding, rl)
      /\ Holding \in SUBSET Threads /\ t \notin Holding
      /\ pc \in [Threads -> Pcs] /\ rl \in [Threads -> LockSet]
  BY DEF LockInv, Holding, FileOK, CallsOK, zfs_range_unlock_broadcast
<1>1. /\ Broadcast({Wanted(t)}, t, "idle")
      /\ rl' = [rl EXCEPT ![t] = NoLock]
      /\ UNCHANGED <<z_vnode, z_range_avl, zp_size, z_blksz, several>>
  BY DEF zfs_range_unlock_broadcast
<1>2. /\ pc' \in [Threads -> Pcs] /\ pc'[t] = "idle"
      /\ \A u \in Threads : u # t =>
           \/ pc'[u] = pc[u]
           \/ pc[u] = "wrSleep" /\ pc'[u] = "wrWoken"
           \/ pc[u] = "rdSleep" /\ pc'[u] = "rdWoken"
      /\ Holding' = Holding \ {t}
  <2>1. "idle" \in Pcs
    BY DEF Pcs
  <2>. QED  BY <1>0, <1>1, <2>1, BroadcastFact
<1>3. /\ \A u \in Threads : u # t => rl'[u] = rl[u]
      /\ rl' \in [Threads -> LockSet]
  BY <1>0, <1>1 DEF NoLock, LockSet
<1>4. Holding' = Holding /\ \A u \in Holding : rl'[u] = rl[u]
  BY <1>0, <1>2, <1>3
<1>5. Agree(z_range_avl', Holding', rl')
  BY <1>0, <1>1, <1>4, AgreeSame
<1>6. CallsOK'
  BY <1>0, <1>2, <1>3 DEF CallsOK
<1>7. FileOK'
  BY <1>0, <1>1, <1>2 DEF FileOK
<1>. QED  BY <1>5, <1>6, <1>7 DEF LockInv

\* What zfs_write() knows when it reduces its lock: it holds the file alone, and
\* what it writes is a range of the file.
LEMMA ReduceFact ==
  ASSUME LockInv, NEW t \in Threads, zfs_range_reduce(t)
  PROVE  LET k == Min({rl[t].len, Limit - Woff(t)})
         IN /\ Woff(t) \in Nat /\ k \in Nat /\ k >= 1 /\ Woff(t) + k <= Limit
            /\ Holding = {t}
            /\ \E n \in z_range_avl : /\ z_range_avl = {n}
                                      /\ IsOwn(z_range_avl, Holding, rl, t, n)
            /\ rl[t].r_off = 0 /\ End(rl[t]) = UINT64_MAX
<1>0. /\ Agree(z_range_avl, Holding, rl) /\ Holding \in SUBSET Threads
      /\ t \in Holding /\ rl[t].op \in {"write", "append"}
      /\ rl[t].r_len = UINT64_MAX /\ Woff(t) < Limit
  BY DEF LockInv, Holding, zfs_range_reduce
<1>1. CallOK(rl[t])
  BY <1>0 DEF Agree, HoldersOK
<1>2. /\ rl[t].off \in Nat /\ rl[t].len \in Nat /\ rl[t].len >= 1
      /\ zp_size \in Nat /\ Limit \in Nat
  BY <1>1, RangeAssumption DEF CallOK, LockSet, LockInv, FileOK
<1>3. Woff(t) \in Nat
  BY <1>2 DEF Woff
<1>4. /\ Limit - Woff(t) \in Nat /\ Limit - Woff(t) >= 1
      /\ Woff(t) + (Limit - Woff(t)) = Limit
  BY <1>0, <1>2, <1>3
<1>. DEFINE d == Limit - Woff(t)
            k == Min({rl[t].len, Limit - Woff(t)})
<1>5. k \in {rl[t].len, d} /\ k <= rl[t].len /\ k <= d
  <2>1. d \in Nat /\ k = Min({rl[t].len, d})
    BY <1>4
  <2>. HIDE DEF d, k
  <2>. QED  BY <1>2, <2>1, MinOfTwo
<1>6. d \in Nat /\ d >= 1 /\ Woff(t) + d = Limit
  BY <1>4
<1>. HIDE DEF d, k
<1>7. k \in Nat /\ k >= 1 /\ Woff(t) + k <= Limit
  BY <1>2, <1>3, <1>5, <1>6
<1>8. /\ Holding = {t} /\ rl[t].r_off = 0 /\ End(rl[t]) = UINT64_MAX
      /\ \E n \in z_range_avl : /\ z_range_avl = {n}
                                /\ IsOwn(z_range_avl, Holding, rl, t, n)
  <2>1. rl[t].op # "read"
    BY <1>0
  <2>. QED  BY <1>0, <2>1, WholeAlone
<1>. QED  BY <1>3, <1>7, <1>8 DEF k

\* A block size that zfs_grow_blocksize() leaves is one that there may be.
LEMMA GrowFact ==
  ASSUME FileOK, NEW end \in Nat, NEW max \in MaxBlksz,
         NEW b \in zfs_grow_blocksize(NewBlksz(end, max))
  PROVE  b \in 0 .. SPA_MAXBLOCKSIZE
<1>. DEFINE cap == IF z_blksz > max THEN SPA_MAXBLOCKSIZE ELSE max
            new == NewBlksz(end, max)
<1>1. /\ SPA_MAXBLOCKSIZE \in Nat /\ max \in Nat /\ max <= SPA_MAXBLOCKSIZE
      /\ z_blksz \in 0 .. SPA_MAXBLOCKSIZE
  BY RangeAssumption DEF FileOK, MaxBlksz
<1>2. cap \in Nat /\ cap <= SPA_MAXBLOCKSIZE
  BY <1>1
<1>3. new = Min({end, cap})
  BY DEF NewBlksz
<1>4. b \in {new, z_blksz}
  BY DEF zfs_grow_blocksize
<1>. HIDE DEF cap, new
<1>5. new \in Nat /\ new <= SPA_MAXBLOCKSIZE
  <2>1. new \in {end, cap} /\ new <= cap
    BY <1>2, <1>3, MinOfTwo
  <2>. QED  BY <1>1, <1>2, <2>1
<1>. QED  BY <1>1, <1>4, <1>5

\* zfs_range_reduce(), up to its broadcasts, keeps the invariant.
LEMMA ReduceKeeps ==
  ASSUME LockInv, NEW t \in Threads, zfs_range_reduce(t)
  PROVE  LockInv'
<1>. DEFINE o == Woff(t)
            k == Min({rl[t].len, Limit - Woff(t)})
            e == Max({zp_size, o + k})
<1>0. /\ FileOK /\ CallsOK /\ Agree(z_range_avl, Holding, rl)
      /\ TreeOK(z_range_avl) /\ t \in Holding
      /\ pc \in [Threads -> Pcs] /\ rl \in [Threads -> LockSet]
      /\ rl[t].op \in {"write", "append"}
  BY DEF LockInv, Holding, FileOK, CallsOK, zfs_range_reduce, Agree
<1>1. /\ o \in Nat /\ k \in Nat /\ k >= 1 /\ o + k <= Limit
      /\ Holding = {t}
      /\ \E n \in z_range_avl : /\ z_range_avl = {n}
                                /\ IsOwn(z_range_avl, Holding, rl, t, n)
  BY ReduceFact
<1>2. /\ \E max_blksz \in MaxBlksz :
           z_blksz' \in zfs_grow_blocksize(NewBlksz(e, max_blksz))
      /\ several' = Several(zp_size, z_blksz')
      /\ rl' = [rl EXCEPT ![t].r_off = o, ![t].r_len = k]
      /\ z_range_avl' = {IF m.id = t THEN [m EXCEPT !.r_off = o, !.r_len = k]
                                     ELSE m : m \in z_range_avl}
      /\ pc' = [pc EXCEPT ![t] = "reduced"]
      /\ UNCHANGED <<z_vnode, zp_size, wait>>
  BY DEF zfs_range_reduce
<1>. HIDE DEF o, k
<1>3. PICK n \in z_range_avl : /\ z_range_avl = {n}
                               /\ IsOwn(z_range_avl, Holding, rl, t, n)
  BY <1>1
<1>. DEFINE m == [n EXCEPT !.r_off = o, !.r_len = k]
<1>4. z_range_avl' = {m} /\ n.id = t /\ n.r_cnt = 1
  BY <1>2, <1>3 DEF IsOwn
<1>5. o + k <= UINT64_MAX
  BY <1>1, RangeAssumption DEF UINT64_MAX
<1>6. NodeOK(n) /\ n \in NodeSet
  BY <1>0 DEF TreeOK, NodeOK
<1>7. /\ m.id = t /\ m.r_off = o /\ m.r_len = k /\ m.r_cnt = 1
      /\ m.r_type = n.r_type /\ m.r_read_wanted = n.r_read_wanted
      /\ m.r_write_wanted = n.r_write_wanted /\ m \in NodeSet /\ End(m) = o + k
  BY <1>1, <1>4, <1>6 DEF NodeSet, End
<1>. HIDE DEF m
<1>8. NodeOK(m)
  BY <1>1, <1>5, <1>6, <1>7 DEF NodeOK
<1>9. /\ rl'[t] \in LockSet /\ rl'[t].r_off = o /\ rl'[t].r_len = k
      /\ rl'[t].op = rl[t].op /\ rl'[t].r_cnt = rl[t].r_cnt
      /\ rl'[t].off = rl[t].off /\ rl'[t].len = rl[t].len
      /\ rl' \in [Threads -> LockSet]
      /\ \A u \in Threads : u # t => rl'[u] = rl[u]
  BY <1>0, <1>1, <1>2 DEF LockSet
<1>10. CallOK(rl[t]) /\ rl[t].r_cnt = 1
  BY <1>0, <1>3, <1>4 DEF Agree, HoldersOK, OwnersOK
<1>11. CallOK(rl'[t])
  BY <1>9, <1>10 DEF CallOK
<1>12. Agree({} \cup {m}, {} \cup {t}, rl')
  <2>1. Agree({}, {}, rl)
    BY DEF Agree, TreeOK, HoldersOK, OwnersOK, NoStraddle, Covered, CountsOK
  <2>2. Grants({}, rl, rl', t, m)
    BY <1>7, <1>9, <1>11 DEF Grants
  <2>3. n.r_type = "RL_READER" <=> rl[t].op = "read"
    BY <1>3 DEF IsOwn
  <2>4. /\ m.r_type = "RL_READER" <=> rl'[t].op = "read"
        /\ rl'[t].op = "resize" => m.r_len = UINT64_MAX
    BY <1>0, <1>7, <1>9, <2>3
  <2>5. \A l \in {} : Apart(l, m)
    OBVIOUS
  <2>6. \A u \in {} : rl'[u].r_cnt = rl[u].r_cnt
    OBVIOUS
  <2>7. {} \in SUBSET Threads /\ t \in Threads \ {}
    OBVIOUS
  <2>. QED  BY <1>7, <1>8, <1>9, <1>10, <2>1, <2>2, <2>4, <2>5, <2>6, <2>7, AgreeOwn
<1>13. Holding' = {t}
  BY <1>0, <1>1, <1>2, HoldingNext
<1>14. Agree(z_range_avl', Holding', rl')
  <2>1. {} \cup {m} = {m} /\ {} \cup {t} = {t}
    OBVIOUS
  <2>. QED  BY <1>4, <1>12, <1>13, <2>1
<1>15. z_blksz' \in 0 .. SPA_MAXBLOCKSIZE
  <2>1. zp_size \in Nat /\ o + k \in Nat
    BY <1>0, <1>1, RangeAssumption DEF FileOK
  <2>2. e \in Nat
    BY <2>1, MaxOfTwo
  <2>. HIDE DEF e
  <2>. QED  BY <1>0, <1>2, <2>2, GrowFact
<1>16. FileOK'
  BY <1>0, <1>2, <1>15 DEF FileOK, Pcs, Several
<1>17. CallsOK'
  BY <1>0, <1>2, <1>9 DEF CallsOK
<1>. QED  BY <1>14, <1>16, <1>17 DEF LockInv

\* The broadcasts of zfs_range_reduce() keep the invariant.
LEMMA ReduceBroadcastKeeps ==
  ASSUME LockInv, NEW t \in Threads, zfs_range_reduce_broadcast(t)
  PROVE  LockInv'
<1>0. /\ FileOK /\ CallsOK /\ Agree(z_range_avl, Holding, rl)
      /\ Holding \in SUBSET Threads /\ t \in Holding
      /\ pc \in [Threads -> Pcs]
  BY DEF LockInv, Holding, FileOK, zfs_range_reduce_broadcast
<1>1. /\ Broadcast({n \in z_range_avl : n.id = t}, t, "held")
      /\ UNCHANGED <<z_vnode, z_range_avl, zp_size, z_blksz, several, rl>>
  BY DEF zfs_range_reduce_broadcast
<1>2. /\ pc' \in [Threads -> Pcs] /\ pc'[t] = "held"
      /\ \A u \in Threads : u # t =>
           \/ pc'[u] = pc[u]
           \/ pc[u] = "wrSleep" /\ pc'[u] = "wrWoken"
           \/ pc[u] = "rdSleep" /\ pc'[u] = "rdWoken"
      /\ Holding' = Holding \cup {t}
  <2>1. "held" \in Pcs
    BY DEF Pcs
  <2>. QED  BY <1>0, <1>1, <2>1, BroadcastFact
<1>3. Agree(z_range_avl', Holding', rl')
  <2>1. Holding' = Holding
    BY <1>0, <1>2
  <2>. QED  BY <1>0, <1>1, <2>1
<1>4. CallsOK'
  BY <1>0, <1>1, <1>2 DEF CallsOK
<1>5. FileOK'
  BY <1>0, <1>1, <1>2 DEF FileOK
<1>. QED  BY <1>3, <1>4, <1>5 DEF LockInv

\* zfs_write(), zfs_extend() and zfs_trunc() keep the invariant while they
\* change the file under their locks.
LEMMA FileKeeps ==
  ASSUME LockInv, NEW t \in Threads, WriteData(t) \/ Truncate(t) \/ Extend(t)
  PROVE  LockInv'
<1>0. /\ FileOK /\ CallsOK /\ Agree(z_range_avl, Holding, rl)
  BY DEF LockInv
<1>1. UNCHANGED <<z_vnode, z_range_avl, rl, wait, pc>>
  BY DEF WriteData, Truncate, Extend
<1>2. zp_size \in Nat /\ Limit \in Nat /\ z_blksz \in 0 .. SPA_MAXBLOCKSIZE
  BY <1>0, RangeAssumption DEF FileOK
<1>3. zp_size' \in 0 .. Limit /\ z_blksz' \in 0 .. SPA_MAXBLOCKSIZE
  <2>1. CASE WriteData(t)
    <3>1. pc[t] = "held" /\ z_blksz' = z_blksz
      BY <2>1 DEF WriteData
    <3>2. t \in Holding
      BY <3>1 DEF Holding
    <3>3. rl[t].r_off \in Nat /\ End(rl[t]) \in Nat
      BY <1>0, <3>2, HolderNumbers DEF Agree
    <3>4. Min({End(rl[t]), Limit}) \in {End(rl[t]), Limit}
          /\ Min({End(rl[t]), Limit}) <= Limit
      BY <1>2, <3>3, MinOfTwo
    <3>5. zp_size' \in rl[t].r_off + 1 .. Min({End(rl[t]), Limit})
      BY <2>1 DEF WriteData
    <3>. QED  BY <1>2, <3>1, <3>3, <3>4, <3>5
  <2>2. CASE Truncate(t)
    BY <1>2, <2>2 DEF Truncate
  <2>3. CASE Extend(t)
    <3>1. PICK end \in 0 .. Limit, max \in MaxBlksz, max2 \in MaxBlksz :
            /\ zp_size' = end
            /\ \/ z_blksz' \in zfs_grow_blocksize(NewBlksz(end, max2))
               \/ z_blksz' = z_blksz
      BY <2>3 DEF Extend
    <3>2. end \in Nat
      BY <1>2
    <3>. QED  BY <1>0, <1>2, <3>1, <3>2, GrowFact
  <2>. QED  BY <2>1, <2>2, <2>3
<1>b. several' \in BOOLEAN
  BY <1>0 DEF WriteData, Truncate, Extend, Several, FileOK
<1>4. FileOK'
  BY <1>0, <1>1, <1>3, <1>b DEF FileOK
<1>5. CallsOK' /\ Holding' = Holding
  BY <1>0, <1>1 DEF CallsOK, Holding
<1>6. Agree(z_range_avl', Holding', rl')
  BY <1>0, <1>1, <1>5
<1>. QED  BY <1>4, <1>5, <1>6 DEF LockInv

\* Every step keeps the invariant.
LEMMA LockInvNext ==
  ASSUME LockInv, [Next]_vars
  PROVE  LockInv'
<1>1. ASSUME NEW t \in Threads, zfs_range_lock(t)
      PROVE  LockInv'
  BY <1>1, LockKeeps
<1>2. ASSUME NEW t \in Threads, zfs_range_lock_reader_wakeup(t)
      PROVE  LockInv'
  <2>1. /\ pc[t] = "rdWoken" /\ ReaderLoop(t, rl[t])
        /\ UNCHANGED <<z_vnode, zp_size, z_blksz, several>>
    BY <1>2 DEF zfs_range_lock_reader_wakeup
  <2>2. CallOK(rl[t]) /\ rl[t].op = "read"
    BY <2>1 DEF LockInv, CallsOK
  <2>. QED  BY <2>1, <2>2, ReaderLoopInv
<1>3. ASSUME NEW t \in Threads, zfs_range_lock_writer_wakeup(t)
      PROVE  LockInv'
  <2>1. /\ pc[t] = "wrWoken" /\ WriterLoop(t, rl[t])
        /\ UNCHANGED <<z_vnode, zp_size, z_blksz, several>>
    BY <1>3 DEF zfs_range_lock_writer_wakeup
  <2>2. CallOK(rl[t]) /\ rl[t].op # "read"
    BY <2>1 DEF LockInv, CallsOK
  <2>. QED  BY <2>1, <2>2, WriterLoopInv
<1>4. CASE UNCHANGED vars
  <2>1. Holding' = Holding
    BY <1>4 DEF vars, Holding
  <2>2. Agree(z_range_avl', Holding', rl')
    BY <1>4, <2>1 DEF vars, LockInv
  <2>. QED  BY <1>4, <2>2 DEF vars, LockInv, FileOK, CallsOK
<1>. QED  BY <1>1, <1>2, <1>3, <1>4, UnlockReadKeeps, UnlockWriteKeeps,
             UnlockBroadcastKeeps, ReduceKeeps, ReduceBroadcastKeeps, FileKeeps
          DEF Next

\* Whatever the threads do, the tree agrees with the holders.
THEOREM LockInvariant == Spec => []LockInv
<1>. QED  BY LockInvInit, LockInvNext, PTL DEF Spec

\* TypeOK: every variable has its type; in particular no node reaches past the
\* last offset, whatever lengths the callers pass and however z_range_lock's
\* holders split, proxy and reduce, and none stays in the tree unreferenced.
THEOREM RangeTypeCorrect == Spec => []TypeOK
<1>1. LockInv => TypeOK
  <2>. SUFFICES ASSUME LockInv
                PROVE  TypeOK
    OBVIOUS
  <2>0. /\ FileOK /\ Agree(z_range_avl, Holding, rl) /\ Holding \in SUBSET Threads
        /\ TreeOK(z_range_avl)
    BY DEF LockInv, Holding, Agree
  <2>1. UINT64_MAX \in Nat /\ Cardinality(Threads) \in Nat
    BY RangeAssumption, FS_CardinalityType DEF UINT64_MAX
  <2>2. ASSUME NEW n \in z_range_avl
        PROVE  /\ n.r_off \in Offsets /\ End(n) \in Offsets
               /\ n.r_len \in Offsets \ {0} /\ n.r_cnt \in 1 .. Cardinality(Threads)
               /\ n.r_type \in Types
               /\ n.id \in Threads \/ n.id = n.r_off
    <3>1. /\ n.r_off \in Nat /\ n.r_len \in Nat /\ n.r_len >= 1
          /\ n.r_cnt \in Nat /\ n.r_cnt >= 1
          /\ End(n) \in Nat /\ End(n) = n.r_off + n.r_len /\ End(n) <= UINT64_MAX
      BY <2>0, NodeNumbers DEF TreeOK
    <3>2. n.r_cnt <= Cardinality(Threads)
      BY <2>0, HoldersFinite DEF Agree, CountsOK
    <3>3. n.r_type \in Types /\ (n.id \in Threads \/ n.id = n.r_off)
      BY <2>0 DEF TreeOK, NodeOK, NodeSet
    <3>4. n.r_off \in Offsets /\ End(n) \in Offsets /\ n.r_len \in Offsets \ {0}
      BY <2>1, <3>1 DEF Offsets
    <3>. QED  BY <2>1, <3>1, <3>2, <3>3, <3>4
  <2>. QED  BY <2>0, <2>2 DEF TypeOK, FileOK
<1>. QED  BY <1>1, LockInvariant, PTL

\* TreeIsExact: the tree and the callers agree on every byte, and the unlock
\* of every range finds its nodes, however zfs_range_add_reader() split and
\* proxied them.
THEOREM RangeTreeExact == Spec => []TreeIsExact
<1>1. LockInv => TreeIsExact
  <2>. SUFFICES ASSUME LockInv
                PROVE  TreeIsExact
    OBVIOUS
  <2>. DEFINE T == z_range_avl
  <2>0. /\ Agree(T, Holding, rl) /\ Holding \in SUBSET Threads
        /\ TreeOK(T)
    BY DEF LockInv, Holding, Agree
  <2>1. \A n \in T : n.r_off \in Nat /\ End(n) \in Nat /\ n.r_off < End(n)
    BY <2>0, NodeNumbers DEF TreeOK
  <2>2. UINT64_MAX \in Nat
    BY RangeAssumption DEF UINT64_MAX
  <2>3. HandlesTile
    <3>. SUFFICES ASSUME NEW t \in Holding
                  PROVE  IF rl[t].r_cnt = 1
                         THEN \E n \in T : n.id = t /\ n.r_off = rl[t].r_off
                                             /\ n.r_len = rl[t].r_len
                         ELSE /\ rl[t].op = "read" /\ rl[t].r_cnt = 0
                              /\ \E n \in T : n.r_off = rl[t].r_off
                              /\ \E n \in T : End(n) = End(rl[t])
      BY DEF HandlesTile
    <3>0. /\ rl[t].r_off \in Nat /\ End(rl[t]) \in Nat /\ rl[t].r_off < End(rl[t])
          /\ rl[t].r_cnt \in {0, 1}
      BY <2>0, HolderNumbers DEF Agree
    <3>1. CASE rl[t].r_cnt = 1
      <4>1. PICK n \in T : IsOwn(T, Holding, rl, t, n)
        BY <2>0, <3>1, OwnNode
      <4>. QED  BY <3>1, <4>1 DEF IsOwn
    <3>2. CASE rl[t].r_cnt # 1
      <4>1. rl[t].op = "read" /\ rl[t].r_cnt = 0
        BY <2>0, <3>0, <3>2 DEF Agree, HoldersOK
      <4>2. \A b \in Nat : Covers(rl[t], b) =>
              \E n \in T : Covers(n, b) /\ Within(n, rl[t])
        <5>1. \A b \in Nat : Covers(rl[t], b) => \E n \in T : Covers(n, b)
          BY <2>0 DEF Agree, Covered
        <5>2. \A n \in T : \A b \in Nat :
                Covers(n, b) /\ Covers(rl[t], b) => Within(n, rl[t])
          BY <2>0, HoldsWhole
        <5>. QED  BY <5>1, <5>2
      <4>3. \E n \in T : n.r_off = rl[t].r_off
        <5>1. Covers(rl[t], rl[t].r_off)
          BY <3>0 DEF Covers
        <5>2. PICK n \in T : Covers(n, rl[t].r_off) /\ Within(n, rl[t])
          BY <3>0, <4>2, <5>1
        <5>. QED  BY <2>1, <3>0, <5>2 DEF Covers, Within
      <4>4. \E n \in T : End(n) = End(rl[t])
        <5>. DEFINE b == End(rl[t]) - 1
        <5>1. b \in Nat /\ Covers(rl[t], b) /\ b + 1 = End(rl[t])
          BY <3>0 DEF Covers
        <5>. HIDE DEF b
        <5>2. PICK n \in T : Covers(n, b) /\ Within(n, rl[t])
          BY <4>2, <5>1
        <5>. QED  BY <2>1, <3>0, <5>1, <5>2 DEF Covers, Within
      <4>. QED  BY <3>2, <4>1, <4>3, <4>4
    <3>. QED  BY <3>1, <3>2
  <2>4. ASSUME NEW b \in 0 .. UINT64_MAX - 1
        PROVE  LET nodes == {n \in T : Covers(n, b)}
                   holders == {t \in Holding : Covers(rl[t], b)}
               IN /\ Cardinality(nodes) <= 1
                  /\ nodes = {} <=> holders = {}
                  /\ \A n \in nodes :
                       /\ n.r_cnt = Cardinality(holders)
                       /\ \A t \in holders : n.r_type = "RL_READER" <=> rl[t].op = "read"
    <3>. DEFINE nodes == {n \in T : Covers(n, b)}
                holders == {t \in Holding : Covers(rl[t], b)}
    <3>0. b \in Nat /\ holders = HoldersAt(Holding, rl, b)
      BY <2>2 DEF HoldersAt
    <3>1. Cardinality(nodes) <= 1
      <4>1. CASE nodes = {}
        BY <4>1, FS_EmptySet
      <4>2. CASE nodes # {}
        <5>1. PICK n \in nodes : TRUE
          BY <4>2
        <5>2. \A m \in nodes : m = n
          BY <2>0, <3>0, <5>1, OneNode
        <5>3. nodes = {n}
          BY <5>1, <5>2
        <5>4. Cardinality(nodes) = 1
          BY <5>3, FS_Singleton
        <5>. QED  BY <5>4
      <4>. QED  BY <4>1, <4>2
    <3>2. ASSUME NEW n \in nodes
          PROVE  /\ n.r_cnt = Cardinality(holders) /\ holders # {}
                 /\ \A t \in holders : n.r_type = "RL_READER" <=> rl[t].op = "read"
      <4>1. HoldersAt(Holding, rl, n.r_off) = holders
        BY <2>0, <3>0, SameHolders
      <4>2. /\ n.r_cnt = Cardinality(holders) /\ n.r_cnt >= 1
            /\ \A t \in holders : n.r_type = "RL_READER" <=> rl[t].op = "read"
        <5>1. n \in T /\ n.r_cnt >= 1
          BY <2>0, NodeNumbers DEF TreeOK
        <5>2. /\ n.r_cnt = Cardinality(HoldersAt(Holding, rl, n.r_off))
              /\ \A t \in HoldersAt(Holding, rl, n.r_off) :
                   n.r_type = "RL_READER" <=> rl[t].op = "read"
          BY <2>0 DEF Agree, CountsOK
        <5>. HIDE DEF holders
        <5>. QED  BY <4>1, <5>1, <5>2
      <4>3. holders # {}
        <5>. HIDE DEF holders
        <5>. QED  BY <4>2, FS_EmptySet
      <4>. QED  BY <4>2, <4>3
    <3>3. nodes = {} => holders = {}
      BY <2>0, <3>0 DEF Agree, Covered
    <3>. QED  BY <3>1, <3>2, <3>3
  <2>. QED  BY <2>3, <2>4 DEF TreeIsExact
<1>. QED  BY <1>1, LockInvariant, PTL

----------------------------------------------------------------------------
\* No wakeup is lost.

\* What a thread that sleeps at p looks for on a node.
Wants(p, n) == IF p = "rdSleep" THEN n.r_read_wanted ELSE n.r_write_wanted

\* The node w is flagged in the tree, or by its thread, out of it.
Flagged(T, L, P, p, w) ==
  \/ \E n \in T : n.id = w /\ Wants(p, n)
  \/ \E u \in Threads : w = u /\ P[u] = "unlocked" /\ Wants(p, L[u])

Asleep(p) == p \in {"rdSleep", "wrSleep"}

SleepInv ==
  /\ wait \in [Threads -> Threads \cup Nat \cup {NONE}]
  /\ SleepersAreFlagged

\* SleepersAreFlagged in these terms.
LEMMA SleepersFlagged ==
  SleepersAreFlagged <=>
    \A t \in Threads : Asleep(pc[t]) => Flagged(z_range_avl, rl, pc, pc[t], wait[t])
BY DEF SleepersAreFlagged, Flagged, Wants, Asleep

\* The same after a step.
LEMMA SleepersFlaggedNext ==
  SleepersAreFlagged' <=>
    \A t \in Threads :
      Asleep(pc'[t]) => Flagged(z_range_avl', rl', pc', pc'[t], wait'[t])
BY DEF SleepersAreFlagged, Flagged, Wants, Asleep

\* A node that keeps its name and its flags keeps its sleepers; and so does a
\* thread that is about to broadcast.
LEMMA FlaggedStays ==
  ASSUME NEW T, NEW T2, NEW L, NEW L2, NEW P, NEW P2, NEW p, NEW w,
         \A n \in T : n.id = w /\ Wants(p, n) =>
           \E m \in T2 : m.id = n.id /\ Wants(p, m),
         \A u \in Threads : w = u /\ P[u] = "unlocked" /\ Wants(p, L[u]) =>
           P2[u] = "unlocked" /\ Wants(p, L2[u]),
         Flagged(T, L, P, p, w)
  PROVE  Flagged(T2, L2, P2, p, w)
<1>1. CASE \E n \in T : n.id = w /\ Wants(p, n)
  BY <1>1 DEF Flagged
<1>2. CASE \E u \in Threads : w = u /\ P[u] = "unlocked" /\ Wants(p, L[u])
  BY <1>2 DEF Flagged
<1>. QED  BY <1>1, <1>2 DEF Flagged

\* Who sleeps on after a broadcast slept before, on a node that was not
\* broadcast to it.
LEMMA BroadcastSleepers ==
  ASSUME FileOK, NEW t \in Threads, NEW p, ~Asleep(p), NEW S, Broadcast(S, t, p),
         NEW u \in Threads, Asleep(pc'[u])
  PROVE  /\ u # t /\ pc'[u] = pc[u] /\ wait'[u] = wait[u]
         /\ \A n \in S : n.id = wait[u] => ~Wants(pc[u], n)
         /\ \A v \in Threads : v # t /\ pc[v] = "unlocked" => pc'[v] = "unlocked"
<1>. DEFINE wr == {v \in Threads : pc[v] = "wrSleep" /\
                     \E n \in S : n.id = wait[v] /\ n.r_write_wanted}
            rd == {v \in Threads : pc[v] = "rdSleep" /\
                     \E n \in S : n.id = wait[v] /\ n.r_read_wanted}
<1>1. /\ pc' = [v \in Threads |-> IF v = t THEN p
                                  ELSE IF v \in wr THEN "wrWoken"
                                  ELSE IF v \in rd THEN "rdWoken" ELSE pc[v]]
      /\ wait' = [v \in Threads |-> IF v \in wr \cup rd THEN NONE ELSE wait[v]]
  BY DEF Broadcast
<1>2. \A v \in Threads : pc[v] = "unlocked" => v \notin wr /\ v \notin rd
  OBVIOUS
<1>3. /\ u \in wr <=> pc[u] = "wrSleep" /\ \E n \in S : n.id = wait[u] /\ n.r_write_wanted
      /\ u \in rd <=> pc[u] = "rdSleep" /\ \E n \in S : n.id = wait[u] /\ n.r_read_wanted
  OBVIOUS
<1>. HIDE DEF wr, rd
<1>4. u # t /\ u \notin wr /\ u \notin rd
  BY <1>1 DEF Asleep
<1>5. pc'[u] = pc[u] /\ wait'[u] = wait[u]
  BY <1>1, <1>4
<1>6. \A v \in Threads : v # t /\ pc[v] = "unlocked" => pc'[v] = "unlocked"
  BY <1>1, <1>2
<1>7. \A n \in S : n.id = wait[u] => ~Wants(pc[u], n)
  BY <1>3, <1>4, <1>5 DEF Asleep, Wants
<1>. QED  BY <1>4, <1>5, <1>6, <1>7

\* The loop of zfs_range_lock_writer() flags the node it sleeps on and leaves
\* the other sleepers theirs.
LEMMA WriterLoopSleepers ==
  ASSUME LockInv, SleepInv, NEW t \in Threads,
         pc[t] \in {"idle", "wrWoken"}, NEW q, CallOK(q), WriterLoop(t, q)
  PROVE  SleepInv'
<1>max. PICK max \in MaxBlksz : WriterTry(t, q, WriterRange(q, max))
  BY DEF WriterLoop
<1>. DEFINE a == WriterRange(q, max)[1]
            k == WriterRange(q, max)[2]
            blockers == WriterBlockers(a, k)
            r == Node(t, a, k, 1, "RL_WRITER")
<1>0. /\ FileOK /\ TreeOK(z_range_avl) /\ pc \in [Threads -> Pcs]
      /\ rl \in [Threads -> LockSet]
      /\ wait \in [Threads -> Threads \cup Nat \cup {NONE}] /\ SleepersAreFlagged
  BY DEF LockInv, Agree, FileOK, CallsOK, SleepInv
<1>1. blockers \subseteq z_range_avl
  <2>1. a \in Nat /\ k \in Nat /\ k >= 1
    BY <1>0, WriterRangeFact
  <2>. HIDE DEF a, k
  <2>. QED  BY <1>0, <2>1, WriterBlockersFact
<1>2. \A v \in Threads : v # t => rl'[v] = rl[v] /\ pc'[v] = pc[v] /\ wait'[v] = wait[v]
  <2>1. CASE blockers = {}
    BY <1>max, <1>0, <2>1 DEF WriterTry
  <2>2. CASE blockers # {}
    BY <1>max, <1>0, <2>2 DEF WriterTry
  <2>. QED  BY <2>1, <2>2
<1>3. ASSUME NEW u \in Threads, u # t, Asleep(pc'[u]),
             \A n \in z_range_avl : Wants(pc[u], n) =>
               \E m \in z_range_avl' : m.id = n.id /\ Wants(pc[u], m)
      PROVE  Flagged(z_range_avl', rl', pc', pc'[u], wait'[u])
  <2>1. Flagged(z_range_avl, rl, pc, pc[u], wait[u])
    BY <1>0, <1>2, <1>3, SleepersFlagged
  <2>2. \A v \in Threads : pc[v] = "unlocked" => v # t
    OBVIOUS
  <2>3. Flagged(z_range_avl', rl', pc', pc[u], wait[u])
    BY <1>2, <1>3, <2>1, <2>2, FlaggedStays
  <2>. QED  BY <1>2, <1>3, <2>3
<1>4. CASE blockers = {}
  <2>1. /\ z_range_avl' = z_range_avl \cup {r} /\ pc'[t] = "held"
        /\ wait' = [wait EXCEPT ![t] = NONE]
    BY <1>max, <1>0, <1>4 DEF WriterTry
  <2>2. wait' \in [Threads -> Threads \cup Nat \cup {NONE}]
    BY <1>0, <2>1
  <2>3. SleepersAreFlagged'
    BY <1>3, <2>1, SleepersFlaggedNext DEF Asleep
  <2>. QED  BY <2>2, <2>3 DEF SleepInv
<1>5. CASE blockers # {}
  <2>1. PICK n \in blockers :
          /\ z_range_avl' = (z_range_avl \ {n})
                              \cup {[n EXCEPT !.r_write_wanted = TRUE]}
          /\ pc' = [pc EXCEPT ![t] = "wrSleep"]
          /\ wait' = [wait EXCEPT ![t] = n.id]
    BY <1>max, <1>5 DEF WriterTry
  <2>. DEFINE m == [n EXCEPT !.r_write_wanted = TRUE]
  <2>. HIDE DEF blockers
  <2>2. /\ m.id = n.id /\ m.r_write_wanted /\ m.r_read_wanted = n.r_read_wanted
        /\ m \in z_range_avl' /\ pc'[t] = "wrSleep"
    BY <1>0, <1>1, <2>1 DEF TreeOK, NodeOK, NodeSet
  <2>3. Flagged(z_range_avl', rl', pc', pc'[t], wait'[t])
    BY <1>0, <2>1, <2>2 DEF Flagged, Wants
  <2>4. ASSUME NEW p, NEW l \in z_range_avl, Wants(p, l)
        PROVE  \E l2 \in z_range_avl' : l2.id = l.id /\ Wants(p, l2)
    <3>1. CASE l = n
      BY <2>2, <2>4, <3>1 DEF Wants
    <3>2. CASE l # n
      BY <2>1, <2>4, <3>2
    <3>. QED  BY <3>1, <3>2
  <2>5. SleepersAreFlagged'
    BY <1>3, <2>3, <2>4, SleepersFlaggedNext
  <2>6. wait' \in [Threads -> Threads \cup Nat \cup {NONE}]
    BY <1>0, <1>1, <2>1 DEF TreeOK, NodeOK, NodeSet
  <2>. QED  BY <2>5, <2>6 DEF SleepInv
<1>. QED  BY <1>4, <1>5

\* The loop of zfs_range_lock_reader() does so too; the nodes that it splits
\* and replaces by proxies have no sleepers.
LEMMA ReaderLoopSleepers ==
  ASSUME LockInv, SleepInv, NEW t \in Threads,
         pc[t] \in {"idle", "rdWoken"}, NEW q, CallOK(q), ReaderLoop(t, q)
  PROVE  SleepInv'
<1>. DEFINE blockers == ReaderBlockers(q.off, q.len)
            r == Node(t, q.off, q.len, 1, "RL_READER")
            T == zfs_range_add_reader(t, q.off, q.len)
<1>0. /\ FileOK /\ TreeOK(z_range_avl) /\ pc \in [Threads -> Pcs]
      /\ rl \in [Threads -> LockSet]
      /\ wait \in [Threads -> Threads \cup Nat \cup {NONE}] /\ SleepersAreFlagged
  BY DEF LockInv, Agree, FileOK, CallsOK, SleepInv
<1>1. /\ q.off \in Nat /\ q.len \in Nat /\ q.len >= 1 /\ q.off + q.len <= UINT64_MAX
  BY DEF CallOK, LockSet
<1>2. \A v \in Threads : v # t => pc'[v] = pc[v] /\ wait'[v] = wait[v]
  <2>1. CASE blockers = {}
    BY <1>0, <2>1 DEF ReaderLoop
  <2>2. CASE blockers # {}
    BY <1>0, <2>2 DEF ReaderLoop
  <2>. QED  BY <2>1, <2>2
<1>3. \A v \in Threads : v # t => /\ rl'[v].r_write_wanted = rl[v].r_write_wanted
                                  /\ rl'[v].r_read_wanted = rl[v].r_read_wanted
  <2>1. CASE blockers = {}
    <3>1. \A v \in Threads : v # t => rl'[v] \in {rl[v], [rl[v] EXCEPT !.r_cnt = 0]}
      BY <2>1 DEF ReaderLoop
    <3>2. \A v \in Threads : rl[v] \in LockSet
      BY <1>0
    <3>. QED  BY <3>1, <3>2 DEF LockSet
  <2>2. CASE blockers # {}
    BY <1>0, <2>2 DEF ReaderLoop
  <2>. QED  BY <2>1, <2>2
<1>4. ASSUME NEW u \in Threads, u # t, Asleep(pc'[u]),
             \A n \in z_range_avl : Wants(pc[u], n) =>
               \E m \in z_range_avl' : m.id = n.id /\ Wants(pc[u], m)
      PROVE  Flagged(z_range_avl', rl', pc', pc'[u], wait'[u])
  <2>1. Flagged(z_range_avl, rl, pc, pc[u], wait[u])
    BY <1>0, <1>2, <1>4, SleepersFlagged
  <2>2. \A v \in Threads : pc[v] = "unlocked" => v # t
    OBVIOUS
  <2>3. \A v \in Threads : v # t /\ Wants(pc[u], rl[v]) => Wants(pc[u], rl'[v])
    BY <1>3 DEF Wants
  <2>4. Flagged(z_range_avl', rl', pc', pc[u], wait[u])
    BY <1>2, <1>4, <2>1, <2>2, <2>3, FlaggedStays
  <2>. QED  BY <1>2, <1>4, <2>4
<1>5. CASE blockers = {}
  <2>1. /\ z_range_avl' = T /\ pc'[t] = "held"
        /\ wait' = [wait EXCEPT ![t] = NONE]
    BY <1>0, <1>5 DEF ReaderLoop
  <2>2. \A n \in z_range_avl : Apart(n, r) => n \in T
    <3>. HIDE DEF r, T
    <3>. QED  BY <1>0, <1>1, AddReaderFact DEF r, T
  <2>3. r.r_off = q.off /\ End(r) = q.off + q.len
    BY DEF Node, End
  <2>. HIDE DEF r, T
  <2>4. ASSUME NEW p, NEW n \in z_range_avl, Wants(p, n)
        PROVE  n \in T
    <3>1. /\ NodeOK(n) /\ n.r_off \in Nat /\ End(n) \in Nat
      BY <1>0, NodeNumbers DEF TreeOK
    <3>2. n.r_type = "RL_WRITER" \/ n.r_write_wanted
      BY <2>4, <3>1 DEF NodeOK, Wants
    <3>3. n \notin Overlapping(q.off, q.len)
      BY <1>5, <3>2 DEF ReaderBlockers
    <3>4. Apart(n, r)
      BY <1>1, <2>3, <3>1, <3>3 DEF Overlapping, Apart
    <3>. QED  BY <2>2, <3>4
  <2>5. wait' \in [Threads -> Threads \cup Nat \cup {NONE}]
    BY <1>0, <2>1
  <2>6. SleepersAreFlagged'
    BY <1>4, <2>1, <2>4, SleepersFlaggedNext DEF Asleep
  <2>. QED  BY <2>5, <2>6 DEF SleepInv
<1>6. CASE blockers # {}
  <2>1. PICK n \in blockers :
          /\ z_range_avl' = (z_range_avl \ {n})
                              \cup {[n EXCEPT !.r_read_wanted = TRUE]}
          /\ pc' = [pc EXCEPT ![t] = "rdSleep"]
          /\ wait' = [wait EXCEPT ![t] = n.id]
    BY <1>6 DEF ReaderLoop
  <2>. DEFINE m == [n EXCEPT !.r_read_wanted = TRUE]
  <2>2. n \in z_range_avl
    BY DEF ReaderBlockers, Overlapping
  <2>. HIDE DEF blockers
  <2>3. /\ m.id = n.id /\ m.r_read_wanted /\ m.r_write_wanted = n.r_write_wanted
        /\ m \in z_range_avl' /\ pc'[t] = "rdSleep"
    BY <1>0, <2>1, <2>2 DEF TreeOK, NodeOK, NodeSet
  <2>4. wait'[t] = n.id
    BY <1>0, <2>1
  <2>5. Flagged(z_range_avl', rl', pc', pc'[t], wait'[t])
    BY <2>3, <2>4 DEF Flagged, Wants
  <2>6. ASSUME NEW p, NEW l \in z_range_avl, Wants(p, l)
        PROVE  \E l2 \in z_range_avl' : l2.id = l.id /\ Wants(p, l2)
    <3>1. CASE l = n
      BY <2>3, <2>6, <3>1 DEF Wants
    <3>2. CASE l # n
      BY <2>1, <2>6, <3>2
    <3>. QED  BY <3>1, <3>2
  <2>7. SleepersAreFlagged'
    BY <1>4, <2>5, <2>6, SleepersFlaggedNext
  <2>8. wait' \in [Threads -> Threads \cup Nat \cup {NONE}]
    BY <1>0, <2>1, <2>2 DEF TreeOK, NodeOK, NodeSet
  <2>. QED  BY <2>7, <2>8 DEF SleepInv
<1>. QED  BY <1>5, <1>6

\* A broadcast leaves wait a function.
LEMMA BroadcastWait ==
  ASSUME SleepInv, NEW t, NEW p, NEW S, Broadcast(S, t, p)
  PROVE  wait' \in [Threads -> Threads \cup Nat \cup {NONE}]
BY DEF Broadcast, SleepInv

\* The last reader of a node wakes those who sleep on it.
LEMMA UnlockReadSleepers ==
  ASSUME LockInv, SleepInv, NEW t \in Threads, zfs_range_unlock_read(t)
  PROVE  SleepInv'
<1>. DEFINE N == NodesOf(t)
            gone == {n \in N : n.r_cnt = 1}
<1>0. /\ FileOK /\ TreeOK(z_range_avl) /\ pc[t] = "held" /\ SleepersAreFlagged
      /\ rl \in [Threads -> LockSet]
  BY DEF LockInv, Agree, CallsOK, SleepInv, zfs_range_unlock_read
<1>1. /\ z_range_avl' = (z_range_avl \ N) \cup {[n EXCEPT !.r_cnt = @ - 1] : n \in N \ gone}
      /\ Broadcast(gone, t, "idle")
      /\ rl' = [rl EXCEPT ![t] = NoLock]
  BY DEF zfs_range_unlock_read, zfs_range_unlock_reader
<1>2. N \subseteq z_range_avl
  BY DEF NodesOf
<1>3. z_range_avl' = (z_range_avl \ N) \cup {Dec(n) : n \in {n \in N : n.r_cnt # 1}}
  BY <1>1 DEF Dec
<1>4. \A n \in N : n.r_cnt = 1 => n \in gone
  OBVIOUS
<1>5. \A n \in N : /\ Dec(n).id = n.id /\ Dec(n).r_write_wanted = n.r_write_wanted
                   /\ Dec(n).r_read_wanted = n.r_read_wanted
  BY <1>0, <1>2 DEF TreeOK, NodeOK, NodeSet, Dec
<1>. HIDE DEF N, gone
<1>6. ASSUME NEW u \in Threads, Asleep(pc'[u])
      PROVE  Flagged(z_range_avl', rl', pc', pc'[u], wait'[u])
  <2>1. /\ u # t /\ pc'[u] = pc[u] /\ wait'[u] = wait[u]
        /\ \A n \in gone : n.id = wait[u] => ~Wants(pc[u], n)
        /\ \A v \in Threads : v # t /\ pc[v] = "unlocked" => pc'[v] = "unlocked"
    <3>1. ~Asleep("idle")
      BY DEF Asleep
    <3>. QED  BY <1>0, <1>1, <1>6, <3>1, BroadcastSleepers
  <2>2. Flagged(z_range_avl, rl, pc, pc[u], wait[u])
    BY <1>0, <1>6, <2>1, SleepersFlagged
  <2>3. \A n \in z_range_avl : n.id = wait[u] /\ Wants(pc[u], n) =>
          \E m \in z_range_avl' : m.id = n.id /\ Wants(pc[u], m)
    <3>. SUFFICES ASSUME NEW n \in z_range_avl, n.id = wait[u], Wants(pc[u], n)
                  PROVE  \E m \in z_range_avl' : m.id = n.id /\ Wants(pc[u], m)
      OBVIOUS
    <3>1. CASE n \notin N
      BY <1>3, <3>1
    <3>2. CASE n \in N
      <4>1. n.r_cnt # 1
        BY <1>4, <2>1, <3>2
      <4>2. Dec(n) \in z_range_avl' /\ Dec(n).id = n.id /\ Wants(pc[u], Dec(n))
        BY <1>3, <1>5, <3>2, <4>1 DEF Wants
      <4>. QED  BY <4>2
    <3>. QED  BY <3>1, <3>2
  <2>4. \A v \in Threads : pc[v] = "unlocked" => v # t /\ rl'[v] = rl[v]
    BY <1>0, <1>1
  <2>5. Flagged(z_range_avl', rl', pc', pc[u], wait[u])
    BY <2>1, <2>2, <2>3, <2>4, FlaggedStays
  <2>. QED  BY <2>1, <2>5
<1>7. SleepersAreFlagged'
  BY <1>6, SleepersFlaggedNext
<1>8. wait' \in [Threads -> Threads \cup Nat \cup {NONE}]
  BY <1>1, BroadcastWait
<1>. QED  BY <1>7, <1>8 DEF SleepInv

\* A writer that has left the tree still knows who waits for it.
LEMMA UnlockWriteSleepers ==
  ASSUME LockInv, SleepInv, NEW t \in Threads, zfs_range_unlock_write(t)
  PROVE  SleepInv'
<1>0. /\ FileOK /\ TreeOK(z_range_avl) /\ pc[t] = "held" /\ SleepersAreFlagged
      /\ rl \in [Threads -> LockSet] /\ pc \in [Threads -> Pcs]
      /\ Agree(z_range_avl, Holding, rl)
      /\ Holding \in SUBSET Threads /\ t \in Holding
  BY DEF LockInv, Agree, CallsOK, FileOK, SleepInv, Holding, zfs_range_unlock_write
<1>1. PICK n \in z_range_avl :
        /\ n.id = t
        /\ z_range_avl' = z_range_avl \ {n}
        /\ rl' = [rl EXCEPT ![t] =
                     [NoLock EXCEPT !.r_write_wanted = n.r_write_wanted,
                                    !.r_read_wanted = n.r_read_wanted]]
  BY DEF zfs_range_unlock_write
<1>2. pc' = [pc EXCEPT ![t] = "unlocked"] /\ wait' = wait
  BY DEF zfs_range_unlock_write
<1>3. /\ rl'[t].r_write_wanted = n.r_write_wanted
      /\ rl'[t].r_read_wanted = n.r_read_wanted
      /\ \A v \in Threads : v # t => rl'[v] = rl[v] /\ pc'[v] = pc[v]
      /\ pc'[t] = "unlocked"
  BY <1>0, <1>1, <1>2 DEF NoLock
<1>4. ASSUME NEW u \in Threads, Asleep(pc'[u])
      PROVE  Flagged(z_range_avl', rl', pc', pc'[u], wait'[u])
  <2>1. u # t /\ pc'[u] = pc[u] /\ wait'[u] = wait[u]
    BY <1>2, <1>3, <1>4 DEF Asleep
  <2>2. Flagged(z_range_avl, rl, pc, pc[u], wait[u])
    BY <1>0, <1>4, <2>1, SleepersFlagged
  <2>3. CASE n.id = wait[u] /\ Wants(pc[u], n)
    <3>1. wait[u] = t /\ pc'[t] = "unlocked" /\ Wants(pc[u], rl'[t])
      BY <1>1, <1>3, <2>3 DEF Wants
    <3>. QED  BY <2>1, <3>1 DEF Flagged
  <2>4. CASE ~(n.id = wait[u] /\ Wants(pc[u], n))
    <3>1. \A m \in z_range_avl : m.id = wait[u] /\ Wants(pc[u], m) =>
            \E k \in z_range_avl' : k.id = m.id /\ Wants(pc[u], k)
      BY <1>1, <2>4
    <3>2. \A v \in Threads : pc[v] = "unlocked" => pc'[v] = "unlocked" /\ rl'[v] = rl[v]
      BY <1>0, <1>3
    <3>3. Flagged(z_range_avl', rl', pc', pc[u], wait[u])
      BY <2>2, <3>1, <3>2, FlaggedStays
    <3>. QED  BY <2>1, <3>3
  <2>. QED  BY <2>3, <2>4
<1>5. SleepersAreFlagged'
  BY <1>4, SleepersFlaggedNext
<1>. QED  BY <1>2, <1>5 DEF SleepInv

\* The broadcasts of a writer reach all who wait for it.
LEMMA UnlockBroadcastSleepers ==
  ASSUME LockInv, SleepInv, NEW t \in Threads, zfs_range_unlock_broadcast(t)
  PROVE  SleepInv'
<1>0. /\ FileOK /\ SleepersAreFlagged /\ rl \in [Threads -> LockSet]
  BY DEF LockInv, CallsOK, SleepInv
<1>1. /\ Broadcast({Wanted(t)}, t, "idle")
      /\ rl' = [rl EXCEPT ![t] = NoLock] /\ z_range_avl' = z_range_avl
  BY DEF zfs_range_unlock_broadcast
<1>2. ASSUME NEW u \in Threads, Asleep(pc'[u])
      PROVE  Flagged(z_range_avl', rl', pc', pc'[u], wait'[u])
  <2>1. /\ u # t /\ pc'[u] = pc[u] /\ wait'[u] = wait[u]
        /\ \A n \in {Wanted(t)} : n.id = wait[u] => ~Wants(pc[u], n)
        /\ \A v \in Threads : v # t /\ pc[v] = "unlocked" => pc'[v] = "unlocked"
    <3>1. ~Asleep("idle")
      BY DEF Asleep
    <3>. QED  BY <1>0, <1>1, <1>2, <3>1, BroadcastSleepers
  <2>2. Flagged(z_range_avl, rl, pc, pc[u], wait[u])
    BY <1>0, <1>2, <2>1, SleepersFlagged
  <2>3. t = wait[u] => ~Wants(pc[u], rl[t])
    BY <2>1 DEF Wanted, Wants
  <2>4. \A v \in Threads : v # t => rl'[v] = rl[v]
    BY <1>0, <1>1
  <2>5. \A v \in Threads : wait[u] = v /\ pc[v] = "unlocked" /\ Wants(pc[u], rl[v]) =>
          pc'[v] = "unlocked" /\ Wants(pc[u], rl'[v])
    BY <2>1, <2>3, <2>4
  <2>6. \A n \in z_range_avl : n.id = wait[u] /\ Wants(pc[u], n) =>
          \E m \in z_range_avl' : m.id = n.id /\ Wants(pc[u], m)
    BY <1>1
  <2>7. Flagged(z_range_avl', rl', pc', pc[u], wait[u])
    BY ONLY <2>2, <2>5, <2>6, FlaggedStays
  <2>. QED  BY <2>1, <2>7
<1>3. SleepersAreFlagged'
  BY <1>2, SleepersFlaggedNext
<1>4. wait' \in [Threads -> Threads \cup Nat \cup {NONE}]
  BY <1>1, BroadcastWait
<1>. QED  BY <1>3, <1>4 DEF SleepInv

\* A reduced lock keeps its sleepers until it broadcasts.
LEMMA ReduceSleepers ==
  ASSUME LockInv, SleepInv, NEW t \in Threads, zfs_range_reduce(t)
  PROVE  SleepInv'
<1>. DEFINE o == Woff(t)
            k == Min({rl[t].len, Limit - Woff(t)})
            N(m) == IF m.id = t THEN [m EXCEPT !.r_off = o, !.r_len = k] ELSE m
<1>0. /\ TreeOK(z_range_avl) /\ pc[t] = "held" /\ SleepersAreFlagged
      /\ rl \in [Threads -> LockSet] /\ pc \in [Threads -> Pcs]
  BY DEF LockInv, Agree, CallsOK, FileOK, SleepInv, zfs_range_reduce
<1>1. /\ z_range_avl' = {N(m) : m \in z_range_avl}
      /\ rl' = [rl EXCEPT ![t].r_off = o, ![t].r_len = k]
      /\ pc' = [pc EXCEPT ![t] = "reduced"] /\ wait' = wait
  BY DEF zfs_range_reduce
<1>2. \A m \in z_range_avl : /\ N(m).id = m.id
                             /\ N(m).r_write_wanted = m.r_write_wanted
                             /\ N(m).r_read_wanted = m.r_read_wanted
  <2>. HIDE DEF o, k
  <2>. QED  BY <1>0 DEF TreeOK, NodeOK, NodeSet
<1>3. /\ \A v \in Threads : v # t => rl'[v] = rl[v] /\ pc'[v] = pc[v]
      /\ pc'[t] = "reduced"
  BY <1>0, <1>1
<1>. HIDE DEF N
<1>4. ASSUME NEW u \in Threads, Asleep(pc'[u])
      PROVE  Flagged(z_range_avl', rl', pc', pc'[u], wait'[u])
  <2>1. u # t /\ pc'[u] = pc[u] /\ wait'[u] = wait[u]
    BY <1>1, <1>3, <1>4 DEF Asleep
  <2>2. Flagged(z_range_avl, rl, pc, pc[u], wait[u])
    BY <1>0, <1>4, <2>1, SleepersFlagged
  <2>3. \A m \in z_range_avl : m.id = wait[u] /\ Wants(pc[u], m) =>
          \E l \in z_range_avl' : l.id = m.id /\ Wants(pc[u], l)
    BY <1>1, <1>2 DEF Wants
  <2>4. \A v \in Threads : pc[v] = "unlocked" => pc'[v] = "unlocked" /\ rl'[v] = rl[v]
    BY <1>0, <1>3
  <2>5. Flagged(z_range_avl', rl', pc', pc[u], wait[u])
    BY <2>2, <2>3, <2>4, FlaggedStays
  <2>. QED  BY <2>1, <2>5
<1>5. SleepersAreFlagged'
  BY <1>4, SleepersFlaggedNext
<1>. QED  BY <1>1, <1>5 DEF SleepInv

\* The broadcasts of zfs_range_reduce() wake, and leave the flags.
LEMMA ReduceBroadcastSleepers ==
  ASSUME LockInv, SleepInv, NEW t \in Threads, zfs_range_reduce_broadcast(t)
  PROVE  SleepInv'
<1>. DEFINE S == {n \in z_range_avl : n.id = t}
<1>0. FileOK /\ SleepersAreFlagged /\ pc[t] = "reduced"
  BY DEF LockInv, SleepInv, zfs_range_reduce_broadcast
<1>1. Broadcast(S, t, "held") /\ rl' = rl /\ z_range_avl' = z_range_avl
  BY DEF zfs_range_reduce_broadcast
<1>. HIDE DEF S
<1>2. ASSUME NEW u \in Threads, Asleep(pc'[u])
      PROVE  Flagged(z_range_avl', rl', pc', pc'[u], wait'[u])
  <2>1. /\ u # t /\ pc'[u] = pc[u] /\ wait'[u] = wait[u]
        /\ \A v \in Threads : v # t /\ pc[v] = "unlocked" => pc'[v] = "unlocked"
    <3>1. ~Asleep("held")
      BY DEF Asleep
    <3>. QED  BY <1>0, <1>1, <1>2, <3>1, BroadcastSleepers
  <2>2. Flagged(z_range_avl, rl, pc, pc[u], wait[u])
    BY <1>0, <1>2, <2>1, SleepersFlagged
  <2>3. \A v \in Threads : pc[v] = "unlocked" => v # t
    BY <1>0
  <2>4. Flagged(z_range_avl', rl', pc', pc[u], wait[u])
    BY <1>1, <2>1, <2>2, <2>3, FlaggedStays
  <2>. QED  BY <2>1, <2>4
<1>3. SleepersAreFlagged'
  BY <1>2, SleepersFlaggedNext
<1>4. wait' \in [Threads -> Threads \cup Nat \cup {NONE}]
  BY <1>1, BroadcastWait
<1>. QED  BY <1>3, <1>4 DEF SleepInv

\* Every step keeps SleepInv.
LEMMA SleepInvNext ==
  ASSUME LockInv, SleepInv, [Next]_vars
  PROVE  SleepInv'
<1>1. ASSUME NEW t \in Threads, zfs_range_lock(t)
      PROVE  SleepInv'
  <2>0. PICK op \in AllOps : \E req \in Requests(op) :
          LET q == [NoLock EXCEPT !.op = op, !.off = req[1],
                                  !.len = ClipLen(req[1], req[2])]
          IN IF op = "read" THEN ReaderLoop(t, q) ELSE WriterLoop(t, q)
    BY <1>1, RangeAssumption DEF zfs_range_lock
  <2>1. PICK req \in Requests(op) :
          LET q == [NoLock EXCEPT !.op = op, !.off = req[1],
                                  !.len = ClipLen(req[1], req[2])]
          IN IF op = "read" THEN ReaderLoop(t, q) ELSE WriterLoop(t, q)
    BY <2>0
  <2>. DEFINE q == [NoLock EXCEPT !.op = op, !.off = req[1],
                                  !.len = ClipLen(req[1], req[2])]
  <2>2. CallOK(q)
    BY RequestOK
  <2>3. ReaderLoop(t, q) \/ WriterLoop(t, q)
    BY <2>1
  <2>4. pc[t] = "idle"
    BY <1>1 DEF zfs_range_lock
  <2>. HIDE DEF q
  <2>5. CASE ReaderLoop(t, q)
    BY <2>2, <2>4, <2>5, ReaderLoopSleepers
  <2>6. CASE WriterLoop(t, q)
    BY <2>2, <2>4, <2>6, WriterLoopSleepers
  <2>. QED  BY <2>3, <2>5, <2>6
<1>2. ASSUME NEW t \in Threads, zfs_range_lock_reader_wakeup(t)
      PROVE  SleepInv'
  <2>1. pc[t] = "rdWoken" /\ ReaderLoop(t, rl[t])
    BY <1>2 DEF zfs_range_lock_reader_wakeup
  <2>2. CallOK(rl[t])
    BY <2>1 DEF LockInv, CallsOK
  <2>. QED  BY <2>1, <2>2, ReaderLoopSleepers
<1>3. ASSUME NEW t \in Threads, zfs_range_lock_writer_wakeup(t)
      PROVE  SleepInv'
  <2>1. pc[t] = "wrWoken" /\ WriterLoop(t, rl[t])
    BY <1>3 DEF zfs_range_lock_writer_wakeup
  <2>2. CallOK(rl[t])
    BY <2>1 DEF LockInv, CallsOK
  <2>. QED  BY <2>1, <2>2, WriterLoopSleepers
<1>4. CASE UNCHANGED <<z_range_avl, rl, wait, pc>>
  BY <1>4 DEF SleepInv, SleepersAreFlagged
<1>5. ASSUME NEW t \in Threads, WriteData(t) \/ Truncate(t) \/ Extend(t)
      PROVE  SleepInv'
  BY <1>4, <1>5 DEF WriteData, Truncate, Extend
<1>6. CASE UNCHANGED vars
  BY <1>4, <1>6 DEF vars
<1>. QED  BY <1>1, <1>2, <1>3, <1>5, <1>6, UnlockReadSleepers, UnlockWriteSleepers,
             UnlockBroadcastSleepers, ReduceSleepers, ReduceBroadcastSleepers
          DEF Next

\* SleepersAreFlagged: no wakeup is lost, although nodes are split, proxied
\* and reduced while threads sleep on them and a writer broadcasts only after
\* it has let go of z_range_lock.
THEOREM RangeNoLostWakeup == Spec => []SleepersAreFlagged
<1>1. Init => SleepInv
  BY DEF Init, SleepInv, SleepersAreFlagged
<1>2. LockInv /\ SleepInv /\ [Next]_vars => SleepInv'
  BY SleepInvNext
<1>3. SleepInv => SleepersAreFlagged
  BY DEF SleepInv
<1>. QED  BY <1>1, <1>2, <1>3, LockInvariant, PTL DEF Spec

----------------------------------------------------------------------------
\* The block size is settled before writers are let in beside each other.

\* A write that ends at e stays within the first block, or there may be more.
Fits(blk, e) == e <= blk \/ Limit <= blk \/ ISP2(blk)

\* So does a file of that size; and one that has had several blocks has blocks
\* that are a power of two.
BlockOK(size, blk, more) ==
  /\ size <= blk \/ ISP2(blk)
  /\ more => ISP2(blk)

\* t writes a part of the file.
Writes(H, L, t) == t \in H /\ L[t].op # "read" /\ L[t].r_len # UINT64_MAX

\* The inductive invariant behind NoAccessPastBlock: a file that
\* dnode_set_blksz() may refuse to give larger blocks can do without.
BlockInv ==
  z_vnode =>
    /\ BlockOK(zp_size, z_blksz, several)
    /\ \A t \in Threads : Writes(Holding, rl, t) => Fits(z_blksz, End(rl[t]))

\* What Min in NoAccessPastBlock says.
LEMMA FitsFact ==
  ASSUME NEW blk \in Nat, NEW e \in Nat, Fits(blk, e)
  PROVE  Min({e, Limit}) <= blk \/ ISP2(blk)
<1>0. Limit \in Nat
  BY RangeAssumption
<1>1. /\ Min({e, Limit}) \in {e, Limit}
      /\ Min({e, Limit}) <= e /\ Min({e, Limit}) <= Limit
  BY <1>0, MinOfTwo
<1>. QED  BY <1>0, <1>1 DEF Fits

\* NoAccessPastBlock follows.
LEMMA BlockInvSuffices ==
  ASSUME LockInv, BlockInv
  PROVE  NoAccessPastBlock
<1>1. z_blksz \in Nat
  BY RangeAssumption DEF LockInv, FileOK
<1>2. \A t \in Holding : End(rl[t]) \in Nat /\ t \in Threads
  BY HolderNumbers DEF LockInv, Agree, Holding
<1>3. \A t \in Holding : Fits(z_blksz, End(rl[t])) =>
        Min({End(rl[t]), Limit}) <= z_blksz \/ ISP2(z_blksz)
  BY <1>1, <1>2, FitsFact
<1>. QED  BY <1>2, <1>3 DEF NoAccessPastBlock, FitsBlock, BlockInv, BlockOK, Writes

\* A writer that zfs_range_lock_writer() lets into a part of a file fits,
\* whatever z_max_blksz it has seen.
LEMMA WriterRangeFits ==
  ASSUME FileOK, z_vnode, NEW q, CallOK(q), NEW max \in MaxBlksz,
         WriterRange(q, max)[2] # UINT64_MAX
  PROVE  Fits(z_blksz, WriterRange(q, max)[1] + WriterRange(q, max)[2])
<1>. DEFINE off == IF q.op = "append" THEN zp_size ELSE q.off
            grow == /\ EndSize(off, q.len) > z_blksz
                    /\ ~ISP2(z_blksz) \/ z_blksz < max
<1>1. WriterRange(q, max) = IF grow THEN <<0, UINT64_MAX>> ELSE <<off, q.len>>
  BY DEF WriterRange
<1>2. ~grow /\ WriterRange(q, max)[1] = off /\ WriterRange(q, max)[2] = q.len
  <2>. HIDE DEF grow, off
  <2>. QED  BY <1>1
<1>3. /\ zp_size \in Nat /\ z_blksz \in Nat
      /\ q.off \in Nat /\ q.len \in Nat
  BY RangeAssumption DEF FileOK, CallOK, LockSet
<1>4. off \in Nat /\ off + q.len \in Nat
  BY <1>3
<1>5. ~(EndSize(off, q.len) > z_blksz) \/ ISP2(z_blksz)
  BY <1>2
<1>. HIDE DEF off, grow
<1>6. /\ EndSize(off, q.len) \in {zp_size, off + q.len}
      /\ EndSize(off, q.len) >= off + q.len
  BY <1>3, <1>4, MaxOfTwo DEF EndSize
<1>. QED  BY <1>2, <1>3, <1>4, <1>5, <1>6 DEF Fits

\* What zfs_grow_blocksize() leaves is enough for the file that is to come, also
\* when it leaves the block alone.
LEMMA GrowFits ==
  ASSUME FileOK, BlockOK(zp_size, z_blksz, several),
         NEW end \in Nat, end >= zp_size, NEW max \in MaxBlksz,
         NEW b \in zfs_grow_blocksize(NewBlksz(end, max))
  PROVE  end <= b \/ ISP2(b)
<1>. DEFINE cap == IF z_blksz > max THEN SPA_MAXBLOCKSIZE ELSE max
            new == NewBlksz(end, max)
<1>1. /\ SPA_MAXBLOCKSIZE \in Nat /\ max \in Nat /\ z_blksz \in Nat
      /\ z_blksz <= SPA_MAXBLOCKSIZE /\ zp_size \in Nat
      /\ ISP2(SPA_MAXBLOCKSIZE) /\ ISP2(max)
  BY RangeAssumption DEF FileOK, MaxBlksz
<1>2. cap \in Nat /\ ISP2(cap) /\ z_blksz <= cap
  <2>1. CASE z_blksz > max
    BY <1>1, <2>1
  <2>2. CASE ~(z_blksz > max)
    BY <1>1, <2>2
  <2>. QED  BY <2>1, <2>2
<1>3. new = Min({end, cap})
  BY DEF NewBlksz
<1>4. \/ b = new
      \/ b = z_blksz /\ (new <= z_blksz \/ zp_size > z_blksz \/ several)
  BY DEF zfs_grow_blocksize
<1>. HIDE DEF cap, new
<1>5. new \in {end, cap}
  BY <1>2, <1>3, MinOfTwo
<1>6. CASE b = new
  BY <1>2, <1>5, <1>6
<1>7. CASE b = z_blksz /\ new <= z_blksz
  <2>1. CASE new = end
    BY <1>7, <2>1
  <2>2. CASE new = cap
    <3>1. b = cap
      BY <1>1, <1>2, <1>7, <2>2
    <3>. QED  BY <1>2, <3>1
  <2>. QED  BY <1>5, <2>1, <2>2
<1>8. CASE b = z_blksz /\ zp_size > z_blksz
  BY <1>1, <1>8 DEF BlockOK
<1>9. CASE b = z_blksz /\ several
  BY <1>9 DEF BlockOK
<1>. QED  BY <1>4, <1>6, <1>7, <1>8, <1>9

\* A file that fits its block keeps BlockOK.
LEMMA SeveralFits ==
  ASSUME BlockOK(zp_size, z_blksz, several), NEW size \in Nat, NEW b \in Nat,
         size <= b \/ ISP2(b)
  PROVE  BlockOK(size, b, Several(size, b))
BY DEF BlockOK, Several

\* The loop of zfs_range_lock_writer() keeps BlockInv.
LEMMA WriterLoopFits ==
  ASSUME LockInv, LockInv', BlockInv, NEW t \in Threads, NEW q, CallOK(q),
         pc[t] \in {"idle", "wrWoken"}, WriterLoop(t, q),
         UNCHANGED <<z_vnode, zp_size, z_blksz, several>>
  PROVE  BlockInv'
<1>max. PICK max \in MaxBlksz : WriterTry(t, q, WriterRange(q, max))
  BY DEF WriterLoop
<1>. DEFINE a == WriterRange(q, max)[1]
            k == WriterRange(q, max)[2]
            blockers == WriterBlockers(a, k)
<1>0. /\ FileOK /\ pc \in [Threads -> Pcs] /\ rl \in [Threads -> LockSet]
      /\ t \notin Holding
  BY DEF LockInv, FileOK, CallsOK, Holding
<1>1. /\ a \in Nat /\ k \in Nat /\ a + k \in Nat
  BY <1>0, WriterRangeFact
<1>2. /\ \A u \in Threads : u # t => rl'[u] = rl[u] /\ (u \in Holding' <=> u \in Holding)
      /\ t \in Holding' => rl'[t].r_off = a /\ rl'[t].r_len = k
  <2>1. CASE blockers = {}
    <3>1. /\ rl' = [rl EXCEPT ![t] = [q EXCEPT !.r_off = a, !.r_len = k, !.r_cnt = 1]]
          /\ pc' = [pc EXCEPT ![t] = "held"]
      BY <1>max, <2>1 DEF WriterTry
    <3>. HIDE DEF a, k
    <3>. QED  BY <1>0, <3>1 DEF Holding, CallOK, LockSet
  <2>2. CASE blockers # {}
    <3>1. rl' = [rl EXCEPT ![t] = q] /\ pc' = [pc EXCEPT ![t] = "wrSleep"]
      BY <1>max, <2>2 DEF WriterTry
    <3>. HIDE DEF a, k
    <3>. QED  BY <1>0, <3>1 DEF Holding
  <2>. QED  BY <2>1, <2>2
<1>. HIDE DEF blockers
<1>3. ASSUME z_vnode, NEW u \in Threads, Writes(Holding', rl', u)
      PROVE  Fits(z_blksz, End(rl'[u]))
  <2>1. CASE u # t
    BY <1>2, <1>3, <2>1 DEF Writes, BlockInv
  <2>2. CASE u = t
    <3>1. rl'[t].r_off = a /\ rl'[t].r_len = k /\ k # UINT64_MAX
      BY <1>2, <1>3, <2>2 DEF Writes
    <3>2. Fits(z_blksz, a + k)
      BY <1>0, <1>3, <3>1, WriterRangeFits
    <3>. QED  BY <2>2, <3>1, <3>2 DEF End
  <2>. QED  BY <2>1, <2>2
<1>. QED  BY <1>3 DEF BlockInv

\* A step after which the writers are among those before, on the same file,
\* keeps BlockInv.
LEMMA FitsStays ==
  ASSUME LockInv, LockInv', BlockInv, UNCHANGED <<z_vnode, zp_size, z_blksz, several>>,
         \A u \in Threads : Writes(Holding', rl', u) =>
           Writes(Holding, rl, u) /\ End(rl'[u]) = End(rl[u])
  PROVE  BlockInv'
BY DEF BlockInv

\* The loop of zfs_range_lock_reader() keeps BlockInv.
LEMMA ReaderLoopFits ==
  ASSUME LockInv, LockInv', BlockInv, NEW t \in Threads, NEW q, CallOK(q),
         q.op = "read", ReaderLoop(t, q),
         UNCHANGED <<z_vnode, zp_size, z_blksz, several>>
  PROVE  BlockInv'
<1>. DEFINE blockers == ReaderBlockers(q.off, q.len)
<1>0. /\ FileOK /\ pc \in [Threads -> Pcs] /\ rl \in [Threads -> LockSet]
  BY DEF LockInv, FileOK, CallsOK
<1>1. ASSUME NEW u \in Threads, u # t
      PROVE  /\ u \in Holding' <=> u \in Holding
             /\ rl'[u].op = rl[u].op /\ rl'[u].r_off = rl[u].r_off
             /\ rl'[u].r_len = rl[u].r_len
  <2>0. rl[u] \in LockSet
    BY <1>0
  <2>1. CASE blockers = {}
    <3>1. /\ rl'[u] \in {rl[u], [rl[u] EXCEPT !.r_cnt = 0]}
          /\ pc' = [pc EXCEPT ![t] = "held"]
      BY <1>1, <2>1 DEF ReaderLoop
    <3>. QED  BY <1>0, <1>1, <2>0, <3>1 DEF LockSet, Holding
  <2>2. CASE blockers # {}
    <3>1. rl' = [rl EXCEPT ![t] = q] /\ pc' = [pc EXCEPT ![t] = "rdSleep"]
      BY <2>2 DEF ReaderLoop
    <3>. QED  BY <1>0, <1>1, <3>1 DEF Holding
  <2>. QED  BY <2>1, <2>2
<1>2. rl'[t].op = "read"
  <2>1. CASE blockers = {}
    <3>1. \E c : rl'[t] = [q EXCEPT !.r_off = q.off, !.r_len = q.len, !.r_cnt = c]
      BY <2>1 DEF ReaderLoop
    <3>. QED  BY <3>1 DEF CallOK, LockSet
  <2>2. CASE blockers # {}
    BY <1>0, <2>2 DEF ReaderLoop
  <2>. QED  BY <2>1, <2>2
<1>3. \A u \in Threads : Writes(Holding', rl', u) =>
        Writes(Holding, rl, u) /\ End(rl'[u]) = End(rl[u])
  BY <1>1, <1>2 DEF Writes, End
<1>. QED  BY <1>3, FitsStays

\* A reduced lock fits the block that zfs_write() has grown for it, or has not.
LEMMA ReduceFits ==
  ASSUME LockInv, LockInv', BlockInv, NEW t \in Threads, zfs_range_reduce(t)
  PROVE  BlockInv'
<1>. DEFINE o == Woff(t)
            k == Min({rl[t].len, Limit - Woff(t)})
            e == Max({zp_size, o + k})
<1>0. FileOK /\ pc \in [Threads -> Pcs] /\ rl \in [Threads -> LockSet]
  BY DEF LockInv, FileOK, CallsOK
<1>1. o \in Nat /\ k \in Nat /\ Holding = {t}
  BY ReduceFact
<1>2. /\ \E max_blksz \in MaxBlksz :
           z_blksz' \in zfs_grow_blocksize(NewBlksz(e, max_blksz))
      /\ several' = Several(zp_size, z_blksz')
      /\ rl' = [rl EXCEPT ![t].r_off = o, ![t].r_len = k]
      /\ pc' = [pc EXCEPT ![t] = "reduced"]
      /\ UNCHANGED <<z_vnode, zp_size, wait>>
  BY DEF zfs_range_reduce
<1>. HIDE DEF o, k
<1>3. Holding' = {t} /\ rl'[t].r_off = o /\ rl'[t].r_len = k
  <2>1. Holding' = Holding \cup {t}
    BY <1>0, <1>2, HoldingNext
  <2>. QED  BY <1>0, <1>1, <1>2, <2>1 DEF LockSet
<1>4. o + k \in Nat /\ zp_size \in Nat /\ z_blksz' \in Nat
  BY <1>0, <1>1, RangeAssumption DEF FileOK, LockInv
<1>5. e \in {zp_size, o + k} /\ e >= zp_size /\ e >= o + k
  BY <1>4, MaxOfTwo
<1>6. e \in Nat
  BY <1>4, <1>5
<1>. HIDE DEF e
<1>7. ASSUME z_vnode
      PROVE  BlockOK(zp_size, z_blksz, several) /\ (e <= z_blksz' \/ ISP2(z_blksz'))
  <2>1. BlockOK(zp_size, z_blksz, several)
    BY <1>7 DEF BlockInv
  <2>. QED  BY <1>0, <1>2, <1>5, <1>6, <2>1, GrowFits
<1>8. ASSUME z_vnode
      PROVE  /\ BlockOK(zp_size, z_blksz', several')
             /\ Fits(z_blksz', o + k)
  <2>1. zp_size <= z_blksz' \/ ISP2(z_blksz')
    BY <1>4, <1>5, <1>6, <1>7, <1>8
  <2>2. BlockOK(zp_size, z_blksz', Several(zp_size, z_blksz'))
    BY <1>4, <1>7, <1>8, <2>1, SeveralFits
  <2>. QED  BY <1>2, <1>4, <1>5, <1>6, <1>7, <1>8, <2>2 DEF Fits
<1>9. End(rl'[t]) = o + k
  BY <1>3 DEF End
<1>. QED  BY <1>2, <1>3, <1>8, <1>9 DEF BlockInv, Writes

\* zfs_write() moves the end of the file within what fits.
LEMMA WriteDataFits ==
  ASSUME LockInv, LockInv', BlockInv, NEW t \in Threads, WriteData(t)
  PROVE  BlockInv'
<1>0. /\ z_vnode /\ UNCHANGED <<z_vnode, z_range_avl, z_blksz, rl, wait, pc>>
      /\ Writes(Holding, rl, t) /\ several' = Several(zp_size', z_blksz)
  BY DEF WriteData, Writes, Holding
<1>1. Fits(z_blksz, End(rl[t])) /\ BlockOK(zp_size, z_blksz, several)
  BY <1>0 DEF BlockInv
<1>2. /\ z_blksz \in Nat /\ zp_size \in Nat /\ Limit \in Nat
      /\ rl[t].r_off \in Nat /\ End(rl[t]) \in Nat
  <2>1. t \in Holding
    BY <1>0 DEF Writes
  <2>. QED  BY <2>1, RangeAssumption, HolderNumbers DEF LockInv, FileOK, Agree
<1>3. /\ zp_size' \in rl[t].r_off + 1 .. Min({End(rl[t]), Limit})
  BY DEF WriteData
<1>4. /\ Min({End(rl[t]), Limit}) <= End(rl[t]) /\ Min({End(rl[t]), Limit}) <= Limit
      /\ Min({End(rl[t]), Limit}) \in {End(rl[t]), Limit}
  BY <1>2, MinOfTwo
<1>5. zp_size' \in Nat /\ zp_size' <= End(rl[t]) /\ zp_size' <= Limit
  BY <1>2, <1>3, <1>4
<1>6. Holding' = Holding
  BY <1>0 DEF Holding
<1>7. zp_size' <= z_blksz \/ ISP2(z_blksz)
  BY <1>1, <1>2, <1>5 DEF Fits
<1>8. BlockOK(zp_size', z_blksz, Several(zp_size', z_blksz))
  BY <1>1, <1>2, <1>5, <1>7, SeveralFits
<1>. QED  BY <1>0, <1>6, <1>8 DEF BlockInv

\* zfs_trunc() and zfs_extend() hold the file alone.
LEMMA ResizeAlone ==
  ASSUME LockInv, NEW t \in Threads, Truncate(t) \/ Extend(t)
  PROVE  \A u \in Threads : ~Writes(Holding', rl', u)
<1>0. /\ Agree(z_range_avl, Holding, rl) /\ Holding \in SUBSET Threads
      /\ t \in Holding /\ rl[t].op = "resize"
      /\ UNCHANGED <<z_vnode, z_range_avl, rl, wait, pc>>
  BY DEF LockInv, Holding, Truncate, Extend
<1>1. rl[t].r_len = UINT64_MAX /\ rl[t].op # "read"
  BY <1>0 DEF Agree, HoldersOK
<1>2. Holding = {t}
  BY <1>0, <1>1, WholeAlone
<1>3. Holding' = {t} /\ rl' = rl
  BY <1>0, <1>2 DEF Holding
<1>. QED  BY <1>1, <1>3 DEF Writes

\* zfs_trunc() makes the file smaller.
LEMMA TruncateFits ==
  ASSUME LockInv, LockInv', BlockInv, NEW t \in Threads, Truncate(t)
  PROVE  BlockInv'
<1>1. /\ zp_size' < zp_size /\ several' = Several(zp_size', z_blksz)
      /\ UNCHANGED <<z_vnode, z_blksz>>
  BY DEF Truncate
<1>2. zp_size \in Nat /\ zp_size' \in Nat /\ z_blksz \in Nat
  BY RangeAssumption DEF LockInv, FileOK
<1>3. ASSUME z_vnode
      PROVE  BlockOK(zp_size', z_blksz, Several(zp_size', z_blksz))
  <2>1. BlockOK(zp_size, z_blksz, several)
    BY <1>3 DEF BlockInv
  <2>2. zp_size' <= z_blksz \/ ISP2(z_blksz)
    BY <1>1, <1>2, <2>1 DEF BlockOK
  <2>. QED  BY <1>2, <2>1, <2>2, SeveralFits
<1>. QED  BY <1>1, <1>3, ResizeAlone DEF BlockInv

\* zfs_extend() grows the block if it can, and need not where it cannot.
LEMMA ExtendFits ==
  ASSUME LockInv, LockInv', BlockInv, NEW t \in Threads, Extend(t)
  PROVE  BlockInv'
<1>1. PICK end \in 0 .. Limit, max \in MaxBlksz, max2 \in MaxBlksz :
        /\ end > zp_size /\ zp_size' = end
        /\ IF end > z_blksz /\ (~ISP2(z_blksz) \/ z_blksz < max)
           THEN z_blksz' \in zfs_grow_blocksize(NewBlksz(end, max2))
           ELSE z_blksz' = z_blksz
  BY DEF Extend
<1>2. several' = Several(zp_size', z_blksz') /\ z_vnode' = z_vnode
  BY DEF Extend
<1>3. /\ zp_size \in Nat /\ z_blksz \in Nat /\ z_blksz' \in Nat /\ FileOK
      /\ end \in Nat
  BY RangeAssumption DEF LockInv, FileOK
<1>4. ASSUME z_vnode
      PROVE  BlockOK(zp_size', z_blksz', Several(zp_size', z_blksz'))
  <2>1. BlockOK(zp_size, z_blksz, several)
    BY <1>4 DEF BlockInv
  <2>2. end <= z_blksz' \/ ISP2(z_blksz')
    <3>1. CASE end > z_blksz /\ (~ISP2(z_blksz) \/ z_blksz < max)
      BY <1>1, <1>3, <2>1, <3>1, GrowFits
    <3>2. CASE ~(end > z_blksz /\ (~ISP2(z_blksz) \/ z_blksz < max))
      BY <1>1, <1>3, <3>2
    <3>. QED  BY <3>1, <3>2
  <2>. QED  BY <1>1, <1>3, <2>1, <2>2, SeveralFits
<1>. QED  BY <1>2, <1>4, ResizeAlone DEF BlockInv

\* Every step keeps BlockInv.
LEMMA BlockInvNext ==
  ASSUME LockInv, LockInv', BlockInv, [Next]_vars
  PROVE  BlockInv'
<1>1. ASSUME NEW t \in Threads, zfs_range_lock(t)
      PROVE  BlockInv'
  <2>0. PICK op \in AllOps : \E req \in Requests(op) :
          LET q == [NoLock EXCEPT !.op = op, !.off = req[1],
                                  !.len = ClipLen(req[1], req[2])]
          IN IF op = "read" THEN ReaderLoop(t, q) ELSE WriterLoop(t, q)
    BY <1>1, RangeAssumption DEF zfs_range_lock
  <2>1. PICK req \in Requests(op) :
          LET q == [NoLock EXCEPT !.op = op, !.off = req[1],
                                  !.len = ClipLen(req[1], req[2])]
          IN IF op = "read" THEN ReaderLoop(t, q) ELSE WriterLoop(t, q)
    BY <2>0
  <2>. DEFINE q == [NoLock EXCEPT !.op = op, !.off = req[1],
                                  !.len = ClipLen(req[1], req[2])]
  <2>2. CallOK(q) /\ q.op = op
    BY RequestOK
  <2>3. IF op = "read" THEN ReaderLoop(t, q) ELSE WriterLoop(t, q)
    BY <2>1
  <2>4. pc[t] = "idle" /\ UNCHANGED <<z_vnode, zp_size, z_blksz, several>>
    BY <1>1 DEF zfs_range_lock
  <2>. HIDE DEF q
  <2>5. CASE op = "read"
    BY <2>2, <2>3, <2>4, <2>5, ReaderLoopFits
  <2>6. CASE op # "read"
    BY <2>2, <2>3, <2>4, <2>6, WriterLoopFits
  <2>. QED  BY <2>5, <2>6
<1>2. ASSUME NEW t \in Threads, zfs_range_lock_reader_wakeup(t)
      PROVE  BlockInv'
  <2>1. /\ pc[t] = "rdWoken" /\ ReaderLoop(t, rl[t])
        /\ UNCHANGED <<z_vnode, zp_size, z_blksz, several>>
    BY <1>2 DEF zfs_range_lock_reader_wakeup
  <2>2. CallOK(rl[t]) /\ rl[t].op = "read"
    BY <2>1 DEF LockInv, CallsOK
  <2>. QED  BY <2>1, <2>2, ReaderLoopFits
<1>3. ASSUME NEW t \in Threads, zfs_range_lock_writer_wakeup(t)
      PROVE  BlockInv'
  <2>1. /\ pc[t] = "wrWoken" /\ WriterLoop(t, rl[t])
        /\ UNCHANGED <<z_vnode, zp_size, z_blksz, several>>
    BY <1>3 DEF zfs_range_lock_writer_wakeup
  <2>2. CallOK(rl[t])
    BY <2>1 DEF LockInv, CallsOK
  <2>. QED  BY <2>1, <2>2, WriterLoopFits
<1>4. ASSUME NEW t \in Threads, zfs_range_unlock_read(t)
      PROVE  BlockInv'
  <2>1. FileOK /\ rl \in [Threads -> LockSet] /\ "idle" \in Pcs
    BY DEF LockInv, CallsOK, Pcs
  <2>2. /\ \E S : Broadcast(S, t, "idle")
        /\ rl' = [rl EXCEPT ![t] = NoLock] /\ UNCHANGED <<z_vnode, zp_size, z_blksz, several>>
    BY <1>4 DEF zfs_range_unlock_read, zfs_range_unlock_reader
  <2>3. Holding' = Holding \ {t}
    BY <2>1, <2>2, BroadcastFact
  <2>4. \A u \in Threads : Writes(Holding', rl', u) =>
          Writes(Holding, rl, u) /\ End(rl'[u]) = End(rl[u])
    BY <2>1, <2>2, <2>3 DEF Writes
  <2>. QED  BY <2>2, <2>4, FitsStays
<1>5. ASSUME NEW t \in Threads, zfs_range_unlock_write(t)
      PROVE  BlockInv'
  <2>1. FileOK /\ rl \in [Threads -> LockSet]
    BY DEF LockInv, CallsOK
  <2>2. /\ \E x : rl' = [rl EXCEPT ![t] = x]
        /\ pc' = [pc EXCEPT ![t] = "unlocked"] /\ UNCHANGED <<z_vnode, zp_size, z_blksz, several>>
    BY <1>5 DEF zfs_range_unlock_write
  <2>3. Holding' = Holding \ {t}
    BY <2>1, <2>2, HoldingNext
  <2>4. \A u \in Threads : Writes(Holding', rl', u) =>
          Writes(Holding, rl, u) /\ End(rl'[u]) = End(rl[u])
    BY <2>1, <2>2, <2>3 DEF Writes
  <2>. QED  BY <2>2, <2>4, FitsStays
<1>6. ASSUME NEW t \in Threads, zfs_range_unlock_broadcast(t)
      PROVE  BlockInv'
  <2>1. FileOK /\ rl \in [Threads -> LockSet] /\ "idle" \in Pcs
    BY DEF LockInv, CallsOK, Pcs
  <2>2. /\ Broadcast({Wanted(t)}, t, "idle")
        /\ rl' = [rl EXCEPT ![t] = NoLock] /\ UNCHANGED <<z_vnode, zp_size, z_blksz, several>>
    BY <1>6 DEF zfs_range_unlock_broadcast
  <2>3. Holding' = Holding \ {t}
    BY <2>1, <2>2, BroadcastFact
  <2>4. \A u \in Threads : Writes(Holding', rl', u) =>
          Writes(Holding, rl, u) /\ End(rl'[u]) = End(rl[u])
    BY <2>1, <2>2, <2>3 DEF Writes
  <2>. QED  BY <2>2, <2>4, FitsStays
<1>7. ASSUME NEW t \in Threads, zfs_range_reduce_broadcast(t)
      PROVE  BlockInv'
  <2>1. FileOK /\ "held" \in Pcs /\ t \in Holding
    BY <1>7 DEF LockInv, Pcs, Holding, zfs_range_reduce_broadcast
  <2>2. /\ \E S : Broadcast(S, t, "held")
        /\ rl' = rl /\ UNCHANGED <<z_vnode, zp_size, z_blksz, several>>
    BY <1>7 DEF zfs_range_reduce_broadcast
  <2>3. Holding' = Holding \cup {t}
    BY <2>1, <2>2, BroadcastFact
  <2>4. \A u \in Threads : Writes(Holding', rl', u) =>
          Writes(Holding, rl, u) /\ End(rl'[u]) = End(rl[u])
    BY <2>1, <2>2, <2>3 DEF Writes
  <2>. QED  BY <2>2, <2>4, FitsStays
<1>8. CASE UNCHANGED vars
  BY <1>8 DEF vars, BlockInv, Holding
<1>. QED  BY <1>1, <1>2, <1>3, <1>4, <1>5, <1>6, <1>7, <1>8,
             ReduceFits, WriteDataFits, TruncateFits, ExtendFits
          DEF Next

\* NoAccessPastBlock: neither the file nor a write that did not lock all of it
\* reaches past a block that is no power of two, whatever the other writers do to
\* the end of the file, the administrator to the recordsize and
\* zfs_grow_blocksize() to the block meanwhile.
THEOREM RangeNoAccessPastBlock == Spec => []NoAccessPastBlock
<1>1. Init => BlockInv
  BY DEF Init, BlockInv, BlockOK, Writes, Holding
<1>2. LockInv /\ LockInv' /\ BlockInv /\ [Next]_vars => BlockInv'
  BY BlockInvNext
<1>3. LockInv /\ BlockInv => NoAccessPastBlock
  BY BlockInvSuffices
<1>. QED  BY <1>1, <1>2, <1>3, LockInvariant, PTL DEF Spec

----------------------------------------------------------------------------
\* The refinement: the ranges that are held are locks on bytes.

BytesOf(r) == {b \in 0 .. UINT64_MAX - 1 : Covers(r, b)}

\* What u holds of the file, if the threads of H hold the ranges that L says.
HeldBy(H, L, u) ==
  IF u \in H THEN [bytes |-> BytesOf(L[u]), excl |-> L[u].op # "read"]
             ELSE [bytes |-> {}, excl |-> FALSE]

\* u holds in (H2, L2) what it held in (H, L).
Keeps(H, L, H2, L2, u) ==
  /\ u \in H2 <=> u \in H
  /\ u \in H => /\ L2[u].r_off = L[u].r_off /\ L2[u].r_len = L[u].r_len
                /\ L2[u].op = L[u].op

\* A step in which only the thread t may get, give up or change a range.
OnlyOf(t) == \A u \in Threads \ {t} : Keeps(Holding, rl, Holding', rl', u)

\* The refinement mapping, thread by thread.
LEMMA ByteHoldsFact ==
  /\ ByteHolds = [u \in Threads |-> HeldBy(Holding, rl, u)]
  /\ ByteHolds' = [u \in Threads |-> HeldBy(Holding', rl', u)]
BY DEF ByteHolds, HeldBy, BytesOf

\* A range that is held has a byte.
LEMMA HeldBytes ==
  ASSUME NEW T, NEW H, NEW L, Agree(T, H, L), NEW u \in H
  PROVE  BytesOf(L[u]) # {} /\ BytesOf(L[u]) \in SUBSET (0 .. UINT64_MAX - 1)
<1>1. /\ L[u].r_off \in Nat /\ End(L[u]) \in Nat /\ L[u].r_off < End(L[u])
      /\ End(L[u]) <= UINT64_MAX
  BY HolderNumbers DEF Agree
<1>2. UINT64_MAX \in Nat
  BY RangeAssumption DEF UINT64_MAX
<1>3. L[u].r_off \in BytesOf(L[u])
  BY <1>1, <1>2 DEF BytesOf, Covers
<1>. QED  BY <1>3 DEF BytesOf

\* A thread that keeps its range keeps its bytes.
LEMMA KeepsBytes ==
  ASSUME NEW H, NEW L, NEW H2, NEW L2, NEW u, Keeps(H, L, H2, L2, u)
  PROVE  HeldBy(H2, L2, u) = HeldBy(H, L, u)
BY DEF Keeps, HeldBy, BytesOf, Covers, End

\* Nobody holds a byte that a writer holds.
LEMMA WriterBytes ==
  ASSUME NEW T, NEW H \in SUBSET Threads, NEW L, Agree(T, H, L),
         NEW t, NEW u, u # t,
         HeldBy(H, L, t).excl \/ HeldBy(H, L, u).excl
  PROVE  HeldBy(H, L, t).bytes \cap HeldBy(H, L, u).bytes = {}
<1>1. CASE t \in H /\ u \in H
  <2>1. HeldBy(H, L, t).bytes = BytesOf(L[t]) /\ HeldBy(H, L, u).bytes = BytesOf(L[u])
    BY <1>1 DEF HeldBy
  <2>2. L[t].op # "read" \/ L[u].op # "read"
    BY <1>1 DEF HeldBy
  <2>3. Apart(L[t], L[u]) \/ Apart(L[u], L[t])
    BY <1>1, <2>2, WriterAlone
  <2>4. /\ L[t].r_off \in Nat /\ End(L[t]) \in Nat
        /\ L[u].r_off \in Nat /\ End(L[u]) \in Nat
    BY <1>1, HolderNumbers DEF Agree
  <2>5. UINT64_MAX \in Nat
    BY RangeAssumption DEF UINT64_MAX
  <2>6. BytesOf(L[t]) \cap BytesOf(L[u]) = {}
    BY <2>3, <2>4, <2>5 DEF BytesOf, Covers, Apart
  <2>. QED  BY <2>1, <2>6
<1>2. CASE t \notin H
  BY <1>2 DEF HeldBy
<1>3. CASE u \notin H
  BY <1>3 DEF HeldBy
<1>. QED  BY <1>1, <1>2, <1>3

\* Bytes and a mode make a lock.
LEMMA HoldRecord ==
  ASSUME NEW S, NEW B \in S, NEW x \in BOOLEAN
  PROVE  [bytes |-> B, excl |-> x] \in [bytes : S, excl : BOOLEAN]
BY SMT

\* A step in which only t gets or gives up a range is a step of the byte locks.
LEMMA OneMoves ==
  ASSUME LockInv, LockInv', NEW t \in Threads, OnlyOf(t),
         Keeps(Holding, rl, Holding', rl', t) \/ ~(t \in Holding <=> t \in Holding')
  PROVE  [Abstract!Next]_ByteHolds
<1>. DEFINE F == [u \in Threads |-> HeldBy(Holding, rl, u)]
            G == [u \in Threads |-> HeldBy(Holding', rl', u)]
<1>0. /\ Agree(z_range_avl, Holding, rl) /\ Agree(z_range_avl', Holding', rl')
      /\ Holding \in SUBSET Threads /\ Holding' \in SUBSET Threads
  BY DEF LockInv, Holding
<1>1. ByteHolds = F /\ ByteHolds' = G
  BY ByteHoldsFact
<1>2. \A u \in Threads \ {t} : G[u] = F[u]
  BY KeepsBytes DEF OnlyOf
<1>3. G = [F EXCEPT ![t] = G[t]]
  BY <1>2
<1>4. CASE Keeps(Holding, rl, Holding', rl', t)
  <2>1. G[t] = F[t]
    BY <1>4, KeepsBytes
  <2>2. G = F
    BY <1>2, <2>1
  <2>. QED  BY <1>1, <2>2
<1>5. CASE t \in Holding' /\ t \notin Holding
  <2>1. F[t] = Abstract!Nothing
    BY <1>5 DEF HeldBy, Abstract!Nothing
  <2>2. G[t] = [bytes |-> BytesOf(rl'[t]), excl |-> rl'[t].op # "read"]
    BY <1>5 DEF HeldBy
  <2>3. BytesOf(rl'[t]) # {} /\ BytesOf(rl'[t]) \in SUBSET (0 .. UINT64_MAX - 1)
    BY <1>0, <1>5, HeldBytes
  <2>4. G[t] \in [bytes : (SUBSET (0 .. UINT64_MAX - 1)) \ {{}}, excl : BOOLEAN]
    <3>1. BytesOf(rl'[t]) \in (SUBSET (0 .. UINT64_MAX - 1)) \ {{}}
      BY <2>3
    <3>2. (rl'[t].op # "read") \in BOOLEAN
      OBVIOUS
    <3>. HIDE DEF G
    <3>. QED  BY <2>2, <3>1, <3>2, HoldRecord
  <2>5. ASSUME NEW u \in Threads \ {t}, G[t].excl \/ F[u].excl
        PROVE  G[t].bytes \cap F[u].bytes = {}
    <3>1. F[u] = HeldBy(Holding', rl', u) /\ G[t] = HeldBy(Holding', rl', t)
      BY <1>2
    <3>. HIDE DEF F, G
    <3>. QED  BY <1>0, <2>5, <3>1, WriterBytes
  <2>. HIDE DEF F, G
  <2>6. Abstract!Lock(t)
    BY <1>1, <1>3, <2>1, <2>4, <2>5 DEF Abstract!Lock, Abstract!Compatible
  <2>. QED  BY <2>6 DEF Abstract!Next
<1>6. CASE t \in Holding /\ t \notin Holding'
  <2>1. G[t] = Abstract!Nothing
    BY <1>6 DEF HeldBy, Abstract!Nothing
  <2>2. BytesOf(rl[t]) # {}
    BY <1>0, <1>6, HeldBytes
  <2>3. F[t] # Abstract!Nothing
    BY <1>6, <2>2 DEF HeldBy, Abstract!Nothing
  <2>. HIDE DEF F, G
  <2>4. Abstract!Unlock(t)
    BY <1>1, <1>3, <2>1, <2>3 DEF Abstract!Unlock
  <2>. QED  BY <2>4 DEF Abstract!Next
<1>. QED  BY <1>4, <1>5, <1>6

\* The loop of zfs_range_lock_writer() grants a lock or sleeps.
LEMMA WriterLoopRefines ==
  ASSUME LockInv, LockInv', NEW t \in Threads, NEW q,
         pc[t] \in {"idle", "wrWoken"}, WriterLoop(t, q)
  PROVE  [Abstract!Next]_ByteHolds
<1>0. /\ FileOK /\ pc \in [Threads -> Pcs] /\ rl \in [Threads -> LockSet]
      /\ t \notin Holding
  BY DEF LockInv, FileOK, CallsOK, Holding
<1>1. \E x : rl' = [rl EXCEPT ![t] = x]
  BY DEF WriterLoop, WriterTry
<1>2. pc' = [pc EXCEPT ![t] = "held"] \/ pc' = [pc EXCEPT ![t] = "wrSleep"]
  BY DEF WriterLoop, WriterTry
<1>3. OnlyOf(t)
  BY <1>0, <1>1, <1>2 DEF OnlyOf, Keeps, Holding
<1>4. Keeps(Holding, rl, Holding', rl', t) \/ ~(t \in Holding <=> t \in Holding')
  BY <1>0 DEF Keeps
<1>. QED  BY <1>3, <1>4, OneMoves

\* So does the loop of zfs_range_lock_reader(), and the rl_t it takes out of
\* the tree for proxies lock what they did.
LEMMA ReaderLoopRefines ==
  ASSUME LockInv, LockInv', NEW t \in Threads, NEW q,
         pc[t] \in {"idle", "rdWoken"}, ReaderLoop(t, q)
  PROVE  [Abstract!Next]_ByteHolds
<1>0. /\ FileOK /\ pc \in [Threads -> Pcs] /\ rl \in [Threads -> LockSet]
      /\ t \notin Holding
  BY DEF LockInv, FileOK, CallsOK, Holding
<1>1. \A u \in Threads \ {t} : rl'[u] \in {rl[u], [rl[u] EXCEPT !.r_cnt = 0]}
  <2>1. CASE ReaderBlockers(q.off, q.len) = {}
    BY <2>1 DEF ReaderLoop
  <2>2. CASE ReaderBlockers(q.off, q.len) # {}
    BY <1>0, <2>2 DEF ReaderLoop
  <2>. QED  BY <2>1, <2>2
<1>2. pc' = [pc EXCEPT ![t] = "held"] \/ pc' = [pc EXCEPT ![t] = "rdSleep"]
  BY DEF ReaderLoop
<1>3. ASSUME NEW u \in Threads \ {t}
      PROVE  Keeps(Holding, rl, Holding', rl', u)
  <2>1. rl[u] \in LockSet
    BY <1>0
  <2>2. rl'[u].r_off = rl[u].r_off /\ rl'[u].r_len = rl[u].r_len /\ rl'[u].op = rl[u].op
    BY <1>1, <2>1 DEF LockSet
  <2>3. u \in Holding' <=> u \in Holding
    BY <1>0, <1>2 DEF Holding
  <2>. QED  BY <2>2, <2>3 DEF Keeps
<1>4. OnlyOf(t)
  BY <1>3 DEF OnlyOf
<1>5. Keeps(Holding, rl, Holding', rl', t) \/ ~(t \in Holding <=> t \in Holding')
  BY <1>0 DEF Keeps
<1>. QED  BY <1>4, <1>5, OneMoves

\* zfs_range_reduce() narrows the lock of a writer.
LEMMA ReduceRefines ==
  ASSUME LockInv, LockInv', NEW t \in Threads, zfs_range_reduce(t)
  PROVE  [Abstract!Next]_ByteHolds
<1>. DEFINE F == [u \in Threads |-> HeldBy(Holding, rl, u)]
            G == [u \in Threads |-> HeldBy(Holding', rl', u)]
            k == Min({rl[t].len, Limit - Woff(t)})
<1>0. /\ FileOK /\ pc \in [Threads -> Pcs] /\ rl \in [Threads -> LockSet]
      /\ Agree(z_range_avl', Holding', rl') /\ rl[t] \in LockSet
      /\ t \in Holding /\ rl[t].op # "read"
      /\ pc' = [pc EXCEPT ![t] = "reduced"]
  BY DEF LockInv, FileOK, CallsOK, Holding, zfs_range_reduce
<1>1. rl' = [rl EXCEPT ![t].r_off = Woff(t), ![t].r_len = k]
  BY DEF zfs_range_reduce
<1>2. /\ rl[t].r_off = 0 /\ End(rl[t]) = UINT64_MAX
      /\ Woff(t) \in Nat
  BY ReduceFact
<1>. HIDE DEF k
<1>3. /\ \A u \in Threads \ {t} : rl'[u] = rl[u]
      /\ rl'[t].op = rl[t].op /\ rl'[t].r_off = Woff(t)
  BY <1>0, <1>1 DEF LockSet
<1>4. Holding' = Holding
  <2>1. Holding' = Holding \cup {t}
    BY <1>0, HoldingNext
  <2>. QED  BY <1>0, <2>1
<1>5. ByteHolds = F /\ ByteHolds' = G
  BY ByteHoldsFact
<1>6. \A u \in Threads \ {t} : G[u] = F[u]
  BY <1>3, <1>4, KeepsBytes DEF Keeps
<1>7. /\ F[t] = [bytes |-> BytesOf(rl[t]), excl |-> rl[t].op # "read"]
      /\ G[t] = [bytes |-> BytesOf(rl'[t]), excl |-> rl[t].op # "read"]
  BY <1>0, <1>3, <1>4 DEF HeldBy
<1>8. BytesOf(rl'[t]) # {} /\ BytesOf(rl'[t]) \in SUBSET (0 .. UINT64_MAX - 1)
  BY <1>0, <1>4, HeldBytes
<1>9. BytesOf(rl[t]) = 0 .. UINT64_MAX - 1
  BY <1>2, RangeAssumption DEF BytesOf, Covers, UINT64_MAX
<1>10. /\ F[t].excl /\ G[t].bytes \in (SUBSET F[t].bytes) \ {{}}
       /\ G[t] = [F[t] EXCEPT !.bytes = G[t].bytes]
  <2>. DEFINE A == BytesOf(rl[t])
              B == BytesOf(rl'[t])
              x == rl[t].op # "read"
  <2>1. B \in (SUBSET A) \ {{}} /\ x
    BY <1>0, <1>8, <1>9
  <2>2. F[t] = [bytes |-> A, excl |-> x] /\ G[t] = [bytes |-> B, excl |-> x]
    BY <1>7
  <2>. HIDE DEF A, B, x, F, G
  <2>3. F[t].excl = x /\ F[t].bytes = A /\ G[t].bytes = B
    BY ONLY <2>2
  <2>4. G[t] = [F[t] EXCEPT !.bytes = B]
    BY ONLY <2>2
  <2>. QED  BY <2>1, <2>3, <2>4
<1>11. G = [F EXCEPT ![t].bytes = G[t].bytes]
  <2>1. G = [F EXCEPT ![t] = [F[t] EXCEPT !.bytes = G[t].bytes]]
    BY <1>6, <1>10
  <2>. QED  BY <2>1
<1>. HIDE DEF F, G
<1>12. Abstract!Reduce(t)
  BY <1>5, <1>10, <1>11 DEF Abstract!Reduce
<1>. QED  BY <1>12 DEF Abstract!Next

\* Every step is a step of the byte locks, or changes nothing that they show.
LEMMA StepRefines ==
  ASSUME LockInv, LockInv', [Next]_vars
  PROVE  [Abstract!Next]_ByteHolds
<1>0. /\ FileOK /\ pc \in [Threads -> Pcs] /\ rl \in [Threads -> LockSet]
      /\ "idle" \in Pcs /\ "held" \in Pcs
  BY DEF LockInv, FileOK, CallsOK, Pcs
<1>1. ASSUME NEW t \in Threads, zfs_range_lock(t)
      PROVE  [Abstract!Next]_ByteHolds
  <2>1. pc[t] = "idle" /\ \E q : ReaderLoop(t, q) \/ WriterLoop(t, q)
    BY <1>1 DEF zfs_range_lock
  <2>. QED  BY <2>1, ReaderLoopRefines, WriterLoopRefines
<1>2. ASSUME NEW t \in Threads, zfs_range_lock_reader_wakeup(t)
      PROVE  [Abstract!Next]_ByteHolds
  BY <1>2, ReaderLoopRefines DEF zfs_range_lock_reader_wakeup
<1>3. ASSUME NEW t \in Threads, zfs_range_lock_writer_wakeup(t)
      PROVE  [Abstract!Next]_ByteHolds
  BY <1>3, WriterLoopRefines DEF zfs_range_lock_writer_wakeup
<1>4. ASSUME NEW t \in Threads, zfs_range_unlock_read(t)
      PROVE  [Abstract!Next]_ByteHolds
  <2>1. (\E S : Broadcast(S, t, "idle")) /\ rl' = [rl EXCEPT ![t] = NoLock] /\ t \in Holding
    BY <1>4 DEF zfs_range_unlock_read, zfs_range_unlock_reader, Holding
  <2>2. Holding' = Holding \ {t}
    BY <1>0, <2>1, BroadcastFact
  <2>3. OnlyOf(t)
    BY <1>0, <2>1, <2>2 DEF OnlyOf, Keeps
  <2>. QED  BY <2>1, <2>2, <2>3, OneMoves
<1>5. ASSUME NEW t \in Threads, zfs_range_unlock_write(t)
      PROVE  [Abstract!Next]_ByteHolds
  <2>1. /\ \E x : rl' = [rl EXCEPT ![t] = x]
        /\ pc' = [pc EXCEPT ![t] = "unlocked"] /\ t \in Holding
    BY <1>5 DEF zfs_range_unlock_write, Holding
  <2>2. Holding' = Holding \ {t}
    BY <1>0, <2>1, HoldingNext
  <2>3. OnlyOf(t)
    BY <1>0, <2>1, <2>2 DEF OnlyOf, Keeps
  <2>. QED  BY <2>1, <2>2, <2>3, OneMoves
<1>6. ASSUME NEW t \in Threads, zfs_range_unlock_broadcast(t)
      PROVE  [Abstract!Next]_ByteHolds
  <2>1. /\ \E S : Broadcast(S, t, "idle")
        /\ rl' = [rl EXCEPT ![t] = NoLock] /\ t \notin Holding
    BY <1>6 DEF zfs_range_unlock_broadcast, Holding
  <2>2. Holding' = Holding \ {t}
    BY <1>0, <2>1, BroadcastFact
  <2>3. OnlyOf(t) /\ Keeps(Holding, rl, Holding', rl', t)
    BY <1>0, <2>1, <2>2 DEF OnlyOf, Keeps
  <2>. QED  BY <2>3, OneMoves
<1>7. ASSUME NEW t \in Threads, zfs_range_reduce_broadcast(t)
      PROVE  [Abstract!Next]_ByteHolds
  <2>1. (\E S : Broadcast(S, t, "held")) /\ rl' = rl /\ t \in Holding
    BY <1>7 DEF zfs_range_reduce_broadcast, Holding
  <2>2. Holding' = Holding
    <3>1. Holding' = Holding \cup {t}
      BY <1>0, <2>1, BroadcastFact
    <3>. QED  BY <2>1, <3>1
  <2>3. OnlyOf(t) /\ Keeps(Holding, rl, Holding', rl', t)
    BY <2>1, <2>2 DEF OnlyOf, Keeps
  <2>. QED  BY <2>3, OneMoves
<1>8. CASE UNCHANGED <<rl, pc>>
  BY <1>8 DEF ByteHolds, Holding
<1>9. ASSUME NEW t \in Threads, WriteData(t) \/ Truncate(t) \/ Extend(t)
      PROVE  [Abstract!Next]_ByteHolds
  <2>1. UNCHANGED <<rl, pc>>
    BY <1>9 DEF WriteData, Truncate, Extend
  <2>. QED  BY <1>8, <2>1
<1>10. CASE UNCHANGED vars
  BY <1>8, <1>10 DEF vars
<1>. QED  BY <1>1, <1>2, <1>3, <1>4, <1>5, <1>6, <1>7, <1>9, <1>10, ReduceRefines
          DEF Next

\* ImplementsByteLocks: however nodes are split, proxied, reduced and given
\* back, zfs_range_lock(), zfs_range_reduce() and zfs_range_unlock() implement
\* shared and exclusive locks on bytes.
THEOREM RangeRefinesByteLocks == Spec => ImplementsByteLocks
<1>1. Init => Abstract!Init
  BY DEF Init, Abstract!Init, Abstract!Nothing, ByteHolds, Holding
<1>2. LockInv /\ LockInv' /\ [Next]_vars => [Abstract!Next]_ByteHolds
  BY StepRefines
<1>. QED  BY <1>1, <1>2, LockInvariant, PTL
          DEF Spec, ImplementsByteLocks, Abstract!Spec

=============================================================================
