--------------------------- MODULE ZilReplayProofs ---------------------------
(***************************************************************************)
(* Proofs about what Zil's log is for, above the chain of ZilChainProofs.  *)
(* ReplayInv is about the import: a record is replayed once.  AckInv is    *)
(* about zil_commit(): what it has promised outlives crashes.  CloseInv is *)
(* about what one record relies on: a crash does not lose it and keep the  *)
(* other.                                                                  *)
(***************************************************************************)
EXTENDS ZilChainProofs

----------------------------------------------------------------------------
\* The records that zil_parse() finds.

\* The first steps of FlattenSeq().
Flatten(seqs, M, g) ==
  g = [i \in 1 .. M |-> IF i = 1 THEN seqs[i] ELSE g[i - 1] \o seqs[i]]

\* There are such steps.
LEMMA FlattenExists ==
  ASSUME NEW seqs, NEW M \in Nat
  PROVE  \E g : Flatten(seqs, M, g)
<1>. DEFINE S == {N \in Nat : ~ \E g : Flatten(seqs, N, g)}
<1>. SUFFICES ASSUME M \in S
              PROVE  FALSE
  OBVIOUS
<1>1. PICK N \in S : \A k \in S : ~(<<k, N>> \in OpToRel(<, Nat))
  BY WFMin, NatLessThanWellFounded
<1>2. N \in Nat /\ \A k \in S : ~(k < N)
  BY <1>1 DEF OpToRel
<1>3. CASE N = 0
  <2>. DEFINE h == [n \in 1 .. 0 |-> seqs[n]]
  <2>1. Flatten(seqs, 0, h)
    BY DEF Flatten
  <2>. QED  BY <1>1, <1>3, <2>1
<1>4. CASE N # 0
  <2>1. N - 1 \in Nat /\ N - 1 \notin S
    BY <1>2, <1>4
  <2>2. PICK g : Flatten(seqs, N - 1, g)
    BY <2>1
  <2>. DEFINE e == IF N = 1 THEN seqs[1] ELSE g[N - 1] \o seqs[N]
              h == [n \in 1 .. N |-> IF n < N THEN g[n] ELSE e]
  <2>3. g = [i \in 1 .. N - 1 |-> IF i = 1 THEN seqs[i] ELSE g[i - 1] \o seqs[i]]
    BY <2>2 DEF Flatten
  <2>4. ASSUME NEW n \in 1 .. N
        PROVE  h[n] = IF n = 1 THEN seqs[n] ELSE h[n - 1] \o seqs[n]
    <3>1. CASE n < N
      <4>1. n \in 1 .. N - 1 /\ (n # 1 => n - 1 \in 1 .. N /\ n - 1 < N)
        BY <1>2, <3>1
      <4>2. g[n] = IF n = 1 THEN seqs[n] ELSE g[n - 1] \o seqs[n]
        BY <2>3, <4>1
      <4>3. h[n] = g[n] /\ (n # 1 => h[n - 1] = g[n - 1])
        BY <3>1, <4>1
      <4>. QED  BY <4>2, <4>3
    <3>2. CASE n = N
      <4>1. N # 1 => N - 1 \in 1 .. N /\ N - 1 < N
        BY <1>2, <1>4
      <4>2. N # 1 => h[N - 1] = g[N - 1]
        BY <4>1
      <4>. QED  BY <3>2, <4>2
    <3>. QED  BY <1>2, <3>1, <3>2
  <2>5. h = [i \in 1 .. N |-> IF i = 1 THEN seqs[i] ELSE h[i - 1] \o seqs[i]]
    <3>1. h = [i \in 1 .. N |-> h[i]]
      OBVIOUS
    <3>. QED  BY <2>4, <3>1
  <2>6. Flatten(seqs, N, h)
    BY <2>5 DEF Flatten
  <2>. QED  BY <1>1, <2>6
<1>. QED  BY <1>3, <1>4

\* FlattenSeq() is the last of them.
LEMMA FlattenFact ==
  ASSUME NEW seqs, Len(seqs) \in Nat \ {0}
  PROVE  \E g : /\ FlattenSeq(seqs) = g[Len(seqs)]
                /\ g[1] = seqs[1]
                /\ \A i \in 2 .. Len(seqs) : g[i] = g[i - 1] \o seqs[i]
<1>1. \E g : Flatten(seqs, Len(seqs), g)
  BY FlattenExists
<1>. DEFINE g == CHOOSE g : Flatten(seqs, Len(seqs), g)
<1>2. Flatten(seqs, Len(seqs), g)
  BY <1>1
<1>3. FlattenSeq(seqs) = g[Len(seqs)]
  BY DEF FlattenSeq, Flatten
<1>. HIDE DEF g
<1>4. \A i \in 1 .. Len(seqs) : g[i] = IF i = 1 THEN seqs[i] ELSE g[i - 1] \o seqs[i]
  BY <1>2, Zenon DEF Flatten
<1>5. 1 \in 1 .. Len(seqs) /\ \A i \in 2 .. Len(seqs) : i \in 1 .. Len(seqs) /\ i # 1
  OBVIOUS
<1>6. g[1] = seqs[1]
  BY <1>4, <1>5
<1>7. \A i \in 2 .. Len(seqs) : g[i] = g[i - 1] \o seqs[i]
  BY <1>4, <1>5
<1>. QED  BY <1>3, <1>6, <1>7

\* The log sequence numbers grow along the sequences, one after the other.
Growing(seqs) ==
  \A i, j \in DOMAIN seqs : \A m \in DOMAIN seqs[i], n \in DOMAIN seqs[j] :
    i < j \/ (i = j /\ m < n) => seqs[i][m].seq < seqs[j][n].seq

\* c holds what the first l of them hold, in order.
Holds(c, seqs, l) ==
  /\ c \in Seq(Entries)
  /\ \A n \in DOMAIN c : \E j \in 1 .. l : \E m \in DOMAIN seqs[j] : c[n] = seqs[j][m]
  /\ \A j \in 1 .. l : \A m \in DOMAIN seqs[j] : \E n \in DOMAIN c : c[n] = seqs[j][m]
  /\ \A m, n \in DOMAIN c : m < n => c[m].seq < c[n].seq

\* Another one is added.
LEMMA HoldsStep ==
  ASSUME NEW seqs \in Seq(Seq(Entries)), Growing(seqs), NEW l \in Nat, l + 1 \in DOMAIN seqs,
         NEW c, Holds(c, seqs, l)
  PROVE  Holds(c \o seqs[l + 1], seqs, l + 1)
<1>. DEFINE s == seqs[l + 1]
            d == c \o s
<1>1. c \in Seq(Entries) /\ s \in Seq(Entries) /\ Len(c) \in Nat /\ Len(s) \in Nat
      /\ DOMAIN c = 1 .. Len(c) /\ DOMAIN s = 1 .. Len(s)
  BY DEF Holds
<1>2. /\ d \in Seq(Entries) /\ Len(d) = Len(c) + Len(s) /\ DOMAIN d = 1 .. Len(d)
      /\ \A n \in 1 .. Len(c) : d[n] = c[n]
      /\ \A n \in 1 .. Len(s) : d[Len(c) + n] = s[n]
  <2>. HIDE DEF s
  <2>. QED  BY <1>1
<1>. HIDE DEF d
<1>3. ASSUME NEW n \in DOMAIN d
      PROVE  (n \in DOMAIN c /\ d[n] = c[n]) \/ (n - Len(c) \in DOMAIN s /\ d[n] = s[n - Len(c)])
  <2>1. CASE n <= Len(c)
    BY <1>1, <1>2, <2>1
  <2>2. CASE n > Len(c)
    <3>1. n - Len(c) \in 1 .. Len(s) /\ Len(c) + (n - Len(c)) = n
      BY <1>1, <1>2, <2>2
    <3>2. d[Len(c) + (n - Len(c))] = s[n - Len(c)]
      BY <1>2, <3>1
    <3>. QED  BY <1>1, <3>1, <3>2
  <2>. QED  BY <1>1, <1>2, <2>1, <2>2
<1>4. ASSUME NEW n \in DOMAIN d
      PROVE  \E j \in 1 .. l + 1 : \E m \in DOMAIN seqs[j] : d[n] = seqs[j][m]
  <2>1. CASE n \in DOMAIN c /\ d[n] = c[n]
    <3>1. PICK j \in 1 .. l : \E m \in DOMAIN seqs[j] : c[n] = seqs[j][m]
      BY <2>1 DEF Holds
    <3>2. j \in 1 .. l + 1
      OBVIOUS
    <3>. QED  BY <2>1, <3>1, <3>2
  <2>2. CASE n - Len(c) \in DOMAIN s /\ d[n] = s[n - Len(c)]
    BY <2>2
  <2>. QED  BY <1>3, <2>1, <2>2
<1>5. ASSUME NEW j \in 1 .. l + 1, NEW m \in DOMAIN seqs[j]
      PROVE  \E n \in DOMAIN d : d[n] = seqs[j][m]
  <2>1. CASE j \in 1 .. l
    <3>1. PICK n \in DOMAIN c : c[n] = seqs[j][m]
      BY <2>1 DEF Holds
    <3>2. n \in DOMAIN d /\ d[n] = c[n]
      BY <1>1, <1>2
    <3>. QED  BY <3>1, <3>2
  <2>2. CASE j = l + 1
    <3>1. m \in 1 .. Len(s) /\ Len(c) + m \in DOMAIN d
      BY <1>1, <1>2, <2>2
    <3>. QED  BY <1>2, <2>2, <3>1
  <2>. QED  BY <2>1, <2>2
<1>6. ASSUME NEW m \in DOMAIN d, NEW n \in DOMAIN d, m < n
      PROVE  d[m].seq < d[n].seq
  <2>1. CASE n \in DOMAIN c /\ d[n] = c[n]
    <3>1. m \in DOMAIN c /\ d[m] = c[m]
      BY <1>1, <1>2, <1>6, <2>1
    <3>. QED  BY <1>6, <2>1, <3>1 DEF Holds
  <2>2. CASE n - Len(c) \in DOMAIN s /\ d[n] = s[n - Len(c)]
    <3>1. CASE m \in DOMAIN c /\ d[m] = c[m]
      <4>1. PICK j \in 1 .. l : \E k \in DOMAIN seqs[j] : c[m] = seqs[j][k]
        BY <3>1 DEF Holds
      <4>2. PICK k \in DOMAIN seqs[j] : c[m] = seqs[j][k]
        BY <4>1
      <4>3. j \in DOMAIN seqs /\ j < l + 1
        OBVIOUS
      <4>4. seqs[j][k].seq < seqs[l + 1][n - Len(c)].seq
        BY <2>2, <4>3 DEF Growing
      <4>. QED  BY <2>2, <3>1, <4>2, <4>4
    <3>2. CASE m - Len(c) \in DOMAIN s /\ d[m] = s[m - Len(c)]
      <4>1. m - Len(c) < n - Len(c)
        BY <1>1, <1>2, <1>6
      <4>. QED  BY <2>2, <3>2, <4>1 DEF Growing
    <3>. QED  BY <1>3, <3>1, <3>2
  <2>. QED  BY <1>3, <2>1, <2>2
<1>. QED  BY <1>2, <1>4, <1>5, <1>6 DEF Holds, d

\* So that FlattenSeq() holds what they all do.
LEMMA FlattenHolds ==
  ASSUME NEW seqs \in Seq(Seq(Entries)), Growing(seqs)
  PROVE  Holds(FlattenSeq(seqs), seqs, Len(seqs))
<1>1. CASE Len(seqs) = 0
  <2>1. FlattenSeq(seqs) = seqs /\ seqs = <<>>
    BY <1>1 DEF FlattenSeq
  <2>. QED  BY <1>1, <2>1 DEF Holds
<1>2. CASE Len(seqs) # 0
  <2>0. Len(seqs) \in Nat \ {0} /\ DOMAIN seqs = 1 .. Len(seqs)
    BY <1>2
  <2>1. PICK g : /\ FlattenSeq(seqs) = g[Len(seqs)]
                 /\ g[1] = seqs[1]
                 /\ \A i \in 2 .. Len(seqs) : g[i] = g[i - 1] \o seqs[i]
    BY <2>0, FlattenFact
  <2>. DEFINE S == {n \in 1 .. Len(seqs) : ~Holds(g[n], seqs, n)}
  <2>2. S = {}
    <3>. SUFFICES ASSUME S # {}
                  PROVE  FALSE
      OBVIOUS
    <3>1. S \in SUBSET Nat
      BY <2>0
    <3>2. PICK n \in S : \A k \in S : ~(<<k, n>> \in OpToRel(<, Nat))
      BY <3>1, WFMin, NatLessThanWellFounded
    <3>3. n \in Nat /\ n \in 1 .. Len(seqs) /\ \A k \in S : ~(k < n)
      BY <3>1, <3>2 DEF OpToRel
    <3>4. CASE n = 1
      <4>1. seqs[1] \in Seq(Entries) /\ 1 \in DOMAIN seqs
        BY <2>0
      <4>2. \A i, m \in DOMAIN seqs[1] : i < m => seqs[1][i].seq < seqs[1][m].seq
        BY <4>1 DEF Growing
      <4>3. Holds(seqs[1], seqs, 1)
        BY <4>1, <4>2 DEF Holds
      <4>. QED  BY <2>1, <3>2, <3>4, <4>3
    <3>5. CASE n # 1
      <4>. DEFINE l == n - 1
      <4>1. l \in Nat /\ l \in 1 .. Len(seqs) /\ l < n /\ l + 1 = n /\ n \in 2 .. Len(seqs)
        BY <2>0, <3>3, <3>5
      <4>2. Holds(g[l], seqs, l)
        BY <3>3, <4>1
      <4>3. g[n] = g[l] \o seqs[n]
        BY <2>1, <4>1
      <4>. HIDE DEF l
      <4>4. Holds(g[l] \o seqs[l + 1], seqs, l + 1)
        BY <2>0, <4>1, <4>2, HoldsStep
      <4>. QED  BY <3>2, <4>1, <4>3, <4>4
    <3>. QED  BY <3>4, <3>5
  <2>3. Holds(g[Len(seqs)], seqs, Len(seqs))
    BY <2>0, <2>2, SMTT(30)
  <2>. QED  BY <2>1, <2>3
<1>. QED  BY <1>1, <1>2

\* The sequences that LogRecords() puts together.
Parts(f, c) == [n \in DOMAIN c |-> IF Valid(f, c[n]) THEN f[c[n]].recs ELSE <<>>]

\* L holds what the blocks of D before the m-th hold, in order.
LogHolds(f, D, m, L) ==
  /\ L \in Seq(Entries)
  /\ \A n \in DOMAIN L : \E y \in 1 .. m - 1 : \E x \in DOMAIN f[D[y]].recs : L[n] = f[D[y]].recs[x]
  /\ \A y \in 1 .. m - 1 : \A x \in DOMAIN f[D[y]].recs : \E n \in DOMAIN L : L[n] = f[D[y]].recs[x]
  /\ \A k, n \in DOMAIN L : k < n => L[k].seq < L[n].seq

\* The blocks of D before the m-th hold records.
HoldRecords(f, D, m) == \A y \in 1 .. m - 1 : f[D[y]].recs \in Seq(Entries)

\* The parts are the records of the blocks up to the one that cannot be read.
LEMMA PartsFact ==
  ASSUME NEW f, NEW D \in Seq(Blocks), NEW m, EndsAt(f, D, m), NEW c, Begins(c, D, m),
         HoldRecords(f, D, m)
  PROVE  /\ m \in Nat \ {0} /\ DOMAIN c = 1 .. m
         /\ Parts(f, c) \in Seq(Seq(Entries)) /\ Len(Parts(f, c)) = m
         /\ DOMAIN Parts(f, c) = 1 .. m
         /\ \A y \in 1 .. m - 1 : Parts(f, c)[y] = f[D[y]].recs
         /\ Parts(f, c)[m] = <<>>
<1>1. m \in Nat \ {0} /\ DOMAIN c = 1 .. m /\ \A i \in 1 .. m : c[i] = D[i]
  BY DEF EndsAt, Begins
<1>. DEFINE seqs == Parts(f, c)
<1>2. seqs = [n \in 1 .. m |-> IF Valid(f, c[n]) THEN f[c[n]].recs ELSE <<>>]
  BY <1>1 DEF Parts
<1>3. \A y \in 1 .. m - 1 : y \in 1 .. m /\ Valid(f, c[y]) /\ c[y] = D[y]
  BY <1>1 DEF EndsAt
<1>4. m \in 1 .. m /\ ~Valid(f, c[m])
  BY <1>1 DEF EndsAt
<1>. HIDE DEF seqs
<1>5. \A y \in 1 .. m - 1 : seqs[y] = f[D[y]].recs
  BY <1>2, <1>3
<1>6. seqs[m] = <<>>
  BY <1>2, <1>4
<1>7. \A y \in 1 .. m : seqs[y] \in Seq(Entries)
  <2>. SUFFICES ASSUME NEW y \in 1 .. m
                PROVE  seqs[y] \in Seq(Entries)
    OBVIOUS
  <2>0. <<>> \in Seq(Entries)
    OBVIOUS
  <2>1. CASE y = m
    BY <1>6, <2>0, <2>1, Zenon
  <2>2. CASE y # m
    <3>1. y \in 1 .. m - 1
      BY <1>1, <2>2
    <3>. QED  BY <1>5, <3>1 DEF HoldRecords
  <2>. QED  BY <2>1, <2>2
<1>8. DOMAIN seqs = 1 .. m
  BY <1>2
<1>9. seqs \in Seq(Seq(Entries)) /\ Len(seqs) = m
  <2>. DEFINE T == Seq(Entries)
  <2>1. seqs = [y \in 1 .. m |-> seqs[y]]
    BY <1>2, <1>8
  <2>2. \A y \in 1 .. m : seqs[y] \in T
    BY <1>7
  <2>. HIDE DEF T
  <2>3. seqs \in [1 .. m -> T]
    BY <2>1, <2>2
  <2>4. seqs \in Seq(T)
    BY <1>1, <2>3
  <2>5. Len(seqs) = m
    BY <1>1, <1>8, <2>4
  <2>. QED  BY <2>4, <2>5 DEF T
<1>. QED  BY <1>1, <1>5, <1>6, <1>8, <1>9 DEF seqs

\* Along these blocks log sequence numbers grow.
Increase(f, D, m) ==
  \A i, j \in 1 .. m - 1 : \A x \in DOMAIN f[D[i]].recs, z \in DOMAIN f[D[j]].recs :
    i < j \/ (i = j /\ x < z) => f[D[i]].recs[x].seq < f[D[j]].recs[z].seq

\* Sequences are equal if their members are.
LEMMA EqualSeqs ==
  ASSUME NEW S, NEW c \in Seq(S), NEW d \in Seq(S), Len(c) = Len(d),
         \A i \in 1 .. Len(c) : c[i] = d[i]
  PROVE  c = d
<1>1. c \in [1 .. Len(c) -> S] /\ d \in [1 .. Len(c) -> S]
  OBVIOUS
<1>. QED  BY <1>1

\* What zil_parse() finds in the log.
LEMMA LogRecordsIs ==
  ASSUME NEW f, NEW D \in Seq(Blocks), \A i, j \in DOMAIN D : D[i] = D[j] => i = j,
         NEW m, EndsAt(f, D, m), HoldRecords(f, D, m), Increase(f, D, m)
  PROVE  LogHolds(f, D, m, LogRecords(f, D[1]))
<1>. DEFINE c == Chain(f, D[1])
            seqs == Parts(f, c)
<1>1. Begins(c, D, m)
  BY ChainIs
<1>. HIDE DEF c
<1>2. /\ m \in Nat \ {0} /\ DOMAIN c = 1 .. m
      /\ seqs \in Seq(Seq(Entries)) /\ Len(seqs) = m /\ DOMAIN seqs = 1 .. m
      /\ \A y \in 1 .. m - 1 : seqs[y] = f[D[y]].recs
      /\ seqs[m] = <<>>
  BY <1>1, PartsFact
<1>3. LogRecords(f, D[1]) = FlattenSeq(seqs)
  BY DEF LogRecords, Parts, c
<1>. HIDE DEF seqs
<1>4. \A y \in DOMAIN seqs : DOMAIN seqs[y] # {} => y \in 1 .. m - 1 /\ seqs[y] = f[D[y]].recs
  BY <1>2, SMTT(30)
<1>5. Growing(seqs)
  BY <1>4 DEF Growing, Increase
<1>. DEFINE L == FlattenSeq(seqs)
<1>6. Holds(L, seqs, m)
  BY <1>2, <1>5, FlattenHolds
<1>. HIDE DEF L
<1>7. ASSUME NEW n \in DOMAIN L
      PROVE  \E y \in 1 .. m - 1 : \E x \in DOMAIN f[D[y]].recs : L[n] = f[D[y]].recs[x]
  <2>1. PICK j \in 1 .. m : \E x \in DOMAIN seqs[j] : L[n] = seqs[j][x]
    BY <1>6 DEF Holds
  <2>2. j \in 1 .. m - 1 /\ seqs[j] = f[D[j]].recs
    BY <1>2, <1>4, <2>1
  <2>. QED  BY <2>1, <2>2
<1>8. ASSUME NEW y \in 1 .. m - 1, NEW x \in DOMAIN f[D[y]].recs
      PROVE  \E n \in DOMAIN L : L[n] = f[D[y]].recs[x]
  <2>1. y \in 1 .. m /\ seqs[y] = f[D[y]].recs
    BY <1>2
  <2>. QED  BY <1>6, <2>1 DEF Holds
<1>9. LogHolds(f, D, m, L)
  BY <1>6, <1>7, <1>8 DEF LogHolds, Holds
<1>. QED  BY <1>3, <1>9 DEF L

\* It finds the same in blocks that hold the same.
LEMMA SameLogRecords ==
  ASSUME NEW f, NEW e, NEW D \in Seq(Blocks), \A i, j \in DOMAIN D : D[i] = D[j] => i = j,
         NEW m, EndsAt(f, D, m), EndsAt(e, D, m),
         \A y \in 1 .. m - 1 : e[D[y]].recs = f[D[y]].recs
  PROVE  LogRecords(e, D[1]) = LogRecords(f, D[1])
<1>1. Begins(Chain(f, D[1]), D, m) /\ Begins(Chain(e, D[1]), D, m)
  BY ChainIs
<1>2. Chain(f, D[1]) = Chain(e, D[1])
  <2>. DEFINE c == Chain(f, D[1])
              d == Chain(e, D[1])
  <2>1. c \in Seq(Blocks) /\ d \in Seq(Blocks) /\ Len(c) = Len(d) /\ Len(c) = m
        /\ \A i \in 1 .. m : c[i] = d[i]
    BY <1>1 DEF Begins
  <2>. HIDE DEF c, d
  <2>2. c = d
    BY <2>1, EqualSeqs
  <2>. QED  BY <2>2 DEF c, d
<1>. DEFINE c == Chain(f, D[1])
<1>3. m \in Nat \ {0} /\ DOMAIN c = 1 .. m /\ \A i \in 1 .. m : c[i] = D[i]
  BY <1>1 DEF EndsAt, Begins
<1>. HIDE DEF c
<1>4. ASSUME NEW n \in DOMAIN c
      PROVE  (IF Valid(e, c[n]) THEN e[c[n]].recs ELSE <<>>)
               = (IF Valid(f, c[n]) THEN f[c[n]].recs ELSE <<>>)
  <2>1. CASE n = m
    BY <1>3, <2>1 DEF EndsAt
  <2>2. CASE n # m
    <3>1. n \in 1 .. m - 1
      BY <1>3, <2>2
    <3>. QED  BY <1>3, <3>1 DEF EndsAt
  <2>. QED  BY <2>1, <2>2
<1>5. Parts(e, c) = Parts(f, c)
  BY <1>4 DEF Parts
<1>6. LogRecords(f, D[1]) = FlattenSeq(Parts(f, c)) /\ LogRecords(e, D[1]) = FlattenSeq(Parts(e, c))
  BY <1>2 DEF LogRecords, Parts, c
<1>. QED  BY <1>5, <1>6

\* It finds nothing where there is no log.
LEMMA LogRecordsNull ==
  ASSUME NEW f
  PROVE  LogRecords(f, NULL) = <<>>
<1>. DEFINE c == Chain(f, NULL)
<1>1. c = <<>>
  BY ChainNull
<1>2. LogRecords(f, NULL) = FlattenSeq(Parts(f, c))
  BY DEF LogRecords, Parts
<1>. HIDE DEF c
<1>3. Parts(f, c) = <<>>
  <2>1. DOMAIN c = {}
    BY <1>1
  <2>2. Parts(f, c) = [n \in {} |-> {}]
    BY <2>1 DEF Parts
  <2>3. <<>> = [n \in {} |-> {}]
    OBVIOUS
  <2>. QED  BY <2>2, <2>3
<1>. QED  BY <1>2, <1>3 DEF FlattenSeq

----------------------------------------------------------------------------
\* The inductive invariant of the replay.

\* The records that zil_parse() finds in the log of the header on disk.
DiskLog == LogRecords(blk, zh_disk.log)

\* The effect of a record is in a group that there is, which is dirty until it is
\* on disk; that of a record of this boot is where the call has put it.
HomeInv ==
  /\ home \in Seq(Nat) /\ Len(home) = Len(rec)
  /\ \A i \in 1 .. Len(rec) :
       /\ home[i] <= open /\ (home[i] > stable => home[i] \in dirty)
       /\ rec[i].boot = crashes => mode = "up" /\ home[i] = rec[i].txg /\ home[i] # 0
  /\ open <= stable + 3

\* The records of s come in their order.
Ascending(s) == \A m, n \in DOMAIN s : m < n => s[m] < s[n]

\* A record is in memory, on its way to a block or in one block.
OnceInv ==
  /\ Ascending(zl.itx)
  /\ \A b, c \in Blocks : \A m \in DOMAIN blk[b].recs, n \in DOMAIN blk[c].recs :
       blk[b].recs[m].itx = blk[c].recs[n].itx => b = c /\ m = n
  /\ \A b \in Blocks : \A m \in DOMAIN blk[b].recs :
       /\ \A n \in DOMAIN zl.itx : blk[b].recs[m].itx # zl.itx[n]
       /\ (\E t \in Procs : p[t].pc = "log") => blk[b].recs[m].itx # w.itx
  /\ (\E t \in Procs : p[t].pc = "log") => \A n \in DOMAIN zl.itx : zl.itx[n] # w.itx

\* What the headers say of a claim and of a replay.
HeaderInv ==
  /\ \A h \in {zh, zh_disk} : h.claim_txg \in Nat /\ h.replay_seq \in Nat
                              /\ (h.claim_txg = 0 => Fresh(h))
  /\ zl.replayed \in [0 .. TXG_SIZE - 1 -> Nat]
  /\ mode = "up" => ~zh.needed /\ ~zh_disk.needed /\ zl.replayed = NoLog.replayed
  /\ mode = "down" => zh = zh_disk /\ open = stable + 1
  /\ mode = "replayed" => ~zl.keep_first
  /\ DOMAIN r = {"txg", "pos"} /\ (mode \in {"down", "claimed"} => r.pos = 0)

\* The group that the claim is made in: what was in an earlier one was on disk.
ClaimTxg == IF zh_disk.claim_txg # 0 THEN zh_disk.claim_txg ELSE stable + 1

\* How far the replay has got in group g, and the groups that will say so.
Mark(g) == zl.replayed[g % TXG_SIZE]
Unsynced == {g \in stable + 1 .. open : ~Synced(g)}

\* Nothing is written to the log during the import.
QuietInv ==
  \A b \in Blocks : /\ blk[b].io \in {"none", "done"} /\ blk[b].content \in {"none", "disk"}
                    /\ blk[b].freed \in {0, zl.destroy_txg}

\* The header in memory, compared with the one on disk.
ClaimInv ==
  /\ zh_disk.log = zh.log
  /\ mode # "down" => /\ zh.claim_txg = ClaimTxg
                      /\ zh_disk.claim_txg = 0 => stable + 1 \in dirty
  /\ zh_disk.claim_txg # 0 => zh.needed = zh_disk.needed
  /\ zh_disk.replay_seq <= zh.replay_seq
  /\ ~zsynced => zh.replay_seq = zh_disk.replay_seq

\* The marks of the groups to come.
MarkInv ==
  /\ \A x \in 0 .. TXG_SIZE - 1 :
       zl.replayed[x] # 0 => \E g \in Unsynced : g \in dirty /\ x = g % TXG_SIZE
  /\ \A g \in Unsynced : Mark(g) # 0 =>
       zh.replay_seq <= Mark(g) /\ \A h \in Unsynced : h < g => Mark(h) <= Mark(g)

\* Where the effect of the n-th record in the log is: the header and the marks
\* say it for each group that is on disk or will be.
EntryInv(i, s) ==
  /\ rec[i].txg < ClaimTxg => home[i] \in 1 .. stable
  /\ rec[i].txg >= ClaimTxg =>
       /\ s <= zh_disk.replay_seq <=> home[i] \in 1 .. stable
       /\ zh.log # NULL =>
            /\ zsynced => (s <= zh.replay_seq <=> home[i] \in 1 .. stable + 1)
            /\ \A g \in Unsynced : (home[i] = g => s <= Mark(g)) /\ (s <= Mark(g) => home[i] \in 1 .. g)

\* How far the import is with it.
StageInv(n, i, s) ==
  /\ mode \in {"down", "claimed"} => home[i] <= stable
  /\ mode = "replay" => /\ n <= r.pos => home[i] # 0
                        /\ n > r.pos => home[i] <= stable /\ \A g \in Unsynced : Mark(g) < s
  /\ mode = "replayed" => home[i] \in 1 .. zl.destroy_txg

\* Until the log is open, the header, the marks and every entry of the log agree.
ImportInv ==
  ~Opened =>
    /\ QuietInv
    /\ zh.log # NULL => ClaimInv /\ MarkInv
    /\ mode = "replay" => r.pos \in 0 .. Len(DiskLog)
    /\ \A n \in DOMAIN DiskLog :
         EntryInv(DiskLog[n].itx, DiskLog[n].seq) /\ StageInv(n, DiskLog[n].itx, DiskLog[n].seq)

\* The inductive invariant of the import.
ReplayInv == HomeInv /\ OnceInv /\ HeaderInv /\ ImportInv

----------------------------------------------------------------------------
\* What steps other than those of groups, of the import and of a crash change.

\* A step that is none of the group writer, the import or a crash.
Beside ==
  /\ UNCHANGED <<open, stable, zsynced, zh, zh_disk, mode, r, crashes>>
  /\ dirty \subseteq dirty' /\ zl'.replayed = zl.replayed
  /\ UNCHANGED <<rec, home>> \/ \E t \in Threads : zil_itx_assign(t)
  /\ \/ mode = "up"
     \/ /\ zl'.destroy_txg = zl.destroy_txg /\ zl'.keep_first = zl.keep_first
        /\ UNCHANGED blk \/ \E b \in Blocks : blk[b].io = "issued"

\* A step of zil_commit() is one.
LEMMA CommitBeside ==
  ASSUME ZilInv, NEW t \in Procs,
         CommitStep(t) \/ (\E f, seq : zil_commit(t, f, seq))
  PROVE  Beside
<1>1. IsZl(zl)
  BY DEF ZilInv, ShapeInv
<1>2. mode = "up"
  <2>1. CASE CommitStep(t)
    <3>1. p[t].pc # "idle"
      BY <2>1 DEF CommitStep, zil_commit_wakeup, zil_create, zil_created, TakeItx, zil_lwb_commit,
                  RecordSynced, WriteLast, WaitForWrites, WaitForSync
    <3>. QED  BY <3>1, BusyUp
  <2>2. CASE \E f, seq : zil_commit(t, f, seq)
    BY <2>2 DEF zil_commit
  <2>. QED  BY <2>1, <2>2
<1>3. ASSUME UNCHANGED <<open, stable, zsynced, zh, zh_disk, rec, home, mode, r, crashes>>,
             dirty \subseteq dirty', zl'.replayed = zl.replayed
      PROVE  Beside
  BY <1>2, <1>3 DEF Beside
<1>4. ASSUME NEW q, BecomeWriter(t, q)
      PROVE  zl'.replayed = zl.replayed
  BY <1>1, <1>4 DEF BecomeWriter, IsZl
<1>5. ASSUME Publish(t)
      PROVE  zl'.replayed = zl.replayed
  BY <1>1, <1>5 DEF Publish, IsZl
<1>6. ASSUME NEW f, NEW seq, zil_commit(t, f, seq)
      PROVE  Beside
  <2>. DEFINE q == [p EXCEPT ![t].seq = seq, ![t].foid = f]
  <2>1. /\ UNCHANGED <<open, stable, zsynced, zh, zh_disk, rec, home, mode, r, crashes, dirty>>
        /\ UNCHANGED zl \/ BecomeWriter(t, q)
    BY <1>6 DEF zil_commit, gc_vars, import_vars
  <2>. HIDE DEF q
  <2>. QED  BY <1>3, <1>4, <2>1
<1>7. CASE zil_commit_wakeup(t)
  <2>1. /\ UNCHANGED <<open, stable, zsynced, zh, zh_disk, rec, home, mode, r, crashes, dirty>>
        /\ UNCHANGED zl \/ BecomeWriter(t, p)
    BY <1>7 DEF zil_commit_wakeup, gc_vars, import_vars
  <2>. QED  BY <1>3, <1>4, <2>1
<1>8. CASE zil_created(t) \/ RecordSynced(t)
  BY <1>3, <1>8 DEF zil_created, RecordSynced, gc_vars, fs_vars, import_vars
<1>9. CASE zil_create(t)
  <2>1. /\ UNCHANGED <<open, stable, zsynced, zh, zh_disk, rec, home, mode, r, crashes>>
        /\ dirty' = dirty \/ dirty' = dirty \cup {open}
        /\ UNCHANGED zl \/ \E s : zl' = [zl EXCEPT !.lwb = s]
    BY <1>9 DEF zil_create, gc_vars, fs_vars, import_vars
  <2>2. zl'.replayed = zl.replayed
    BY <1>1, <2>1 DEF IsZl
  <2>. QED  BY <1>3, <2>1, <2>2
<1>10. CASE TakeItx(t)
  <2>. DEFINE s == RemoveItx(zl.itx, NextItx(t))
  <2>1. /\ UNCHANGED <<open, stable, zsynced, zh, zh_disk, rec, home, mode, r, crashes, dirty>>
        /\ zl' = [zl EXCEPT !.itx = s]
    BY <1>10 DEF TakeItx, gc_vars, fs_vars, import_vars
  <2>. HIDE DEF s
  <2>2. zl'.replayed = zl.replayed
    BY <1>1, <2>1 DEF IsZl
  <2>. QED  BY <1>3, <2>1, <2>2
<1>11. CASE zil_lwb_commit(t)
  <2>1. UNCHANGED <<zsynced, zh, zh_disk, rec, home, mode, r, crashes>>
    BY <1>11 DEF zil_lwb_commit, import_vars
  <2>2. UNCHANGED <<open, stable>> /\ dirty \subseteq dirty'
    BY <1>11 DEF zil_lwb_commit, gc_vars, HoldTx, GC!Begin
  <2>3. ASSUME NEW f, NEW b, LogRecord(t, f, b)
        PROVE  zl'.replayed = zl.replayed
    <3>. DEFINE s == IF b = w.lwb THEN zl.lwb ELSE Append(zl.lwb, b)
    <3>1. zl' = [zl EXCEPT !.lr_seq = @ + 1, !.lwb = s] \/ zl' = [zl EXCEPT !.lwb = s]
      BY <2>3 DEF LogRecord
    <3>. HIDE DEF s
    <3>. QED  BY <1>1, <3>1 DEF IsZl
  <2>4. UNCHANGED zl \/ \E f, b : LogRecord(t, f, b)
    BY <1>11 DEF zil_lwb_commit
  <2>. QED  BY <1>3, <2>1, <2>2, <2>3, <2>4
<1>12. CASE WriteLast(t)
  <2>1. UNCHANGED <<zsynced, zh, zh_disk, rec, home, mode, r, crashes>>
    BY <1>12 DEF WriteLast, fs_vars, import_vars
  <2>2. UNCHANGED <<open, stable>> /\ dirty \subseteq dirty'
    BY <1>12 DEF WriteLast, gc_vars, HoldTx, GC!Begin
  <2>3. UNCHANGED zl \/ \E s : zl' = [zl EXCEPT !.lwb = s]
    BY <1>12 DEF WriteLast
  <2>4. zl'.replayed = zl.replayed
    BY <1>1, <2>3 DEF IsZl
  <2>. QED  BY <1>3, <2>1, <2>2, <2>4
<1>13. CASE WaitForWrites(t)
  <2>1. /\ UNCHANGED <<open, stable, zsynced, zh, zh_disk, rec, home, mode, r, crashes, dirty>>
        /\ UNCHANGED zl \/ Publish(t)
    BY <1>13 DEF WaitForWrites, gc_vars, import_vars
  <2>. QED  BY <1>3, <1>5, <2>1
<1>14. CASE WaitForSync(t)
  <2>1. /\ UNCHANGED <<open, stable, zsynced, zh, zh_disk, rec, home, mode, r, crashes, dirty>>
        /\ Publish(t)
    BY <1>14 DEF WaitForSync, gc_vars, import_vars
  <2>. QED  BY <1>3, <1>5, <2>1
<1>. QED  BY <1>6, <1>7, <1>8, <1>9, <1>10, <1>11, <1>12, <1>13, <1>14 DEF CommitStep

\* The others.
LEMMA BesideNext ==
  ASSUME ZilInv, [Next]_vars
  PROVE  Beside \/ SyncStep \/ ImportStep \/ Crash
<1>1. IsZl(zl)
  BY DEF ZilInv, ShapeInv
<1>2. ASSUME NEW t \in Threads,
             \/ (\E k \in Kinds : CallBegin(t, k)) \/ zil_itx_assign(t)
             \/ \E f, seq : zil_commit(t, f, seq)
      PROVE  Beside
  <2>0. t \in Procs
    BY NullFact
  <2>1. CASE \E k \in Kinds : CallBegin(t, k)
    BY <2>1 DEF CallBegin, GC!Begin, fs_vars, import_vars, Beside
  <2>2. CASE zil_itx_assign(t)
    <3>. DEFINE s == Append(zl.itx, Len(rec) + 1)
    <3>1. /\ UNCHANGED <<open, stable, zsynced, zh, zh_disk, mode, r, crashes>>
          /\ dirty \subseteq dirty' /\ zl' = [zl EXCEPT !.itx = s] /\ p[t].pc # "idle"
      BY <2>2 DEF zil_itx_assign, GC!End, import_vars
    <3>. HIDE DEF s
    <3>2. zl'.replayed = zl.replayed
      BY <1>1, <3>1 DEF IsZl
    <3>3. mode = "up"
      BY <2>0, <3>1, BusyUp
    <3>. QED  BY <2>2, <3>1, <3>2, <3>3 DEF Beside
  <2>3. CASE \E f, seq : zil_commit(t, f, seq)
    BY <2>0, <2>3, CommitBeside
  <2>. QED  BY <1>2, <2>1, <2>2, <2>3
<1>3. ASSUME NEW t \in Suspenders, zil_suspend(t) \/ SuspendStep(t)
      PROVE  Beside
  <2>0. t \in Procs
    BY NullFact
  <2>1. CASE zil_commit(t, 0, LastItx(0))
    BY <2>0, <2>1, CommitBeside
  <2>2. ASSUME p[t].pc # "idle" \/ mode = "up",
               UNCHANGED <<open, stable, zsynced, zh, zh_disk, rec, home, mode, r, crashes>>,
               dirty \subseteq dirty', zl'.replayed = zl.replayed
        PROVE  Beside
    BY <2>0, <2>2, BusyUp DEF Beside
  <2>3. CASE SuspendDrain(t)
    BY <2>2, <2>3 DEF SuspendDrain, gc_vars, fs_vars, import_vars
  <2>4. CASE zil_resume(t)
    <3>1. /\ UNCHANGED <<open, stable, zsynced, zh, zh_disk, rec, home, mode, r, crashes, dirty>>
          /\ zl' = [zl EXCEPT !.suspend = @ - 1] /\ p[t].pc # "idle"
      BY <2>4 DEF zil_resume, gc_vars, fs_vars, import_vars
    <3>2. zl'.replayed = zl.replayed
      BY <1>1, <3>1 DEF IsZl
    <3>. QED  BY <2>2, <3>1, <3>2
  <2>5. CASE zil_suspend(t)
    <3>. DEFINE x == zl.suspending \/ zl.suspend = 0
    <3>1. /\ UNCHANGED <<open, stable, zsynced, zh, zh_disk, rec, home, mode, r, crashes, dirty>>
          /\ zl' = [zl EXCEPT !.suspend = @ + 1, !.suspending = x] /\ mode = "up"
      BY <2>5 DEF zil_suspend, gc_vars, fs_vars, import_vars
    <3>. HIDE DEF x
    <3>2. zl'.replayed = zl.replayed
      BY <1>1, <3>1 DEF IsZl
    <3>. QED  BY <2>2, <3>1, <3>2
  <2>6. CASE SuspendDestroy(t)
    <3>. DEFINE z == [zl EXCEPT !.suspending = FALSE]
    <3>1. /\ UNCHANGED <<open, stable, zsynced, zh, zh_disk, rec, home, mode, r, crashes>>
          /\ p[t].pc # "idle" /\ Destroy(FALSE, z)
      BY <2>6 DEF SuspendDestroy, gc_vars, fs_vars, import_vars
    <3>2. IsZl(z) /\ z.replayed = zl.replayed
      BY <1>1 DEF IsZl
    <3>. HIDE DEF z
    <3>3. zl'.replayed = zl.replayed /\ dirty \subseteq dirty'
      BY <3>1, <3>2 DEF Destroy, Destroyed, IsZl
    <3>. QED  BY <2>2, <3>1, <3>3
  <2>. QED  BY <1>3, <2>1, <2>3, <2>4, <2>5, <2>6 DEF SuspendStep
<1>4. ASSUME NEW b \in Blocks, NEW ok \in BOOLEAN, zil_lwb_write_done(b, ok)
      PROVE  Beside
  BY <1>4 DEF zil_lwb_write_done, GC!End, fs_vars, import_vars, Beside
<1>5. CASE zil_itx_clean
  <2>. DEFINE synced == {n \in DOMAIN zl.itx : \A m \in 1 .. n : rec[zl.itx[m]].txg <= stable}
              s == SubSeq(zl.itx, Cardinality(synced) + 1, Len(zl.itx))
  <2>1. /\ UNCHANGED <<open, stable, zsynced, zh, zh_disk, rec, home, mode, r, crashes, dirty, blk>>
        /\ zl' = [zl EXCEPT !.clean = FALSE, !.itx = s]
    BY <1>5 DEF zil_itx_clean, gc_vars, fs_vars, import_vars
  <2>. HIDE DEF s
  <2>2. zl'.replayed = zl.replayed /\ zl'.destroy_txg = zl.destroy_txg /\ zl'.keep_first = zl.keep_first
    BY <1>1, <2>1 DEF IsZl
  <2>. QED  BY <2>1, <2>2 DEF Beside
<1>6. CASE UNCHANGED vars
  BY <1>6 DEF vars, gc_vars, fs_vars, import_vars, Beside
<1>. QED  BY <1>2, <1>3, <1>4, <1>5, <1>6, CommitBeside DEF Next

----------------------------------------------------------------------------
\* A record is in one place.

\* What list_remove() leaves of a list in order.
LEMMA RemoveOrdered ==
  ASSUME NEW s \in Seq(Nat), Ascending(s), NEW n \in DOMAIN s
  PROVE  LET u == RemoveItx(s, s[n])
         IN /\ u \in Seq(Nat) /\ Ascending(u)
            /\ \A m \in DOMAIN u : u[m] # s[n] /\ \E k \in DOMAIN s : u[m] = s[k]
            /\ \A k \in DOMAIN s : k # n => \E m \in DOMAIN u : u[m] = s[k]
<1>. DEFINE c == CHOOSE k \in DOMAIN s : s[k] = s[n]
            a == SubSeq(s, 1, n - 1)
            d == SubSeq(s, n + 1, Len(s))
            u == RemoveItx(s, s[n])
<1>0. Len(s) \in Nat /\ DOMAIN s = 1 .. Len(s) /\ \A k \in DOMAIN s : s[k] \in Nat
  OBVIOUS
<1>00. n \in 1 .. Len(s) /\ Len(s) \in Nat
  OBVIOUS
<1>1. c = n
  <2>1. c \in DOMAIN s /\ s[c] = s[n]
    OBVIOUS
  <2>. HIDE DEF c
  <2>2. ~(c < n) /\ ~(n < c)
    BY <1>0, <2>1 DEF Ascending
  <2>. QED  BY <1>0, <2>1, <2>2
<1>2. u = a \o d
  BY <1>1 DEF RemoveItx, RemoveAt
<1>. HIDE DEF c, u
<1>3. /\ a \in Seq(Nat) /\ Len(a) = n - 1 /\ \A m \in 1 .. Len(a) : a[m] = s[m]
      /\ d \in Seq(Nat) /\ Len(d) = Len(s) - n /\ \A m \in 1 .. Len(d) : d[m] = s[n + m]
  <2>1. a \in Seq(Nat) /\ Len(a) = n - 1 /\ \A m \in 1 .. Len(a) : a[m] = s[m]
    BY <1>00
  <2>2. d \in Seq(Nat) /\ Len(d) = Len(s) - n /\ \A m \in DOMAIN d : d[m] = s[n + m]
    <3>1. n \in Nat /\ n <= Len(s)
      BY <1>00
    <3>. QED  BY ONLY <3>1, DropFact, s \in Seq(Nat) DEF d
  <2>3. \A m \in 1 .. Len(d) : d[m] = s[n + m]
    BY <2>2, SMTT(30)
  <2>. QED  BY <2>1, <2>2, <2>3
<1>. HIDE DEF a, d
<1>4. /\ a \o d \in Seq(Nat) /\ Len(a \o d) = Len(a) + Len(d)
      /\ \A m \in 1 .. Len(d) : (a \o d)[Len(a) + m] = d[m]
      /\ \A m \in 1 .. Len(a) : (a \o d)[m] = a[m]
  <2>1. a \in Seq(Nat) /\ d \in Seq(Nat)
    BY <1>3
  <2>. QED  BY ONLY <2>1
<1>5. u \in Seq(Nat) /\ Len(u) = Len(s) - 1 /\ DOMAIN u = 1 .. Len(s) - 1
  <2>1. Len(a) + Len(d) = Len(s) - 1
    BY <1>00, <1>3
  <2>. QED  BY <1>2, <1>4, <2>1
<1>6. ASSUME NEW m \in DOMAIN u
      PROVE  u[m] = s[IF m < n THEN m ELSE m + 1]
  <2>1. CASE m < n
    <3>1. m \in 1 .. Len(a)
      BY <1>0, <1>3, <1>5, <2>1
    <3>. QED  BY <1>2, <1>3, <1>4, <2>1, <3>1
  <2>2. CASE ~(m < n)
    <3>. DEFINE l == Len(s)
                k == m - (n - 1)
    <3>1. k \in 1 .. Len(d) /\ m = Len(a) + k /\ n + k = m + 1
      <4>1. m \in 1 .. l - 1 /\ n \in 1 .. l /\ l \in Nat
        BY <1>00, <1>5
      <4>. HIDE DEF l
      <4>2. k \in 1 .. l - n /\ m = (n - 1) + k /\ n + k = m + 1
        BY ONLY <2>2, <4>1
      <4>. QED  BY <1>3, <4>2 DEF l
    <3>. HIDE DEF k
    <3>2. u[Len(a) + k] = d[k]
      BY <1>2, <1>4, <3>1
    <3>3. d[k] = s[n + k]
      BY <1>3, <3>1
    <3>. QED  BY <2>2, <3>1, <3>2, <3>3
  <2>. QED  BY <2>1, <2>2
<1>7. \A m \in DOMAIN u : (IF m < n THEN m ELSE m + 1) \in DOMAIN s /\ (IF m < n THEN m ELSE m + 1) # n
  <2>. DEFINE h == Len(s)
  <2>1. h \in Nat /\ n \in 1 .. h /\ DOMAIN s = 1 .. h /\ DOMAIN u = 1 .. h - 1
    BY <1>0, <1>00, <1>5
  <2>. HIDE DEF h, u
  <2>2. \A m \in 1 .. h - 1 : (IF m < n THEN m ELSE m + 1) \in 1 .. h /\ (IF m < n THEN m ELSE m + 1) # n
    BY ONLY <2>1
  <2>. QED  BY <2>1, <2>2
<1>8. ASSUME NEW m \in DOMAIN u, NEW k \in DOMAIN u, m < k
      PROVE  u[m] < u[k]
  <2>. DEFINE x == IF m < n THEN m ELSE m + 1
              y == IF k < n THEN k ELSE k + 1
  <2>1. x \in DOMAIN s /\ y \in DOMAIN s
    BY <1>7
  <2>3. x < y
    <3>1. m \in 1 .. Len(s) - 1 /\ k \in 1 .. Len(s) - 1 /\ m < k
      BY <1>5, <1>8
    <3>. QED  BY ONLY <1>00, <3>1
  <2>2. u[m] = s[x] /\ u[k] = s[y]
    BY <1>6
  <2>. HIDE DEF x, y
  <2>. QED  BY <2>1, <2>2, <2>3 DEF Ascending
<1>9. ASSUME NEW m \in DOMAIN u
      PROVE  u[m] # s[n] /\ \E k \in DOMAIN s : u[m] = s[k]
  <2>. DEFINE x == IF m < n THEN m ELSE m + 1
  <2>1. x \in DOMAIN s /\ x # n /\ u[m] = s[x]
    BY <1>6, <1>7
  <2>. HIDE DEF x
  <2>2. x < n \/ n < x
    BY <1>0, <2>1
  <2>3. s[x] # s[n]
    BY <1>0, <2>1, <2>2 DEF Ascending
  <2>. QED  BY <2>1, <2>3
<1>10. ASSUME NEW k \in DOMAIN s, k # n
       PROVE  \E m \in DOMAIN u : u[m] = s[k]
  <2>. DEFINE m == IF k < n THEN k ELSE k - 1
  <2>1. m \in DOMAIN u /\ (IF m < n THEN m ELSE m + 1) = k
    BY <1>0, <1>5, <1>10, SMTT(30)
  <2>. HIDE DEF m
  <2>. QED  BY <1>6, <2>1
<1>11. Ascending(u)
  BY <1>8 DEF Ascending
<1>. QED  BY <1>5, <1>9, <1>10, <1>11 DEF u

\* The log writer has a record in hand.
Logging == \E t \in Procs : p[t].pc = "log"

\* What a step does to the records that are in memory, or on their way.
ItxStep ==
  /\ Ascending(zl'.itx)
  /\ \A n \in DOMAIN zl'.itx :
       (\E m \in DOMAIN zl.itx : zl'.itx[n] = zl.itx[m]) \/ zl'.itx[n] = Len(rec) + 1
  /\ Logging' => /\ \A n \in DOMAIN zl'.itx : zl'.itx[n] # w'.itx
                 /\ \/ Logging /\ w'.itx = w.itx
                    \/ \E m \in DOMAIN zl.itx : w'.itx = zl.itx[m]

\* They stay as they are.
LEMMA ItxSame ==
  ASSUME OnceInv, zl'.itx = zl.itx, Logging' => Logging /\ w'.itx = w.itx
  PROVE  ItxStep
BY DEF OnceInv, ItxStep, Logging

\* Only the log writer takes a record off the list.
LEMMA NobodyLogs ==
  ASSUME ZilInv, NEW t \in Procs, p[t].pc \in WriterPcs, p'[t].pc # "log",
         \A u \in Procs : u # t => Woken(p[u], p'[u])
  PROVE  ~Logging'
<1>1. \A u \in Procs : u # t => p[u].pc # "log"
  BY DEF ZilInv, WriterInv, WriterPcs
<1>. QED  BY <1>1 DEF Logging, Woken

\* The records in a step of zil_commit().
LEMMA CommitItx ==
  ASSUME ZilInv, OnceInv, NEW t \in Procs,
         CommitStep(t) \/ (\E f, seq : zil_commit(t, f, seq))
  PROVE  ItxStep
<1>1. IsZl(zl) /\ DOMAIN p = Procs /\ (\A u \in Procs : IsProc(p[u])) /\ IsWriter(w)
  BY DEF ZilInv, ShapeInv
<1>2. ASSUME NEW q, DOMAIN q = Procs, \A u \in Procs : IsProc(q[u]),
             \A u \in Procs : u # t => q[u] = p[u], zl.writer = NULL, BecomeWriter(t, q)
      PROVE  zl'.itx = zl.itx /\ ~Logging'
  <2>1. zl'.itx = zl.itx
    BY <1>1, <1>2 DEF BecomeWriter, IsZl
  <2>2. \A u \in Procs : p[u].pc # "log"
    BY <1>2, NullFact DEF ZilInv, WriterInv, WriterPcs
  <2>3. CASE Return(t, Wake(q))
    <3>1. /\ \A u \in Procs : u # t => p'[u] = Wake(q)[u]
          /\ p'[t].pc = (IF t \in Suspenders THEN "drain" ELSE "idle")
      BY <1>2, <2>3, WakeFact, ReturnFact
    <3>2. \A u \in Procs : u # t => Woken(p[u], p'[u])
      BY <1>2, <3>1, WakeFact
    <3>. QED  BY <2>1, <2>2, <3>1, <3>2 DEF Woken, Logging
  <2>4. CASE ~Return(t, Wake(q))
    <3>1. p' = [q EXCEPT ![t].pc = "push"] \/ p' = [q EXCEPT ![t].pc = "create"]
      BY <1>2, <2>4 DEF BecomeWriter
    <3>2. \A u \in Procs : u # t => p'[u] = p[u]
      BY <1>2, <3>1
    <3>3. p'[t].pc # "log"
      BY <1>2, <3>1 DEF IsProc
    <3>. QED  BY <2>1, <2>2, <3>2, <3>3 DEF Logging
  <2>. QED  BY <2>3, <2>4
<1>3. ASSUME NEW q, DOMAIN q = Procs, \A u \in Procs : IsProc(q[u]),
             \A u \in Procs : u # t => q[u] = p[u],
             p' = [q EXCEPT ![t].pc = "cvWait"], UNCHANGED <<zl, w>>
      PROVE  ItxStep
  <2>1. \A u \in Procs : u # t => p'[u] = p[u]
    BY <1>3
  <2>2. p'[t].pc # "log"
    BY <1>3 DEF IsProc
  <2>. QED  BY <1>3, <2>1, <2>2, ItxSame DEF Logging
<1>4. ASSUME NEW f, NEW seq, zil_commit(t, f, seq)
      PROVE  ItxStep
  <2>. DEFINE q == [p EXCEPT ![t].seq = seq, ![t].foid = f]
  <2>1. \/ zl.writer # NULL /\ p' = [q EXCEPT ![t].pc = "cvWait"] /\ UNCHANGED <<zl, w>>
        \/ zl.writer = NULL /\ BecomeWriter(t, q)
    BY <1>4 DEF zil_commit
  <2>2. DOMAIN q = Procs /\ (\A u \in Procs : IsProc(q[u])) /\ \A u \in Procs : u # t => q[u] = p[u]
    BY <1>1 DEF IsProc
  <2>. HIDE DEF q
  <2>. QED  BY <1>2, <1>3, <2>1, <2>2, ItxSame
<1>5. CASE zil_commit_wakeup(t)
  <2>1. \/ Return(t, p) /\ UNCHANGED <<zl, w>>
        \/ p' = [p EXCEPT ![t].pc = "cvWait"] /\ UNCHANGED <<zl, w>>
        \/ zl.writer = NULL /\ BecomeWriter(t, p)
    BY <1>5 DEF zil_commit_wakeup
  <2>2. ASSUME Return(t, p), UNCHANGED <<zl, w>>
        PROVE  ItxStep
    <3>1. /\ \A u \in Procs : u # t => p'[u] = p[u]
          /\ p'[t].pc = (IF t \in Suspenders THEN "drain" ELSE "idle")
      BY <1>1, <2>2, ReturnFact
    <3>. QED  BY <2>2, <3>1, ItxSame DEF Logging
  <2>. QED  BY <1>1, <1>2, <1>3, <2>1, <2>2, ItxSame
<1>6. CASE zil_create(t)
  <2>1. /\ UNCHANGED w /\ (UNCHANGED zl \/ \E s : zl' = [zl EXCEPT !.lwb = s])
        /\ \/ p' = [p EXCEPT ![t].pc = "created"]
           \/ p' = [p EXCEPT ![t].pc = "created", ![t].txg = open]
    BY <1>6 DEF zil_create
  <2>2. zl'.itx = zl.itx
    BY <1>1, <2>1 DEF IsZl
  <2>3. p'[t].pc # "log" /\ \A u \in Procs : u # t => p'[u] = p[u]
    BY <1>1, <2>1 DEF IsProc
  <2>. QED  BY <2>1, <2>2, <2>3, ItxSame DEF Logging
<1>7. CASE zil_created(t) \/ RecordSynced(t)
  <2>1. /\ p[t].pc \in WriterPcs /\ UNCHANGED zl
        /\ p' = [p EXCEPT ![t].pc = "push", ![t].txg = 0]
    BY <1>7 DEF zil_created, RecordSynced, WriterPcs
  <2>2. p'[t].pc # "log" /\ \A u \in Procs : u # t => Woken(p[u], p'[u])
    BY <1>1, <2>1 DEF IsProc, Woken
  <2>. QED  BY <2>1, <2>2, ItxSame, NobodyLogs
<1>8. CASE zil_lwb_commit(t)
  <2>1. p[t].pc \in WriterPcs
    BY <1>8 DEF zil_lwb_commit, WriterPcs
  <2>2. ASSUME NEW f, NEW b, LogRecord(t, f, b)
        PROVE  zl'.itx = zl.itx
    <3>. DEFINE s == IF b = w.lwb THEN zl.lwb ELSE Append(zl.lwb, b)
    <3>1. zl' = [zl EXCEPT !.lr_seq = @ + 1, !.lwb = s] \/ zl' = [zl EXCEPT !.lwb = s]
      BY <2>2 DEF LogRecord
    <3>. HIDE DEF s
    <3>. QED  BY <1>1, <3>1 DEF IsZl
  <2>3. zl'.itx = zl.itx
    BY <1>8, <2>2 DEF zil_lwb_commit
  <2>4. \/ p' = [p EXCEPT ![t].pc = "recWait", ![t].txg = rec[w.itx].txg]
        \/ p' = [p EXCEPT ![t].pc = "push"]
    BY <1>8 DEF zil_lwb_commit, LogRecord
  <2>5. p'[t].pc # "log" /\ \A u \in Procs : u # t => Woken(p[u], p'[u])
    BY <1>1, <2>4 DEF IsProc, Woken
  <2>. QED  BY <2>1, <2>3, <2>5, ItxSame, NobodyLogs
<1>9. CASE WriteLast(t)
  <2>1. /\ p[t].pc \in WriterPcs /\ (UNCHANGED zl \/ \E s : zl' = [zl EXCEPT !.lwb = s])
        /\ p' = [p EXCEPT ![t].pc = "io"]
    BY <1>9 DEF WriteLast, WriterPcs
  <2>2. zl'.itx = zl.itx
    BY <1>1, <2>1 DEF IsZl
  <2>3. p'[t].pc # "log" /\ \A u \in Procs : u # t => Woken(p[u], p'[u])
    BY <1>1, <2>1 DEF IsProc, Woken
  <2>. QED  BY <2>1, <2>2, <2>3, ItxSame, NobodyLogs
<1>10. ASSUME p[t].pc \in WriterPcs, Publish(t)
       PROVE  ItxStep
  <2>1. zl'.itx = zl.itx
    BY <1>1, <1>10 DEF Publish, IsZl
  <2>2. /\ \A u \in Procs : u # t => p'[u] = Wake(p)[u]
        /\ p'[t].pc = (IF t \in Suspenders THEN "drain" ELSE "idle")
    BY <1>1, <1>10, WakeFact, ReturnFact DEF Publish
  <2>3. \A u \in Procs : u # t => Woken(p[u], p'[u])
    BY <1>1, <2>2, WakeFact
  <2>. QED  BY <1>10, <2>1, <2>2, <2>3, ItxSame, NobodyLogs
<1>11. CASE WaitForWrites(t)
  <2>1. /\ p[t].pc \in WriterPcs
        /\ \/ Publish(t)
           \/ UNCHANGED zl /\ p' = [p EXCEPT ![t].pc = "sync", ![t].txg = open + TXG_DEFER_SIZE]
    BY <1>11 DEF WaitForWrites, WriterPcs
  <2>2. ASSUME UNCHANGED zl, p' = [p EXCEPT ![t].pc = "sync", ![t].txg = open + TXG_DEFER_SIZE]
        PROVE  ItxStep
    <3>1. p'[t].pc # "log" /\ \A u \in Procs : u # t => Woken(p[u], p'[u])
      BY <1>1, <2>2 DEF IsProc, Woken
    <3>. QED  BY <2>1, <2>2, <3>1, ItxSame, NobodyLogs
  <2>. QED  BY <1>10, <2>1, <2>2
<1>12. CASE WaitForSync(t)
  BY <1>10, <1>12 DEF WaitForSync, WriterPcs
<1>13. CASE TakeItx(t)
  <2>. DEFINE i == NextItx(t)
  <2>1. zl.itx \in Seq(Nat) /\ Ascending(zl.itx)
    BY DEF ZilInv, RecInv, OnceInv
  <2>2. i \in Range(zl.itx)
    <3>. DEFINE left == {j \in Range(zl.itx) : w.next \in 1 .. j /\ ~Skip(t, j)}
    <3>1. left # {} /\ i = Min(left)
      BY <1>13 DEF NextItx, TakeItx
    <3>2. left \in SUBSET Nat
      BY <2>1 DEF Range
    <3>3. Min(left) \in left
      BY <3>1, <3>2, LeastItx
    <3>. QED  BY <3>1, <3>3
  <2>3. PICK n \in DOMAIN zl.itx : i = zl.itx[n]
    BY <2>2 DEF Range
  <2>. DEFINE u == RemoveItx(zl.itx, zl.itx[n])
  <2>4. /\ u \in Seq(Nat) /\ Ascending(u)
        /\ \A m \in DOMAIN u : u[m] # zl.itx[n] /\ \E k \in DOMAIN zl.itx : u[m] = zl.itx[k]
    BY <2>1, RemoveOrdered
  <2>5. zl' = [zl EXCEPT !.itx = u]
    BY <1>13, <2>3 DEF TakeItx
  <2>6. \/ w' = [w EXCEPT !.itx = i, !.next = After(i)]
        \/ UNCHANGED p /\ p[t].pc = "push"
    BY <1>13 DEF TakeItx
  <2>. HIDE DEF u, i
  <2>7. zl'.itx = u
    BY <1>1, <2>5 DEF IsZl
  <2>8. Logging' => w'.itx = i
    <3>1. CASE w' = [w EXCEPT !.itx = i, !.next = After(i)]
      BY <1>1, <3>1 DEF IsWriter
    <3>2. CASE UNCHANGED p /\ p[t].pc = "push"
      <4>1. ~Logging'
        BY <3>2, NobodyLogs DEF Woken, WriterPcs
      <4>. QED  BY <4>1
    <3>. QED  BY <2>6, <3>1, <3>2
  <2>. QED  BY <2>3, <2>4, <2>7, <2>8 DEF ItxStep
<1>. QED  BY <1>4, <1>5, <1>6, <1>7, <1>8, <1>9, <1>11, <1>12, <1>13 DEF CommitStep

\* And in the other steps.
LEMMA ItxNext ==
  ASSUME ZilInv, OnceInv, [Next]_vars
  PROVE  ItxStep
<1>1. IsZl(zl) /\ DOMAIN p = Procs /\ \A u \in Procs : IsProc(p[u])
  BY DEF ZilInv, ShapeInv
<1>2. zl.itx \in Seq(Nat) /\ Ascending(zl.itx) /\ \A n \in DOMAIN zl.itx : Current(zl.itx[n])
  BY DEF ZilInv, RecInv, OnceInv
<1>3. ASSUME NEW t \in Threads,
             \/ (\E k \in Kinds : CallBegin(t, k)) \/ zil_itx_assign(t)
             \/ \E f, seq : zil_commit(t, f, seq)
      PROVE  ItxStep
  <2>0. t \in Procs
    BY NullFact
  <2>1. ASSUME NEW k \in Kinds, CallBegin(t, k)
        PROVE  ItxStep
    <3>1. p' = [p EXCEPT ![t].pc = "call", ![t].kind = k] /\ UNCHANGED <<zl, w>>
      BY <2>1 DEF CallBegin
    <3>2. p'[t].pc # "log" /\ \A u \in Procs : u # t => p'[u] = p[u]
      BY <1>1, <2>0, <3>1 DEF IsProc
    <3>. QED  BY <3>1, <3>2, ItxSame DEF Logging
  <2>2. CASE zil_itx_assign(t)
    <3>. DEFINE s == Append(zl.itx, Len(rec) + 1)
    <3>1. /\ zl' = [zl EXCEPT !.itx = s] /\ UNCHANGED w /\ p' = [p EXCEPT ![t] = Idle]
          /\ Len(rec) \in Nat
      BY <2>2 DEF zil_itx_assign, ZilInv, RecInv
    <3>2. /\ DOMAIN s = 1 .. Len(zl.itx) + 1 /\ s[Len(zl.itx) + 1] = Len(rec) + 1
          /\ \A n \in DOMAIN zl.itx : s[n] = zl.itx[n]
          /\ DOMAIN zl.itx = 1 .. Len(zl.itx) /\ Len(zl.itx) \in Nat
      BY <1>2, <3>1
    <3>. HIDE DEF s
    <3>3. zl'.itx = s
      BY <1>1, <3>1 DEF IsZl
    <3>4. \A n \in DOMAIN zl.itx : zl.itx[n] <= Len(rec)
      BY <1>2 DEF Current, CurrentIn
    <3>5. Ascending(s)
      <4>. SUFFICES ASSUME NEW m \in DOMAIN s, NEW n \in DOMAIN s, m < n
                    PROVE  s[m] < s[n]
        BY DEF Ascending
      <4>1. m \in DOMAIN zl.itx
        BY <3>2
      <4>2. CASE n \in DOMAIN zl.itx
        BY <1>2, <3>2, <4>1, <4>2 DEF Ascending
      <4>3. CASE n = Len(zl.itx) + 1
        <5>1. s[m] \in Nat /\ s[m] <= Len(rec)
          BY <1>2, <3>2, <3>4, <4>1
        <5>. QED  BY <3>1, <3>2, <4>3, <5>1
      <4>. QED  BY <3>2, <4>2, <4>3
    <3>6. p'[t].pc # "log" /\ \A u \in Procs : u # t => p'[u] = p[u]
      BY <1>1, <2>0, <3>1 DEF Idle
    <3>7. Logging' => Logging
      BY <3>6 DEF Logging
    <3>8. \A n \in DOMAIN s : n \in DOMAIN zl.itx \/ n = Len(zl.itx) + 1
      BY <3>2
    <3>9. Logging => \A n \in DOMAIN zl.itx : zl.itx[n] # w.itx
      BY DEF OnceInv, Logging
    <3>10. Logging => w.itx \in Nat /\ w.itx <= Len(rec)
      BY DEF Logging, ZilInv, RecInv, Current, CurrentIn
    <3>11. Logging => \A n \in DOMAIN s : s[n] # w.itx
      BY <3>1, <3>2, <3>8, <3>9, <3>10
    <3>. QED  BY <3>1, <3>2, <3>3, <3>5, <3>7, <3>8, <3>11 DEF ItxStep
  <2>3. CASE \E f, seq : zil_commit(t, f, seq)
    BY <2>0, <2>3, CommitItx
  <2>. QED  BY <1>3, <2>1, <2>2, <2>3
<1>4. ASSUME NEW t \in Suspenders, zil_suspend(t) \/ SuspendStep(t)
      PROVE  ItxStep
  <2>0. t \in Procs
    BY NullFact
  <2>1. CASE zil_commit(t, 0, LastItx(0))
    BY <2>0, <2>1, CommitItx
  <2>2. ASSUME zl'.itx = zl.itx, UNCHANGED w, \A u \in Procs : p'[u].pc = "log" => p[u].pc = "log"
        PROVE  ItxStep
    BY <2>2, ItxSame DEF Logging
  <2>3. CASE SuspendDrain(t)
    <3>. DEFINE x == IF zl.writer # NULL THEN "drainWait" ELSE "destroy"
    <3>1. UNCHANGED <<zl, w>> /\ p' = [p EXCEPT ![t].pc = x]
      BY <2>3 DEF SuspendDrain
    <3>2. x # "log"
      OBVIOUS
    <3>. HIDE DEF x
    <3>3. \A u \in Procs : p'[u].pc = "log" => p[u].pc = "log"
      BY <1>1, <2>0, <3>1, <3>2 DEF IsProc
    <3>. QED  BY <2>2, <3>1, <3>3
  <2>4. CASE zil_resume(t)
    <3>1. UNCHANGED w /\ zl' = [zl EXCEPT !.suspend = @ - 1] /\ p' = [p EXCEPT ![t] = Idle]
      BY <2>4 DEF zil_resume
    <3>2. zl'.itx = zl.itx
      BY <1>1, <3>1 DEF IsZl
    <3>3. \A u \in Procs : p'[u].pc = "log" => p[u].pc = "log"
      BY <1>1, <2>0, <3>1 DEF Idle
    <3>. QED  BY <2>2, <3>1, <3>2, <3>3
  <2>5. CASE zil_suspend(t)
    <3>. DEFINE x == zl.suspending \/ zl.suspend = 0
                y == IF zl.suspend = 0 THEN "suspCommit"
                     ELSE IF zl.suspending THEN "suspWait" ELSE "suspended"
    <3>1. /\ UNCHANGED w /\ zl' = [zl EXCEPT !.suspend = @ + 1, !.suspending = x]
          /\ p' = [p EXCEPT ![t].pc = y]
      BY <2>5 DEF zil_suspend
    <3>4. y # "log"
      OBVIOUS
    <3>. HIDE DEF x, y
    <3>2. zl'.itx = zl.itx
      BY <1>1, <3>1 DEF IsZl
    <3>3. \A u \in Procs : p'[u].pc = "log" => p[u].pc = "log"
      BY <1>1, <2>0, <3>1, <3>4 DEF IsProc
    <3>. QED  BY <2>2, <3>1, <3>2, <3>3
  <2>6. CASE SuspendDestroy(t)
    <3>. DEFINE z == [zl EXCEPT !.suspending = FALSE]
    <3>1. /\ UNCHANGED w /\ Destroy(FALSE, z)
          /\ p' = [u \in Procs |-> IF u = t \/ p[u].pc = "suspWait"
                                   THEN [Idle EXCEPT !.pc = "suspended"] ELSE p[u]]
      BY <2>6 DEF SuspendDestroy
    <3>2. IsZl(z) /\ z.itx = zl.itx
      BY <1>1 DEF IsZl
    <3>. HIDE DEF z
    <3>3. zl'.itx = zl.itx
      BY <3>1, <3>2 DEF Destroy, Destroyed, IsZl
    <3>4. \A u \in Procs : p'[u].pc = "log" => p[u].pc = "log"
      BY <3>1 DEF Idle
    <3>. QED  BY <2>2, <3>1, <3>3, <3>4
  <2>. QED  BY <1>4, <2>1, <2>3, <2>4, <2>5, <2>6 DEF SuspendStep
<1>5. CASE zil_itx_clean
  <2>. DEFINE synced == {n \in DOMAIN zl.itx : \A m \in 1 .. n : rec[zl.itx[m]].txg <= stable}
              k == Cardinality(synced)
              s == SubSeq(zl.itx, k + 1, Len(zl.itx))
  <2>1. UNCHANGED w /\ zl' = [zl EXCEPT !.clean = FALSE, !.itx = s] /\ zl.writer = NULL /\ p' = Wake(p)
    BY <1>5 DEF zil_itx_clean
  <2>2. k \in Nat
    <3>1. IsFiniteSet(1 .. Len(zl.itx)) /\ synced \in SUBSET (1 .. Len(zl.itx))
      BY <1>2, FS_Interval
    <3>. HIDE DEF synced
    <3>. QED  BY <3>1, FS_Subset, FS_CardinalityType
  <2>. HIDE DEF k
  <2>3. \A m \in DOMAIN s : k + m \in DOMAIN zl.itx /\ s[m] = zl.itx[k + m]
    BY <1>2, <2>2, DropFact
  <2>4. s \in Seq(Nat) /\ \A m \in DOMAIN s : m \in Nat
    <3>1. s \in Seq(Nat)
      BY <1>2, <2>2, DropFact
    <3>. HIDE DEF s
    <3>. QED  BY <3>1
  <2>. HIDE DEF s
  <2>5. Ascending(s)
    BY <1>2, <2>2, <2>3, <2>4 DEF Ascending
  <2>6. zl'.itx = s
    BY <1>1, <2>1 DEF IsZl
  <2>7. ~Logging'
    <3>1. \A u \in Procs : p[u].pc # "log"
      BY <2>1, NullFact DEF ZilInv, WriterInv, WriterPcs
    <3>2. \A u \in Procs : Woken(p[u], p'[u])
      BY <1>1, <2>1, WakeFact
    <3>. QED  BY <3>1, <3>2 DEF Logging, Woken
  <2>. QED  BY <2>3, <2>5, <2>6, <2>7 DEF ItxStep
<1>6. ASSUME zl'.itx = zl.itx, UNCHANGED <<p, w>>
      PROVE  ItxStep
  BY <1>6, ItxSame DEF Logging
<1>7. ASSUME NEW b \in Blocks, NEW ok \in BOOLEAN, zil_lwb_write_done(b, ok)
      PROVE  ItxStep
  BY <1>6, <1>7 DEF zil_lwb_write_done
<1>8. CASE SyncStep
  <2>1. CASE zil_sync
    <3>1. UNCHANGED <<p, w>> /\ \E s, f : zl' = [zl EXCEPT !.lwb = s, !.replayed = f]
      BY <2>1 DEF zil_sync
    <3>2. zl'.itx = zl.itx
      BY <1>1, <3>1 DEF IsZl
    <3>. QED  BY <1>6, <3>1, <3>2
  <2>2. CASE Stabilize
    <3>. DEFINE x == \/ zl.clean
                     \/ (stable + 1 \in dirty /\ zl.itx # <<>> /\ rec[Head(zl.itx)].txg <= stable + 1)
    <3>1. UNCHANGED <<p, w>> /\ zl' = [zl EXCEPT !.clean = x]
      BY <2>2 DEF Stabilize
    <3>. HIDE DEF x
    <3>2. zl'.itx = zl.itx
      BY <1>1, <3>1 DEF IsZl
    <3>. QED  BY <1>6, <3>1, <3>2
  <2>3. CASE Advance
    BY <1>6, <2>3 DEF Advance
  <2>. QED  BY <1>8, <2>1, <2>2, <2>3 DEF SyncStep
<1>9. ASSUME NEW keep, Destroy(keep, zl)
      PROVE  zl'.itx = zl.itx
  BY <1>1, <1>9 DEF Destroy, Destroyed, IsZl
<1>10. CASE ImportStep
  <2>1. CASE zil_claim
    BY <1>6, <2>1 DEF zil_claim
  <2>2. CASE zil_replay
    BY <1>6, <1>9, <2>2 DEF zil_replay
  <2>3. CASE zil_replay_log_record
    <3>. DEFINE y == [zl.replayed EXCEPT ![open % TXG_SIZE] = Log[r.pos + 1].seq]
    <3>1. UNCHANGED <<p, w>> /\ (zl' = zl \/ zl' = [zl EXCEPT !.replayed = y])
      BY <2>3 DEF zil_replay_log_record
    <3>. HIDE DEF y
    <3>2. zl'.itx = zl.itx
      BY <1>1, <3>1 DEF IsZl
    <3>. QED  BY <1>6, <3>1, <3>2
  <2>4. CASE ReplayDestroy
    BY <1>6, <1>9, <2>4 DEF ReplayDestroy
  <2>5. CASE ReplayDone
    BY <1>6, <2>5 DEF ReplayDone
  <2>. QED  BY <1>10, <2>1, <2>2, <2>3, <2>4, <2>5 DEF ImportStep
<1>11. CASE Crash
  <2>1. zl'.itx = <<>> /\ \A u \in Procs : p'[u].pc = "idle"
    BY <1>11 DEF Crash, NoLog, Idle
  <2>2. ~Logging'
    BY <2>1 DEF Logging
  <2>3. DOMAIN zl'.itx = {}
    BY <2>1
  <2>. QED  BY <2>2, <2>3 DEF ItxStep, Ascending
<1>12. CASE UNCHANGED vars
  BY <1>6, <1>12 DEF vars
<1>. QED  BY <1>3, <1>4, <1>5, <1>7, <1>8, <1>10, <1>11, <1>12, CommitItx DEF Next

\* So a record stays in one place.
LEMMA OnceNext ==
  ASSUME ZilInv, BookInv, OnceInv, [Next]_vars
  PROVE  OnceInv'
<1>1. ItxStep
  BY ItxNext
<1>2. \A b \in Blocks : /\ blk[b].recs \in Seq(Entries)
                        /\ \A n \in DOMAIN blk[b].recs : blk[b].recs[n].itx \in 1 .. Len(rec)
  BY DEF BookInv
<1>3. Len(rec) \in Nat
  BY DEF ZilInv, RecInv
<1>4. CASE SameRecs
  <2>1. \A b \in Blocks : \A m \in DOMAIN blk'[b].recs : m \in DOMAIN blk[b].recs /\ blk'[b].recs[m] = blk[b].recs[m]
    BY <1>4 DEF SameRecs
  <2>2. \A b \in Blocks : \A m \in DOMAIN blk[b].recs : blk[b].recs[m].itx # Len(rec) + 1
    BY <1>2, <1>3
  <2>. QED  BY <1>1, <2>1, <2>2 DEF OnceInv, ItxStep, Logging
<1>5. CASE WritesRecord
  <2>0. PICK b \in Blocks : \E s \in {blk[b].recs, <<>>} :
          /\ Logging /\ ~Logging' /\ zl'.itx = zl.itx
          /\ blk'[b].recs = Append(s, [itx |-> w.itx, seq |-> zl.lr_seq + 1])
          /\ \A c \in Blocks : c # b => blk'[c].recs = blk[c].recs
    BY <1>5 DEF WritesRecord, Logging
  <2>1. PICK s \in {blk[b].recs, <<>>} :
          /\ Logging /\ ~Logging' /\ zl'.itx = zl.itx
          /\ blk'[b].recs = Append(s, [itx |-> w.itx, seq |-> zl.lr_seq + 1])
          /\ \A c \in Blocks : c # b => blk'[c].recs = blk[c].recs
    BY <2>0
  <2>. DEFINE x == [itx |-> w.itx, seq |-> zl.lr_seq + 1]
              l == Len(s) + 1
  <2>2. s \in Seq(Entries) /\ \A m \in DOMAIN s : m \in DOMAIN blk[b].recs /\ s[m] = blk[b].recs[m]
    <3>1. CASE s = blk[b].recs
      BY <1>2, <3>1
    <3>2. CASE s = <<>>
      BY <3>2
    <3>. QED  BY <3>1, <3>2
  <2>3. x.itx = w.itx /\ blk'[b].recs = Append(s, x)
    BY <2>1
  <2>. HIDE DEF x
  <2>4. /\ DOMAIN s = 1 .. Len(s) /\ Len(s) \in Nat /\ DOMAIN blk'[b].recs = 1 .. l
        /\ blk'[b].recs[l] = x /\ \A m \in DOMAIN s : blk'[b].recs[m] = s[m]
    BY <2>2, <2>3
  <2>. HIDE DEF l
  <2>5. \A m \in DOMAIN blk'[b].recs :
          (m = l /\ blk'[b].recs[m].itx = w.itx)
          \/ (m \in DOMAIN blk[b].recs /\ blk'[b].recs[m] = blk[b].recs[m])
    BY <2>2, <2>3, <2>4 DEF l
  <2>6. /\ \A c \in Blocks : \A m \in DOMAIN blk[c].recs : blk[c].recs[m].itx # w.itx
        /\ \A n \in DOMAIN zl.itx : zl.itx[n] # w.itx
    BY <2>1 DEF OnceInv, Logging
  <2>7. \A c \in Blocks : \A m \in DOMAIN blk'[c].recs :
          (c = b /\ m = l /\ blk'[c].recs[m].itx = w.itx)
          \/ (m \in DOMAIN blk[c].recs /\ blk'[c].recs[m] = blk[c].recs[m])
    BY <2>1, <2>5
  <2>8. \A c, d \in Blocks : \A m \in DOMAIN blk'[c].recs, n \in DOMAIN blk'[d].recs :
          blk'[c].recs[m].itx = blk'[d].recs[n].itx => c = d /\ m = n
    BY <2>6, <2>7 DEF OnceInv
  <2>9. \A c \in Blocks : \A m \in DOMAIN blk'[c].recs :
          \A n \in DOMAIN zl'.itx : blk'[c].recs[m].itx # zl'.itx[n]
    BY <2>1, <2>6, <2>7 DEF OnceInv
  <2>10. Ascending(zl'.itx)
    BY <2>1 DEF OnceInv
  <2>11. ~(\E t \in Procs : p'[t].pc = "log")
    BY <2>1 DEF Logging
  <2>. QED  BY <2>8, <2>9, <2>10, <2>11 DEF OnceInv
<1>. QED  BY <1>4, <1>5, RecsNext DEF RecsStep

----------------------------------------------------------------------------
\* The log that the import finds.

\* Of groups that are close to each other each has its own mark.
LEMMA MarkSlots ==
  ASSUME NEW a \in Nat
  PROVE  /\ a % TXG_SIZE \in 0 .. TXG_SIZE - 1
         /\ \A b \in Nat : a < b /\ b < a + TXG_SIZE => a % TXG_SIZE # b % TXG_SIZE
BY DEF TXG_SIZE

\* L holds records that there are, each one once, in the order of the log.
IsRecords(L) ==
  /\ L \in Seq(Entries)
  /\ \A n \in DOMAIN L : L[n].itx \in 1 .. Len(rec) /\ L[n].seq \in Nat \ {0}
  /\ \A m, n \in DOMAIN L : /\ m < n => L[m].seq < L[n].seq
                            /\ L[m].itx = L[n].itx => m = n

\* The blocks of the log hold records, in order.
LEMMA HoldFact ==
  ASSUME BookInv, NEW D \in Seq(Blocks), Ordered(D), NEW m \in DOMAIN D
  PROVE  HoldRecords(blk, D, m) /\ Increase(blk, D, m)
<1>1. Len(D) \in Nat /\ DOMAIN D = 1 .. Len(D) /\ m \in 1 .. Len(D)
  OBVIOUS
<1>2. \A y \in 1 .. m - 1 : y \in DOMAIN D /\ D[y] \in Blocks
  BY <1>1
<1>3. HoldRecords(blk, D, m)
  BY <1>2 DEF HoldRecords, BookInv
<1>4. Increase(blk, D, m)
  BY <1>2 DEF Increase, Ordered
<1>. QED  BY <1>3, <1>4

\* zil_parse() finds what is in the blocks up to the first that cannot be read.
LEMMA DiskLogIs ==
  ASSUME ZilInv, BookInv, NEW D \in Seq(Blocks), NEW k \in Nat, IsLog(D, k)
  PROVE  /\ D = <<>> => DiskLog = <<>>
         /\ D # <<>> => \E m \in DOMAIN D : EndsAt(blk, D, m) /\ LogHolds(blk, D, m, DiskLog)
                                            /\ zh_disk.log = D[1]
<1>1. zh_disk.log = First(D) /\ Linked(D) /\ Ordered(D)
  BY DEF IsLog, Headed, Recorded
<1>2. CASE D = <<>>
  BY <1>1, <1>2, LogRecordsNull DEF First, DiskLog
<1>3. CASE D # <<>>
  <2>. DEFINE l == Len(D)
  <2>1. l \in Nat \ {0} /\ DOMAIN D = 1 .. l /\ l \in DOMAIN D
    BY <1>3
  <2>2. \A i \in 1 .. l - 1 : i \in DOMAIN D /\ i < l
    BY <2>1
  <2>3. \A i \in 1 .. l - 1 : blk[D[i]].next = D[i + 1]
    BY <1>1, <2>2 DEF Linked
  <2>4. ~Valid(blk, D[l])
    BY <1>1, <2>1 DEF Linked, Live, LiveIn, Valid
  <2>5. PICK m \in DOMAIN D : EndsAt(blk, D, m)
    BY <1>3, <2>3, <2>4, EndExists
  <2>6. HoldRecords(blk, D, m) /\ Increase(blk, D, m)
    BY <1>1, HoldFact
  <2>7. \A i, j \in DOMAIN D : D[i] = D[j] => i = j
    BY <1>1 DEF Linked
  <2>8. LogHolds(blk, D, m, LogRecords(blk, D[1]))
    BY <2>5, <2>6, <2>7, LogRecordsIs
  <2>9. zh_disk.log = D[1]
    BY <1>1, <1>3 DEF First
  <2>. QED  BY <1>3, <2>5, <2>8, <2>9 DEF DiskLog
<1>. QED  BY <1>2, <1>3

\* So it finds a record once.
LEMMA DiskLogRecords ==
  ASSUME ZilInv, BookInv, ChainInv, OnceInv
  PROVE  IsRecords(DiskLog)
<1>1. PICK D \in Seq(Blocks), k \in Nat : IsLog(D, k)
  BY DEF ChainInv
<1>. DEFINE L == DiskLog
<1>2. CASE D = <<>>
  <2>1. L = <<>>
    BY <1>1, <1>2, DiskLogIs
  <2>. HIDE DEF L
  <2>2. DOMAIN L = {} /\ L \in Seq(Entries)
    BY <2>1
  <2>3. IsRecords(L)
    BY <2>2 DEF IsRecords
  <2>. QED  BY <2>3 DEF L
<1>3. CASE D # <<>>
  <2>1. PICK m \in DOMAIN D : EndsAt(blk, D, m) /\ LogHolds(blk, D, m, L)
    BY <1>1, <1>3, DiskLogIs
  <2>. HIDE DEF L
  <2>2. \A y \in 1 .. m - 1 : y \in DOMAIN D /\ D[y] \in Blocks
    OBVIOUS
  <2>3. L \in Seq(Entries) /\ \A i, n \in DOMAIN L : i < n => L[i].seq < L[n].seq
    BY <2>1 DEF LogHolds
  <2>4. \A n \in DOMAIN L : \E b \in Blocks : \E x \in DOMAIN blk[b].recs : L[n] = blk[b].recs[x]
    BY <2>1, <2>2 DEF LogHolds
  <2>5. \A n \in DOMAIN L : L[n].itx \in 1 .. Len(rec)
    BY <2>4 DEF BookInv
  <2>6. \A n \in DOMAIN L : L[n].seq \in Nat \ {0} /\ n \in Nat
    <3>1. \A n \in DOMAIN L : L[n] \in Entries /\ n \in Nat
      BY <2>3
    <3>. QED  BY <3>1 DEF Entries
  <2>7. ASSUME NEW i \in DOMAIN L, NEW n \in DOMAIN L, L[i].itx = L[n].itx
        PROVE  i = n
    <3>1. PICK b \in Blocks : \E x \in DOMAIN blk[b].recs : L[i] = blk[b].recs[x]
      BY <2>4
    <3>2. PICK x \in DOMAIN blk[b].recs : L[i] = blk[b].recs[x]
      BY <3>1
    <3>3. PICK c \in Blocks : \E z \in DOMAIN blk[c].recs : L[n] = blk[c].recs[z]
      BY <2>4
    <3>4. PICK z \in DOMAIN blk[c].recs : L[n] = blk[c].recs[z]
      BY <3>3
    <3>5. b = c /\ x = z
      BY <2>7, <3>2, <3>4 DEF OnceInv
    <3>6. L[i].seq = L[n].seq
      BY <3>2, <3>4, <3>5
    <3>7. ~(i < n) /\ ~(n < i)
      BY <2>3, <2>6, <3>6
    <3>. QED  BY <2>6, <3>7
  <2>8. IsRecords(L)
    BY <2>3, <2>5, <2>6, <2>7 DEF IsRecords
  <2>. QED  BY <2>8 DEF L
<1>. QED  BY <1>2, <1>3

\* A block that can be read like before.
SameBlock(b) ==
  /\ blk'[b].next = blk[b].next /\ blk'[b].recs = blk[b].recs
  /\ blk'[b].content = "disk" <=> blk[b].content = "disk"

\* It finds the same as long as the blocks that it reads stay.
LEMMA SameDiskLog ==
  ASSUME ZilInv, BookInv, ChainInv, zh_disk'.log = zh_disk.log,
         \/ \A b \in Blocks : SameBlock(b)
         \/ \A D \in Seq(Blocks), m \in Nat :
              EndsAt(blk, D, m) /\ zh_disk.log = D[1] /\ (\E k \in Nat : IsLog(D, k))
                => \A i \in 1 .. m : SameBlock(D[i])
  PROVE  DiskLog' = DiskLog
<1>1. PICK D \in Seq(Blocks), k \in Nat : IsLog(D, k)
  BY DEF ChainInv
<1>2. CASE D = <<>>
  <2>1. zh_disk.log = NULL
    BY <1>1, <1>2 DEF IsLog, Headed, First
  <2>. QED  BY <2>1, LogRecordsNull DEF DiskLog
<1>3. CASE D # <<>>
  <2>1. PICK m \in DOMAIN D : EndsAt(blk, D, m) /\ zh_disk.log = D[1]
    BY <1>1, <1>3, DiskLogIs
  <2>2. m \in Nat \ {0} /\ \A i \in 1 .. m : D[i] \in Blocks
    OBVIOUS
  <2>3. \A i \in 1 .. m : SameBlock(D[i])
    BY <1>1, <2>1, <2>2
  <2>4. \A i \in 1 .. m : /\ Valid(blk', D[i]) <=> Valid(blk, D[i])
                          /\ blk'[D[i]].next = blk[D[i]].next /\ blk'[D[i]].recs = blk[D[i]].recs
    BY <2>3 DEF SameBlock, Valid
  <2>5. \A i \in 1 .. m - 1 : i \in 1 .. m
    OBVIOUS
  <2>6. m \in 1 .. m
    BY <2>2
  <2>7. EndsAt(blk', D, m)
    BY <2>1, <2>4, <2>5, <2>6 DEF EndsAt
  <2>8. \A i, j \in DOMAIN D : D[i] = D[j] => i = j
    BY <1>1 DEF IsLog, Linked
  <2>9. \A y \in 1 .. m - 1 : blk'[D[y]].recs = blk[D[y]].recs
    BY <2>4, <2>5
  <2>10. LogRecords(blk', D[1]) = LogRecords(blk, D[1])
    BY <2>1, <2>7, <2>8, <2>9, SameLogRecords
  <2>. QED  BY <2>1, <2>10 DEF DiskLog
<1>. QED  BY <1>2, <1>3

\* The n-th record in the log is record i, with log sequence number s.
Entry(L, n, i, s) == n \in DOMAIN L /\ i = L[n].itx /\ s = L[n].seq

\* The groups that zil_sync() has still to run for.
LEMMA UnsyncedIs ==
  ASSUME ZilInv, NEW g
  PROVE  g \in Unsynced <=> /\ g \in Nat /\ stable < g /\ g <= open
                            /\ ~(g = stable + 1 /\ zsynced)
BY DEF Unsynced, Synced, SyncedIn, ZilInv, GroupInv

\* What ImportInv says of it.
LEMMA ImportUse ==
  ASSUME ZilInv, BookInv, ChainInv, ReplayInv, ~Opened, NEW L, L = DiskLog,
         NEW n, NEW i, NEW s, Entry(L, n, i, s)
  PROVE  /\ EntryInv(i, s) /\ StageInv(n, i, s)
         /\ i \in 1 .. Len(rec) /\ s \in Nat \ {0} /\ n \in 1 .. Len(L) /\ Len(L) \in Nat
         /\ home[i] \in Nat /\ rec[i].txg \in Nat /\ home[i] <= open
         /\ home[i] > stable => home[i] \in dirty
<1>1. IsRecords(L)
  BY DiskLogRecords DEF ReplayInv
<1>2. i \in 1 .. Len(rec) /\ s \in Nat \ {0} /\ n \in 1 .. Len(L) /\ Len(L) \in Nat
  BY <1>1 DEF IsRecords, Entry
<1>3. EntryInv(i, s) /\ StageInv(n, i, s)
  BY DEF ReplayInv, ImportInv, Entry
<1>4. home[i] \in Nat /\ home[i] <= open /\ (home[i] > stable => home[i] \in dirty)
  BY <1>2 DEF ReplayInv, HomeInv
<1>5. rec[i].txg \in Nat
  BY <1>2 DEF ZilInv, RecInv, IsRec
<1>. QED  BY <1>2, <1>3, <1>4, <1>5

\* And what has to be shown of it.
LEMMA ImportKeep ==
  ASSUME NEW L, DiskLog' = L, QuietInv', zh'.log # NULL => ClaimInv' /\ MarkInv',
         mode' = "replay" => r'.pos \in 0 .. Len(L),
         \A n, i, s : Entry(L, n, i, s) => EntryInv(i, s)' /\ StageInv(n, i, s)'
  PROVE  ImportInv'
<1>1. ASSUME NEW n \in DOMAIN DiskLog'
      PROVE  EntryInv(DiskLog[n].itx, DiskLog[n].seq)' /\ StageInv(n, DiskLog[n].itx, DiskLog[n].seq)'
  <2>1. PICK i, s : i = L[n].itx /\ s = L[n].seq
    OBVIOUS
  <2>2. EntryInv(i, s)' /\ StageInv(n, i, s)'
    BY <2>1 DEF Entry
  <2>. QED  BY <2>1, <2>2 DEF EntryInv, StageInv
<1>. QED  BY <1>1 DEF ImportInv

\* What the header and the marks say when there is a log in the header.
LEMMA ImportHead ==
  ASSUME ZilInv, BookInv, ChainInv, ReplayInv, ~Opened
  PROVE  /\ zh.log = NULL /\ mode # "replayed" => DiskLog = <<>> /\ zh_disk.log = NULL
         /\ mode = "replay" => zh.log # NULL
         /\ mode = "replayed" => zl.destroy_txg > stable
         /\ mode # "replayed" => Importing /\ zl.destroy_txg = 0
         /\ mode # "up" /\ zl.lwb = <<>> /\ zl.destroy_txg \in Nat
         /\ QuietInv /\ (zh.log # NULL => ClaimInv /\ MarkInv)
         /\ mode = "replay" => r.pos \in 0 .. Len(DiskLog)
<1>1. mode # "up" /\ (mode # "replayed" => Importing) /\ (mode = "replayed" => zl.destroy_txg > stable)
  BY DEF Opened, Importing, ZilInv, ShapeInv, GroupInv, Modes
<1>2. zl.lwb = <<>>
  BY <1>1 DEF ZilInv, WriterInv
<1>3. ASSUME zh.log = NULL, mode # "replayed"
      PROVE  DiskLog = <<>> /\ zh_disk.log = NULL
  <2>1. PICK D \in Seq(Blocks), k \in Nat : IsLog(D, k)
    BY DEF ChainInv
  <2>2. D = <<>>
    BY <1>1, <1>3, <2>1, ImportLog
  <2>. QED  BY <2>1, <2>2, DiskLogIs DEF IsLog, Headed, First
<1>4. (mode = "replay" => zh.log # NULL) /\ (Importing => zl.destroy_txg = 0)
  BY DEF ZilInv, DestroyInv, Importing
<1>. QED  BY <1>1, <1>2, <1>3, <1>4 DEF ReplayInv, ImportInv, ZilInv, ShapeInv

----------------------------------------------------------------------------
\* The steps keep it.

\* What a step keeps, OnceInv apart.
ReplayKept == HomeInv' /\ HeaderInv' /\ ImportInv'

\* Steps of the threads and of log writes.
LEMMA BesideReplay ==
  ASSUME ZilInv, BookInv, ChainInv, ReplayInv, Beside
  PROVE  ReplayKept
<1>1. /\ UNCHANGED <<open, stable, zsynced, zh, zh_disk, mode, r, crashes>>
      /\ dirty \subseteq dirty' /\ zl'.replayed = zl.replayed
      /\ UNCHANGED <<rec, home>> \/ \E t \in Threads : zil_itx_assign(t)
  BY DEF Beside
<1>2. mode # "up" => /\ zl'.destroy_txg = zl.destroy_txg /\ zl'.keep_first = zl.keep_first
                     /\ UNCHANGED blk \/ \E b \in Blocks : blk[b].io = "issued"
  BY DEF Beside
<1>3. mode # "up" => UNCHANGED <<rec, home>>
  <2>1. ASSUME NEW t \in Threads, zil_itx_assign(t)
        PROVE  mode = "up"
    BY <2>1, NullFact, BusyUp DEF zil_itx_assign
  <2>. QED  BY <1>1, <2>1
<1>4. HomeInv'
  <2>1. CASE UNCHANGED <<rec, home>>
    BY <1>1, <2>1 DEF ReplayInv, HomeInv
  <2>2. ASSUME NEW t \in Threads, zil_itx_assign(t)
        PROVE  HomeInv'
    <3>. DEFINE l == Len(rec)
    <3>1. /\ home' = Append(home, active[t]) /\ active[t] # 0 /\ dirty' = dirty \cup {active[t]}
      BY <2>2 DEF zil_itx_assign, GC!End
    <3>2. t \in Procs /\ mode = "up"
      BY <2>2, NullFact, BusyUp DEF zil_itx_assign
    <3>3. active[t] \in Nat /\ active[t] <= open
      BY <3>1, <3>2 DEF ZilInv, ActiveInv
    <3>4. l \in Nat /\ home \in Seq(Nat) /\ Len(home) = l /\ open <= stable + 3
      BY DEF ZilInv, RecInv, ReplayInv, HomeInv
    <3>5. Len(rec') = l + 1 /\ (\A i \in 1 .. l : rec'[i] = rec[i]) /\ rec'[l + 1].txg = active[t]
      BY <2>2, AssignRec DEF zil_itx_assign
    <3>6. /\ home' \in Seq(Nat) /\ Len(home') = l + 1 /\ home'[l + 1] = active[t]
          /\ \A i \in 1 .. l : home'[i] = home[i]
      BY <3>1, <3>3, <3>4
    <3>7. \A i \in 1 .. l :
            /\ home[i] <= open /\ (home[i] > stable => home[i] \in dirty)
            /\ rec[i].boot = crashes => mode = "up" /\ home[i] = rec[i].txg /\ home[i] # 0
      BY DEF ReplayInv, HomeInv
    <3>. HIDE DEF l
    <3>8. ASSUME NEW i \in 1 .. l + 1
          PROVE  /\ home'[i] <= open /\ (home'[i] > stable => home'[i] \in dirty')
                 /\ rec'[i].boot = crashes => mode = "up" /\ home'[i] = rec'[i].txg /\ home'[i] # 0
      <4>1. CASE i \in 1 .. l
        BY <3>1, <3>5, <3>6, <3>7, <4>1
      <4>2. CASE i = l + 1
        BY <3>1, <3>2, <3>3, <3>5, <3>6, <4>2
      <4>. QED  BY <3>4, <4>1, <4>2 DEF l
    <3>. QED  BY <1>1, <3>4, <3>5, <3>6, <3>8 DEF HomeInv
  <2>. QED  BY <1>1, <2>1, <2>2
<1>5. HeaderInv'
  BY <1>1, <1>2 DEF ReplayInv, HeaderInv, Fresh
<1>6. ImportInv'
  <2>1. CASE Opened
    <3>1. Opened'
      <4>1. CASE mode = "up"
        BY <1>1, <4>1 DEF Opened, Importing
      <4>2. CASE mode # "up"
        BY <1>1, <1>2, <2>1, <4>2 DEF Opened, Importing
      <4>. QED  BY <4>1, <4>2
    <3>. QED  BY <3>1 DEF ImportInv
  <2>2. CASE ~Opened
    <3>1. PICK L : L = DiskLog
      OBVIOUS
    <3>2. mode # "up" /\ QuietInv /\ (zh.log # NULL => ClaimInv /\ MarkInv)
          /\ (mode = "replay" => r.pos \in 0 .. Len(L))
      BY <2>2, <3>1, ImportHead
    <3>3. UNCHANGED <<blk, rec, home>>
      BY <1>2, <1>3, <3>2 DEF QuietInv
    <3>4. DiskLog' = L
      BY <1>1, <3>1, <3>3 DEF DiskLog
    <3>5. Unsynced' = Unsynced /\ ClaimTxg' = ClaimTxg /\ \A g : Mark(g)' = Mark(g)
      BY <1>1 DEF Unsynced, ClaimTxg, Mark, Synced
    <3>6. QuietInv'
      BY <1>2, <3>2, <3>3 DEF QuietInv
    <3>7. zh'.log # NULL => ClaimInv' /\ MarkInv'
      <4>. SUFFICES ASSUME zh'.log # NULL
                    PROVE  ClaimInv' /\ MarkInv'
        OBVIOUS
      <4>1. ClaimInv /\ MarkInv
        BY <1>1, <3>2
      <4>2. ClaimInv'
        BY <1>1, <3>5, <4>1 DEF ClaimInv
      <4>3. MarkInv'
        BY <1>1, <3>5, <4>1 DEF MarkInv
      <4>. QED  BY <4>2, <4>3
    <3>8. ASSUME NEW n, NEW i, NEW s, Entry(L, n, i, s)
          PROVE  EntryInv(i, s)' /\ StageInv(n, i, s)'
      <4>1. EntryInv(i, s) /\ StageInv(n, i, s)
        BY <2>2, <3>1, <3>8, ImportUse
      <4>2. EntryInv(i, s)'
        BY <1>1, <3>3, <3>5, <4>1 DEF EntryInv
      <4>3. StageInv(n, i, s)'
        BY <1>1, <1>2, <3>2, <3>3, <3>5, <4>1 DEF StageInv
      <4>. QED  BY <4>2, <4>3
    <3>. QED  BY <1>1, <3>2, <3>4, <3>6, <3>7, <3>8, ImportKeep
  <2>. QED  BY <2>1, <2>2
<1>. QED  BY <1>4, <1>5, <1>6 DEF ReplayKept

\* The next group is opened.
LEMMA AdvanceReplay ==
  ASSUME ZilInv, BookInv, ChainInv, ReplayInv, Advance
  PROVE  ReplayKept
<1>1. /\ open' = open + 1 /\ open < stable + 3 /\ mode # "down"
      /\ UNCHANGED <<stable, zsynced, zh, zh_disk, mode, r, crashes, dirty, zl, blk, rec, home>>
  BY DEF Advance, GC!Advance, fs_vars, import_vars
<1>2. open \in Nat /\ stable \in Nat /\ stable < open
  BY DEF ZilInv, GroupInv
<1>3. HomeInv'
  BY <1>1, <1>2 DEF ReplayInv, HomeInv
<1>4. HeaderInv'
  BY <1>1 DEF ReplayInv, HeaderInv, Fresh
<1>5. CASE Opened
  BY <1>1, <1>3, <1>4, <1>5 DEF Opened, Importing, ReplayKept, ImportInv
<1>6. CASE ~Opened
  <2>1. PICK L : L = DiskLog
    OBVIOUS
  <2>2. /\ QuietInv /\ (zh.log # NULL => ClaimInv /\ MarkInv)
        /\ mode = "replay" => zh.log # NULL /\ r.pos \in 0 .. Len(L)
    BY <1>6, <2>1, ImportHead
  <2>3. DiskLog' = L /\ ClaimTxg' = ClaimTxg /\ \A g : Mark(g)' = Mark(g)
    BY <1>1, <2>1 DEF DiskLog, ClaimTxg, Mark
  <2>4. \A g : g \in Unsynced' <=> g \in Unsynced \/ g = open + 1
    BY <1>1, <1>2 DEF Unsynced, Synced, SyncedIn, ZilInv, GroupInv
  <2>5. zh.log # NULL => Mark(open + 1) = 0
    <3>. SUFFICES ASSUME zh.log # NULL, Mark(open + 1) # 0
                  PROVE  FALSE
      OBVIOUS
    <3>1. (open + 1) % TXG_SIZE \in 0 .. TXG_SIZE - 1
      BY <1>2, MarkSlots
    <3>2. PICK g \in Unsynced : (open + 1) % TXG_SIZE = g % TXG_SIZE
      BY <2>2, <3>1 DEF MarkInv, Mark
    <3>3. g \in Nat /\ g < open + 1 /\ open + 1 < g + TXG_SIZE
      BY <1>1, <1>2, <3>2, UnsyncedIs DEF TXG_SIZE
    <3>. QED  BY <1>2, <3>2, <3>3, MarkSlots
  <2>6. QuietInv'
    BY <1>1, <2>2 DEF QuietInv
  <2>7. zh'.log # NULL => ClaimInv' /\ MarkInv'
    <3>. SUFFICES ASSUME zh'.log # NULL
                  PROVE  ClaimInv' /\ MarkInv'
      OBVIOUS
    <3>1. ClaimInv /\ MarkInv
      BY <1>1, <2>2
    <3>2. ClaimInv'
      BY <1>1, <2>3, <3>1 DEF ClaimInv
    <3>3. \A g \in Unsynced : g \in Nat /\ g < open + 1
      BY <1>2, UnsyncedIs
    <3>4. MarkInv'
      BY <1>1, <1>2, <2>3, <2>4, <2>5, <3>1, <3>3 DEF MarkInv
    <3>. QED  BY <3>2, <3>4
  <2>8. ASSUME NEW n, NEW i, NEW s, Entry(L, n, i, s)
        PROVE  EntryInv(i, s)' /\ StageInv(n, i, s)'
    <3>1. EntryInv(i, s) /\ StageInv(n, i, s) /\ s \in Nat \ {0} /\ home[i] \in Nat /\ home[i] <= open
      BY <1>6, <2>1, <2>8, ImportUse
    <3>2. EntryInv(i, s)'
      BY <1>1, <1>2, <2>3, <2>4, <2>5, <3>1 DEF EntryInv
    <3>3. StageInv(n, i, s)'
      BY <1>1, <1>2, <2>2, <2>3, <2>4, <2>5, <3>1 DEF StageInv
    <3>. QED  BY <3>2, <3>3
  <2>9. ImportInv'
    BY <1>1, <2>2, <2>3, <2>6, <2>7, <2>8, ImportKeep
  <2>. QED  BY <1>3, <1>4, <2>9 DEF ReplayKept
<1>. QED  BY <1>5, <1>6

\* The last wait of the import is over.
LEMMA ReplayDoneReplay ==
  ASSUME ZilInv, BookInv, ChainInv, ReplayInv, ReplayDone
  PROVE  ReplayKept
<1>1. /\ mode = "replayed" /\ mode' = "up" /\ stable >= r.txg /\ r' = [txg |-> 0, pos |-> 0]
      /\ UNCHANGED <<open, stable, dirty, zsynced, zl, zh, zh_disk, rec, home, crashes>>
  BY DEF ReplayDone, gc_vars, fs_vars
<1>2. zl.destroy_txg <= stable
  BY <1>1 DEF BookInv
<1>3. Fresh(zh_disk)
  BY <1>1, <1>2 DEF ChainInv, OpenInv, Importing
<1>4. Fresh(zh) /\ zl.replayed = NoLog.replayed
  BY <1>1, <1>2 DEF ZilInv, DestroyInv, Destroying, Synced, SyncedIn
<1>5. HomeInv'
  BY <1>1 DEF ReplayInv, HomeInv
<1>6. HeaderInv'
  BY <1>1, <1>3, <1>4 DEF ReplayInv, HeaderInv, Fresh
<1>7. ImportInv'
  BY <1>1 DEF ImportInv, Opened, Importing
<1>. QED  BY <1>5, <1>6, <1>7 DEF ReplayKept

\* zil_claim()
LEMMA zil_claimReplay ==
  ASSUME ZilInv, BookInv, ChainInv, ReplayInv, zil_claim
  PROVE  ReplayKept
<1>1. /\ mode = "down" /\ mode' = "claimed"
      /\ UNCHANGED <<open, stable, zsynced, zl, zh_disk, rec, home, crashes>>
  BY DEF zil_claim, gc_vars, fs_vars
<1>2. \/ UNCHANGED <<zh, blk, r, dirty>> /\ ~(zh.claim_txg = 0 /\ zh.log # NULL)
      \/ /\ zh.claim_txg = 0 /\ zh.log # NULL
         /\ \E x : zh' = [zh EXCEPT !.claim_txg = open, !.needed = x]
         /\ blk' = [b \in Blocks |-> IF b \in Claimed THEN [blk[b] EXCEPT !.birth = open] ELSE blk[b]]
         /\ \E x : r' = [r EXCEPT !.txg = x]
         /\ dirty' = dirty \cup {open}
  BY DEF zil_claim
<1>3. zh = zh_disk /\ open = stable + 1 /\ r.pos = 0 /\ DOMAIN r = {"txg", "pos"} /\ ~Opened
  BY <1>1 DEF ReplayInv, HeaderInv, Opened, Importing
<1>4. open \in Nat /\ stable \in Nat /\ ~zsynced /\ IsHeader(zh)
  BY <1>3 DEF ZilInv, GroupInv, ShapeInv
<1>5. dirty \subseteq dirty' /\ r'.pos = 0 /\ DOMAIN r' = {"txg", "pos"}
  BY <1>2, <1>3
<1>6. /\ zh'.log = zh.log /\ zh'.replay_seq = zh.replay_seq
      /\ \/ zh' = zh /\ (zh.log # NULL => zh.claim_txg # 0)
         \/ zh.claim_txg = 0 /\ zh'.claim_txg = open /\ open \in dirty'
  BY <1>2, <1>4 DEF IsHeader
<1>7. \A b \in Blocks : SameBlock(b) /\ blk'[b].io = blk[b].io /\ blk'[b].content = blk[b].content
                        /\ blk'[b].freed = blk[b].freed
  <2>. SUFFICES ASSUME NEW b \in Blocks
                PROVE  SameBlock(b) /\ blk'[b].io = blk[b].io /\ blk'[b].content = blk[b].content
                       /\ blk'[b].freed = blk[b].freed
    OBVIOUS
  <2>1. IsBlk(blk[b])
    BY DEF ZilInv, ShapeInv
  <2>2. blk'[b] = blk[b] \/ blk'[b] = [blk[b] EXCEPT !.birth = open]
    BY <1>2
  <2>. QED  BY <2>1, <2>2 DEF IsBlk, SameBlock
<1>8. HomeInv'
  BY <1>1, <1>5 DEF ReplayInv, HomeInv
<1>9. HeaderInv'
  BY <1>1, <1>3, <1>4, <1>5, <1>6 DEF ReplayInv, HeaderInv, Fresh
<1>10. ImportInv'
  <2>1. PICK L : L = DiskLog
    OBVIOUS
  <2>2. /\ QuietInv /\ (zh.log # NULL => ClaimInv /\ MarkInv)
    BY <1>3, ImportHead
  <2>3. DiskLog' = L
    BY <1>1, <1>7, <2>1, SameDiskLog
  <2>4. Unsynced' = Unsynced /\ ClaimTxg' = ClaimTxg /\ \A g : Mark(g)' = Mark(g)
    BY <1>1 DEF Unsynced, ClaimTxg, Mark, Synced
  <2>5. QuietInv'
    BY <1>1, <1>7, <2>2 DEF QuietInv
  <2>6. zh'.log # NULL => ClaimInv' /\ MarkInv'
    <3>. SUFFICES ASSUME zh'.log # NULL
                  PROVE  ClaimInv' /\ MarkInv'
      OBVIOUS
    <3>1. ClaimInv /\ MarkInv
      BY <1>6, <2>2
    <3>2. ClaimInv'
      BY <1>1, <1>3, <1>4, <1>6, <2>4, <3>1 DEF ClaimInv, ClaimTxg
    <3>3. MarkInv'
      BY <1>1, <1>5, <1>6, <2>4, <3>1 DEF MarkInv
    <3>. QED  BY <3>2, <3>3
  <2>7. ASSUME NEW n, NEW i, NEW s, Entry(L, n, i, s)
        PROVE  EntryInv(i, s)' /\ StageInv(n, i, s)'
    <3>1. EntryInv(i, s) /\ StageInv(n, i, s)
      BY <1>3, <2>1, <2>7, ImportUse
    <3>2. EntryInv(i, s)'
      BY <1>1, <1>6, <2>4, <3>1 DEF EntryInv
    <3>3. StageInv(n, i, s)'
      BY <1>1, <3>1 DEF StageInv
    <3>. QED  BY <3>2, <3>3
  <2>. QED  BY <1>1, <2>3, <2>5, <2>6, <2>7, ImportKeep
<1>. QED  BY <1>8, <1>9, <1>10 DEF ReplayKept

\* zil_destroy() leaves what can be read.
LEMMA DestroySame ==
  ASSUME ZilInv, NEW keep, Destroy(keep, zl)
  PROVE  /\ \A b \in Blocks : /\ SameBlock(b) /\ blk'[b].io = blk[b].io
                              /\ blk'[b].content = blk[b].content
                              /\ blk'[b].freed \in {blk[b].freed, open}
         /\ dirty \subseteq dirty' /\ zl'.replayed = zl.replayed
         /\ zh.log # NULL => zl'.destroy_txg = open /\ zl'.keep_first = keep
<1>1. IsZl(zl) /\ \A b \in Blocks : IsBlk(blk[b])
  BY DEF ZilInv, ShapeInv
<1>2. zh.log # NULL => zl'.destroy_txg = open /\ zl'.keep_first = keep
  BY <1>1, DestroyRecs
<1>3. dirty \subseteq dirty' /\ zl'.replayed = zl.replayed
  BY <1>1 DEF Destroy, Destroyed, IsZl
<1>4. blk' = blk \/ \E X : blk' = FreeBlocks(X, open)
  BY DEF Destroy
<1>5. \A b \in Blocks : blk'[b] = blk[b] \/ blk'[b] = [blk[b] EXCEPT !.freed = open]
  BY <1>4 DEF FreeBlocks
<1>6. \A b \in Blocks : /\ SameBlock(b) /\ blk'[b].io = blk[b].io
                        /\ blk'[b].content = blk[b].content
                        /\ blk'[b].freed \in {blk[b].freed, open}
  BY <1>1, <1>5 DEF IsBlk, SameBlock
<1>. QED  BY <1>2, <1>3, <1>6

\* zil_replay()
LEMMA zil_replayReplay ==
  ASSUME ZilInv, BookInv, ChainInv, ReplayInv, zil_replay
  PROVE  ReplayKept
<1>1. /\ mode = "claimed" /\ UNCHANGED <<open, stable, zsynced, zh, zh_disk, rec, home, crashes>>
      /\ \/ /\ zh.needed /\ mode' = "replay" /\ UNCHANGED <<zl, dirty, blk>>
            /\ \E x : r' = [r EXCEPT !.txg = x]
         \/ ~zh.needed /\ mode' = "up" /\ Destroy(TRUE, zl) /\ r' = [txg |-> 0, pos |-> 0]
  BY DEF zil_replay, gc_vars, fs_vars
<1>2. ~Opened /\ r.pos = 0 /\ DOMAIN r = {"txg", "pos"}
  BY <1>1 DEF Opened, Importing, ReplayInv, HeaderInv
<1>3. zl.replayed = NoLog.replayed
  BY <1>1 DEF ZilInv, DestroyInv
<1>4. dirty \subseteq dirty' /\ zl'.replayed = zl.replayed
  BY <1>1, DestroySame
<1>5. HomeInv'
  BY <1>1, <1>4 DEF ReplayInv, HomeInv
<1>6. mode' = "up" => ~zh_disk.needed
  <2>. SUFFICES ASSUME mode' = "up"
                PROVE  ~zh_disk.needed
    OBVIOUS
  <2>1. CASE zh.log = NULL
    <3>1. zh_disk.log = NULL
      BY <1>1, <1>2, <2>1, ImportHead
    <3>. QED  BY <3>1 DEF ZilInv, DestroyInv, Fresh
  <2>2. CASE zh.log # NULL
    <3>1. ClaimInv
      BY <1>2, <2>2, ImportHead
    <3>2. zh_disk.claim_txg = 0 => Fresh(zh_disk)
      BY DEF ReplayInv, HeaderInv
    <3>. QED  BY <1>1, <3>1, <3>2 DEF ClaimInv, Fresh
  <2>. QED  BY <2>1, <2>2
<1>7. DOMAIN r' = {"txg", "pos"} /\ (mode' = "replay" => r'.pos = 0)
  BY <1>1, <1>2
<1>8. HeaderInv'
  BY <1>1, <1>3, <1>4, <1>6, <1>7 DEF ReplayInv, HeaderInv, Fresh
<1>9. ImportInv'
  <2>1. CASE mode' = "up"
    BY <2>1 DEF ImportInv, Opened, Importing
  <2>2. CASE mode' = "replay" /\ UNCHANGED <<zl, dirty, blk>>
    <3>1. PICK L : L = DiskLog
      OBVIOUS
    <3>2. QuietInv /\ (zh.log # NULL => ClaimInv /\ MarkInv) /\ IsRecords(L)
      BY <1>2, <3>1, ImportHead, DiskLogRecords DEF ReplayInv
    <3>3. DiskLog' = L
      BY <1>1, <2>2, <3>1 DEF DiskLog
    <3>4. Unsynced' = Unsynced /\ ClaimTxg' = ClaimTxg /\ \A g : Mark(g)' = Mark(g)
      BY <1>1, <2>2 DEF Unsynced, ClaimTxg, Mark, Synced
    <3>5. QuietInv'
      BY <2>2, <3>2 DEF QuietInv
    <3>6. zh'.log # NULL => ClaimInv' /\ MarkInv'
      BY <1>1, <2>2, <3>2, <3>4 DEF ClaimInv, MarkInv
    <3>7. \A g \in Unsynced : Mark(g) = 0
      <4>1. \A g \in Unsynced : g % TXG_SIZE \in 0 .. TXG_SIZE - 1
        BY UnsyncedIs, MarkSlots
      <4>. QED  BY <1>3, <4>1 DEF Mark, NoLog
    <3>8. ASSUME NEW n, NEW i, NEW s, Entry(L, n, i, s)
          PROVE  EntryInv(i, s)' /\ StageInv(n, i, s)'
      <4>1. EntryInv(i, s) /\ StageInv(n, i, s) /\ s \in Nat \ {0} /\ n \in 1 .. Len(L) /\ Len(L) \in Nat
        BY <1>2, <3>1, <3>8, ImportUse
      <4>2. EntryInv(i, s)'
        BY <1>1, <3>4, <4>1 DEF EntryInv
      <4>3. n > 0 /\ 0 < s
        BY <4>1
      <4>4. StageInv(n, i, s)'
        BY <1>1, <1>7, <2>2, <3>4, <3>7, <4>1, <4>3 DEF StageInv
      <4>. QED  BY <4>2, <4>4
    <3>9. r'.pos \in 0 .. Len(L)
      BY <1>7, <2>2, <3>2 DEF IsRecords
    <3>. QED  BY <2>2, <3>3, <3>5, <3>6, <3>8, <3>9, ImportKeep
  <2>. QED  BY <1>1, <2>1, <2>2
<1>. QED  BY <1>5, <1>8, <1>9 DEF ReplayKept

\* The end of zil_replay().
LEMMA ReplayDestroyReplay ==
  ASSUME ZilInv, BookInv, ChainInv, ReplayInv, ReplayDestroy
  PROVE  ReplayKept
<1>1. /\ mode = "replay" /\ mode' = "replayed" /\ Destroy(FALSE, zl) /\ r.pos = Len(Log)
      /\ r' = [txg |-> open, pos |-> 0]
      /\ UNCHANGED <<open, stable, zsynced, zh, zh_disk, rec, home, crashes>>
  BY DEF ReplayDestroy, gc_vars, fs_vars
<1>2. ~Opened
  BY <1>1 DEF Opened, Importing
<1>3. PICK L : L = DiskLog
  OBVIOUS
<1>4. zh.log # NULL /\ zl.destroy_txg = 0 /\ QuietInv /\ ClaimInv /\ MarkInv
  BY <1>1, <1>2, ImportHead
<1>5. L = Log
  BY <1>3, <1>4 DEF ClaimInv, DiskLog, Log
<1>6. /\ \A b \in Blocks : /\ SameBlock(b) /\ blk'[b].io = blk[b].io
                           /\ blk'[b].content = blk[b].content
                           /\ blk'[b].freed \in {blk[b].freed, open}
      /\ dirty \subseteq dirty' /\ zl'.replayed = zl.replayed
      /\ zl'.destroy_txg = open /\ ~zl'.keep_first
  BY <1>1, <1>4, DestroySame
<1>7. HomeInv'
  BY <1>1, <1>6 DEF ReplayInv, HomeInv
<1>8. HeaderInv'
  BY <1>1, <1>6 DEF ReplayInv, HeaderInv, Fresh
<1>9. ImportInv'
  <2>1. DiskLog' = L
    BY <1>1, <1>3, <1>6, SameDiskLog
  <2>2. Unsynced' = Unsynced /\ ClaimTxg' = ClaimTxg /\ \A g : Mark(g)' = Mark(g)
    BY <1>1, <1>6 DEF Unsynced, ClaimTxg, Mark, Synced
  <2>3. QuietInv'
    BY <1>4, <1>6 DEF QuietInv
  <2>4. ClaimInv' /\ MarkInv'
    <3>1. ClaimInv'
      BY <1>1, <1>4, <1>6, <2>2 DEF ClaimInv
    <3>2. MarkInv'
      BY <1>1, <1>4, <1>6, <2>2 DEF MarkInv
    <3>. QED  BY <3>1, <3>2
  <2>5. ASSUME NEW n, NEW i, NEW s, Entry(L, n, i, s)
        PROVE  EntryInv(i, s)' /\ StageInv(n, i, s)'
    <3>1. EntryInv(i, s) /\ StageInv(n, i, s) /\ n \in 1 .. Len(L) /\ Len(L) \in Nat
          /\ home[i] \in Nat /\ home[i] <= open
      BY <1>2, <1>3, <2>5, ImportUse
    <3>2. EntryInv(i, s)'
      BY <1>1, <2>2, <3>1 DEF EntryInv
    <3>3. home[i] # 0
      BY <1>1, <1>5, <3>1 DEF StageInv
    <3>4. home[i] \in 1 .. open
      BY <3>1, <3>3 DEF ZilInv, GroupInv
    <3>5. StageInv(n, i, s)'
      BY <1>1, <1>6, <3>4 DEF StageInv
    <3>. QED  BY <3>2, <3>5
  <2>. QED  BY <1>1, <2>1, <2>3, <2>4, <2>5, ImportKeep
<1>. QED  BY <1>7, <1>8, <1>9 DEF ReplayKept

\* zil_replay_log_record()
LEMMA zil_replay_log_recordReplay ==
  ASSUME ZilInv, BookInv, ChainInv, ReplayInv, zil_replay_log_record
  PROVE  /\ ReplayKept
         /\ \A j \in DOMAIN home : home'[j] \notin {0, home[j]} => home[j] = 0
<1>0. mode = "replay" /\ ~Opened
  BY DEF zil_replay_log_record, Opened, Importing
<1>1. PICK L : L = DiskLog
  OBVIOUS
<1>2. zh.log # NULL /\ QuietInv /\ ClaimInv /\ MarkInv /\ r.pos \in 0 .. Len(L)
  BY <1>0, <1>1, ImportHead
<1>3. L = Log
  BY <1>1, <1>2 DEF ClaimInv, DiskLog, Log
<1>4. IsRecords(L) /\ Len(L) \in Nat /\ DOMAIN L = 1 .. Len(L)
  BY <1>1, DiskLogRecords DEF ReplayInv, IsRecords
<1>5. r.pos < Len(L)
  BY <1>3 DEF zil_replay_log_record
<1>6. PICK q, j, u : q = r.pos + 1 /\ j = L[q].itx /\ u = L[q].seq
  OBVIOUS
<1>7. q \in 1 .. Len(L) /\ q \in DOMAIN L /\ Entry(L, q, j, u) /\ r.pos \in Nat
  BY <1>2, <1>4, <1>5, <1>6 DEF Entry
<1>8. /\ EntryInv(j, u) /\ StageInv(q, j, u) /\ j \in 1 .. Len(rec) /\ u \in Nat \ {0}
      /\ home[j] \in Nat /\ rec[j].txg \in Nat
  BY <1>0, <1>1, <1>7, ImportUse
<1>9. DOMAIN r = {"txg", "pos"} /\ zl.replayed \in [0 .. TXG_SIZE - 1 -> Nat] /\ IsZl(zl)
  BY DEF ReplayInv, HeaderInv, ZilInv, ShapeInv
<1>10. /\ r' = [r EXCEPT !.pos = q] /\ mode' = "replay"
       /\ UNCHANGED <<open, stable, zsynced, blk, zh, zh_disk, rec, crashes>>
       /\ \/ (u <= zh.replay_seq \/ rec[j].txg < zh.claim_txg) /\ UNCHANGED <<home, zl, dirty>>
          \/ /\ ~(u <= zh.replay_seq \/ rec[j].txg < zh.claim_txg)
             /\ home' = [home EXCEPT ![j] = open]
             /\ zl' = [zl EXCEPT !.replayed[open % TXG_SIZE] = u]
             /\ dirty' = dirty \cup {open}
  BY <1>0, <1>3, <1>6 DEF zil_replay_log_record, NextPos, NotNeeded, gc_vars
<1>11. DOMAIN r' = {"txg", "pos"} /\ r'.pos = q
  BY <1>9, <1>10
<1>12. DiskLog' = L /\ ClaimTxg' = ClaimTxg /\ Unsynced' = Unsynced
  BY <1>1, <1>10 DEF DiskLog, ClaimTxg, Unsynced, Synced
<1>13. zh.claim_txg = ClaimTxg /\ zh.replay_seq \in Nat /\ zh_disk.replay_seq \in Nat
       /\ zh_disk.replay_seq <= zh.replay_seq /\ ClaimTxg \in Nat
  BY <1>0, <1>2 DEF ClaimInv, ReplayInv, HeaderInv, ClaimTxg, ZilInv, GroupInv
<1>14. open \in Nat /\ stable \in Nat /\ stable < open /\ (zsynced => stable + 1 < open)
       /\ zsynced \in BOOLEAN /\ open <= stable + 3 /\ home \in Seq(Nat) /\ Len(home) = Len(rec)
  BY DEF ZilInv, GroupInv, ReplayInv, HomeInv
<1>15. DOMAIN home = 1 .. Len(rec)
  BY <1>14
<1>16. q \in 0 .. Len(L)
  BY <1>7
<1>17. CASE /\ u <= zh.replay_seq \/ rec[j].txg < zh.claim_txg
            /\ UNCHANGED <<home, zl, dirty>>
  <2>1. HomeInv'
    BY <1>0, <1>10, <1>17 DEF ReplayInv, HomeInv
  <2>2. HeaderInv'
    BY <1>0, <1>10, <1>11, <1>17 DEF ReplayInv, HeaderInv, Fresh
  <2>3. \A g : Mark(g)' = Mark(g)
    BY <1>17 DEF Mark
  <2>4. QuietInv' /\ ClaimInv'
    <3>1. QuietInv'
      BY <1>2, <1>10, <1>17 DEF QuietInv
    <3>2. ClaimInv'
      BY <1>0, <1>2, <1>10, <1>12, <1>17 DEF ClaimInv
    <3>. QED  BY <3>1, <3>2
  <2>5. MarkInv'
    BY <1>2, <1>10, <1>12, <1>17, <2>3 DEF MarkInv
  <2>6. home[j] # 0
    <3>1. CASE rec[j].txg < ClaimTxg
      BY <1>8, <1>14, <3>1 DEF EntryInv
    <3>2. CASE rec[j].txg >= ClaimTxg
      <4>1. u <= zh.replay_seq
        BY <1>8, <1>13, <1>17, <3>2
      <4>2. CASE zsynced
        BY <1>2, <1>8, <1>14, <3>2, <4>1, <4>2 DEF EntryInv
      <4>3. CASE ~zsynced
        BY <1>2, <1>8, <1>14, <3>2, <4>1, <4>3 DEF EntryInv, ClaimInv
      <4>. QED  BY <1>14, <4>2, <4>3
    <3>. QED  BY <1>8, <1>13, <3>1, <3>2
  <2>7. ASSUME NEW n, NEW i, NEW s, Entry(L, n, i, s)
        PROVE  EntryInv(i, s)' /\ StageInv(n, i, s)'
    <3>1. EntryInv(i, s) /\ StageInv(n, i, s) /\ n \in 1 .. Len(L)
      BY <1>0, <1>1, <2>7, ImportUse
    <3>2. EntryInv(i, s)'
      BY <1>10, <1>12, <1>17, <2>3, <3>1 DEF EntryInv
    <3>3. n = q => i = j
      BY <1>7, <2>7 DEF Entry
    <3>4. n <= q => n <= r.pos \/ n = q
      BY <1>4, <1>6, <1>7, <3>1
    <3>5. n > q => n > r.pos
      BY <1>4, <1>6, <1>7, <3>1
    <3>6. StageInv(n, i, s)'
      BY <1>0, <1>10, <1>11, <1>12, <1>17, <2>3, <2>6, <3>1, <3>3, <3>4, <3>5 DEF StageInv
    <3>. QED  BY <3>2, <3>6
  <2>8. ImportInv'
    BY <1>11, <1>12, <1>16, <2>4, <2>5, <2>7, ImportKeep
  <2>. QED  BY <1>17, <2>1, <2>2, <2>8 DEF ReplayKept
<1>18. CASE /\ ~(u <= zh.replay_seq \/ rec[j].txg < zh.claim_txg)
            /\ home' = [home EXCEPT ![j] = open]
            /\ zl' = [zl EXCEPT !.replayed[open % TXG_SIZE] = u]
            /\ dirty' = dirty \cup {open}
  <2>0. zh.replay_seq < u /\ rec[j].txg >= ClaimTxg
    BY <1>8, <1>13, <1>18
  <2>1. /\ home' \in Seq(Nat) /\ Len(home') = Len(rec) /\ DOMAIN home' = 1 .. Len(rec)
        /\ home'[j] = open /\ \A i \in 1 .. Len(rec) : i # j => home'[i] = home[i]
    BY <1>8, <1>14, <1>18
  <2>2. open % TXG_SIZE \in 0 .. TXG_SIZE - 1
    BY <1>14, MarkSlots
  <2>3. /\ zl'.replayed = [zl.replayed EXCEPT ![open % TXG_SIZE] = u]
        /\ zl'.destroy_txg = zl.destroy_txg
    BY <1>9, <1>18 DEF IsZl
  <2>4. \A i \in 1 .. Len(rec) : rec[i].boot # crashes
    BY <1>0 DEF ReplayInv, HomeInv
  <2>5. HomeInv'
    <3>1. ASSUME NEW i \in 1 .. Len(rec)
          PROVE  home'[i] <= open /\ (home'[i] > stable => home'[i] \in dirty')
      <4>1. CASE i = j
        BY <1>14, <1>18, <2>1, <4>1
      <4>2. CASE i # j
        BY <1>18, <2>1, <4>2 DEF ReplayInv, HomeInv
      <4>. QED  BY <4>1, <4>2
    <3>. QED  BY <1>10, <1>14, <2>1, <2>4, <3>1 DEF HomeInv
  <2>6. zl'.replayed \in [0 .. TXG_SIZE - 1 -> Nat]
    BY <1>8, <1>9, <2>2, <2>3
  <2>7. HeaderInv'
    BY <1>0, <1>10, <1>11, <2>6 DEF ReplayInv, HeaderInv, Fresh
  <2>8. open \in Unsynced /\ \A g \in Unsynced : g \in Nat /\ g <= open /\ stable < g
    BY <1>14, UnsyncedIs
  <2>9. \A g \in Unsynced : g = open => Mark(g)' = u
    BY <1>9, <2>2, <2>3 DEF Mark
  <2>10. \A g \in Unsynced : g # open => Mark(g)' = Mark(g)
    <3>. SUFFICES ASSUME NEW g \in Unsynced, g # open
                  PROVE  Mark(g)' = Mark(g)
      OBVIOUS
    <3>1. g \in Nat /\ g < open /\ open < g + TXG_SIZE
      BY <1>14, <2>8 DEF TXG_SIZE
    <3>2. g % TXG_SIZE # open % TXG_SIZE /\ g % TXG_SIZE \in 0 .. TXG_SIZE - 1
      BY <1>14, <3>1, MarkSlots
    <3>. QED  BY <1>9, <2>3, <3>2 DEF Mark
  <2>11. \A g \in Unsynced : Mark(g) \in Nat /\ Mark(g) < u
    <3>1. \A g \in Unsynced : Mark(g) < u
      BY <1>0, <1>4, <1>6, <1>7, <1>8 DEF StageInv
    <3>2. \A g \in Unsynced : g % TXG_SIZE \in 0 .. TXG_SIZE - 1
      BY <2>8, MarkSlots
    <3>. QED  BY <1>9, <3>1, <3>2 DEF Mark
  <2>12. QuietInv' /\ ClaimInv'
    <3>1. QuietInv'
      BY <1>2, <1>10, <2>3 DEF QuietInv
    <3>2. ClaimInv'
      BY <1>0, <1>2, <1>10, <1>12, <1>18 DEF ClaimInv
    <3>. QED  BY <3>1, <3>2
  <2>13. MarkInv'
    <3>1. ASSUME NEW x \in 0 .. TXG_SIZE - 1, zl'.replayed[x] # 0
          PROVE  \E g \in Unsynced : g \in dirty' /\ x = g % TXG_SIZE
      <4>1. CASE x = open % TXG_SIZE
        BY <1>18, <2>8, <4>1
      <4>2. CASE x # open % TXG_SIZE
        <5>1. zl'.replayed[x] = zl.replayed[x]
          BY <1>9, <2>3, <4>2
        <5>. QED  BY <1>2, <1>18, <3>1, <5>1 DEF MarkInv
      <4>. QED  BY <4>1, <4>2
    <3>2. ASSUME NEW g \in Unsynced, Mark(g)' # 0
          PROVE  zh.replay_seq <= Mark(g)' /\ \A h \in Unsynced : h < g => Mark(h)' <= Mark(g)'
      <4>1. CASE g = open
        BY <1>8, <1>13, <2>0, <2>8, <2>9, <2>10, <2>11, <4>1
      <4>2. CASE g # open
        <5>1. Mark(g)' = Mark(g) /\ \A h \in Unsynced : h < g => h # open
          BY <2>8, <2>10, <4>2
        <5>. QED  BY <1>2, <2>10, <3>2, <5>1 DEF MarkInv
      <4>. QED  BY <4>1, <4>2
    <3>. QED  BY <1>10, <1>12, <3>1, <3>2 DEF MarkInv
  <2>14. ASSUME NEW n, NEW i, NEW s, Entry(L, n, i, s)
         PROVE  EntryInv(i, s)' /\ StageInv(n, i, s)'
    <3>1. /\ EntryInv(i, s) /\ StageInv(n, i, s) /\ n \in 1 .. Len(L) /\ i \in 1 .. Len(rec)
          /\ s \in Nat \ {0} /\ home[i] \in Nat /\ home[i] <= open
      BY <1>0, <1>1, <2>14, ImportUse
    <3>2. /\ n < q => s < u
          /\ q < n => u < s
          /\ i = j => n = q
      BY <1>4, <1>7, <2>14, <3>1 DEF Entry, IsRecords
    <3>3. CASE n = q
      <4>1. i = j /\ s = u
        BY <1>7, <2>14, <3>3 DEF Entry
      <4>2. EntryInv(i, s)'
        <5>1. ASSUME NEW g \in Unsynced
              PROVE  (home'[i] = g => s <= Mark(g)') /\ (s <= Mark(g)' => home'[i] \in 1 .. g)
          <6>1. CASE g = open
            BY <1>8, <1>14, <2>1, <2>9, <4>1, <6>1
          <6>2. CASE g # open
            BY <1>8, <2>1, <2>10, <2>11, <4>1, <6>2
          <6>. QED  BY <6>1, <6>2
        <5>2. home'[i] = open /\ ~(rec[i].txg < ClaimTxg)
          BY <1>8, <1>13, <2>0, <2>1, <4>1
        <5>3. ~(s <= zh_disk.replay_seq) /\ ~(home'[i] \in 1 .. stable)
          BY <1>8, <1>13, <1>14, <2>0, <4>1, <5>2
        <5>4. ~(s <= zh.replay_seq) /\ (zsynced => ~(home'[i] \in 1 .. stable + 1))
          BY <1>8, <1>13, <1>14, <2>0, <4>1, <5>2
        <5>. QED  BY <1>10, <1>12, <5>1, <5>2, <5>3, <5>4 DEF EntryInv
      <4>3. StageInv(n, i, s)'
        BY <1>7, <1>10, <1>11, <1>14, <2>1, <3>3, <4>1 DEF StageInv
      <4>. QED  BY <4>2, <4>3
    <3>4. CASE n # q
      <4>1. i # j /\ home'[i] = home[i]
        BY <2>1, <2>14, <1>7, <1>4, <3>1, <3>4 DEF Entry, IsRecords
      <4>2. EntryInv(i, s)'
        <5>1. ASSUME rec[i].txg >= ClaimTxg, NEW g \in Unsynced
              PROVE  (home[i] = g => s <= Mark(g)') /\ (s <= Mark(g)' => home[i] \in 1 .. g)
          <6>1. CASE g = open
            <7>1. home[i] = open => s <= u
              <8>1. home[i] = open => s <= Mark(open)
                BY <1>2, <2>8, <3>1, <5>1 DEF EntryInv
              <8>. QED  BY <1>8, <2>8, <2>11, <3>1, <8>1
            <7>2. s <= u => n < q
              BY <1>4, <1>7, <1>8, <3>1, <3>2, <3>4
            <7>3. n < q => home[i] # 0
              BY <1>0, <1>4, <1>6, <1>7, <3>1 DEF StageInv
            <7>. QED  BY <1>14, <2>9, <3>1, <6>1, <7>1, <7>2, <7>3
          <6>2. CASE g # open
            BY <1>2, <2>10, <3>1, <5>1, <6>2 DEF EntryInv
          <6>. QED  BY <6>1, <6>2
        <5>. QED  BY <1>2, <1>10, <1>12, <3>1, <4>1, <5>1 DEF EntryInv
      <4>3. n <= q => n <= r.pos
        BY <1>4, <1>6, <1>7, <3>1, <3>4
      <4>4. n > q => n > r.pos /\ u < s
        BY <1>4, <1>6, <1>7, <3>1, <3>2
      <4>5. ASSUME n > q
            PROVE  home[i] <= stable /\ \A g \in Unsynced : Mark(g)' < s
        <5>1. home[i] <= stable /\ \A g \in Unsynced : Mark(g) < s
          BY <1>0, <3>1, <4>4, <4>5 DEF StageInv
        <5>. QED  BY <2>9, <2>10, <4>4, <4>5, <5>1
      <4>6. n <= q => home[i] # 0
        BY <1>0, <3>1, <4>3 DEF StageInv
      <4>7. StageInv(n, i, s)'
        BY <1>10, <1>11, <1>12, <4>1, <4>5, <4>6 DEF StageInv
      <4>. QED  BY <4>2, <4>7
    <3>. QED  BY <3>3, <3>4
  <2>15. ImportInv'
    BY <1>11, <1>12, <1>16, <2>12, <2>13, <2>14, ImportKeep
  <2>16. home[j] = 0
    <3>1. home[j] <= stable /\ ~(home[j] \in 1 .. stable)
      <4>1. home[j] <= stable
        BY <1>0, <1>4, <1>6, <1>7, <1>8 DEF StageInv
      <4>2. ~(u <= zh_disk.replay_seq)
        BY <1>8, <1>13, <2>0
      <4>. QED  BY <1>8, <2>0, <4>1, <4>2 DEF EntryInv
    <3>. QED  BY <1>8, <1>14, <3>1
  <2>17. \A i \in DOMAIN home : home'[i] \notin {0, home[i]} => home[i] = 0
    BY <1>15, <2>1, <2>16
  <2>. QED  BY <2>5, <2>7, <2>15, <2>17 DEF ReplayKept
<1>. QED  BY <1>10, <1>17, <1>18

\* How zil_sync() moves a mark to the header.
LEMMA SyncMark ==
  ASSUME ZilInv, zil_sync
  PROVE  LET G == stable + 1 IN
         /\ zl.lwb # <<>> => /\ zh'.claim_txg = zh.claim_txg /\ zh'.needed = zh.needed
                             /\ zh'.replay_seq = zh.replay_seq /\ zl'.replayed = NoLog.replayed
         /\ zl.lwb = <<>> /\ zl.destroy_txg = G =>
              /\ zh'.log = (IF zl.keep_first THEN zh.log ELSE NULL) /\ Fresh(zh')
              /\ zl'.replayed = NoLog.replayed
         /\ zl.lwb = <<>> /\ zl.destroy_txg # G =>
              /\ zh'.log = zh.log /\ zh'.claim_txg = zh.claim_txg /\ zh'.needed = zh.needed
              /\ zh'.replay_seq = (IF Mark(G) = 0 THEN zh.replay_seq ELSE Mark(G))
              /\ zl'.replayed = [zl.replayed EXCEPT ![G % TXG_SIZE] = 0]
         /\ zl'.destroy_txg = zl.destroy_txg /\ zl'.keep_first = zl.keep_first
<1>. DEFINE G == stable + 1
            g == G % TXG_SIZE
            k == Cardinality(Obsolete(G))
            rest == SubSeq(zl.lwb, k + 1, Len(zl.lwb))
<1>1. IsHeader(zh) /\ IsZl(zl)
  BY DEF ZilInv, ShapeInv
<1>2. rest \in Seq(Blocks)
  <2>1. k \in Nat
    BY ObsoleteFact DEF zil_sync
  <2>2. zl.lwb \in Seq(Blocks)
    BY DEF ZilInv, ShapeInv
  <2>. HIDE DEF k
  <2>. QED  BY <2>1, <2>2, DropFact
<1>3. SyncsHeader(rest)
  BY <1>2, SyncHeaderFact
<1>4. \E s, f : zl' = [zl EXCEPT !.lwb = s, !.replayed = f]
  BY DEF zil_sync
<1>5. zl'.destroy_txg = zl.destroy_txg /\ zl'.keep_first = zl.keep_first
  BY <1>1, <1>4 DEF IsZl
<1>6. ASSUME zl.lwb = <<>>, zl.destroy_txg # G
      PROVE  /\ zh'.replay_seq = (IF Mark(G) = 0 THEN zh.replay_seq ELSE Mark(G))
             /\ zl'.replayed = [zl.replayed EXCEPT ![g] = 0]
  <2>1. /\ zh' = IF zl.replayed[g] = 0 THEN zh ELSE [zh EXCEPT !.replay_seq = zl.replayed[g]]
        /\ zl' = [zl EXCEPT !.lwb = rest, !.replayed = [zl.replayed EXCEPT ![g] = 0]]
    BY <1>6 DEF zil_sync
  <2>. HIDE DEF rest, g
  <2>2. zh'.replay_seq = IF zl.replayed[g] = 0 THEN zh.replay_seq ELSE zl.replayed[g]
    BY <1>1, <2>1 DEF IsHeader
  <2>3. zl'.replayed = [zl.replayed EXCEPT ![g] = 0]
    BY <1>1, <2>1 DEF IsZl
  <2>. QED  BY <2>2, <2>3 DEF Mark, g
<1>. QED  BY <1>3, <1>5, <1>6 DEF SyncsHeader

\* zil_sync()
LEMMA zil_syncReplay ==
  ASSUME ZilInv, BookInv, ChainInv, ReplayInv, zil_sync
  PROVE  ReplayKept
<1>. DEFINE G == stable + 1
            k == Cardinality(Obsolete(G))
            X == {zl.lwb[n] : n \in 1 .. k}
<1>1. /\ mode # "down" /\ G < open /\ G \in dirty /\ ~zsynced /\ zsynced'
      /\ blk' = FreeBlocks(X, G)
      /\ UNCHANGED <<open, stable, dirty, zh_disk, rec, home, mode, r, crashes>>
  BY DEF zil_sync, Quiesced, gc_vars, fs_vars, import_vars
<1>2. /\ open \in Nat /\ stable \in Nat /\ G \in Nat /\ G # 0 /\ open <= stable + 3
      /\ zl.replayed \in [0 .. TXG_SIZE - 1 -> Nat] /\ zh.replay_seq \in Nat
      /\ zh_disk.replay_seq \in Nat /\ zh.claim_txg \in Nat
  BY DEF ZilInv, GroupInv, ReplayInv, HomeInv, HeaderInv
<1>3. G % TXG_SIZE \in 0 .. TXG_SIZE - 1 /\ Mark(G) \in Nat
  <2>1. G % TXG_SIZE \in 0 .. TXG_SIZE - 1
    BY <1>2, MarkSlots
  <2>. QED  BY <1>2, <2>1 DEF Mark
<1>4. HomeInv'
  BY <1>1 DEF ReplayInv, HomeInv
<1>5. mode = "up" \/ Opened => Mark(G) = 0 /\ zl.replayed = NoLog.replayed
  <2>1. mode = "up" \/ Opened => zl.replayed = NoLog.replayed
    <3>1. CASE mode = "up"
      BY <3>1 DEF ReplayInv, HeaderInv
    <3>2. CASE mode # "up" /\ Opened
      <4>1. mode = "replayed" /\ ~Destroying
        BY <3>2 DEF Opened, Importing, Destroying, Synced, SyncedIn, ZilInv, ShapeInv, Modes
      <4>. QED  BY <4>1 DEF ZilInv, DestroyInv
    <3>. QED  BY <3>1, <3>2
  <2>. QED  BY <1>3, <2>1 DEF Mark, NoLog
<1>6. zh'.claim_txg = 0 => Fresh(zh')
  <2>. SUFFICES ASSUME zh'.claim_txg = 0
                PROVE  Fresh(zh')
    OBVIOUS
  <2>1. CASE zl.lwb # <<>>
    BY <2>1, SyncMark DEF ReplayInv, HeaderInv, Fresh
  <2>2. CASE zl.lwb = <<>> /\ zl.destroy_txg = G
    BY <2>2, SyncMark
  <2>3. CASE zl.lwb = <<>> /\ zl.destroy_txg # G
    <3>1. Fresh(zh) /\ zh.claim_txg = 0 /\ zh'.needed = zh.needed
      BY <2>3, SyncMark DEF ReplayInv, HeaderInv
    <3>2. Mark(G) = 0
      <4>. SUFFICES ASSUME Mark(G) # 0
                    PROVE  FALSE
        OBVIOUS
      <4>1. ~Opened /\ mode # "up"
        BY <1>5
      <4>2. zh.log = NULL
        <5>. SUFFICES ASSUME zh.log # NULL
                      PROVE  FALSE
          OBVIOUS
        <5>1. ClaimInv /\ ClaimTxg # 0
          BY <1>2, <4>1, ImportHead DEF ClaimTxg
        <5>. QED  BY <1>1, <3>1, <5>1 DEF ClaimInv
      <4>3. mode # "replayed" /\ mode # "replay"
        <5>1. mode # "replay"
          BY <4>1, <4>2, ImportHead
        <5>2. mode = "replayed" => Destroying
          <6>1. mode = "replayed" => zl.destroy_txg > stable
            BY <4>1, ImportHead
          <6>. QED  BY <1>1, <1>2, <6>1 DEF Destroying, Synced, SyncedIn, ZilInv, ShapeInv
        <5>. QED  BY <4>2, <5>1, <5>2 DEF ZilInv, DestroyInv
      <4>4. mode \in {"down", "claimed"}
        BY <4>1, <4>3 DEF ZilInv, ShapeInv, Modes
      <4>5. zl.replayed = NoLog.replayed
        BY <4>4 DEF ZilInv, DestroyInv
      <4>. QED  BY <1>3, <4>5 DEF Mark, NoLog
    <3>. QED  BY <2>3, <3>1, <3>2, SyncMark DEF Fresh
  <2>. QED  BY <2>1, <2>2, <2>3
<1>7. /\ zh'.claim_txg \in Nat /\ zh'.replay_seq \in Nat /\ (~zh.needed => ~zh'.needed)
      /\ zl'.keep_first = zl.keep_first
      /\ zl'.replayed \in [0 .. TXG_SIZE - 1 -> Nat]
      /\ mode = "up" => zl'.replayed = NoLog.replayed
  <2>0. NoLog.replayed \in [0 .. TXG_SIZE - 1 -> Nat]
    BY DEF NoLog
  <2>1. CASE zl.lwb # <<>>
    BY <1>2, <2>0, <2>1, SyncMark
  <2>2. CASE zl.lwb = <<>> /\ zl.destroy_txg = G
    BY <2>0, <2>2, SyncMark DEF Fresh
  <2>3. CASE zl.lwb = <<>> /\ zl.destroy_txg # G
    <3>0. zl'.replayed = [zl.replayed EXCEPT ![G % TXG_SIZE] = 0]
      BY <2>3, SyncMark
    <3>1. zl'.replayed \in [0 .. TXG_SIZE - 1 -> Nat]
      BY <1>2, <1>3, <3>0
    <3>2. mode = "up" => zl'.replayed = NoLog.replayed
      BY <1>3, <1>5, <2>3, SyncMark DEF NoLog
    <3>. QED  BY <1>2, <1>3, <2>3, <3>1, <3>2, SyncMark
  <2>. QED  BY <2>1, <2>2, <2>3
<1>8. HeaderInv'
  BY <1>1, <1>6, <1>7 DEF ReplayInv, HeaderInv, Fresh
<1>9. CASE Opened
  <2>1. Opened'
    BY <1>1, <1>9, SyncMark DEF Opened, Importing
  <2>. QED  BY <1>4, <1>8, <2>1 DEF ReplayKept, ImportInv
<1>10. CASE ~Opened
  <2>1. PICK L : L = DiskLog
    OBVIOUS
  <2>2. /\ zl.lwb = <<>> /\ mode # "up" /\ QuietInv /\ (zh.log # NULL => ClaimInv /\ MarkInv)
        /\ mode = "replay" => r.pos \in 0 .. Len(L)
    BY <1>10, <2>1, ImportHead
  <2>3. X = {}
    <3>1. Obsolete(G) = {}
      BY <2>2 DEF Obsolete
    <3>2. k = 0
      BY <3>1, FS_EmptySet
    <3>. HIDE DEF k
    <3>. QED  BY <3>2
  <2>4. \A b \in Blocks : blk'[b] = blk[b]
    BY <1>1, <2>3 DEF FreeBlocks
  <2>5. DiskLog' = L
    BY <1>1, <2>1, <2>4, SameDiskLog DEF SameBlock
  <2>6. QuietInv'
    BY <2>2, <2>4, SyncMark DEF QuietInv
  <2>7. ClaimTxg' = ClaimTxg
    BY <1>1 DEF ClaimTxg
  <2>8. G \in Unsynced /\ \A g : g \in Unsynced' <=> g \in Unsynced /\ g # G
    BY <1>1, <1>2 DEF Unsynced, Synced, SyncedIn
  <2>9. \A g \in Unsynced : /\ g \in Nat /\ g <= open /\ stable < g /\ g % TXG_SIZE \in 0 .. TXG_SIZE - 1
                            /\ g # G => G < g /\ g % TXG_SIZE # G % TXG_SIZE
    <3>1. \A g \in Unsynced : /\ g \in Nat /\ g <= open /\ stable < g
                              /\ g # G => G < g /\ g < G + TXG_SIZE
      BY <1>2, UnsyncedIs DEF TXG_SIZE
    <3>. QED  BY <1>2, <3>1, MarkSlots
  <2>10. CASE zl.destroy_txg = G
    <3>1. mode = "replayed" /\ ~zl.keep_first
      <4>1. mode = "replayed"
        BY <1>2, <1>10, <2>10, ImportHead
      <4>. QED  BY <4>1 DEF ReplayInv, HeaderInv
    <3>2. zh'.log = NULL /\ zl'.destroy_txg = G
      BY <2>2, <2>10, <3>1, SyncMark
    <3>3. ASSUME NEW n, NEW i, NEW s, Entry(L, n, i, s)
          PROVE  EntryInv(i, s)' /\ StageInv(n, i, s)'
      <4>1. EntryInv(i, s) /\ StageInv(n, i, s)
        BY <1>10, <2>1, <3>3, ImportUse
      <4>2. EntryInv(i, s)'
        BY <1>1, <2>7, <3>2, <4>1 DEF EntryInv
      <4>3. StageInv(n, i, s)'
        BY <1>1, <2>10, <3>1, <3>2, <4>1 DEF StageInv
      <4>. QED  BY <4>2, <4>3
    <3>4. ImportInv'
      BY <1>1, <2>2, <2>5, <2>6, <3>2, <3>3, ImportKeep
    <3>. QED  BY <1>4, <1>8, <3>4 DEF ReplayKept
  <2>11. CASE zl.destroy_txg # G
    <3>1. /\ zh'.log = zh.log /\ zh'.claim_txg = zh.claim_txg /\ zh'.needed = zh.needed
          /\ zh'.replay_seq = (IF Mark(G) = 0 THEN zh.replay_seq ELSE Mark(G))
          /\ zl'.replayed = [zl.replayed EXCEPT ![G % TXG_SIZE] = 0]
          /\ zl'.destroy_txg = zl.destroy_txg
      BY <2>2, <2>11, SyncMark
    <3>2. \A g \in Unsynced : g # G => Mark(g)' = Mark(g)
      BY <1>2, <2>9, <3>1 DEF Mark
    <3>3. ASSUME zh.log # NULL
          PROVE  ClaimInv' /\ MarkInv'
      <4>1. ClaimInv /\ MarkInv
        BY <2>2, <3>3
      <4>2. zh.replay_seq = zh_disk.replay_seq /\ (Mark(G) # 0 => zh.replay_seq <= Mark(G))
        BY <1>1, <2>8, <4>1 DEF ClaimInv, MarkInv
      <4>3. ClaimInv'
        BY <1>1, <1>2, <1>3, <2>7, <3>1, <4>1, <4>2 DEF ClaimInv
      <4>4. ASSUME NEW x \in 0 .. TXG_SIZE - 1, zl'.replayed[x] # 0
            PROVE  \E g \in Unsynced' : g \in dirty /\ x = g % TXG_SIZE
        <5>1. x # G % TXG_SIZE /\ zl.replayed[x] # 0
          BY <1>2, <1>3, <3>1, <4>4
        <5>2. PICK g \in Unsynced : g \in dirty /\ x = g % TXG_SIZE
          BY <4>1, <5>1 DEF MarkInv
        <5>. QED  BY <2>8, <5>1, <5>2
      <4>5. ASSUME NEW g \in Unsynced', Mark(g)' # 0
            PROVE  zh'.replay_seq <= Mark(g)' /\ \A h \in Unsynced' : h < g => Mark(h)' <= Mark(g)'
        <5>1. g \in Unsynced /\ g # G /\ Mark(g)' = Mark(g) /\ G < g
          BY <2>8, <2>9, <3>2
        <5>2. zh.replay_seq <= Mark(g) /\ \A h \in Unsynced : h < g => Mark(h) <= Mark(g)
          BY <4>1, <4>5, <5>1 DEF MarkInv
        <5>3. zh'.replay_seq <= Mark(g)
          BY <2>8, <3>1, <5>1, <5>2
        <5>. QED  BY <2>8, <3>2, <5>1, <5>2, <5>3
      <4>6. MarkInv'
        BY <1>1, <4>4, <4>5 DEF MarkInv
      <4>. QED  BY <4>3, <4>6
    <3>4. ASSUME NEW n, NEW i, NEW s, Entry(L, n, i, s)
          PROVE  EntryInv(i, s)' /\ StageInv(n, i, s)'
      <4>1. /\ EntryInv(i, s) /\ StageInv(n, i, s) /\ s \in Nat \ {0} /\ home[i] \in Nat
        BY <1>10, <2>1, <3>4, ImportUse
      <4>2. ASSUME zh.log # NULL, rec[i].txg >= ClaimTxg
            PROVE  s <= zh'.replay_seq <=> home[i] \in 1 .. G
        <5>1. /\ zh.replay_seq = zh_disk.replay_seq
              /\ s <= zh.replay_seq <=> home[i] \in 1 .. stable
              /\ home[i] = G => s <= Mark(G)
              /\ s <= Mark(G) => home[i] \in 1 .. G
              /\ Mark(G) # 0 => zh.replay_seq <= Mark(G)
          BY <1>1, <2>2, <2>8, <4>1, <4>2 DEF EntryInv, ClaimInv, MarkInv
        <5>2. home[i] \in 1 .. G <=> home[i] \in 1 .. stable \/ home[i] = G
          BY <1>2
        <5>. QED  BY <1>2, <1>3, <3>1, <4>1, <5>1, <5>2
      <4>3. ASSUME zh.log # NULL, rec[i].txg >= ClaimTxg, NEW g \in Unsynced'
            PROVE  (home[i] = g => s <= Mark(g)') /\ (s <= Mark(g)' => home[i] \in 1 .. g)
        <5>1. g \in Unsynced /\ Mark(g)' = Mark(g)
          BY <2>8, <3>2, <4>3
        <5>. QED  BY <4>1, <4>3, <5>1 DEF EntryInv
      <4>4. EntryInv(i, s)'
        BY <1>1, <2>7, <3>1, <4>1, <4>2, <4>3 DEF EntryInv
      <4>5. StageInv(n, i, s)'
        BY <1>1, <2>8, <3>1, <3>2, <4>1 DEF StageInv
      <4>. QED  BY <4>4, <4>5
    <3>5. ImportInv'
      BY <1>1, <2>2, <2>5, <2>6, <3>1, <3>3, <3>4, ImportKeep
    <3>. QED  BY <1>4, <1>8, <3>5 DEF ReplayKept
  <2>. QED  BY <2>10, <2>11
<1>. QED  BY <1>9, <1>10

\* A group is on disk.
LEMMA StabilizeReplay ==
  ASSUME ZilInv, BookInv, ChainInv, ReplayInv, Stabilize
  PROVE  ReplayKept
<1>. DEFINE G == stable + 1
            x == zl.clean \/ (G \in dirty /\ zl.itx # <<>> /\ rec[Head(zl.itx)].txg <= G)
<1>1. /\ mode # "down" /\ G < open /\ stable' = G /\ (G \in dirty => zsynced)
      /\ zh_disk' = (IF G \in dirty THEN zh ELSE zh_disk)
      /\ blk' = [b \in Blocks |-> IF blk[b].freed = G THEN NoBlk ELSE Flushed[b]]
      /\ zl' = [zl EXCEPT !.clean = x] /\ dirty' = dirty \ {G} /\ ~zsynced'
      /\ UNCHANGED <<open, zh, rec, home, mode, r, crashes>>
  BY DEF Stabilize, GC!Stabilize, fs_vars, import_vars
<1>. HIDE DEF x
<1>2. /\ open \in Nat /\ stable \in Nat /\ G \in Nat /\ G # 0 /\ open <= stable + 3
      /\ zsynced \in BOOLEAN /\ (zsynced <=> G \in dirty)
  BY <1>1 DEF ZilInv, GroupInv, ReplayInv, HomeInv, ChainInv, OpenInv
<1>3. zl'.replayed = zl.replayed /\ zl'.destroy_txg = zl.destroy_txg /\ zl'.keep_first = zl.keep_first
  BY <1>1 DEF ZilInv, ShapeInv, IsZl
<1>4. HomeInv'
  BY <1>1, <1>2 DEF ReplayInv, HomeInv
<1>5. HeaderInv'
  BY <1>1, <1>3 DEF ReplayInv, HeaderInv, Fresh
<1>6. CASE Opened'
  BY <1>4, <1>5, <1>6 DEF ReplayKept, ImportInv
<1>7. CASE ~Opened'
  <2>0. ~Opened /\ (mode = "replayed" => zl.destroy_txg > G)
    BY <1>1, <1>2, <1>3, <1>7 DEF Opened, Importing, ZilInv, ShapeInv
  <2>1. PICK L : L = DiskLog
    OBVIOUS
  <2>2. /\ zh.log = NULL /\ mode # "replayed" => L = <<>> /\ zh_disk.log = NULL
        /\ mode = "replay" => zh.log # NULL /\ r.pos \in 0 .. Len(L)
        /\ mode # "replayed" => zl.destroy_txg = 0
        /\ QuietInv /\ (zh.log # NULL => ClaimInv /\ MarkInv)
    BY <2>0, <2>1, ImportHead
  <2>3. mode = "replayed" => zh.log # NULL
    BY <1>2, <2>0 DEF ZilInv, DestroyInv, Destroying, Synced, SyncedIn, ShapeInv
  <2>4. zl.destroy_txg # G
    BY <1>2, <2>0, <2>2
  <2>5. \A b \in Blocks : /\ SameBlock(b) /\ blk'[b].io = blk[b].io
                          /\ blk'[b].content = blk[b].content /\ blk'[b].freed = blk[b].freed
    <3>. SUFFICES ASSUME NEW b \in Blocks
                  PROVE  /\ SameBlock(b) /\ blk'[b].io = blk[b].io
                         /\ blk'[b].content = blk[b].content /\ blk'[b].freed = blk[b].freed
      OBVIOUS
    <3>1. blk[b].freed # G /\ blk[b].content # "cache"
      BY <1>2, <2>2, <2>4 DEF QuietInv
    <3>2. blk'[b] = Flushed[b]
      BY <1>1, <3>1
    <3>. QED  BY <3>1, <3>2, FlushBlocks DEF SameBlock
  <2>6. zh_disk'.log = zh_disk.log
    <3>1. CASE zh.log = NULL
      BY <1>1, <2>2, <2>3, <3>1
    <3>2. CASE zh.log # NULL
      BY <1>1, <2>2, <3>2 DEF ClaimInv
    <3>. QED  BY <3>1, <3>2
  <2>7. DiskLog' = L
    BY <2>1, <2>5, <2>6, SameDiskLog
  <2>8. QuietInv'
    BY <1>3, <2>2, <2>5 DEF QuietInv
  <2>9. \A g : g \in Unsynced' <=> g \in Unsynced /\ g # G
    BY <1>1, <1>2 DEF Unsynced, Synced, SyncedIn
  <2>10. G \in Unsynced => G \notin dirty
    BY <1>2, UnsyncedIs
  <2>11. \A g : Mark(g)' = Mark(g)
    BY <1>3 DEF Mark
  <2>12. ASSUME zh.log # NULL
         PROVE  ClaimTxg' = ClaimTxg /\ ClaimInv' /\ MarkInv'
    <3>1. ClaimInv /\ MarkInv
      BY <2>2, <2>12
    <3>2. /\ zh.claim_txg = ClaimTxg /\ (zh_disk.claim_txg = 0 => G \in dirty) /\ ClaimTxg # 0
          /\ ~zsynced => zh.replay_seq = zh_disk.replay_seq
      BY <1>1, <1>2, <3>1 DEF ClaimInv, ClaimTxg
    <3>3. zh_disk'.claim_txg = ClaimTxg
      BY <1>1, <3>2 DEF ClaimTxg
    <3>4. ClaimTxg' = ClaimTxg
      BY <3>2, <3>3 DEF ClaimTxg
    <3>5. zh_disk'.replay_seq = zh.replay_seq /\ zh.replay_seq \in Nat
      BY <1>1, <1>2, <3>2 DEF ReplayInv, HeaderInv
    <3>6. ClaimInv'
      <4>1. zh_disk'.needed = zh.needed
        BY <1>1, <3>1, <3>2 DEF ClaimInv
      <4>2. zh_disk'.log = zh.log
        BY <1>1, <3>1 DEF ClaimInv
      <4>. QED  BY <1>1, <3>2, <3>3, <3>4, <3>5, <4>1, <4>2 DEF ClaimInv
    <3>7. MarkInv'
      <4>1. \A y \in 0 .. TXG_SIZE - 1 :
              zl'.replayed[y] # 0 => \E g \in Unsynced' : g \in dirty' /\ y = g % TXG_SIZE
        BY <1>1, <1>3, <2>9, <2>10, <3>1 DEF MarkInv
      <4>. QED  BY <1>1, <2>9, <2>11, <3>1, <4>1 DEF MarkInv
    <3>. QED  BY <3>4, <3>6, <3>7
  <2>13. ASSUME NEW n, NEW i, NEW s, Entry(L, n, i, s)
         PROVE  EntryInv(i, s)' /\ StageInv(n, i, s)'
    <3>1. /\ EntryInv(i, s) /\ StageInv(n, i, s) /\ s \in Nat \ {0} /\ home[i] \in Nat
          /\ home[i] > stable => home[i] \in dirty
      BY <2>0, <2>1, <2>13, ImportUse
    <3>2. zh.log # NULL
      <4>1. L # <<>>
        BY <2>13 DEF Entry
      <4>. QED  BY <2>2, <2>3, <4>1
    <3>3. /\ ClaimTxg' = ClaimTxg /\ ClaimInv
      BY <2>2, <2>12, <3>2
    <3>4. home[i] \in 1 .. G <=> home[i] \in 1 .. stable \/ home[i] = G
      BY <1>2
    <3>5. rec[i].txg >= ClaimTxg => (s <= zh_disk'.replay_seq <=> home[i] \in 1 .. G)
      <4>1. CASE G \in dirty
        BY <1>1, <1>2, <3>1, <3>2, <4>1 DEF EntryInv
      <4>2. CASE G \notin dirty
        <5>1. home[i] # G
          BY <1>2, <3>1, <4>2
        <5>. QED  BY <1>1, <3>1, <3>4, <4>2, <5>1 DEF EntryInv
      <4>. QED  BY <4>1, <4>2
    <3>6. EntryInv(i, s)'
      BY <1>1, <2>9, <2>11, <3>1, <3>2, <3>3, <3>4, <3>5 DEF EntryInv
    <3>7. StageInv(n, i, s)'
      <4>1. home[i] <= stable => home[i] <= G
        BY <1>2, <3>1
      <4>. QED  BY <1>1, <1>3, <2>9, <2>11, <3>1, <4>1 DEF StageInv
    <3>. QED  BY <3>6, <3>7
  <2>14. ImportInv'
    BY <1>1, <2>2, <2>7, <2>8, <2>12, <2>13, ImportKeep
  <2>. QED  BY <1>4, <1>5, <2>14 DEF ReplayKept
<1>. QED  BY <1>6, <1>7

\* A crash keeps a first part of the log: what it is made of, and what zil_parse()
\* then finds.
LEMMA CrashLog ==
  ASSUME ZilInv, BookInv, NEW D \in Seq(Blocks), NEW k \in Nat, IsLog(D, k), Crash
  PROVE  /\ D = <<>> => DiskLog' = <<>>
         /\ D # <<>> => \E m \in DOMAIN D :
              /\ EndsAt(blk', D, m) /\ LogHolds(blk, D, m, DiskLog')
              /\ \A y \in 1 .. m :
                   /\ blk'[D[y]].next = blk[D[y]].next /\ blk'[D[y]].recs = blk[D[y]].recs
                   /\ blk[D[y]].content = "disk" => blk'[D[y]].content = "disk"
                   /\ blk'[D[y]].content = "disk" =>
                        blk[D[y]].io = "issued" \/ blk[D[y]].content \in {"cache", "disk"}
              /\ zh_disk'.log = D[1]
<1>1. zh_disk' = zh_disk
  BY DEF Crash
<1>2. PICK kept \in SUBSET {b \in Blocks : blk[b].io = "issued" \/ blk[b].content = "cache"} :
        LET f == [b \in Blocks |->
                    [blk[b] EXCEPT !.freed = 0, !.max_txg = 0, !.io = "done",
                       !.content = IF b \in kept \/ @ = "disk" THEN "disk" ELSE "none"]]
            here == {b \in Blocks : OnDisk(b)} \cup Range(Chain(f, zh_disk.log))
        IN blk' = [b \in Blocks |-> IF b \in here THEN f[b] ELSE NoBlk]
  BY DEF Crash
<1>. DEFINE f == [b \in Blocks |->
                    [blk[b] EXCEPT !.freed = 0, !.max_txg = 0, !.io = "done",
                       !.content = IF b \in kept \/ @ = "disk" THEN "disk" ELSE "none"]]
            here == {b \in Blocks : OnDisk(b)} \cup Range(Chain(f, zh_disk.log))
<1>3. \A b \in Blocks : blk'[b] = IF b \in here THEN f[b] ELSE NoBlk
  BY <1>2
<1>4. ASSUME NEW b \in Blocks
      PROVE  /\ f[b].next = blk[b].next /\ f[b].recs = blk[b].recs
             /\ f[b].content = IF b \in kept \/ blk[b].content = "disk" THEN "disk" ELSE "none"
  <2>. DEFINE x == IF b \in kept \/ blk[b].content = "disk" THEN "disk" ELSE "none"
  <2>1. f[b] = [blk[b] EXCEPT !.freed = 0, !.max_txg = 0, !.io = "done", !.content = x]
    OBVIOUS
  <2>2. IsBlk(blk[b])
    BY DEF ZilInv, ShapeInv
  <2>. HIDE DEF f
  <2>. QED  BY <2>1, <2>2 DEF IsBlk
<1>5. \A b \in Blocks : b \in Range(Chain(f, zh_disk.log)) => b \in here
  OBVIOUS
<1>. HIDE DEF f, here
<1>6. Image(f)
  BY <1>4 DEF Image
<1>7. zh_disk.log = First(D) /\ Linked(D) /\ Ordered(D)
  BY DEF IsLog, Headed, Recorded
<1>8. CASE D = <<>>
  <2>1. zh_disk'.log = NULL
    BY <1>1, <1>7, <1>8 DEF First
  <2>. QED  BY <1>8, <2>1, LogRecordsNull DEF DiskLog
<1>9. CASE D # <<>>
  <2>1. PICK m \in DOMAIN D : Visits(f, D, m)
    BY <1>6, <1>7, <1>9, ImageChain
  <2>2. zh_disk.log = D[1]
    BY <1>7, <1>9 DEF First
  <2>3. m \in Nat \ {0} /\ \A y \in 1 .. m : D[y] \in Blocks
    OBVIOUS
  <2>4. \A y \in 1 .. m : blk'[D[y]] = f[D[y]]
    <3>1. \A y \in 1 .. m : D[y] \in Range(Chain(f, zh_disk.log))
      BY <2>1, <2>2 DEF Visits
    <3>. QED  BY <1>3, <1>5, <2>3, <3>1
  <2>5. \A y \in 1 .. m :
          /\ blk'[D[y]].next = blk[D[y]].next /\ blk'[D[y]].recs = blk[D[y]].recs
          /\ blk[D[y]].content = "disk" => blk'[D[y]].content = "disk"
          /\ blk'[D[y]].content = "disk" =>
               blk[D[y]].io = "issued" \/ blk[D[y]].content \in {"cache", "disk"}
    BY <1>4, <2>3, <2>4
  <2>6. m \in 1 .. m /\ \A y \in 1 .. m - 1 : y \in 1 .. m
    BY <2>3
  <2>7. EndsAt(f, D, m)
    BY <2>1 DEF Visits
  <2>8. EndsAt(blk', D, m)
    BY <2>4, <2>6, <2>7 DEF EndsAt, Valid
  <2>9. HoldRecords(blk, D, m) /\ Increase(blk, D, m)
    BY <1>7, HoldFact
  <2>10. \A y \in 1 .. m - 1 : blk'[D[y]].recs = blk[D[y]].recs
    BY <2>5, <2>6
  <2>11. HoldRecords(blk', D, m) /\ Increase(blk', D, m)
    <3>1. HoldRecords(blk', D, m)
      BY <2>9, <2>10 DEF HoldRecords
    <3>2. Increase(blk', D, m)
      BY <2>9, <2>10 DEF Increase
    <3>. QED  BY <3>1, <3>2
  <2>12. \A i, j \in DOMAIN D : D[i] = D[j] => i = j
    BY <1>7 DEF Linked
  <2>13. LogHolds(blk', D, m, LogRecords(blk', D[1]))
    BY <2>8, <2>11, <2>12, LogRecordsIs
  <2>14. DiskLog' = LogRecords(blk', D[1])
    BY <1>1, <2>2 DEF DiskLog
  <2>15. LogHolds(blk, D, m, DiskLog')
    <3>1. PICK L : L = DiskLog'
      OBVIOUS
    <3>2. LogHolds(blk', D, m, L)
      BY <2>13, <2>14, <3>1
    <3>3. ASSUME NEW n \in DOMAIN L
          PROVE  \E y \in 1 .. m - 1 : \E x \in DOMAIN blk[D[y]].recs : L[n] = blk[D[y]].recs[x]
      <4>1. PICK y \in 1 .. m - 1 : \E x \in DOMAIN blk'[D[y]].recs : L[n] = blk'[D[y]].recs[x]
        BY <3>2 DEF LogHolds
      <4>2. blk'[D[y]].recs = blk[D[y]].recs
        BY <2>10
      <4>. QED  BY <4>1, <4>2
    <3>4. ASSUME NEW y \in 1 .. m - 1, NEW x \in DOMAIN blk[D[y]].recs
          PROVE  \E n \in DOMAIN L : L[n] = blk[D[y]].recs[x]
      <4>1. blk'[D[y]].recs = blk[D[y]].recs
        BY <2>10
      <4>2. \A z \in DOMAIN blk'[D[y]].recs : \E n \in DOMAIN L : L[n] = blk'[D[y]].recs[z]
        BY <3>2 DEF LogHolds
      <4>. QED  BY <4>1, <4>2
    <3>5. LogHolds(blk, D, m, L)
      BY <3>2, <3>3, <3>4 DEF LogHolds
    <3>. QED  BY <3>1, <3>5
  <2>. QED  BY <1>1, <1>9, <2>2, <2>5, <2>8, <2>15
<1>. QED  BY <1>8, <1>9

\* A crash.
LEMMA CrashReplay ==
  ASSUME ZilInv, BookInv, ChainInv, ReplayInv, Crash
  PROVE  ReplayKept
<1>1. /\ open' = stable + 1 /\ zl' = NoLog /\ zh' = zh_disk /\ dirty' = {} /\ ~zsynced'
      /\ home' = [i \in DOMAIN home |-> IF home[i] > stable THEN 0 ELSE home[i]]
      /\ mode' = "down" /\ r' = [txg |-> 0, pos |-> 0] /\ crashes' = crashes + 1
      /\ UNCHANGED <<stable, zh_disk, rec>>
  BY DEF Crash
<1>2. /\ stable \in Nat /\ open \in Nat /\ crashes \in Nat /\ home \in Seq(Nat) /\ Len(home) = Len(rec)
      /\ DOMAIN rec = 1 .. Len(rec) /\ Len(rec) \in Nat
  BY DEF ZilInv, GroupInv, RecInv, ReplayInv, HomeInv
<1>3. /\ home' \in Seq(Nat) /\ Len(home') = Len(rec)
      /\ \A i \in 1 .. Len(rec) : /\ home'[i] = IF home[i] > stable THEN 0 ELSE home[i]
                                  /\ home[i] \in Nat /\ home'[i] \in Nat
                                  /\ home'[i] <= stable /\ rec[i].boot # crashes'
  <2>1. DOMAIN home = 1 .. Len(rec)
    BY <1>2
  <2>2. \A i \in 1 .. Len(rec) : rec[i].boot \in Nat /\ rec[i].boot <= crashes
    BY <1>2 DEF ZilInv, RecInv, IsRec
  <2>3. \A i \in 1 .. Len(rec) : home[i] \in Nat
    BY <1>2
  <2>4. \A i \in 1 .. Len(rec) : /\ home'[i] = IF home[i] > stable THEN 0 ELSE home[i]
                                 /\ home'[i] \in Nat /\ home'[i] <= stable
    BY <1>1, <1>2, <2>1, <2>3
  <2>5. home' \in [1 .. Len(rec) -> Nat]
    BY <1>1, <2>1, <2>4
  <2>6. home' \in Seq(Nat) /\ Len(home') = Len(rec)
    BY <1>2, <2>5
  <2>7. \A i \in 1 .. Len(rec) : rec[i].boot # crashes'
    BY <1>1, <1>2, <2>2
  <2>. QED  BY <2>3, <2>4, <2>6, <2>7
<1>4. HomeInv'
  <2>1. \A i \in 1 .. Len(rec) : home'[i] <= open'
    BY <1>1, <1>2, <1>3
  <2>2. \A i \in 1 .. Len(rec) : ~(home'[i] > stable)
    BY <1>2, <1>3
  <2>3. open' <= stable' + 3
    BY <1>1, <1>2
  <2>4. rec' = rec /\ stable' = stable
    BY <1>1
  <2>. QED  BY <1>3, <2>1, <2>2, <2>3, <2>4 DEF HomeInv
<1>5. NoLog.replayed = [g \in 0 .. TXG_SIZE - 1 |-> 0] /\ NoLog.destroy_txg = 0
  BY DEF NoLog
<1>6. zl'.replayed = [g \in 0 .. TXG_SIZE - 1 |-> 0] /\ zl'.destroy_txg = 0
      /\ zl'.replayed \in [0 .. TXG_SIZE - 1 -> Nat]
  BY <1>1, <1>5
<1>7. HeaderInv'
  BY <1>1, <1>6 DEF ReplayInv, HeaderInv, Fresh
<1>8. QuietInv'
  <2>1. PICK kept \in SUBSET {b \in Blocks : blk[b].io = "issued" \/ blk[b].content = "cache"} :
        LET f == [b \in Blocks |->
                    [blk[b] EXCEPT !.freed = 0, !.max_txg = 0, !.io = "done",
                       !.content = IF b \in kept \/ @ = "disk" THEN "disk" ELSE "none"]]
            here == {b \in Blocks : OnDisk(b)} \cup Range(Chain(f, zh_disk.log))
        IN blk' = [b \in Blocks |-> IF b \in here THEN f[b] ELSE NoBlk]
    BY DEF Crash
  <2>2. \A b \in Blocks : blk'[b] = NoBlk \/ \E x \in {"disk", "none"} :
          blk'[b] = [blk[b] EXCEPT !.freed = 0, !.max_txg = 0, !.io = "done", !.content = x]
    BY <2>1
  <2>3. \A b \in Blocks : IsBlk(blk[b])
    BY DEF ZilInv, ShapeInv
  <2>4. NoBlk.io = "none" /\ NoBlk.content = "none" /\ NoBlk.freed = 0
    BY DEF NoBlk
  <2>5. \A b \in Blocks : /\ blk'[b].io \in {"none", "done"} /\ blk'[b].content \in {"none", "disk"}
                          /\ blk'[b].freed = 0
    BY <2>2, <2>3, <2>4 DEF IsBlk
  <2>. QED  BY <1>6, <2>5 DEF QuietInv
<1>9. \A g : g \in Unsynced' <=> g = stable + 1
  BY <1>1, <1>2 DEF Unsynced, Synced, SyncedIn
<1>10. \A g \in Unsynced' : Mark(g)' = 0
  <2>1. (stable + 1) % TXG_SIZE \in 0 .. TXG_SIZE - 1
    BY <1>2, MarkSlots
  <2>. QED  BY <1>6, <1>9, <2>1 DEF Mark
<1>11. ClaimTxg' = ClaimTxg
  BY <1>1 DEF ClaimTxg
<1>12. ClaimInv' /\ MarkInv'
  <2>1. zh_disk.replay_seq \in Nat
    BY DEF ReplayInv, HeaderInv
  <2>2. ClaimInv'
    BY <1>1, <2>1 DEF ClaimInv
  <2>3. MarkInv'
    BY <1>6, <1>10 DEF MarkInv
  <2>. QED  BY <2>2, <2>3
<1>13. PICK L : L = DiskLog'
  OBVIOUS
<1>14. PICK D \in Seq(Blocks), k \in Nat : IsLog(D, k)
  BY DEF ChainInv
<1>15. ASSUME NEW n, NEW i, NEW s, Entry(L, n, i, s)
       PROVE  /\ i \in 1 .. Len(rec) /\ s \in Nat \ {0} /\ rec[i].txg \in Nat
              /\ rec[i].txg < ClaimTxg => home[i] \in 1 .. stable
              /\ rec[i].txg >= ClaimTxg => (s <= zh_disk.replay_seq <=> home[i] \in 1 .. stable)
  <2>1. D # <<>>
    <3>1. L # <<>>
      BY <1>15 DEF Entry
    <3>. QED  BY <1>13, <1>14, <3>1, CrashLog
  <2>2. PICK m \in DOMAIN D :
           /\ EndsAt(blk', D, m) /\ LogHolds(blk, D, m, L)
           /\ \A y \in 1 .. m :
                /\ blk'[D[y]].next = blk[D[y]].next /\ blk'[D[y]].recs = blk[D[y]].recs
                /\ blk[D[y]].content = "disk" => blk'[D[y]].content = "disk"
                /\ blk'[D[y]].content = "disk" =>
                     blk[D[y]].io = "issued" \/ blk[D[y]].content \in {"cache", "disk"}
           /\ zh_disk'.log = D[1]
    BY <1>13, <1>14, <2>1, CrashLog
  <2>3. Len(D) \in Nat /\ DOMAIN D = 1 .. Len(D) /\ m \in 1 .. Len(D)
        /\ \A y \in 1 .. m : y \in DOMAIN D /\ D[y] \in Blocks
    OBVIOUS
  <2>4. n \in DOMAIN L /\ i = L[n].itx /\ s = L[n].seq
    BY <1>15 DEF Entry
  <2>5. PICK y \in 1 .. m - 1 : \E x \in DOMAIN blk[D[y]].recs : L[n] = blk[D[y]].recs[x]
    BY <2>2, <2>4 DEF LogHolds
  <2>6. PICK x \in DOMAIN blk[D[y]].recs : L[n] = blk[D[y]].recs[x]
    BY <2>5
  <2>7. y \in DOMAIN D /\ y < Len(D) /\ D[y] \in Blocks
    BY <2>3
  <2>8. i \in 1 .. Len(rec)
    BY <2>4, <2>6, <2>7 DEF BookInv
  <2>9. s \in Nat \ {0}
    <3>1. L[n] \in Entries
      BY <2>2, <2>4 DEF LogHolds
    <3>. QED  BY <2>4, <3>1 DEF Entries
  <2>10. rec[i].txg \in Nat
    BY <1>2, <2>8 DEF ZilInv, RecInv, IsRec
  <2>11. CASE Opened
    <3>1. Current(i)
      BY <1>14, <2>4, <2>6, <2>7, <2>11 DEF IsLog, Recorded, Recent
    <3>2. home[i] = rec[i].txg /\ home[i] # 0
      BY <2>8, <3>1 DEF Current, CurrentIn, ReplayInv, HomeInv
    <3>3. zh_disk.claim_txg = 0
      <4>. SUFFICES ASSUME zh_disk.claim_txg # 0
                    PROVE  FALSE
        OBVIOUS
      <4>1. mode = "up" \/ mode = "replayed"
        BY <2>11 DEF Opened, Importing, ZilInv, ShapeInv, Modes
      <4>2. ~Importing
        BY <2>11 DEF Opened
      <4>3. ~(zl.destroy_txg <= stable)
        BY <4>2 DEF ChainInv, OpenInv, Fresh
      <4>4. mode = "up"
        BY <2>11, <4>1, <4>3 DEF Opened
      <4>5. ~zh_disk.needed
        BY <4>4 DEF ReplayInv, HeaderInv
      <4>6. zh_disk.log # NULL
        BY <1>1, <2>2, <2>3, NullFact
      <4>7. Len(D) <= 1
        BY <1>14, <4>5, <4>6 DEF IsLog
      <4>. QED  BY <2>3, <2>7, <4>7
    <3>4. ClaimTxg = stable + 1 /\ zh_disk.replay_seq = 0
      BY <3>3 DEF ClaimTxg, ReplayInv, HeaderInv, Fresh
    <3>. QED  BY <1>2, <2>8, <2>9, <2>10, <3>2, <3>4
  <2>12. CASE ~Opened
    <3>1. QuietInv
      BY <2>12, ImportHead
    <3>2. \A z \in 1 .. m : /\ Valid(blk, D[z]) <=> Valid(blk', D[z])
                            /\ blk'[D[z]].next = blk[D[z]].next /\ blk'[D[z]].recs = blk[D[z]].recs
      <4>1. \A z \in 1 .. m : blk[D[z]].io # "issued" /\ blk[D[z]].content # "cache"
        BY <2>3, <3>1 DEF QuietInv
      <4>. QED  BY <2>2, <4>1 DEF Valid
    <3>3. m \in 1 .. m /\ \A z \in 1 .. m - 1 : z \in 1 .. m
      BY <2>3
    <3>4. EndsAt(blk, D, m)
      BY <2>2, <3>2, <3>3 DEF EndsAt
    <3>5. \A z \in 1 .. m - 1 : blk'[D[z]].recs = blk[D[z]].recs
      BY <3>2, <3>3
    <3>6. \A a, b \in DOMAIN D : D[a] = D[b] => a = b
      BY <1>14 DEF IsLog, Linked
    <3>7. LogRecords(blk', D[1]) = LogRecords(blk, D[1])
      BY <2>2, <3>4, <3>5, <3>6, SameLogRecords
    <3>8. L = DiskLog
      BY <1>1, <1>13, <2>2, <3>7 DEF DiskLog
    <3>9. EntryInv(i, s)
      BY <1>15, <2>12, <3>8, ImportUse
    <3>. QED  BY <2>8, <2>9, <2>10, <3>9 DEF EntryInv
  <2>. QED  BY <2>11, <2>12
<1>16. ASSUME NEW n, NEW i, NEW s, Entry(L, n, i, s)
       PROVE  EntryInv(i, s)' /\ StageInv(n, i, s)'
  <2>1. /\ i \in 1 .. Len(rec) /\ s \in Nat \ {0}
        /\ rec[i].txg < ClaimTxg => home[i] \in 1 .. stable
        /\ rec[i].txg >= ClaimTxg => (s <= zh_disk.replay_seq <=> home[i] \in 1 .. stable)
    BY <1>15, <1>16
  <2>2. home[i] \in 1 .. stable <=> home'[i] \in 1 .. stable
    BY <1>2, <1>3, <2>1
  <2>3. home'[i] \in Nat /\ home'[i] <= stable
    BY <1>3, <2>1
  <2>4. \A g \in Unsynced' : home'[i] # g /\ ~(s <= Mark(g)')
    BY <1>2, <1>9, <1>10, <2>1, <2>3
  <2>5. EntryInv(i, s)'
    BY <1>1, <1>11, <2>1, <2>2, <2>4 DEF EntryInv
  <2>6. StageInv(n, i, s)'
    BY <1>1, <2>3 DEF StageInv
  <2>. QED  BY <2>5, <2>6
<1>17. ImportInv'
  BY <1>1, <1>8, <1>12, <1>13, <1>16, ImportKeep
<1>. QED  BY <1>4, <1>7, <1>17 DEF ReplayKept

\* Every step keeps it.
LEMMA ReplayNext ==
  ASSUME ZilInv, BookInv, ChainInv, ReplayInv, [Next]_vars
  PROVE  ReplayInv'
<1>1. ReplayKept
  BY BesideNext, BesideReplay, zil_syncReplay, StabilizeReplay, AdvanceReplay, zil_claimReplay,
     zil_replayReplay, zil_replay_log_recordReplay, ReplayDestroyReplay, ReplayDoneReplay, CrashReplay
     DEF SyncStep, ImportStep
<1>2. OnceInv'
  BY OnceNext DEF ReplayInv
<1>. QED  BY <1>1, <1>2 DEF ReplayInv, ReplayKept

\* There is nothing to replay at the first mount.
LEMMA ReplayInit == Init => ReplayInv
<1>. SUFFICES ASSUME Init
              PROVE  ReplayInv
  OBVIOUS
<1>1. /\ open = 1 /\ stable = 0 /\ rec = <<>> /\ home = <<>> /\ mode = "up" /\ crashes = 0
      /\ zh = NoHeader /\ zh_disk = NoHeader /\ zl = NoLog /\ p = [t \in Procs |-> Idle]
      /\ r = [txg |-> 0, pos |-> 0] /\ blk = [b \in Blocks |-> NoBlk]
  BY DEF Init
<1>2. HomeInv
  BY <1>1 DEF HomeInv
<1>3. OnceInv
  <2>1. zl.itx = <<>> /\ DOMAIN zl.itx = {}
    BY <1>1 DEF NoLog
  <2>2. \A b \in Blocks : blk[b].recs = <<>> /\ DOMAIN blk[b].recs = {}
    BY <1>1 DEF NoBlk
  <2>3. \A t \in Procs : p[t].pc # "log"
    BY <1>1 DEF Idle
  <2>. QED  BY <2>1, <2>2, <2>3 DEF OnceInv, Ascending
<1>4. HeaderInv
  <2>1. Fresh(NoHeader)
    BY DEF NoHeader, Fresh
  <2>2. zl.replayed = NoLog.replayed /\ NoLog.replayed \in [0 .. TXG_SIZE - 1 -> Nat]
    BY <1>1 DEF NoLog
  <2>. QED  BY <1>1, <2>1, <2>2 DEF HeaderInv, Fresh
<1>5. ImportInv
  BY <1>1 DEF ImportInv, Opened, Importing
<1>. QED  BY <1>2, <1>3, <1>4, <1>5 DEF ReplayInv

\* What the import relies on holds in every state: the records it finds in the log
\* are where the claim, the header on disk and the marks in memory say.
THEOREM ZilReplay == Spec => []ReplayInv
<1>1. ZilInv /\ BookInv /\ ChainInv /\ ReplayInv /\ [Next]_vars => ReplayInv'
  BY ReplayNext
<1>. QED  BY <1>1, ReplayInit, ZilInvariant, ZilBook, ZilChain, PTL DEF Spec

\* The effect of a record appears a second time only if a crash has undone it:
\* zil_replay_log_record() passes over what is on disk, and is the only step that
\* gives a record an effect after the call that made it.
THEOREM ZilReplayOnce == Spec => ReplayOnce
<1>1. ASSUME ZilInv, BookInv, ChainInv, ReplayInv, [Next]_vars
      PROVE  [\A i \in DOMAIN home : home'[i] \notin {0, home[i]} => home[i] = 0]_vars
  <2>. DEFINE Goal == \A i \in DOMAIN home : home'[i] \notin {0, home[i]} => home[i] = 0
  <2>1. CASE Beside
    <3>1. CASE UNCHANGED home
      BY <3>1
    <3>2. ASSUME NEW t \in Threads, zil_itx_assign(t)
          PROVE  Goal
      <4>1. home' = Append(home, active[t])
        BY <3>2 DEF zil_itx_assign
      <4>2. home \in Seq(Nat)
        BY <1>1 DEF ReplayInv, HomeInv
      <4>3. \A i \in DOMAIN home : home'[i] = home[i]
        BY <4>1, <4>2
      <4>. QED  BY <4>3
    <3>. QED  BY <2>1, <3>1, <3>2 DEF Beside
  <2>2. CASE zil_replay_log_record
    BY <1>1, <2>2, zil_replay_log_recordReplay
  <2>3. CASE Crash
    BY <2>3 DEF Crash
  <2>4. CASE SyncStep
    BY <2>4 DEF SyncStep, zil_sync, Stabilize, Advance, fs_vars
  <2>5. CASE zil_claim \/ zil_replay \/ ReplayDestroy \/ ReplayDone
    BY <2>5 DEF zil_claim, zil_replay, ReplayDestroy, ReplayDone, fs_vars
  <2>. QED  BY <1>1, <2>1, <2>2, <2>3, <2>4, <2>5, BesideNext DEF ImportStep
<1>. QED  BY <1>1, ZilInvariant, ZilBook, ZilChain, ZilReplay, PTL DEF Spec, ReplayOnce

----------------------------------------------------------------------------
\* The inductive invariant of a commit.

\* The blocks E can be read one after the other from block b on.
Readable(f, b, E) ==
  /\ E \in Seq(Blocks) /\ E # <<>> /\ E[1] = b
  /\ \A y \in DOMAIN E : Valid(f, E[y]) /\ (y < Len(E) => f[E[y]].next = E[y + 1])

\* Record i is in block b.
InBlock(b, i) == \E x \in DOMAIN blk[b].recs : blk[b].recs[x].itx = i

\* zil_parse() finds record i now, and will after a crash.
OnLog(i) ==
  \E E \in Seq(Blocks) : Readable(blk, zh_disk.log, E) /\ InBlock(E[Len(E)], i)

\* A crash does not undo record i for good.
Safe(i) == home[i] \in 1 .. stable \/ OnLog(i)

\* When block b is freed, group g is on disk.
Outlasts(b, g) ==
  \/ (\E n \in DOMAIN zl.lwb : b = zl.lwb[n]) /\ g <= blk[b].max_txg
  \/ blk[b].freed # 0 /\ g <= blk[b].freed

\* A block stays until its records are on disk.
MaxInv ==
  /\ \A b \in Blocks : \A x \in DOMAIN blk[b].recs :
       Current(blk[b].recs[x].itx) => Outlasts(b, rec[blk[b].recs[x].itx].txg)
  /\ \A b \in Blocks : blk[b].io = "none" => blk[b].recs = <<>>

\* Numbers of records that there are.
CountInv ==
  /\ Recs <= MaxRec
  /\ \A t \in Procs : p[t].seq \in 0 .. Len(rec) /\ p[t].txg \in Nat
  /\ w.next \in 0 .. Len(rec) /\ w.commit_seq \in 0 .. Len(rec) /\ zl.commit_seq \in 0 .. Len(rec)

\* Record i does not concern the commit of t.
Spared(t, i) == i > p[t].seq \/ Skip(t, i)

\* What the log writer leaves in the list: what it has passed over does not concern
\* it, and its commit sequence number is below the rest.
LoopInv ==
  \A t \in Procs :
    /\ p[t].pc \in {"push", "log", "recWait"} => \A n \in DOMAIN zl.itx :
         IF w.next = 0 THEN Spared(t, zl.itx[n]) ELSE zl.itx[n] < w.next => Skip(t, zl.itx[n])
    /\ p[t].pc \in {"io", "sync"} => \A n \in DOMAIN zl.itx :
         zl.itx[n] > w.commit_seq /\ Spared(t, zl.itx[n])
    /\ p[t].pc = "io" /\ w.lwb # NULL => blk[w.lwb].recs = <<>>

\* The log writer t answers for record i: it has it in hand or in a block, or it
\* will wait for a group that has it.
Answers(t, i) ==
  \/ p[t].pc = "log" /\ i = w.itx
  \/ p[t].pc \in {"push", "log", "recWait", "io"} /\ (w.lwb = NULL \/ \E b \in Blocks : InBlock(b, i))
  \/ p[t].pc \in {"recWait", "sync"} /\ rec[i].txg <= p[t].txg

\* Record i is in memory, to be logged.
InList(i) == \E n \in DOMAIN zl.itx : i = zl.itx[n]

\* A record is in the list, safe, or the log writer answers for it; after a log write
\* that failed it may also be in a block that cannot be read.
Held(i) ==
  \/ InList(i) \/ i \in moot \/ Safe(i) \/ (\E t \in Procs : Answers(t, i))
  \/ LogErrors /\ \E b \in Blocks : InBlock(b, i)

\* No record since the import is lost sight of.
HeldInv == \A i \in 1 .. Len(rec) : Current(i) => Held(i)

\* What has been promised is safe, and so is what is below zl_commit_seq.
PromiseInv ==
  /\ acked \subseteq 1 .. Len(rec) /\ \A i \in acked \ moot : Safe(i)
  /\ \A i \in 1 .. zl.commit_seq : Current(i) => i \in moot \/ Safe(i)

\* The inductive invariant of a commit.
AckInv == MaxInv /\ CountInv /\ LoopInv /\ HeldInv /\ (~LogErrors => PromiseInv)

----------------------------------------------------------------------------
\* What is safe stays safe.

\* What can be read is a first part of the log, without its last block.
LEMMA ReadablePart ==
  ASSUME NEW D \in Seq(Blocks), NEW k \in Nat, IsLog(D, k), NEW E, Readable(blk, zh_disk.log, E)
  PROVE  \A y \in DOMAIN E : y \in DOMAIN D /\ y < Len(D) /\ E[y] = D[y]
<1>1. Linked(D) /\ zh_disk.log = First(D)
  BY DEF IsLog, Headed
<1>2. /\ E \in Seq(Blocks) /\ E # <<>> /\ E[1] = zh_disk.log
      /\ \A y \in DOMAIN E : Valid(blk, E[y]) /\ (y < Len(E) => blk[E[y]].next = E[y + 1])
  BY DEF Readable
<1>3. /\ Len(E) \in Nat /\ DOMAIN E = 1 .. Len(E) /\ 1 \in DOMAIN E
      /\ Len(D) \in Nat /\ DOMAIN D = 1 .. Len(D)
  BY <1>2
<1>4. ASSUME NEW y \in DOMAIN E, y \in DOMAIN D, E[y] = D[y]
      PROVE  y < Len(D)
  <2>1. Live(D[y])
    BY <1>2, <1>4 DEF Live, LiveIn, Valid
  <2>2. y # Len(D)
    BY <1>1, <1>4, <2>1 DEF Linked
  <2>. QED  BY <1>3, <1>4, <2>2
<1>. DEFINE S == {y \in DOMAIN E : ~(y \in DOMAIN D /\ y < Len(D) /\ E[y] = D[y])}
<1>. SUFFICES ASSUME S # {}
              PROVE  FALSE
  OBVIOUS
<1>5. S \in SUBSET Nat
  BY <1>3
<1>6. PICK n \in S : \A m \in S : ~(<<m, n>> \in OpToRel(<, Nat))
  BY <1>5, WFMin, NatLessThanWellFounded
<1>7. n \in Nat /\ n \in DOMAIN E /\ \A m \in S : ~(m < n)
  BY <1>5, <1>6 DEF OpToRel
<1>8. CASE n = 1
  <2>1. E[1] # NULL
    BY <1>2, <1>3, NullFact
  <2>2. D # <<>> /\ D[1] = E[1] /\ 1 \in DOMAIN D
    BY <1>1, <1>2, <1>3, <2>1 DEF First
  <2>. QED  BY <1>4, <1>6, <1>7, <1>8, <2>2
<1>9. CASE n # 1
  <2>1. n - 1 \in DOMAIN E /\ n - 1 < n /\ n - 1 < Len(E) /\ n - 1 + 1 = n
    BY <1>3, <1>7, <1>9
  <2>2. n - 1 \in DOMAIN D /\ n - 1 < Len(D) /\ E[n - 1] = D[n - 1]
    BY <1>7, <2>1
  <2>3. E[n] = blk[E[n - 1]].next
    BY <1>2, <2>1
  <2>4. blk[D[n - 1]].next = D[n] /\ n \in DOMAIN D
    BY <1>1, <1>3, <2>1, <2>2 DEF Linked
  <2>. QED  BY <1>4, <1>6, <1>7, <2>2, <2>3, <2>4
<1>. QED  BY <1>8, <1>9

\* The block can be read like before and holds what it held.
StillReads(b) ==
  /\ \A x \in DOMAIN blk[b].recs : x \in DOMAIN blk'[b].recs /\ blk'[b].recs[x] = blk[b].recs[x]
  /\ Valid(blk, b) => Valid(blk', b) /\ blk'[b].next = blk[b].next

\* Then what could be read still can.
LEMMA OnLogKeeps ==
  ASSUME zh_disk'.log = zh_disk.log, \A b \in Blocks : Valid(blk, b) => StillReads(b), NEW i, OnLog(i)
  PROVE  OnLog(i)'
<1>1. PICK E \in Seq(Blocks) : Readable(blk, zh_disk.log, E) /\ InBlock(E[Len(E)], i)
  BY DEF OnLog
<1>2. /\ Len(E) \in DOMAIN E /\ \A y \in DOMAIN E : E[y] \in Blocks /\ Valid(blk, E[y])
  BY <1>1 DEF Readable
<1>3. \A y \in DOMAIN E : Valid(blk', E[y]) /\ blk'[E[y]].next = blk[E[y]].next
  BY <1>2 DEF StillReads
<1>4. Readable(blk', zh_disk'.log, E)
  BY <1>1, <1>3 DEF Readable
<1>5. InBlock(E[Len(E)], i)'
  BY <1>1, <1>2 DEF InBlock, StillReads
<1>. QED  BY <1>4, <1>5 DEF OnLog

\* No step undoes the effect of a record in a group that is on disk.
LEMMA HomeStays ==
  ASSUME ZilInv, BookInv, ChainInv, ReplayInv, [Next]_vars,
         NEW i \in 1 .. Len(rec), home[i] \in 1 .. stable
  PROVE  home'[i] \in 1 .. stable'
<1>1. /\ home \in Seq(Nat) /\ DOMAIN home = 1 .. Len(rec) /\ stable \in Nat /\ open \in Nat /\ open # 0
      /\ home[i] \in Nat \ {0} /\ i \in DOMAIN home /\ home[i] <= stable
  BY DEF ReplayInv, HomeInv, ZilInv, RecInv, GroupInv
<1>2. CASE Beside
  <2>1. stable' = stable
    BY <1>2 DEF Beside
  <2>2. CASE UNCHANGED home
    BY <1>1, <2>1, <2>2
  <2>3. ASSUME NEW t \in Threads, zil_itx_assign(t)
        PROVE  home'[i] = home[i]
    <3>1. home' = Append(home, active[t])
      BY <2>3 DEF zil_itx_assign
    <3>. QED  BY <1>1, <3>1
  <2>. QED  BY <1>1, <1>2, <2>1, <2>2, <2>3 DEF Beside
<1>3. CASE SyncStep
  <2>1. home' = home /\ (stable' = stable \/ stable' = stable + 1)
    BY <1>3 DEF SyncStep, zil_sync, Stabilize, Advance, fs_vars, gc_vars, GC!Stabilize, GC!Advance
  <2>. QED  BY <1>1, <2>1
<1>4. CASE zil_claim \/ zil_replay \/ ReplayDestroy \/ ReplayDone
  BY <1>1, <1>4 DEF zil_claim, zil_replay, ReplayDestroy, ReplayDone, fs_vars, gc_vars
<1>5. CASE Crash
  <2>1. /\ home' = [j \in DOMAIN home |-> IF home[j] > stable THEN 0 ELSE home[j]]
        /\ stable' = stable
    BY <1>5 DEF Crash
  <2>2. home'[i] = home[i]
    BY <1>1, <2>1
  <2>. QED  BY <1>1, <2>1, <2>2
<1>6. CASE zil_replay_log_record
  <2>1. home'[i] \notin {0, home[i]} => home[i] = 0
    BY <1>1, <1>6, zil_replay_log_recordReplay
  <2>2. home' = home \/ \E x : home' = [home EXCEPT ![x] = open]
    BY <1>6 DEF zil_replay_log_record
  <2>3. home'[i] \in {home[i], open}
    BY <1>1, <2>2
  <2>4. stable' = stable
    BY <1>6 DEF zil_replay_log_record, gc_vars
  <2>. QED  BY <1>1, <2>1, <2>3, <2>4
<1>. QED  BY <1>2, <1>3, <1>4, <1>5, <1>6, BesideNext DEF ImportStep

\* After a crash what could be read still can.
LEMMA CrashOnLog ==
  ASSUME ZilInv, BookInv, ChainInv, Crash, NEW i, OnLog(i)
  PROVE  OnLog(i)'
<1>1. PICK D \in Seq(Blocks), k \in Nat : IsLog(D, k)
  BY DEF ChainInv
<1>2. PICK E \in Seq(Blocks) : Readable(blk, zh_disk.log, E) /\ InBlock(E[Len(E)], i)
  BY DEF OnLog
<1>3. /\ Len(E) \in DOMAIN E /\ DOMAIN E = 1 .. Len(E) /\ Len(E) \in Nat
      /\ \A y \in DOMAIN E : E[y] \in Blocks /\ Valid(blk, E[y])
  BY <1>2 DEF Readable
<1>4. \A y \in DOMAIN E : y \in DOMAIN D /\ y < Len(D) /\ E[y] = D[y]
  BY <1>1, <1>2, ReadablePart
<1>5. D # <<>>
  BY <1>3, <1>4
<1>6. PICK m \in DOMAIN D :
        /\ EndsAt(blk', D, m)
        /\ \A y \in 1 .. m :
             /\ blk'[D[y]].next = blk[D[y]].next /\ blk'[D[y]].recs = blk[D[y]].recs
             /\ blk[D[y]].content = "disk" => blk'[D[y]].content = "disk"
  BY <1>1, <1>5, CrashLog
<1>7. m \in Nat \ {0} /\ m \in 1 .. m
  OBVIOUS
<1>8. m \notin DOMAIN E
  BY <1>3, <1>4, <1>6, <1>7 DEF EndsAt, Valid
<1>9. \A y \in DOMAIN E : y \in 1 .. m
  BY <1>3, <1>7, <1>8
<1>10. \A y \in DOMAIN E : /\ Valid(blk', E[y]) /\ blk'[E[y]].next = blk[E[y]].next
                           /\ blk'[E[y]].recs = blk[E[y]].recs
  BY <1>3, <1>4, <1>6, <1>9 DEF Valid
<1>11. zh_disk'.log = zh_disk.log
  BY DEF Crash
<1>12. Readable(blk', zh_disk'.log, E)
  BY <1>2, <1>10, <1>11 DEF Readable
<1>13. InBlock(E[Len(E)], i)'
  BY <1>2, <1>3, <1>10 DEF InBlock
<1>. QED  BY <1>12, <1>13 DEF OnLog

\* What can be read has been logged since the import, or the import finds it.
LEMMA ReadEntry ==
  ASSUME ZilInv, BookInv, ChainInv, NEW E, Readable(blk, zh_disk.log, E), NEW i,
         InBlock(E[Len(E)], i)
  PROVE  i \in 1 .. Len(rec) /\ (Opened => Current(i)) /\ \E n, s : Entry(DiskLog, n, i, s)
<1>1. PICK D \in Seq(Blocks), k \in Nat : IsLog(D, k)
  BY DEF ChainInv
<1>2. PICK e, b : e = Len(E) /\ b = E[e]
  OBVIOUS
<1>3. /\ e \in DOMAIN E /\ DOMAIN E = 1 .. e /\ e \in Nat /\ b \in Blocks
      /\ \A y \in DOMAIN E : Valid(blk, E[y])
  BY <1>2 DEF Readable
<1>4. \A y \in DOMAIN E : y \in DOMAIN D /\ y < Len(D) /\ E[y] = D[y]
  BY <1>1, ReadablePart
<1>5. PICK x \in DOMAIN blk[b].recs : blk[b].recs[x].itx = i
  BY <1>2 DEF InBlock
<1>6. b = D[e] /\ e \in DOMAIN D /\ e < Len(D)
  BY <1>2, <1>3, <1>4
<1>7. Opened => Current(i)
  BY <1>1, <1>5, <1>6 DEF IsLog, Recorded, Recent
<1>8. i \in 1 .. Len(rec)
  BY <1>3, <1>5 DEF BookInv
<1>9. \E n, s : Entry(DiskLog, n, i, s)
  <2>0. D # <<>>
    BY <1>6
  <2>1. PICK L : L = DiskLog
    OBVIOUS
  <2>2. PICK m \in DOMAIN D : EndsAt(blk, D, m) /\ LogHolds(blk, D, m, L)
    BY <1>1, <2>0, <2>1, DiskLogIs
  <2>3. m \in Nat \ {0} /\ m \notin DOMAIN E
    BY <1>3, <1>4, <2>2 DEF EndsAt
  <2>4. e \in 1 .. m - 1
    BY <1>3, <2>3
  <2>5. PICK n \in DOMAIN L : L[n] = blk[D[e]].recs[x]
    BY <1>5, <1>6, <2>2, <2>4 DEF LogHolds
  <2>6. Entry(L, n, i, L[n].seq)
    BY <1>5, <1>6, <2>5 DEF Entry
  <2>. QED  BY <2>1, <2>6
<1>. QED  BY <1>7, <1>8, <1>9

\* When a group is on disk the log has lost the blocks that the group freed.
LEMMA StabilizeOnLog ==
  ASSUME ZilInv, BookInv, ChainInv, ReplayInv, MaxInv, Stabilize, NEW i, OnLog(i)
  PROVE  Safe(i)'
<1>. DEFINE txg == stable + 1
<1>1. /\ stable' = txg /\ zh_disk' = (IF txg \in dirty THEN zh ELSE zh_disk)
      /\ txg \in dirty => zsynced
      /\ blk' = [b \in Blocks |-> IF blk[b].freed = txg THEN NoBlk ELSE Flushed[b]]
      /\ home' = home
  BY DEF Stabilize, GC!Stabilize, fs_vars
<1>2. stable \in Nat /\ txg \in Nat /\ txg # 0 /\ txg > stable /\ zl.destroy_txg \in Nat
  BY DEF ZilInv, GroupInv, ShapeInv
<1>3. PICK D \in Seq(Blocks), k \in Nat : IsLog(D, k)
  BY DEF ChainInv
<1>4. PICK E \in Seq(Blocks) : Readable(blk, zh_disk.log, E) /\ InBlock(E[Len(E)], i)
  BY DEF OnLog
<1>5. PICK e, b : e = Len(E) /\ b = E[e]
  OBVIOUS
<1>6. /\ e \in DOMAIN E /\ DOMAIN E = 1 .. e /\ e \in Nat /\ b \in Blocks
      /\ \A y \in DOMAIN E : E[y] \in Blocks /\ Valid(blk, E[y]) /\ (y < e => blk[E[y]].next = E[y + 1])
  BY <1>4, <1>5 DEF Readable
<1>7. \A y \in DOMAIN E : y \in DOMAIN D /\ y < Len(D) /\ E[y] = D[y]
  BY <1>3, <1>4, ReadablePart
<1>8. /\ i \in 1 .. Len(rec) /\ (Opened => Current(i))
      /\ \E n, s : Entry(DiskLog, n, i, s)
  BY <1>4, ReadEntry
<1>9. CASE blk[b].freed = txg
  <2>1. CASE Opened
    <3>1. Current(i)
      BY <1>8, <2>1
    <3>2. PICK x \in DOMAIN blk[b].recs : blk[b].recs[x].itx = i
      BY <1>4, <1>5 DEF InBlock
    <3>3. Outlasts(b, rec[i].txg)
      BY <1>6, <3>1, <3>2 DEF MaxInv
    <3>4. \A n \in DOMAIN zl.lwb : b # zl.lwb[n]
      BY <1>2, <1>9 DEF ZilInv, TailInv
    <3>5. rec[i].txg <= txg
      BY <1>9, <3>3, <3>4 DEF Outlasts
    <3>6. home[i] = rec[i].txg /\ home[i] # 0 /\ home[i] \in Nat
      BY <1>8, <3>1 DEF ReplayInv, HomeInv, Current, CurrentIn
    <3>7. home'[i] \in 1 .. stable'
      BY <1>1, <1>2, <3>5, <3>6
    <3>. QED  BY <3>7 DEF Safe
  <2>2. CASE ~Opened
    <3>1. PICK L : L = DiskLog
      OBVIOUS
    <3>2. PICK n, s : Entry(L, n, i, s)
      BY <1>8, <3>1
    <3>3. StageInv(n, i, s)
      BY <2>2, <3>1, <3>2, ImportUse
    <3>4. QuietInv /\ (mode # "replayed" => zl.destroy_txg = 0)
      BY <2>2, ImportHead
    <3>5. zl.destroy_txg = txg /\ mode = "replayed"
      BY <1>2, <1>6, <1>9, <3>4 DEF QuietInv
    <3>6. home[i] \in 1 .. txg
      BY <3>3, <3>5 DEF StageInv
    <3>. QED  BY <1>1, <3>6 DEF Safe
  <2>. QED  BY <2>1, <2>2
<1>10. CASE blk[b].freed # txg
  <2>1. PICK F \in Seq(Blocks) : Rest(D, k, F)
    BY <1>3, RestExists
  <2>2. \A y \in DOMAIN F : blk[F[y]].freed # txg
    BY <1>1, <1>3, <2>1, RestLinked
  <2>3. /\ k \in 0 .. Len(D) /\ \A y \in 1 .. k : blk[D[y]].freed = txg
        /\ (k # 0 => zsynced) /\ (~zsynced => zh.log = zh_disk.log)
    BY <1>3 DEF IsLog, Headed
  <2>4. k < e /\ k < Len(D) /\ Len(D) \in Nat /\ e < Len(D)
    BY <1>5, <1>6, <1>7, <1>10, <2>3
  <2>5. Len(F) = Len(D) - k /\ (\A y \in DOMAIN F : F[y] = D[k + y]) /\ zh.log = First(F)
    BY <2>1, <2>4 DEF Rest
  <2>6. zsynced => txg \in dirty
    BY DEF ChainInv, OpenInv
  <2>7. zh_disk'.log = zh.log
    BY <1>1, <2>3, <2>6
  <2>. DEFINE G == SubSeq(E, k + 1, Len(E))
  <2>8. G \in Seq(Blocks) /\ Len(G) = e - k /\ \A y \in DOMAIN G : k + y \in DOMAIN E /\ G[y] = E[k + y]
    <3>1. /\ G \in Seq(Blocks) /\ Len(G) = (IF k <= Len(E) THEN Len(E) - k ELSE 0)
          /\ \A y \in DOMAIN G : k + y \in DOMAIN E /\ G[y] = E[k + y]
      BY DropFact
    <3>. QED  BY <1>5, <1>6, <2>4, <3>1
  <2>. HIDE DEF G
  <2>9. DOMAIN G = 1 .. e - k /\ e - k \in Nat \ {0} /\ G # <<>> /\ 1 \in DOMAIN G
    BY <1>6, <2>4, <2>8
  <2>10. \A y \in DOMAIN G : y \in DOMAIN F /\ G[y] = F[y] /\ G[y] \in Blocks /\ blk[G[y]].freed # txg
    <3>. SUFFICES ASSUME NEW y \in DOMAIN G
                  PROVE  y \in DOMAIN F /\ G[y] = F[y] /\ G[y] \in Blocks /\ blk[G[y]].freed # txg
      OBVIOUS
    <3>1. y \in DOMAIN F
      BY <1>6, <2>4, <2>5, <2>9
    <3>2. G[y] = D[k + y]
      BY <1>7, <2>8
    <3>. QED  BY <2>2, <2>5, <2>8, <3>1, <3>2
  <2>11. zh_disk'.log = G[1]
    <3>1. F # <<>> /\ First(F) = F[1]
      BY <2>9, <2>10 DEF First
    <3>. QED  BY <2>5, <2>7, <2>9, <2>10, <3>1
  <2>12. \A y \in DOMAIN G : /\ blk'[G[y]].next = blk[G[y]].next /\ blk'[G[y]].recs = blk[G[y]].recs
                             /\ blk[G[y]].content = "disk" => blk'[G[y]].content = "disk"
    <3>1. \A y \in DOMAIN G : blk'[G[y]] = Flushed[G[y]]
      BY <1>1, <2>10
    <3>. QED  BY <2>10, <3>1, FlushBlocks
  <2>13. \A y \in DOMAIN G : Valid(blk', G[y])
    BY <1>6, <2>8, <2>12 DEF Valid
  <2>14. \A y \in DOMAIN G : y < Len(G) => blk'[G[y]].next = G[y + 1]
    <3>. SUFFICES ASSUME NEW y \in DOMAIN G, y < Len(G)
                  PROVE  blk'[G[y]].next = G[y + 1]
      OBVIOUS
    <3>1. k + y < e /\ y + 1 \in DOMAIN G /\ k + (y + 1) = k + y + 1
      BY <1>6, <2>4, <2>8, <2>9
    <3>2. G[y] = E[k + y] /\ G[y + 1] = E[k + y + 1] /\ k + y \in DOMAIN E
      BY <2>8, <3>1
    <3>. QED  BY <1>6, <2>12, <3>1, <3>2
  <2>15. Readable(blk', zh_disk'.log, G)
    BY <2>8, <2>9, <2>11, <2>13, <2>14 DEF Readable
  <2>16. InBlock(G[Len(G)], i)'
    <3>1. Len(G) \in DOMAIN G /\ k + Len(G) = e
      BY <1>6, <2>4, <2>8, <2>9
    <3>2. G[Len(G)] = b
      BY <1>5, <2>8, <3>1
    <3>3. blk'[b].recs = blk[b].recs
      BY <2>12, <3>1, <3>2
    <3>. QED  BY <1>4, <1>5, <3>2, <3>3 DEF InBlock
  <2>17. OnLog(i)'
    BY <2>8, <2>15, <2>16 DEF OnLog
  <2>. QED  BY <2>17 DEF Safe
<1>. QED  BY <1>9, <1>10

----------------------------------------------------------------------------
\* What a step does to a block.

\* The list of blocks has what it had.
ListGrows == \A n \in DOMAIN zl.lwb : \E m \in DOMAIN zl'.lwb : zl'.lwb[m] = zl.lwb[n]

\* Block b holds what it held, perhaps one record more, and stays as long.
BlockStep(b) ==
  /\ StillReads(b)
  /\ \A g \in Nat : g <= open /\ Outlasts(b, g) => Outlasts(b, g)'
  /\ \A x \in DOMAIN blk'[b].recs :
       \/ x \in DOMAIN blk[b].recs /\ blk'[b].recs[x] = blk[b].recs[x]
       \/ /\ Logging /\ blk'[b].recs[x].itx = w.itx
          /\ \E g \in Nat : g = rec[w.itx].txg /\ Outlasts(b, g)'
  /\ (blk[b].io = "none" => blk[b].recs = <<>>) => (blk'[b].io = "none" => blk'[b].recs = <<>>)

\* A block that is not freed.
LEMMA SameBlockStep ==
  ASSUME NEW b \in Blocks, ListGrows,
         blk'[b].recs = blk[b].recs, blk'[b].next = blk[b].next,
         blk[b].content = "disk" => blk'[b].content = "disk",
         blk'[b].max_txg = blk[b].max_txg, blk'[b].freed = blk[b].freed,
         blk'[b].io = "none" => blk[b].io = "none"
  PROVE  BlockStep(b)
<1>1. StillReads(b)
  BY DEF StillReads, Valid
<1>2. \A g \in Nat : Outlasts(b, g) => Outlasts(b, g)'
  BY DEF Outlasts, ListGrows
<1>. QED  BY <1>1, <1>2 DEF BlockStep

\* A block that the log writer fills, or issues.
LEMMA FillBlockStep ==
  ASSUME NEW b \in Blocks, ListGrows, blk[b].content = "none", blk[b].recs \in Seq(Entries),
         blk[b].max_txg \in Nat, blk'[b].max_txg \in Nat, blk[b].max_txg <= blk'[b].max_txg,
         blk'[b].freed = blk[b].freed,
         blk'[b].io = "none" => blk'[b].recs = <<>>,
         \/ blk'[b].recs = blk[b].recs
         \/ /\ Logging /\ rec[w.itx].txg \in Nat /\ rec[w.itx].txg <= blk'[b].max_txg
            /\ blk'[b].recs = Append(blk[b].recs, [itx |-> w.itx, seq |-> zl.lr_seq + 1])
            /\ \E n \in DOMAIN zl'.lwb : b = zl'.lwb[n]
  PROVE  BlockStep(b)
<1>1. ~Valid(blk, b)
  BY DEF Valid
<1>2. \A g \in Nat : Outlasts(b, g) => Outlasts(b, g)'
  <2>1. \A g \in Nat : g <= blk[b].max_txg => g <= blk'[b].max_txg
    OBVIOUS
  <2>. QED  BY <2>1 DEF Outlasts, ListGrows
<1>3. CASE blk'[b].recs = blk[b].recs
  <2>1. StillReads(b)
    BY <1>1, <1>3 DEF StillReads
  <2>. QED  BY <1>2, <1>3, <2>1 DEF BlockStep
<1>4. CASE /\ Logging /\ rec[w.itx].txg \in Nat /\ rec[w.itx].txg <= blk'[b].max_txg
           /\ blk'[b].recs = Append(blk[b].recs, [itx |-> w.itx, seq |-> zl.lr_seq + 1])
           /\ \E n \in DOMAIN zl'.lwb : b = zl'.lwb[n]
  <2>1. PICK g : g = rec[w.itx].txg
    OBVIOUS
  <2>2. g \in Nat /\ Outlasts(b, g)'
    BY <1>4, <2>1 DEF Outlasts
  <2>. DEFINE x == [itx |-> w.itx, seq |-> zl.lr_seq + 1]
              s == blk[b].recs
  <2>3. blk'[b].recs = Append(s, x) /\ x.itx = w.itx /\ s \in Seq(Entries)
    BY <1>4
  <2>. HIDE DEF x, s
  <2>4. /\ DOMAIN Append(s, x) = 1 .. Len(s) + 1 /\ Len(s) \in Nat /\ DOMAIN s = 1 .. Len(s)
        /\ Append(s, x)[Len(s) + 1] = x /\ \A n \in DOMAIN s : Append(s, x)[n] = s[n]
    BY <2>3
  <2>5. \A n \in DOMAIN Append(s, x) : n \in DOMAIN s \/ n = Len(s) + 1
    BY <2>4
  <2>6. /\ \A n \in DOMAIN s : n \in DOMAIN blk'[b].recs /\ blk'[b].recs[n] = s[n]
        /\ \A n \in DOMAIN blk'[b].recs :
             (n \in DOMAIN s /\ blk'[b].recs[n] = s[n]) \/ blk'[b].recs[n].itx = w.itx
    BY <2>3, <2>4, <2>5
  <2>7. StillReads(b)
    BY <1>1, <2>6 DEF StillReads, s
  <2>. QED  BY <1>2, <1>4, <2>1, <2>2, <2>6, <2>7 DEF BlockStep, s
<1>. QED  BY <1>3, <1>4

\* What zil_lwb_commit() does to the block that has room for the record.
LEMMA LogRecordBlock ==
  ASSUME ZilInv, NEW t \in Procs, NEW f, DOMAIN f = Blocks, NEW b \in Blocks, IsBlk(f[b]),
         f[b].max_txg \in Nat, Current(w.itx), LogRecord(t, f, b)
  PROVE  /\ \A c \in Blocks : c # b => blk'[c] = f[c]
         /\ blk'[b].io = "init" /\ blk'[b].freed = f[b].freed
         /\ f[b].max_txg <= blk'[b].max_txg /\ blk'[b].max_txg \in Nat
         /\ zl'.lwb = (IF b = w.lwb THEN zl.lwb ELSE Append(zl.lwb, b))
         /\ zl'.itx = zl.itx /\ zl'.commit_seq = zl.commit_seq
         /\ \/ /\ blk'[b].recs = Append(f[b].recs, [itx |-> w.itx, seq |-> zl.lr_seq + 1])
               /\ rec[w.itx].txg <= blk'[b].max_txg
            \/ /\ blk'[b].recs = f[b].recs
               /\ w.itx \in moot' \/ (p'[t].pc = "recWait" /\ p'[t].txg = rec[w.itx].txg)
<1>1. rec[w.itx].txg \in Nat /\ IsZl(zl) /\ DOMAIN p = Procs /\ IsProc(p[t])
  BY DEF ZilInv, RecInv, Current, CurrentIn, IsRec, ShapeInv
<1>. DEFINE s == IF b = w.lwb THEN zl.lwb ELSE Append(zl.lwb, b)
            a == Append(f[b].recs, [itx |-> w.itx, seq |-> zl.lr_seq + 1])
            g == Larger(f[b].max_txg, rec[w.itx].txg)
<1>2. g \in Nat /\ f[b].max_txg <= g /\ rec[w.itx].txg <= g
  BY <1>1 DEF Larger
<1>3. CASE blk' = AddRecord(f, b) /\ zl' = [zl EXCEPT !.lr_seq = @ + 1, !.lwb = s]
  <2>1. blk' = [f EXCEPT ![b] = [f[b] EXCEPT !.io = "init", !.recs = a, !.max_txg = g]]
    BY <1>3 DEF AddRecord
  <2>. HIDE DEF s, a, g
  <2>2. blk'[b].io = "init" /\ blk'[b].recs = a /\ blk'[b].max_txg = g /\ blk'[b].freed = f[b].freed
        /\ \A c \in Blocks : c # b => blk'[c] = f[c]
    BY <2>1 DEF IsBlk
  <2>3. zl'.lwb = s /\ zl'.itx = zl.itx /\ zl'.commit_seq = zl.commit_seq
    BY <1>1, <1>3 DEF IsZl
  <2>. QED  BY <1>2, <2>2, <2>3 DEF s, a
<1>4. CASE /\ blk' = [f EXCEPT ![b].io = "init"] /\ zl' = [zl EXCEPT !.lwb = s]
           /\ \/ p' = [p EXCEPT ![t].pc = "recWait", ![t].txg = rec[w.itx].txg]
              \/ moot' = moot \cup {w.itx}
  <2>1. blk' = [f EXCEPT ![b] = [f[b] EXCEPT !.io = "init"]]
    BY <1>4
  <2>. HIDE DEF s
  <2>2. blk'[b].io = "init" /\ blk'[b].recs = f[b].recs /\ blk'[b].max_txg = f[b].max_txg
        /\ blk'[b].freed = f[b].freed /\ \A c \in Blocks : c # b => blk'[c] = f[c]
    BY <2>1 DEF IsBlk
  <2>3. zl'.lwb = s /\ zl'.itx = zl.itx /\ zl'.commit_seq = zl.commit_seq
    BY <1>1, <1>4 DEF IsZl
  <2>4. w.itx \in moot' \/ (p'[t].pc = "recWait" /\ p'[t].txg = rec[w.itx].txg)
    <3>1. CASE moot' = moot \cup {w.itx}
      BY <3>1
    <3>2. CASE p' = [p EXCEPT ![t].pc = "recWait", ![t].txg = rec[w.itx].txg]
      BY <1>1, <3>2 DEF IsProc
    <3>. QED  BY <1>4, <3>1, <3>2
  <2>. QED  BY <2>2, <2>3, <2>4 DEF s
<1>. QED  BY <1>3, <1>4 DEF LogRecord

\* zil_lwb_commit() puts the record in a block, drops it, waits for its group, or
\* has no block.
LEMMA zil_lwb_commitBlocks ==
  ASSUME ZilInv, BookInv, OpenInv, NEW t \in Procs, zil_lwb_commit(t), NEW i, i = w.itx
  PROVE  /\ \A b \in Blocks : BlockStep(b)
         /\ zl'.itx = zl.itx /\ zl'.commit_seq = zl.commit_seq /\ (w.lwb = NULL => w'.lwb = NULL)
         /\ \/ w'.lwb = NULL \/ (\E b \in Blocks : InBlock(b, i)') \/ i \in moot'
            \/ p'[t].pc = "recWait" /\ p'[t].txg = rec[i].txg
<1>1. p[t].pc = "log" /\ Logging /\ Current(w.itx) /\ rec[w.itx].txg \in Nat
  BY DEF zil_lwb_commit, Logging, ZilInv, RecInv, Current, CurrentIn, IsRec
<1>2. /\ IsZl(zl) /\ IsWriter(w) /\ DOMAIN blk = Blocks /\ (\A b \in Blocks : IsBlk(blk[b]))
      /\ zl.lwb \in Seq(Blocks) /\ \A b \in Blocks : blk[b].recs \in Seq(Entries)
  BY DEF ZilInv, ShapeInv, BookInv
<1>. DEFINE x == [itx |-> w.itx, seq |-> zl.lr_seq + 1]
<1>3. ASSUME NEW s \in Seq(Entries), NEW b \in Blocks, blk'[b].recs = Append(s, x)
      PROVE  InBlock(b, i)'
  <2>1. x.itx = i
    OBVIOUS
  <2>. HIDE DEF x
  <2>2. Len(s) + 1 \in DOMAIN Append(s, x) /\ Append(s, x)[Len(s) + 1] = x
    BY <1>3
  <2>. QED  BY <1>3, <2>1, <2>2 DEF InBlock
<1>4. CASE UNCHANGED <<zl, blk>> /\ w.lwb = NULL /\ w' = [w EXCEPT !.itx = 0]
  <2>1. w'.lwb = NULL
    BY <1>2, <1>4 DEF IsWriter
  <2>2. ListGrows
    BY <1>4 DEF ListGrows
  <2>3. \A b \in Blocks : BlockStep(b)
    BY <1>4, <2>2, SameBlockStep
  <2>. QED  BY <1>4, <2>1, <2>3
<1>5. w.lwb # NULL =>
        /\ w.lwb \in Blocks /\ blk[w.lwb].max_txg \in Nat /\ blk[w.lwb].content = "none"
        /\ \E n \in DOMAIN zl.lwb : zl.lwb[n] = w.lwb
  <2>. SUFFICES ASSUME w.lwb # NULL
                PROVE  /\ w.lwb \in Blocks /\ blk[w.lwb].max_txg \in Nat
                       /\ blk[w.lwb].content = "none" /\ \E n \in DOMAIN zl.lwb : zl.lwb[n] = w.lwb
    OBVIOUS
  <2>1. zl.lwb # <<>> /\ Last(zl.lwb) = w.lwb /\ blk[w.lwb].io \in {"none", "init"} /\ w.lwb \in Blocks
    BY <1>2 DEF ZilInv, WriterInv, IsWriter
  <2>2. Len(zl.lwb) \in DOMAIN zl.lwb /\ zl.lwb[Len(zl.lwb)] = w.lwb
    BY <1>2, <2>1 DEF Last
  <2>3. blk[w.lwb].max_txg \in Nat
    BY <2>2 DEF ZilInv, TailInv
  <2>4. blk[w.lwb].content = "none"
    BY <2>1 DEF OpenInv
  <2>. QED  BY <2>1, <2>2, <2>3, <2>4
<1>6. CASE w.lwb # NULL /\ LogRecord(t, blk, w.lwb)
  <2>. DEFINE b == w.lwb
  <2>1. /\ \A c \in Blocks : c # b => blk'[c] = blk[c]
        /\ blk'[b].io = "init" /\ blk'[b].freed = blk[b].freed
        /\ blk[b].max_txg <= blk'[b].max_txg /\ blk'[b].max_txg \in Nat
        /\ zl'.lwb = zl.lwb /\ zl'.itx = zl.itx /\ zl'.commit_seq = zl.commit_seq
        /\ \/ blk'[b].recs = Append(blk[b].recs, x) /\ rec[w.itx].txg <= blk'[b].max_txg
           \/ /\ blk'[b].recs = blk[b].recs
              /\ w.itx \in moot' \/ (p'[t].pc = "recWait" /\ p'[t].txg = rec[w.itx].txg)
    BY <1>1, <1>2, <1>5, <1>6, LogRecordBlock, SMTT(30)
  <2>2. ListGrows
    BY <2>1 DEF ListGrows
  <2>3. \A c \in Blocks : c # b => BlockStep(c)
    BY <2>1, <2>2, SameBlockStep
  <2>4. BlockStep(b)
    <3>1. b \in Blocks /\ blk[b].content = "none" /\ blk[b].recs \in Seq(Entries) /\ blk[b].max_txg \in Nat
          /\ \E n \in DOMAIN zl'.lwb : b = zl'.lwb[n]
      BY <1>2, <1>5, <1>6, <2>1
    <3>. QED  BY <1>1, <2>1, <2>2, <3>1, FillBlockStep
  <2>5. (\E c \in Blocks : InBlock(c, i)') \/ i \in moot' \/ (p'[t].pc = "recWait" /\ p'[t].txg = rec[i].txg)
    <3>. HIDE DEF x
    <3>. QED  BY <1>2, <1>3, <1>5, <1>6, <2>1
  <2>. QED  BY <1>6, <2>1, <2>3, <2>4, <2>5
<1>7. ASSUME w.lwb # NULL, NEW n \in Alloc, w' = [w EXCEPT !.lwb = n, !.itx = 0],
             IF n # NULL THEN LogRecord(t, Start(w.lwb, n), n)
             ELSE blk' = Start(w.lwb, NULL) /\ UNCHANGED zl
      PROVE  /\ \A b \in Blocks : BlockStep(b)
             /\ zl'.itx = zl.itx /\ zl'.commit_seq = zl.commit_seq
             /\ \/ w'.lwb = NULL \/ (\E b \in Blocks : InBlock(b, i)') \/ i \in moot'
                \/ p'[t].pc = "recWait" /\ p'[t].txg = rec[i].txg
  <2>. DEFINE f == Start(w.lwb, n)
              b == w.lwb
  <2>1. /\ DOMAIN f = Blocks /\ (\A c \in Blocks : IsBlk(f[c]))
        /\ \A c \in Blocks : c \notin {b, n} => f[c] = blk[c]
        /\ f[b].io = "issued" /\ f[b].freed = blk[b].freed /\ f[b].max_txg = blk[b].max_txg
        /\ n # NULL => n \in Blocks /\ n # b /\ f[n].freed = 0 /\ f[n].max_txg \in Nat
    BY <1>7, StartFact
  <2>2. f[b].recs = blk[b].recs /\ (n # NULL => f[n].recs = <<>>)
    BY <1>7, StartLinks DEF StartsLink
  <2>3. (n = NULL => blk' = f /\ UNCHANGED zl) /\ (n # NULL => LogRecord(t, f, n))
    BY <1>7
  <2>. HIDE DEF f
  <2>4. n # NULL =>
          /\ \A c \in Blocks : c # n => blk'[c] = f[c]
          /\ blk'[n].io = "init" /\ blk'[n].freed = 0 /\ blk'[n].max_txg \in Nat
          /\ zl'.lwb = Append(zl.lwb, n) /\ zl'.itx = zl.itx /\ zl'.commit_seq = zl.commit_seq
          /\ \/ blk'[n].recs = Append(<<>>, x) /\ rec[w.itx].txg <= blk'[n].max_txg
             \/ /\ blk'[n].recs = <<>>
                /\ w.itx \in moot' \/ (p'[t].pc = "recWait" /\ p'[t].txg = rec[w.itx].txg)
    <3>. SUFFICES ASSUME n # NULL
                  PROVE  /\ \A c \in Blocks : c # n => blk'[c] = f[c]
                         /\ blk'[n].io = "init" /\ blk'[n].freed = f[n].freed /\ blk'[n].max_txg \in Nat
                         /\ zl'.lwb = Append(zl.lwb, n) /\ zl'.itx = zl.itx
                         /\ zl'.commit_seq = zl.commit_seq
                         /\ \/ blk'[n].recs = Append(f[n].recs, x) /\ rec[w.itx].txg <= blk'[n].max_txg
                            \/ /\ blk'[n].recs = f[n].recs
                               /\ w.itx \in moot' \/ (p'[t].pc = "recWait" /\ p'[t].txg = rec[w.itx].txg)
      BY <2>1, <2>2
    <3>1. n \in Blocks /\ IsBlk(f[n]) /\ f[n].max_txg \in Nat /\ DOMAIN f = Blocks /\ LogRecord(t, f, n)
          /\ n # w.lwb
      BY <2>1, <2>3
    <3>2. /\ \A c \in Blocks : c # n => blk'[c] = f[c]
          /\ blk'[n].io = "init" /\ blk'[n].freed = f[n].freed
          /\ f[n].max_txg <= blk'[n].max_txg /\ blk'[n].max_txg \in Nat
          /\ zl'.lwb = (IF n = w.lwb THEN zl.lwb ELSE Append(zl.lwb, n))
          /\ zl'.itx = zl.itx /\ zl'.commit_seq = zl.commit_seq
          /\ \/ /\ blk'[n].recs = Append(f[n].recs, x)
                /\ rec[w.itx].txg <= blk'[n].max_txg
             \/ /\ blk'[n].recs = f[n].recs
                /\ w.itx \in moot' \/ (p'[t].pc = "recWait" /\ p'[t].txg = rec[w.itx].txg)
      BY <1>1, <3>1, LogRecordBlock
    <3>. HIDE DEF x
    <3>. QED  BY <3>1, <3>2
  <2>5. /\ ListGrows /\ (n # NULL => \E m \in DOMAIN zl'.lwb : n = zl'.lwb[m])
        /\ zl'.itx = zl.itx /\ zl'.commit_seq = zl.commit_seq
    <3>1. CASE n = NULL
      BY <2>3, <3>1 DEF ListGrows
    <3>2. CASE n # NULL
      <4>. DEFINE a == Append(zl.lwb, n)
      <4>1. /\ DOMAIN a = 1 .. Len(zl.lwb) + 1 /\ a[Len(zl.lwb) + 1] = n /\ Len(zl.lwb) \in Nat
            /\ DOMAIN zl.lwb = 1 .. Len(zl.lwb) /\ \A m \in DOMAIN zl.lwb : a[m] = zl.lwb[m]
        BY <1>2, <2>1, <3>2
      <4>. HIDE DEF a
      <4>2. zl'.lwb = a
        BY <2>4, <3>2 DEF a
      <4>3. \A m \in DOMAIN zl.lwb : m \in DOMAIN a
        BY <4>1
      <4>4. Len(zl.lwb) + 1 \in DOMAIN a
        BY <4>1
      <4>. QED  BY <2>4, <3>2, <4>1, <4>2, <4>3, <4>4 DEF ListGrows
    <3>. QED  BY <3>1, <3>2
  <2>6. ASSUME NEW c \in Blocks, c \notin {b, n}
        PROVE  BlockStep(c)
    <3>1. blk'[c] = blk[c]
      BY <2>1, <2>3, <2>4, <2>6
    <3>. QED  BY <2>5, <3>1, SameBlockStep
  <2>7. BlockStep(b)
    <3>1. blk'[b] = f[b] /\ b \in Blocks
      BY <1>5, <1>7, <2>1, <2>3, <2>4
    <3>2. /\ blk'[b].recs = blk[b].recs /\ blk'[b].max_txg = blk[b].max_txg
          /\ blk'[b].freed = blk[b].freed /\ blk'[b].io = "issued"
          /\ blk[b].content = "none" /\ blk[b].recs \in Seq(Entries) /\ blk[b].max_txg \in Nat
      BY <1>2, <1>5, <1>7, <2>1, <2>2, <3>1
    <3>. QED  BY <2>5, <3>1, <3>2, FillBlockStep
  <2>8. n # NULL => BlockStep(n)
    <3>. SUFFICES ASSUME n # NULL
                  PROVE  BlockStep(n)
      OBVIOUS
    <3>1. blk[n] = NoBlk /\ n \in Blocks
      BY <1>7, AllocFact
    <3>2. /\ blk[n].content = "none" /\ blk[n].recs = <<>> /\ blk[n].max_txg = 0 /\ blk[n].freed = 0
          /\ blk[n].recs \in Seq(Entries)
      BY <3>1 DEF NoBlk
    <3>3. /\ blk[n].max_txg \in Nat /\ blk'[n].max_txg \in Nat /\ blk[n].max_txg <= blk'[n].max_txg
          /\ blk'[n].freed = blk[n].freed /\ (blk'[n].io = "none" => blk'[n].recs = <<>>)
      BY <2>4, <3>2
    <3>4. \/ blk'[n].recs = blk[n].recs
          \/ blk'[n].recs = Append(blk[n].recs, x) /\ rec[w.itx].txg <= blk'[n].max_txg
      <4>. HIDE DEF x
      <4>. QED  BY <2>4, <3>2
    <3>5. \E m \in DOMAIN zl'.lwb : n = zl'.lwb[m]
      BY <2>5
    <3>. QED  BY <1>1, <2>5, <3>1, <3>2, <3>3, <3>4, <3>5, FillBlockStep
  <2>9. \/ w'.lwb = NULL \/ (\E c \in Blocks : InBlock(c, i)') \/ i \in moot'
        \/ p'[t].pc = "recWait" /\ p'[t].txg = rec[i].txg
    <3>. HIDE DEF x
    <3>1. w'.lwb = n
      BY <1>2, <1>7 DEF IsWriter
    <3>2. <<>> \in Seq(Entries)
      OBVIOUS
    <3>. QED  BY <1>3, <2>1, <2>4, <3>1, <3>2
  <2>10. \A c \in Blocks : BlockStep(c)
    <3>. HIDE DEF b
    <3>. QED  BY <2>6, <2>7, <2>8, NullFact
  <2>. QED  BY <2>5, <2>9, <2>10
<1>. QED  BY <1>4, <1>6, <1>7 DEF zil_lwb_commit

\* The end of the loop issues the last block.
LEMMA WriteLastBlocks ==
  ASSUME ZilInv, BookInv, OpenInv, MaxInv, NEW t \in Procs, WriteLast(t)
  PROVE  /\ \A b \in Blocks : BlockStep(b)
         /\ zl'.itx = zl.itx /\ zl'.commit_seq = zl.commit_seq /\ (w.lwb = NULL => w'.lwb = NULL)
         /\ w'.lwb # NULL => blk'[w'.lwb].recs = <<>>
<1>1. /\ IsZl(zl) /\ IsWriter(w) /\ DOMAIN blk = Blocks /\ (\A b \in Blocks : IsBlk(blk[b]))
      /\ zl.lwb \in Seq(Blocks) /\ \A b \in Blocks : blk[b].recs \in Seq(Entries)
  BY DEF ZilInv, ShapeInv, BookInv
<1>2. CASE (w.lwb = NULL \/ blk[w.lwb].io # "init") /\ UNCHANGED <<zl, blk>>
           /\ \E s : w' = [w EXCEPT !.commit_seq = s, !.next = 0]
  <2>1. w'.lwb = w.lwb
    BY <1>1, <1>2 DEF IsWriter
  <2>2. ListGrows
    BY <1>2 DEF ListGrows
  <2>3. \A b \in Blocks : BlockStep(b)
    BY <1>2, <2>2, SameBlockStep
  <2>4. w.lwb # NULL => blk[w.lwb].recs = <<>>
    BY <1>1, <1>2 DEF ZilInv, WriterInv, IsWriter, MaxInv
  <2>. QED  BY <1>2, <2>1, <2>3, <2>4
<1>3. ASSUME w.lwb # NULL, NEW n \in Alloc, blk' = Start(w.lwb, n),
             zl' = IF n = NULL THEN zl ELSE [zl EXCEPT !.lwb = Append(@, n)],
             \E s : w' = [w EXCEPT !.commit_seq = s, !.lwb = n, !.next = 0]
      PROVE  /\ \A b \in Blocks : BlockStep(b)
             /\ zl'.itx = zl.itx /\ zl'.commit_seq = zl.commit_seq
             /\ w'.lwb # NULL => blk'[w'.lwb].recs = <<>>
  <2>. DEFINE b == w.lwb
  <2>1. /\ \A c \in Blocks : c \notin {b, n} => blk'[c] = blk[c]
        /\ blk'[b].io = "issued" /\ blk'[b].freed = blk[b].freed /\ blk'[b].max_txg = blk[b].max_txg
        /\ n # NULL => n \in Blocks /\ blk'[n].freed = 0 /\ blk'[n].max_txg \in Nat
    BY <1>3, StartFact
  <2>2. blk'[b].recs = blk[b].recs /\ (n # NULL => blk'[n].recs = <<>>)
    BY <1>3, StartLinks DEF StartsLink
  <2>3. b \in Blocks /\ blk[b].content = "none" /\ blk[b].max_txg \in Nat
    <3>1. zl.lwb # <<>> /\ Last(zl.lwb) = b /\ blk[b].io \in {"none", "init"} /\ b \in Blocks
      BY <1>1, <1>3 DEF ZilInv, WriterInv, IsWriter
    <3>2. Len(zl.lwb) \in DOMAIN zl.lwb /\ zl.lwb[Len(zl.lwb)] = b
      BY <1>1, <3>1 DEF Last
    <3>. QED  BY <3>1, <3>2 DEF ZilInv, TailInv, OpenInv
  <2>4. ListGrows /\ zl'.itx = zl.itx /\ zl'.commit_seq = zl.commit_seq
    <3>1. CASE n = NULL
      BY <1>3, <3>1 DEF ListGrows
    <3>2. CASE n # NULL
      <4>. DEFINE a == Append(zl.lwb, n)
      <4>1. /\ DOMAIN a = 1 .. Len(zl.lwb) + 1 /\ Len(zl.lwb) \in Nat
            /\ DOMAIN zl.lwb = 1 .. Len(zl.lwb) /\ \A m \in DOMAIN zl.lwb : a[m] = zl.lwb[m]
        BY <1>1, <2>1, <3>2
      <4>2. zl' = [zl EXCEPT !.lwb = a]
        BY <1>3, <3>2
      <4>. HIDE DEF a
      <4>3. zl'.lwb = a /\ zl'.itx = zl.itx /\ zl'.commit_seq = zl.commit_seq
        BY <1>1, <4>2 DEF IsZl
      <4>4. \A m \in DOMAIN zl.lwb : m \in DOMAIN a
        BY <4>1
      <4>. QED  BY <4>1, <4>3, <4>4 DEF ListGrows
    <3>. QED  BY <3>1, <3>2
  <2>5. \A c \in Blocks : c \notin {b, n} => BlockStep(c)
    BY <2>1, <2>4, SameBlockStep
  <2>6. BlockStep(b)
    BY <1>1, <2>1, <2>2, <2>3, <2>4, FillBlockStep
  <2>7. n # NULL => BlockStep(n)
    <3>. SUFFICES ASSUME n # NULL
                  PROVE  BlockStep(n)
      OBVIOUS
    <3>1. blk[n] = NoBlk /\ n \in Blocks
      BY <1>3, AllocFact
    <3>2. /\ blk[n].content = "none" /\ blk[n].recs = <<>> /\ blk[n].max_txg = 0 /\ blk[n].freed = 0
          /\ blk[n].recs \in Seq(Entries)
      BY <3>1 DEF NoBlk
    <3>3. /\ blk[n].max_txg \in Nat /\ blk'[n].max_txg \in Nat /\ blk[n].max_txg <= blk'[n].max_txg
          /\ blk'[n].freed = blk[n].freed /\ (blk'[n].io = "none" => blk'[n].recs = <<>>)
          /\ blk'[n].recs = blk[n].recs
      BY <2>1, <2>2, <3>2
    <3>. QED  BY <2>4, <3>1, <3>2, <3>3, FillBlockStep
  <2>8. w'.lwb = n
    BY <1>1, <1>3 DEF IsWriter
  <2>9. \A c \in Blocks : BlockStep(c)
    <3>. HIDE DEF b
    <3>. QED  BY <2>5, <2>6, <2>7, NullFact
  <2>. QED  BY <2>2, <2>4, <2>8, <2>9
<1>. QED  BY <1>2, <1>3 DEF WriteLast

\* A set of first numbers holds as many as there are.
LEMMA FirstNumbers ==
  ASSUME NEW N \in Nat, NEW O \in SUBSET (1 .. N), \A n \in O : \A m \in 1 .. n : m \in O
  PROVE  Cardinality(O) \in Nat /\ 1 .. Cardinality(O) \subseteq O
<1>1. ASSUME NEW m \in Nat, O \in SUBSET (1 .. m)
      PROVE  Cardinality(O) \in Nat /\ Cardinality(O) <= m
  <2>1. IsFiniteSet(1 .. m) /\ Cardinality(1 .. m) = m
    BY FS_Interval
  <2>2. IsFiniteSet(O) /\ Cardinality(O) <= Cardinality(1 .. m)
    BY <1>1, <2>1, FS_Subset
  <2>3. Cardinality(O) \in Nat
    BY <2>2, FS_CardinalityType
  <2>. QED  BY <2>1, <2>2, <2>3
<1>2. Cardinality(O) \in Nat
  BY <1>1
<1>3. ASSUME NEW n \in 1 .. Cardinality(O), n \notin O
      PROVE  FALSE
  <2>1. n \in Nat /\ n - 1 \in Nat /\ n <= Cardinality(O) /\ n >= 1
    BY <1>2
  <2>2. \A m \in O : m \in Nat /\ m >= 1 /\ m < n
    <3>. SUFFICES ASSUME NEW m \in O, ~(m < n)
                  PROVE  FALSE
      OBVIOUS
    <3>1. n \in 1 .. m
      BY <2>1
    <3>. QED  BY <1>3, <3>1
  <2>3. O \in SUBSET (1 .. (n - 1))
    BY <2>1, <2>2
  <2>4. Cardinality(O) <= n - 1
    BY <1>1, <2>1, <2>3
  <2>. QED  BY <1>2, <2>1, <2>4
<1>. QED  BY <1>2, <1>3

\* So the obsolete blocks are the first ones.
LEMMA ObsoleteIs ==
  ASSUME ZilInv, NEW g
  PROVE  \A n \in 1 .. Cardinality(Obsolete(g)) :
           n \in DOMAIN zl.lwb /\ blk[zl.lwb[n]].max_txg <= g
<1>1. zl.lwb \in Seq(Blocks)
  BY DEF ZilInv, ShapeInv
<1>. DEFINE N == Len(zl.lwb)
<1>2. N \in Nat /\ DOMAIN zl.lwb = 1 .. N
  BY <1>1
<1>3. /\ Obsolete(g) \in SUBSET (1 .. N)
      /\ \A n \in Obsolete(g) : \A m \in 1 .. n : m \in Obsolete(g)
  <2>1. Obsolete(g) \in SUBSET (1 .. N)
    BY <1>2 DEF Obsolete
  <2>2. ASSUME NEW n \in Obsolete(g), NEW m \in 1 .. n
        PROVE  m \in Obsolete(g)
    <3>1. n \in 1 .. N /\ m \in 1 .. N /\ \A l \in 1 .. m : l \in 1 .. n
      BY <1>2, <2>1, <2>2
    <3>. QED  BY <1>2, <2>2, <3>1 DEF Obsolete
  <2>. QED  BY <2>1, <2>2
<1>4. 1 .. Cardinality(Obsolete(g)) \subseteq Obsolete(g)
  BY <1>2, <1>3, FirstNumbers
<1>5. \A n \in Obsolete(g) : n \in DOMAIN zl.lwb /\ n \in 1 .. n /\ blk[zl.lwb[n]].max_txg <= g
  BY <1>2 DEF Obsolete
<1>. QED  BY <1>4, <1>5

\* No step but these loses anything that a block holds.
Steady == \A b \in Blocks : BlockStep(b)

\* A step that leaves the blocks alone.
LEMMA SameSteady ==
  ASSUME UNCHANGED blk, zl'.lwb = zl.lwb
  PROVE  Steady
<1>1. ListGrows
  BY DEF ListGrows
<1>. QED  BY <1>1, SameBlockStep DEF Steady

\* A flush, a claim and the end of a write.
LEMMA LikeSteady ==
  ASSUME zl'.lwb = zl.lwb,
         \A b \in Blocks :
           /\ blk'[b].recs = blk[b].recs /\ blk'[b].next = blk[b].next
           /\ blk[b].content = "disk" => blk'[b].content = "disk"
           /\ blk'[b].max_txg = blk[b].max_txg /\ blk'[b].freed = blk[b].freed
           /\ blk'[b].io = "none" => blk[b].io = "none"
  PROVE  Steady
<1>1. ListGrows
  BY DEF ListGrows
<1>. QED  BY <1>1, SameBlockStep DEF Steady

\* Blocks that are freed in group g leave the list then, or stay on it.
LEMMA FreeSteady ==
  ASSUME ZilInv, NEW X, NEW g \in Nat, g # 0, blk' = FreeBlocks(X, g),
         \A n \in DOMAIN zl.lwb :
           \/ \E m \in DOMAIN zl'.lwb : zl'.lwb[m] = zl.lwb[n]
           \/ zl.lwb[n] \in X /\ (blk[zl.lwb[n]].max_txg <= g \/ open <= g),
         \A b \in Blocks \cap X : blk[b].freed = 0 \/ open <= g
  PROVE  Steady
<1>. SUFFICES ASSUME NEW b \in Blocks
              PROVE  BlockStep(b)
  BY DEF Steady
<1>1. /\ IsBlk(blk[b]) /\ zl.lwb \in Seq(Blocks) /\ open \in Nat
      /\ \A n \in DOMAIN zl.lwb : blk[zl.lwb[n]].max_txg \in Nat
  BY DEF ZilInv, ShapeInv, GroupInv, TailInv
<1>2. blk'[b] = (IF b \in X THEN [blk[b] EXCEPT !.freed = g] ELSE blk[b])
  BY DEF FreeBlocks
<1>3. /\ blk'[b].recs = blk[b].recs /\ blk'[b].next = blk[b].next /\ blk'[b].content = blk[b].content
      /\ blk'[b].max_txg = blk[b].max_txg /\ blk'[b].io = blk[b].io
      /\ blk'[b].freed = (IF b \in X THEN g ELSE blk[b].freed)
  BY <1>1, <1>2 DEF IsBlk
<1>4. StillReads(b)
  BY <1>3 DEF StillReads, Valid
<1>5. ASSUME NEW h \in Nat, h <= open, Outlasts(b, h)
      PROVE  Outlasts(b, h)'
  <2>1. CASE blk[b].freed # 0 /\ h <= blk[b].freed
    <3>1. CASE b \in X /\ blk[b].freed # 0
      <4>1. h <= g
        BY <1>1, <1>5, <3>1
      <4>. QED  BY <1>3, <3>1, <4>1 DEF Outlasts
    <3>. QED  BY <1>3, <2>1, <3>1 DEF Outlasts
  <2>2. ASSUME NEW n \in DOMAIN zl.lwb, b = zl.lwb[n], h <= blk[b].max_txg
        PROVE  Outlasts(b, h)'
    <3>1. CASE \E m \in DOMAIN zl'.lwb : zl'.lwb[m] = zl.lwb[n]
      BY <1>3, <2>2, <3>1 DEF Outlasts
    <3>2. CASE b \in X /\ (blk[b].max_txg <= g \/ open <= g)
      <4>1. h <= g
        BY <1>1, <1>5, <2>2, <3>2
      <4>. QED  BY <1>3, <3>2, <4>1 DEF Outlasts
    <3>. QED  BY <2>2, <3>1, <3>2
  <2>. QED  BY <1>5, <2>1, <2>2 DEF Outlasts
<1>. QED  BY <1>3, <1>4, <1>5 DEF BlockStep

\* zil_destroy()
LEMMA DestroySteady ==
  ASSUME ZilInv, NEW keep, NEW z, IsZl(z), z.lwb = zl.lwb, Destroy(keep, z)
  PROVE  Steady
<1>1. open \in Nat /\ open # 0 /\ zl.lwb \in Seq(Blocks)
  BY DEF ZilInv, GroupInv, ShapeInv
<1>2. CASE zh.log = NULL
  BY <1>2, SameSteady DEF Destroy
<1>3. CASE zh.log # NULL
  <2>. DEFINE X == IF zl.lwb # <<>> THEN Range(zl.lwb)
                   ELSE IF keep THEN {} ELSE Range(Chain(blk, zh.log))
  <2>1. blk' = FreeBlocks(X, open)
    BY <1>3 DEF Destroy
  <2>2. \A n \in DOMAIN zl.lwb : zl.lwb[n] \in X
    BY <1>1 DEF Range
  <2>. HIDE DEF X
  <2>3. open <= open
    BY <1>1
  <2>. QED  BY <1>1, <2>1, <2>2, <2>3, FreeSteady
<1>. QED  BY <1>2, <1>3

\* zil_sync()
LEMMA zil_syncSteady ==
  ASSUME ZilInv, zil_sync
  PROVE  Steady
<1>. DEFINE txg == stable + 1
            l == Cardinality(Obsolete(txg))
            X == {zl.lwb[n] : n \in 1 .. l}
            s == SubSeq(zl.lwb, l + 1, Len(zl.lwb))
<1>1. /\ zl.lwb \in Seq(Blocks) /\ stable \in Nat /\ txg \in Nat /\ txg # 0 /\ IsZl(zl)
      /\ \A n \in DOMAIN zl.lwb : blk[zl.lwb[n]].freed = 0
  BY DEF ZilInv, ShapeInv, GroupInv, TailInv
<1>2. /\ blk' = FreeBlocks(X, txg) /\ Quiesced /\ ~zsynced
      /\ \E f : zl' = [zl EXCEPT !.lwb = s, !.replayed = f]
  BY DEF zil_sync
<1>3. l \in Nat /\ l <= Len(zl.lwb)
  BY <1>2, ObsoleteFact
<1>4. \A n \in 1 .. l : n \in DOMAIN zl.lwb /\ blk[zl.lwb[n]].max_txg <= txg
  BY <1>1, <1>2, <1>3, ObsoleteIs
<1>5. /\ s \in Seq(Blocks) /\ Len(s) = (IF l <= Len(zl.lwb) THEN Len(zl.lwb) - l ELSE 0)
      /\ \A n \in DOMAIN s : l + n \in DOMAIN zl.lwb /\ s[n] = zl.lwb[l + n]
  BY <1>1, <1>3, DropFact
<1>. HIDE DEF s, l
<1>6. zl'.lwb = s
  BY <1>1, <1>2 DEF IsZl
<1>7. ASSUME NEW n \in DOMAIN zl.lwb
      PROVE  \/ \E m \in DOMAIN zl'.lwb : zl'.lwb[m] = zl.lwb[n]
             \/ zl.lwb[n] \in X /\ blk[zl.lwb[n]].max_txg <= txg
  <2>0. n \in Nat \ {0} /\ n <= Len(zl.lwb) /\ Len(zl.lwb) \in Nat
    BY <1>1
  <2>1. CASE n <= l
    <3>1. n \in 1 .. l
      BY <1>3, <2>0, <2>1
    <3>. QED  BY <1>4, <3>1
  <2>2. CASE ~(n <= l)
    <3>1. n - l \in DOMAIN s /\ l + (n - l) = n
      BY <1>3, <1>5, <2>0, <2>2
    <3>. QED  BY <1>5, <1>6, <3>1
  <2>. QED  BY <2>1, <2>2
<1>8. \A b \in Blocks \cap X : blk[b].freed = 0
  BY <1>1, <1>4
<1>. HIDE DEF X
<1>. QED  BY <1>1, <1>2, <1>7, <1>8, FreeSteady

\* A step of zil_commit().
LEMMA CommitSteady ==
  ASSUME ZilInv, BookInv, ChainInv, MaxInv, NEW t \in Procs,
         CommitStep(t) \/ (\E f, seq : zil_commit(t, f, seq))
  PROVE  Steady \/ zil_create(t)
<1>1. IsZl(zl) /\ OpenInv
  BY DEF ZilInv, ShapeInv, ChainInv
<1>2. ASSUME NEW q, BecomeWriter(t, q)
      PROVE  zl'.lwb = zl.lwb
  BY <1>1, <1>2 DEF BecomeWriter, IsZl
<1>3. CASE \E f, seq : zil_commit(t, f, seq)
  <2>1. UNCHANGED blk /\ (UNCHANGED zl \/ \E q : BecomeWriter(t, q))
    BY <1>3 DEF zil_commit
  <2>. QED  BY <1>2, <2>1, SameSteady
<1>4. CASE zil_commit_wakeup(t)
  <2>1. UNCHANGED blk /\ (UNCHANGED zl \/ \E q : BecomeWriter(t, q))
    BY <1>4 DEF zil_commit_wakeup
  <2>. QED  BY <1>2, <2>1, SameSteady
<1>5. CASE zil_created(t) \/ RecordSynced(t)
  BY <1>5, SameSteady DEF zil_created, RecordSynced
<1>6. CASE TakeItx(t)
  <2>. DEFINE s == RemoveItx(zl.itx, NextItx(t))
  <2>1. UNCHANGED blk /\ zl' = [zl EXCEPT !.itx = s]
    BY <1>6 DEF TakeItx
  <2>. HIDE DEF s
  <2>2. zl'.lwb = zl.lwb
    BY <1>1, <2>1 DEF IsZl
  <2>. QED  BY <2>1, <2>2, SameSteady
<1>7. CASE zil_lwb_commit(t)
  <2>1. PICK i : i = w.itx
    OBVIOUS
  <2>. QED  BY <1>1, <1>7, <2>1, zil_lwb_commitBlocks DEF Steady
<1>8. CASE WriteLast(t)
  BY <1>1, <1>8, WriteLastBlocks DEF Steady
<1>9. CASE WaitForWrites(t)
  <2>1. blk' = Flushed /\ (UNCHANGED zl \/ Publish(t))
    BY <1>9 DEF WaitForWrites
  <2>2. zl'.lwb = zl.lwb
    BY <1>1, <2>1 DEF Publish, IsZl
  <2>3. ASSUME NEW b \in Blocks
        PROVE  /\ blk'[b].recs = blk[b].recs /\ blk'[b].next = blk[b].next
               /\ blk[b].content = "disk" => blk'[b].content = "disk"
               /\ blk'[b].max_txg = blk[b].max_txg /\ blk'[b].freed = blk[b].freed
               /\ blk'[b].io = "none" => blk[b].io = "none"
    BY <2>1, FlushBlocks
  <2>. QED  BY <2>2, <2>3, LikeSteady
<1>10. CASE WaitForSync(t)
  <2>1. UNCHANGED blk /\ zl'.lwb = zl.lwb
    BY <1>1, <1>10 DEF WaitForSync, Publish, IsZl
  <2>. QED  BY <2>1, SameSteady
<1>. QED  BY <1>3, <1>4, <1>5, <1>6, <1>7, <1>8, <1>9, <1>10 DEF CommitStep

\* Every step.
LEMMA SteadyNext ==
  ASSUME ZilInv, BookInv, ChainInv, MaxInv, [Next]_vars
  PROVE  Steady \/ Stabilize \/ Crash \/ (\E t \in Procs : zil_create(t))
<1>1. IsZl(zl) /\ DOMAIN blk = Blocks /\ (\A b \in Blocks : IsBlk(blk[b])) /\ OpenInv
  BY DEF ZilInv, ShapeInv, ChainInv
<1>2. ASSUME NEW t \in Suspenders, zil_suspend(t) \/ SuspendStep(t)
      PROVE  Steady
  <2>1. CASE zil_commit(t, 0, LastItx(0))
    <3>1. UNCHANGED blk /\ (UNCHANGED zl \/ \E q : BecomeWriter(t, q))
      BY <2>1 DEF zil_commit
    <3>2. zl'.lwb = zl.lwb
      BY <1>1, <3>1 DEF BecomeWriter, IsZl
    <3>. QED  BY <3>1, <3>2, SameSteady
  <2>2. CASE SuspendDrain(t)
    BY <2>2, SameSteady DEF SuspendDrain
  <2>3. CASE zil_resume(t)
    <3>1. UNCHANGED blk /\ zl' = [zl EXCEPT !.suspend = @ - 1]
      BY <2>3 DEF zil_resume
    <3>2. zl'.lwb = zl.lwb
      BY <1>1, <3>1 DEF IsZl
    <3>. QED  BY <3>1, <3>2, SameSteady
  <2>4. CASE zil_suspend(t)
    <3>. DEFINE x == zl.suspending \/ zl.suspend = 0
    <3>1. UNCHANGED blk /\ zl' = [zl EXCEPT !.suspend = @ + 1, !.suspending = x]
      BY <2>4 DEF zil_suspend
    <3>. HIDE DEF x
    <3>2. zl'.lwb = zl.lwb
      BY <1>1, <3>1 DEF IsZl
    <3>. QED  BY <3>1, <3>2, SameSteady
  <2>5. CASE SuspendDestroy(t)
    <3>. DEFINE z == [zl EXCEPT !.suspending = FALSE]
    <3>1. Destroy(FALSE, z)
      BY <2>5 DEF SuspendDestroy
    <3>2. IsZl(z) /\ z.lwb = zl.lwb
      BY <1>1 DEF IsZl
    <3>. HIDE DEF z
    <3>. QED  BY <3>1, <3>2, DestroySteady
  <2>. QED  BY <1>2, <2>1, <2>2, <2>3, <2>4, <2>5 DEF SuspendStep
<1>3. ASSUME NEW t \in Threads,
             \/ (\E k \in Kinds : CallBegin(t, k)) \/ zil_itx_assign(t)
             \/ \E f, seq : zil_commit(t, f, seq)
      PROVE  Steady \/ zil_create(t)
  <2>0. t \in Procs
    BY NullFact
  <2>1. CASE \E k \in Kinds : CallBegin(t, k)
    BY <2>1, SameSteady DEF CallBegin
  <2>2. CASE zil_itx_assign(t)
    <3>. DEFINE s == Append(zl.itx, Len(rec) + 1)
    <3>1. UNCHANGED blk /\ zl' = [zl EXCEPT !.itx = s]
      BY <2>2 DEF zil_itx_assign
    <3>. HIDE DEF s
    <3>2. zl'.lwb = zl.lwb
      BY <1>1, <3>1 DEF IsZl
    <3>. QED  BY <3>1, <3>2, SameSteady
  <2>. QED  BY <1>3, <2>0, <2>1, <2>2, CommitSteady
<1>4. ASSUME NEW b \in Blocks, NEW ok \in BOOLEAN, zil_lwb_write_done(b, ok)
      PROVE  Steady
  <2>. DEFINE x == IF ok THEN "cache" ELSE "none"
  <2>1. blk' = [blk EXCEPT ![b] = [blk[b] EXCEPT !.io = "done", !.content = x]] /\ UNCHANGED zl
        /\ blk[b].io = "issued"
    BY <1>4 DEF zil_lwb_write_done
  <2>2. blk[b].content = "none"
    BY <1>1, <2>1 DEF OpenInv
  <2>. HIDE DEF x
  <2>3. ASSUME NEW c \in Blocks
        PROVE  /\ blk'[c].recs = blk[c].recs /\ blk'[c].next = blk[c].next
               /\ blk[c].content = "disk" => blk'[c].content = "disk"
               /\ blk'[c].max_txg = blk[c].max_txg /\ blk'[c].freed = blk[c].freed
               /\ blk'[c].io = "none" => blk[c].io = "none"
    BY <1>1, <2>1, <2>2 DEF IsBlk
  <2>. QED  BY <2>1, <2>3, LikeSteady
<1>5. CASE zil_itx_clean
  <2>. DEFINE synced == {n \in DOMAIN zl.itx : \A m \in 1 .. n : rec[zl.itx[m]].txg <= stable}
              s == SubSeq(zl.itx, Cardinality(synced) + 1, Len(zl.itx))
  <2>1. UNCHANGED blk /\ zl' = [zl EXCEPT !.clean = FALSE, !.itx = s]
    BY <1>5 DEF zil_itx_clean
  <2>. HIDE DEF s
  <2>2. zl'.lwb = zl.lwb
    BY <1>1, <2>1 DEF IsZl
  <2>. QED  BY <2>1, <2>2, SameSteady
<1>6. CASE Advance
  BY <1>6, SameSteady DEF Advance
<1>7. CASE ImportStep
  <2>1. CASE zil_claim
    <3>1. /\ UNCHANGED zl
          /\ \A b \in Blocks : blk'[b] \in {blk[b], [blk[b] EXCEPT !.birth = open]}
      <4>1. CASE zh.claim_txg = 0 /\ zh.log # NULL
        BY <2>1, <4>1 DEF zil_claim
      <4>2. CASE ~(zh.claim_txg = 0 /\ zh.log # NULL)
        BY <2>1, <4>2 DEF zil_claim
      <4>. QED  BY <4>1, <4>2
    <3>2. ASSUME NEW b \in Blocks
          PROVE  /\ blk'[b].recs = blk[b].recs /\ blk'[b].next = blk[b].next
                 /\ blk[b].content = "disk" => blk'[b].content = "disk"
                 /\ blk'[b].max_txg = blk[b].max_txg /\ blk'[b].freed = blk[b].freed
                 /\ blk'[b].io = "none" => blk[b].io = "none"
      BY <1>1, <3>1 DEF IsBlk
    <3>. QED  BY <3>1, <3>2, LikeSteady
  <2>2. CASE zil_replay
    <3>1. CASE zh.needed
      BY <2>2, <3>1, SameSteady DEF zil_replay
    <3>2. CASE ~zh.needed
      BY <1>1, <2>2, <3>2, DestroySteady DEF zil_replay
    <3>. QED  BY <3>1, <3>2
  <2>3. CASE zil_replay_log_record
    <3>. DEFINE y == [zl.replayed EXCEPT ![open % TXG_SIZE] = Log[r.pos + 1].seq]
    <3>1. UNCHANGED blk /\ (zl' = zl \/ zl' = [zl EXCEPT !.replayed = y])
      BY <2>3 DEF zil_replay_log_record
    <3>. HIDE DEF y
    <3>2. zl'.lwb = zl.lwb
      BY <1>1, <3>1 DEF IsZl
    <3>. QED  BY <3>1, <3>2, SameSteady
  <2>4. CASE ReplayDestroy
    BY <1>1, <2>4, DestroySteady DEF ReplayDestroy
  <2>5. CASE ReplayDone
    BY <2>5, SameSteady DEF ReplayDone
  <2>. QED  BY <1>7, <2>1, <2>2, <2>3, <2>4, <2>5 DEF ImportStep
<1>8. CASE UNCHANGED vars
  BY <1>8, SameSteady DEF vars
<1>. QED  BY <1>2, <1>3, <1>4, <1>5, <1>6, <1>7, <1>8, zil_syncSteady, CommitSteady, NullFact
             DEF Next, SyncStep

\* zil_create() resets a block that has nothing that could be read.
LEMMA zil_createKept ==
  ASSUME ZilInv, BookInv, ChainInv, NEW t \in Procs, zil_create(t)
  PROVE  /\ \A b \in Blocks : /\ Valid(blk, b) => blk'[b] = blk[b]
                              /\ blk'[b] = blk[b] \/ (blk'[b].recs = <<>> /\ blk[b].freed = 0)
         /\ zl.lwb = <<>> /\ zl'.itx = zl.itx /\ zl'.commit_seq = zl.commit_seq
<1>1. /\ IsZl(zl) /\ DOMAIN blk = Blocks /\ OpenInv /\ p[t].pc = "create" /\ zl.lwb = <<>>
      /\ NoBlk.recs = <<>> /\ NoBlk.content = "none" /\ mode = "up"
  BY DEF ZilInv, ShapeInv, ChainInv, zil_create, OpenInv, NoBlk, WriterInv, Idle
<1>2. zl'.itx = zl.itx /\ zl'.commit_seq = zl.commit_seq
  BY <1>1 DEF zil_create, IsZl
<1>3. CASE zh.log # NULL
  <2>. DEFINE b == zh.log
              x == [NoBlk EXCEPT !.birth = blk[b].birth]
  <2>1. blk' = [blk EXCEPT ![b] = x] /\ x.recs = <<>>
    BY <1>3 DEF zil_create, NoBlk
  <2>2. ~Live(b) /\ blk[b].freed = 0
    <3>1. PICK D \in Seq(Blocks), k \in Nat : IsLog(D, k)
      BY DEF ChainInv
    <3>2. ~Destroying /\ ~Importing
      BY <1>1 DEF zil_create, DestroyDone, Destroying, Synced, SyncedIn, ZilInv, GroupInv, ShapeInv, Importing
    <3>3. Len(D) = 1 /\ D[1] = zh.log /\ blk[D[1]].freed = 0
      BY <1>1, <1>3, <3>1, <3>2, KeptLog
    <3>. QED  BY <3>1, <3>3 DEF IsLog, Linked
  <2>3. ~Valid(blk, b)
    BY <2>2 DEF Live, LiveIn, Valid
  <2>. HIDE DEF x
  <2>. QED  BY <1>1, <1>2, <2>1, <2>2, <2>3
<1>4. CASE zh.log = NULL
  <2>1. PICK n \in Alloc : IF n = NULL THEN UNCHANGED blk ELSE blk' = [blk EXCEPT ![n] = NewLwb(n, open)]
    BY <1>4 DEF zil_create
  <2>2. n # NULL => blk[n] = NoBlk /\ NoBlk.freed = 0 /\ NewLwb(n, open).recs = <<>>
    BY <2>1, AllocFact DEF NewLwb, NoBlk
  <2>3. n # NULL => ~Valid(blk, n)
    BY <1>1, <2>2 DEF Valid
  <2>. HIDE DEF NewLwb
  <2>. QED  BY <1>1, <1>2, <2>1, <2>2, <2>3
<1>. QED  BY <1>3, <1>4

\* Only a group that gets to disk changes the header there.
LEMMA DiskHeaderNext ==
  ASSUME ZilInv, [Next]_vars, ~Stabilize
  PROVE  zh_disk' = zh_disk
<1>1. CASE Beside
  BY <1>1 DEF Beside
<1>2. CASE SyncStep
  BY <1>2 DEF SyncStep, zil_sync, Advance
<1>3. CASE ImportStep
  BY <1>3 DEF ImportStep, zil_claim, zil_replay, zil_replay_log_record, ReplayDestroy, ReplayDone
<1>4. CASE Crash
  BY <1>4 DEF Crash
<1>. QED  BY <1>1, <1>2, <1>3, <1>4, BesideNext

\* What is safe stays safe.
LEMMA SafeNext ==
  ASSUME ZilInv, BookInv, ChainInv, ReplayInv, MaxInv, [Next]_vars, NEW i \in 1 .. Len(rec), Safe(i)
  PROVE  Safe(i)'
<1>1. CASE home[i] \in 1 .. stable
  <2>1. home'[i] \in 1 .. stable'
    BY <1>1, HomeStays
  <2>. QED  BY <2>1 DEF Safe
<1>2. CASE OnLog(i) /\ Stabilize
  BY <1>2, StabilizeOnLog
<1>3. CASE OnLog(i) /\ Crash
  <2>1. OnLog(i)'
    BY <1>3, CrashOnLog
  <2>. QED  BY <2>1 DEF Safe
<1>4. CASE OnLog(i) /\ ~Stabilize /\ ~Crash
  <2>1. zh_disk' = zh_disk
    BY <1>4, DiskHeaderNext
  <2>2. \A b \in Blocks : Valid(blk, b) => StillReads(b)
    <3>1. CASE Steady
      BY <3>1 DEF Steady, BlockStep
    <3>2. ASSUME NEW t \in Procs, zil_create(t), NEW b \in Blocks, Valid(blk, b)
          PROVE  StillReads(b)
      <4>1. blk'[b] = blk[b]
        BY <3>2, zil_createKept
      <4>. QED  BY <3>2, <4>1 DEF StillReads, Valid
    <3>. QED  BY <1>4, <3>1, <3>2, SteadyNext
  <2>3. OnLog(i)'
    BY <1>4, <2>1, <2>2, OnLogKeeps
  <2>. QED  BY <2>3 DEF Safe
<1>. QED  BY <1>1, <1>2, <1>3, <1>4 DEF Safe

\* Nothing logged before a crash is of this boot.
LEMMA CrashCurrent ==
  ASSUME ZilInv, Crash, NEW i
  PROVE  ~CurrentIn(rec', crashes', i)
<1>1. rec' = rec /\ crashes' = crashes + 1
  BY DEF Crash
<1>2. /\ crashes \in Nat /\ DOMAIN rec = 1 .. Len(rec)
      /\ \A j \in DOMAIN rec : rec[j].boot \in Nat /\ rec[j].boot <= crashes
  BY DEF ZilInv, RecInv, IsRec
<1>3. i \in 1 .. Len(rec) => rec[i].boot # crashes + 1
  BY <1>2
<1>. QED  BY <1>1, <1>3 DEF CurrentIn

\* A record that there was is of this boot if it was.
LEMMA SameCurrentNext ==
  ASSUME ZilInv, [Next]_vars, ~Crash, NEW i \in 1 .. Len(rec)
  PROVE  /\ crashes' = crashes /\ rec'[i] = rec[i] /\ i \in 1 .. Len(rec')
         /\ (CurrentIn(rec', crashes', i) <=> Current(i))
<1>1. crashes' = crashes
  <2>1. CASE Beside
    BY <2>1 DEF Beside
  <2>2. CASE SyncStep
    BY <2>2 DEF SyncStep, zil_sync, Stabilize, Advance, import_vars
  <2>3. CASE ImportStep
    BY <2>3 DEF ImportStep, zil_claim, zil_replay, zil_replay_log_record, ReplayDestroy, ReplayDone
  <2>. QED  BY <2>1, <2>2, <2>3, BesideNext
<1>2. Len(rec) \in Nat
  BY DEF ZilInv, RecInv
<1>3. rec'[i] = rec[i] /\ i \in 1 .. Len(rec')
  BY <1>2, RecNext
<1>. QED  BY <1>1, <1>3 DEF Current, CurrentIn

\* A block stays until its records are on disk.
LEMMA MaxNext ==
  ASSUME ZilInv, BookInv, ChainInv, ReplayInv, MaxInv, [Next]_vars
  PROVE  MaxInv'
<1>1. /\ stable \in Nat /\ open \in Nat /\ IsZl(zl)
      /\ \A b \in Blocks : \A x \in DOMAIN blk[b].recs : blk[b].recs[x].itx \in 1 .. Len(rec)
      /\ \A i \in 1 .. Len(rec) : rec[i].txg \in Nat /\ (Current(i) => rec[i].txg <= open)
  BY DEF ZilInv, GroupInv, ShapeInv, BookInv, RecInv, IsRec, Current, CurrentIn
<1>2. CASE Crash
  <2>1. ASSUME NEW b \in Blocks
        PROVE  blk'[b].io = "none" => blk'[b].recs = <<>>
    <3>1. PICK kept \in SUBSET Blocks :
          LET f == [c \in Blocks |->
                      [blk[c] EXCEPT !.freed = 0, !.max_txg = 0, !.io = "done",
                         !.content = IF c \in kept \/ @ = "disk" THEN "disk" ELSE "none"]]
              here == {c \in Blocks : OnDisk(c)} \cup Range(Chain(f, zh_disk.log))
          IN blk' = [c \in Blocks |-> IF c \in here THEN f[c] ELSE NoBlk]
      BY <1>2 DEF Crash
    <3>. DEFINE x == IF b \in kept \/ blk[b].content = "disk" THEN "disk" ELSE "none"
    <3>2. blk'[b] = NoBlk \/ blk'[b] = [blk[b] EXCEPT !.freed = 0, !.max_txg = 0, !.io = "done",
                                          !.content = x]
      BY <3>1
    <3>. HIDE DEF x
    <3>3. IsBlk(blk[b])
      BY DEF ZilInv, ShapeInv
    <3>4. NoBlk.recs = <<>>
      BY DEF NoBlk
    <3>. QED  BY <3>2, <3>3, <3>4 DEF IsBlk
  <2>. QED  BY <1>2, <2>1, CrashCurrent DEF MaxInv, Current
<1>3. ASSUME ~Crash, Steady
      PROVE  MaxInv'
  <2>1. ASSUME NEW b \in Blocks, NEW x \in DOMAIN blk'[b].recs, NEW i, i = blk'[b].recs[x].itx,
               CurrentIn(rec', crashes', i), NEW g, g = rec'[i].txg
        PROVE  Outlasts(b, g)'
    <3>1. CASE x \in DOMAIN blk[b].recs /\ blk'[b].recs[x] = blk[b].recs[x]
      <4>1. i \in 1 .. Len(rec) /\ i = blk[b].recs[x].itx
        BY <1>1, <2>1, <3>1
      <4>2. Current(i) /\ g = rec[i].txg
        BY <1>3, <2>1, <4>1, SameCurrentNext
      <4>3. Outlasts(b, g)
        BY <3>1, <4>1, <4>2 DEF MaxInv
      <4>4. g \in Nat /\ g <= open
        BY <1>1, <4>1, <4>2
      <4>. QED  BY <1>3, <4>3, <4>4 DEF Steady, BlockStep
    <3>2. CASE Logging /\ i = w.itx /\ \E h \in Nat : h = rec[w.itx].txg /\ Outlasts(b, h)'
      <4>1. i \in 1 .. Len(rec)
        BY <3>2 DEF Logging, ZilInv, RecInv, Current, CurrentIn
      <4>2. g = rec[i].txg
        BY <1>3, <2>1, <4>1, SameCurrentNext
      <4>. QED  BY <3>2, <4>2
    <3>. QED  BY <1>3, <2>1, <3>1, <3>2 DEF Steady, BlockStep
  <2>2. \A b \in Blocks : blk'[b].io = "none" => blk'[b].recs = <<>>
    BY <1>3 DEF Steady, BlockStep, MaxInv
  <2>. QED  BY <2>1, <2>2 DEF MaxInv, Current
<1>4. CASE Stabilize
  <2>. DEFINE y == \/ zl.clean
                   \/ (stable + 1 \in dirty /\ zl.itx # <<>> /\ rec[Head(zl.itx)].txg <= stable + 1)
  <2>1. /\ \A b \in Blocks : blk'[b] = (IF blk[b].freed = stable + 1 THEN NoBlk ELSE Flushed[b])
        /\ zl' = [zl EXCEPT !.clean = y] /\ rec' = rec /\ crashes' = crashes
    BY <1>4 DEF Stabilize, fs_vars, import_vars
  <2>. HIDE DEF y
  <2>2. zl'.lwb = zl.lwb /\ NoBlk.recs = <<>>
    BY <1>1, <2>1 DEF IsZl, NoBlk
  <2>3. ASSUME NEW b \in Blocks
        PROVE  \/ blk'[b].recs = <<>>
               \/ /\ blk'[b].recs = blk[b].recs /\ blk'[b].io = blk[b].io
                  /\ blk'[b].freed = blk[b].freed /\ blk'[b].max_txg = blk[b].max_txg
    <3>1. CASE blk[b].freed = stable + 1
      BY <2>1, <2>2, <3>1
    <3>2. CASE blk[b].freed # stable + 1
      BY <2>1, <3>2, FlushBlocks
    <3>. QED  BY <3>1, <3>2
  <2>4. ASSUME NEW b \in Blocks, NEW x \in DOMAIN blk'[b].recs, Current(blk'[b].recs[x].itx)
        PROVE  /\ blk'[b].freed = blk[b].freed /\ blk'[b].max_txg = blk[b].max_txg
               /\ Outlasts(b, rec[blk'[b].recs[x].itx].txg)
    BY <2>3, <2>4 DEF MaxInv
  <2>5. ASSUME NEW b \in Blocks, NEW x \in DOMAIN blk'[b].recs, NEW i, i = blk'[b].recs[x].itx,
               CurrentIn(rec', crashes', i), NEW g, g = rec'[i].txg
        PROVE  Outlasts(b, g)'
    <3>1. Current(i) /\ g = rec[i].txg
      BY <2>1, <2>5 DEF Current, CurrentIn
    <3>. QED  BY <2>2, <2>4, <2>5, <3>1 DEF Outlasts
  <2>6. \A b \in Blocks : blk'[b].io = "none" => blk'[b].recs = <<>>
    BY <2>3 DEF MaxInv
  <2>. QED  BY <2>5, <2>6 DEF MaxInv, Current
<1>5. ASSUME NEW t \in Procs, zil_create(t)
      PROVE  MaxInv'
  <2>1. /\ \A b \in Blocks : blk'[b] = blk[b] \/ blk'[b].recs = <<>>
        /\ zl.lwb = <<>> /\ rec' = rec /\ crashes' = crashes
    BY <1>5, zil_createKept DEF zil_create, fs_vars, import_vars
  <2>2. ASSUME NEW b \in Blocks, NEW x \in DOMAIN blk'[b].recs, NEW i, i = blk'[b].recs[x].itx,
               CurrentIn(rec', crashes', i), NEW g, g = rec'[i].txg
        PROVE  Outlasts(b, g)'
    <3>1. Current(i) /\ g = rec[i].txg /\ blk'[b] = blk[b]
      BY <2>1, <2>2 DEF Current, CurrentIn
    <3>2. Outlasts(b, g)
      BY <2>2, <3>1 DEF MaxInv
    <3>. QED  BY <2>1, <3>1, <3>2 DEF Outlasts
  <2>3. \A b \in Blocks : blk'[b].io = "none" => blk'[b].recs = <<>>
    BY <2>1 DEF MaxInv
  <2>. QED  BY <2>2, <2>3 DEF MaxInv, Current
<1>. QED  BY <1>2, <1>3, <1>4, <1>5, SteadyNext

----------------------------------------------------------------------------
\* The records in the list.

\* The least of a set of numbers is below the others.
LEMMA LeastBelow ==
  ASSUME NEW S \in SUBSET Nat, S # {}
  PROVE  Min(S) \in S /\ \A y \in S : Min(S) <= y
<1>1. PICK x \in S : \A y \in S : ~(<<y, x>> \in OpToRel(<, Nat))
  BY WFMin, NatLessThanWellFounded
<1>2. \A y \in S : ~(y < x)
  BY <1>1 DEF OpToRel
<1>3. \A y \in S : x <= y
  BY <1>2
<1>. QED  BY <1>3 DEF Min

\* A bounded set of numbers that is not empty has a largest one.
LEMMA Largest ==
  ASSUME NEW N \in Nat, NEW S \in SUBSET (0 .. N), S # {}
  PROVE  Max(S) \in S
<1>. DEFINE T == {N - y : y \in S}
<1>1. T \in SUBSET Nat /\ T # {}
  <2>1. \A y \in S : N - y \in Nat
    OBVIOUS
  <2>. QED  BY <2>1
<1>2. Min(T) \in T /\ \A z \in T : Min(T) <= z
  BY <1>1, LeastBelow
<1>3. PICK x \in S : Min(T) = N - x
  BY <1>2
<1>4. \A y \in S : N - x <= N - y
  BY <1>2, <1>3
<1>5. \A y \in S : x >= y
  BY <1>4
<1>. QED  BY <1>5 DEF Max

\* What callers commit up to is a record that there is.
LEMMA LastItxFact ==
  ASSUME ZilInv, NEW f
  PROVE  LastItx(f) \in 0 .. Len(rec)
<1>. DEFINE S == {i \in DOMAIN rec : rec[i].boot = crashes /\ f \in {0, rec[i].foid}} \cup {0}
<1>1. Len(rec) \in Nat /\ DOMAIN rec = 1 .. Len(rec)
  BY DEF ZilInv, RecInv
<1>2. S \in SUBSET (0 .. Len(rec)) /\ S # {}
  BY <1>1
<1>3. LastItx(f) = Max(S)
  BY DEF LastItx
<1>. HIDE DEF S
<1>. QED  BY <1>1, <1>2, <1>3, Largest

\* The end of the list is 0.
LEMMA WrapFact ==
  ASSUME NEW a \in Nat, NEW N \in Nat \ {0}, a <= N
  PROVE  a % N = IF a = N THEN 0 ELSE a
<1>1. CASE a = N
  BY <1>1
<1>2. CASE a < N
  BY <1>2
<1>. QED  BY <1>1, <1>2

\* list_next()
LEMMA AfterFact ==
  ASSUME ZilInv, Len(rec) <= MaxRec, NEW i \in Nat, NEW a, a = After(i)
  PROVE  /\ a \in 0 .. Len(rec)
         /\ \A n \in DOMAIN zl.itx : zl.itx[n] > i => a # 0 /\ a <= zl.itx[n]
         /\ a # 0 => a > i
<1>1. /\ zl.itx \in Seq(Nat) /\ Len(rec) \in Nat
      /\ \A n \in DOMAIN zl.itx : zl.itx[n] \in 1 .. Len(rec)
  BY DEF ZilInv, RecInv, Current, CurrentIn
<1>2. MaxRec \in Nat /\ NoItx \in Nat \ {0} /\ Len(rec) < NoItx
  BY <1>1, ZilAssumption DEF NoItx
<1>. DEFINE S == {j \in Range(zl.itx) : j > i} \cup {NoItx}
            m == Min(S)
<1>3. \A j \in S : j = NoItx \/ (j \in 1 .. Len(rec) /\ j > i)
  BY <1>1 DEF Range
<1>4. S \in SUBSET Nat /\ S # {}
  BY <1>1, <1>2, <1>3
<1>5. a = m % NoItx
  BY DEF After
<1>6. \A n \in DOMAIN zl.itx : zl.itx[n] > i => zl.itx[n] \in S
  BY DEF Range
<1>7. NoItx \in S
  OBVIOUS
<1>. HIDE DEF S
<1>8. m \in S /\ \A y \in S : m <= y
  BY <1>4, LeastBelow
<1>. HIDE DEF m
<1>9. m \in Nat /\ m <= NoItx
  BY <1>4, <1>7, <1>8
<1>10. a = IF m = NoItx THEN 0 ELSE m
  BY <1>2, <1>5, <1>9, WrapFact
<1>11. CASE m = NoItx
  <2>1. \A n \in DOMAIN zl.itx : ~(zl.itx[n] > i)
    BY <1>1, <1>2, <1>6, <1>8, <1>11
  <2>. QED  BY <1>1, <1>10, <1>11, <2>1
<1>12. CASE m # NoItx
  <2>1. a = m /\ a \in 1 .. Len(rec) /\ a > i
    BY <1>3, <1>8, <1>10, <1>12
  <2>. QED  BY <1>1, <1>6, <1>8, <2>1
<1>. QED  BY <1>11, <1>12

\* The record that the loop takes, or the end of the loop.
LEMMA NextItxFact ==
  ASSUME ZilInv, NEW t \in Procs, p[t].seq \in Nat, NEW i, i = NextItx(t)
  PROVE  /\ i # 0 => /\ (\E n \in DOMAIN zl.itx : i = zl.itx[n]) /\ w.next \in 1 .. i /\ ~Skip(t, i)
                     /\ \A n \in DOMAIN zl.itx : w.next \in 1 .. zl.itx[n] /\ zl.itx[n] < i => Skip(t, zl.itx[n])
         /\ i = 0 => \A n \in DOMAIN zl.itx : w.next \in 1 .. zl.itx[n] => Spared(t, zl.itx[n])
<1>1. zl.itx \in Seq(Nat) /\ \A n \in DOMAIN zl.itx : zl.itx[n] \in Nat \ {0}
  BY DEF ZilInv, RecInv, Current, CurrentIn
<1>. DEFINE left == {j \in Range(zl.itx) : w.next \in 1 .. j /\ ~Skip(t, j)}
            m == Min(left)
<1>2. left \in SUBSET Nat /\ 0 \notin left
  BY <1>1 DEF Range
<1>3. \A n \in DOMAIN zl.itx : w.next \in 1 .. zl.itx[n] => Skip(t, zl.itx[n]) \/ zl.itx[n] \in left
  BY DEF Range
<1>4. \A j \in left : (\E n \in DOMAIN zl.itx : j = zl.itx[n]) /\ w.next \in 1 .. j /\ ~Skip(t, j)
  BY DEF Range
<1>5. \/ i = 0 /\ (left = {} \/ m > p[t].seq)
      \/ i = m /\ left # {}
  BY DEF NextItx
<1>. HIDE DEF left
<1>6. left # {} => m \in left /\ \A j \in left : m <= j
  BY <1>2, LeastBelow
<1>. HIDE DEF m
<1>7. CASE i = m /\ left # {}
  <2>1. i \in left /\ i # 0 /\ \A j \in left : i <= j
    BY <1>2, <1>6, <1>7
  <2>2. \A n \in DOMAIN zl.itx : zl.itx[n] < i => zl.itx[n] \notin left
    BY <1>1, <1>2, <2>1
  <2>. QED  BY <1>3, <1>4, <2>1, <2>2
<1>8. CASE i = 0 /\ left = {}
  BY <1>3, <1>8 DEF Spared
<1>9. CASE i = 0 /\ m > p[t].seq /\ left # {}
  <2>. SUFFICES ASSUME NEW n \in DOMAIN zl.itx, w.next \in 1 .. zl.itx[n], ~Skip(t, zl.itx[n])
                PROVE  zl.itx[n] > p[t].seq
    BY <1>9 DEF Spared
  <2>1. zl.itx[n] \in left
    BY <1>3
  <2>2. m <= zl.itx[n] /\ m \in Nat /\ zl.itx[n] \in Nat
    BY <1>1, <1>2, <1>6, <1>9, <2>1
  <2>. QED  BY <1>9, <2>2
<1>. QED  BY <1>5, <1>7, <1>8, <1>9

----------------------------------------------------------------------------
\* Steps that are none of the log writer's.

\* They leave its loop alone.
Apart ==
  /\ UNCHANGED <<rec, crashes, moot, w>>
  /\ zl'.itx = zl.itx /\ zl'.commit_seq = zl.commit_seq
  /\ \A u \in Procs : /\ p[u].pc \in LoopPcs \/ p'[u].pc \in LoopPcs => p'[u] = p[u]
                      /\ p'[u].seq \in 0 .. Len(rec) /\ p'[u].txg \in Nat

\* And promise nothing.
Quiet == Apart /\ acked' = acked

\* Nobody starts a call.
Calls == \A u \in Procs : p'[u].pc = "call" => p'[u] = p[u]

\* A thread that is outside the loop does something.
LEMMA QuietMove ==
  ASSUME ZilInv, CountInv, NEW t \in Procs, p[t].pc \notin LoopPcs, p'[t].pc \notin LoopPcs,
         \A u \in Procs : u # t => \/ p'[u] = p[u]
                                   \/ /\ p[u].pc \notin LoopPcs /\ p'[u].pc = "suspended"
                                      /\ p'[u].seq = 0 /\ p'[u].txg = 0,
         p'[t].seq \in 0 .. Len(rec), p'[t].txg \in Nat,
         UNCHANGED <<rec, crashes, acked, moot, w>>,
         zl'.itx = zl.itx, zl'.commit_seq = zl.commit_seq
  PROVE  Quiet /\ (p'[t].pc # "call" => Calls)
<1>1. 0 \in 0 .. Len(rec) /\ \A u \in Procs : p[u].seq \in 0 .. Len(rec) /\ p[u].txg \in Nat
  BY DEF CountInv, ZilInv, RecInv
<1>. QED  BY <1>1 DEF Quiet, Apart, Calls, LoopPcs

\* No thread does anything.
LEMMA QuietIdle ==
  ASSUME ZilInv, CountInv, UNCHANGED <<rec, crashes, acked, moot, w, p>>,
         zl'.itx = zl.itx, zl'.commit_seq = zl.commit_seq
  PROVE  Quiet /\ Calls
BY DEF Quiet, Apart, Calls, CountInv

\* The log writer in its loop, and on its way there.
LoopStep(t) ==
  \/ zil_created(t) \/ TakeItx(t) \/ zil_lwb_commit(t) \/ RecordSynced(t)
  \/ WriteLast(t) \/ WaitForWrites(t) \/ WaitForSync(t)

\* A commit that begins, or wakes up.
EnterStep(t) == zil_commit_wakeup(t) \/ \E f, seq : zil_commit(t, f, seq)

\* The steps of a suspension.
LEMMA SuspendQuiet ==
  ASSUME ZilInv, CountInv, NEW t \in Suspenders,
         zil_suspend(t) \/ SuspendDrain(t) \/ SuspendDestroy(t) \/ zil_resume(t)
  PROVE  Quiet /\ Calls
<1>0. t \in Procs
  BY NullFact
<1>1. /\ IsZl(zl) /\ DOMAIN p = Procs /\ (\A u \in Procs : IsProc(p[u])) /\ Len(rec) \in Nat
      /\ \A u \in Procs : p[u].seq \in 0 .. Len(rec) /\ p[u].txg \in Nat
  BY DEF ZilInv, ShapeInv, RecInv, CountInv
<1>2. /\ Idle.pc = "idle" /\ Idle.seq = 0 /\ Idle.txg = 0
      /\ [Idle EXCEPT !.pc = "suspended"].pc = "suspended"
      /\ [Idle EXCEPT !.pc = "suspended"].seq = 0 /\ [Idle EXCEPT !.pc = "suspended"].txg = 0
  BY DEF Idle
<1>3. CASE zil_suspend(t)
  <2>. DEFINE x == zl.suspending \/ zl.suspend = 0
              y == IF zl.suspend = 0 THEN "suspCommit" ELSE IF zl.suspending THEN "suspWait" ELSE "suspended"
  <2>1. /\ zl' = [zl EXCEPT !.suspend = @ + 1, !.suspending = x] /\ p' = [p EXCEPT ![t].pc = y]
        /\ UNCHANGED <<rec, crashes, acked, moot, w>> /\ p[t].pc = "idle"
    BY <1>3 DEF zil_suspend, fs_vars, import_vars
  <2>2. y \in {"suspCommit", "suspWait", "suspended"}
    OBVIOUS
  <2>. HIDE DEF x, y
  <2>3. /\ zl'.itx = zl.itx /\ zl'.commit_seq = zl.commit_seq
        /\ p'[t].pc = y /\ p'[t].seq = p[t].seq /\ p'[t].txg = p[t].txg
        /\ \A u \in Procs : u # t => p'[u] = p[u]
    BY <1>0, <1>1, <2>1 DEF IsZl, IsProc
  <2>. QED  BY <1>0, <1>1, <2>1, <2>2, <2>3, QuietMove DEF LoopPcs
<1>4. CASE SuspendDrain(t)
  <2>. DEFINE y == IF zl.writer # NULL THEN "drainWait" ELSE "destroy"
  <2>1. /\ p' = [p EXCEPT ![t].pc = y] /\ UNCHANGED <<zl, rec, crashes, acked, moot, w>> /\ p[t].pc = "drain"
    BY <1>4 DEF SuspendDrain, fs_vars, import_vars
  <2>2. y \in {"drainWait", "destroy"}
    OBVIOUS
  <2>. HIDE DEF y
  <2>3. /\ p'[t].pc = y /\ p'[t].seq = p[t].seq /\ p'[t].txg = p[t].txg
        /\ \A u \in Procs : u # t => p'[u] = p[u]
    BY <1>0, <1>1, <2>1 DEF IsProc
  <2>. QED  BY <1>0, <1>1, <2>1, <2>2, <2>3, QuietMove DEF LoopPcs
<1>5. CASE SuspendDestroy(t)
  <2>. DEFINE z == [zl EXCEPT !.suspending = FALSE]
  <2>1. /\ Destroy(FALSE, z) /\ UNCHANGED <<rec, crashes, acked, moot, w>> /\ p[t].pc = "destroy"
        /\ p' = [u \in Procs |-> IF u = t \/ p[u].pc = "suspWait"
                                 THEN [Idle EXCEPT !.pc = "suspended"] ELSE p[u]]
    BY <1>5 DEF SuspendDestroy, fs_vars, import_vars
  <2>2. IsZl(z) /\ z.itx = zl.itx /\ z.commit_seq = zl.commit_seq
    BY <1>1 DEF IsZl
  <2>. HIDE DEF z
  <2>3. zl'.itx = zl.itx /\ zl'.commit_seq = zl.commit_seq
    BY <2>1, <2>2 DEF Destroy, Destroyed, IsZl
  <2>4. \A u \in Procs : u # t => \/ p'[u] = p[u]
                                  \/ /\ p[u].pc \notin LoopPcs /\ p'[u].pc = "suspended"
                                     /\ p'[u].seq = 0 /\ p'[u].txg = 0
    BY <1>2, <2>1 DEF LoopPcs
  <2>5. p'[t].pc = "suspended" /\ p'[t].seq = 0 /\ p'[t].txg = 0
    BY <1>0, <1>2, <2>1
  <2>6. /\ p[t].pc \notin LoopPcs /\ p'[t].pc \notin LoopPcs /\ p'[t].seq \in 0 .. Len(rec)
        /\ p'[t].pc # "call" /\ p'[t].txg \in Nat
    BY <1>1, <2>1, <2>5 DEF LoopPcs
  <2>7. UNCHANGED <<rec, crashes, acked, moot, w>>
    BY <2>1
  <2>. QED  BY <1>0, <2>3, <2>4, <2>6, <2>7, QuietMove
<1>6. CASE zil_resume(t)
  <2>1. /\ zl' = [zl EXCEPT !.suspend = @ - 1] /\ p' = [p EXCEPT ![t] = Idle]
        /\ UNCHANGED <<rec, crashes, acked, moot, w>> /\ p[t].pc = "suspended"
    BY <1>6 DEF zil_resume, fs_vars, import_vars
  <2>2. /\ zl'.itx = zl.itx /\ zl'.commit_seq = zl.commit_seq
        /\ p'[t] = Idle /\ \A u \in Procs : u # t => p'[u] = p[u]
    BY <1>0, <1>1, <2>1 DEF IsZl
  <2>. QED  BY <1>0, <1>1, <1>2, <2>1, <2>2, QuietMove DEF LoopPcs
<1>. QED  BY <1>3, <1>4, <1>5, <1>6

\* The others.
LEMMA QuietNext ==
  ASSUME ZilInv, CountInv, [Next]_vars
  PROVE  \/ Quiet /\ (Calls \/ \E t \in Threads, k \in Kinds : CallBegin(t, k))
         \/ (\E t \in Threads : zil_itx_assign(t)) \/ zil_itx_clean \/ Crash
         \/ \E t \in Procs : LoopStep(t) \/ EnterStep(t)
<1>1. /\ IsZl(zl) /\ DOMAIN p = Procs /\ (\A u \in Procs : IsProc(p[u])) /\ Len(rec) \in Nat
      /\ (\A u \in Procs : p[u].seq \in 0 .. Len(rec) /\ p[u].txg \in Nat) /\ open \in Nat
  BY DEF ZilInv, ShapeInv, RecInv, CountInv, GroupInv
<1>2. ASSUME NEW t \in Threads, NEW k \in Kinds, CallBegin(t, k)
      PROVE  Quiet
  <2>0. t \in Procs
    BY NullFact
  <2>1. /\ p' = [p EXCEPT ![t].pc = "call", ![t].kind = k] /\ p[t].pc = "idle"
        /\ UNCHANGED <<zl, rec, crashes, acked, moot, w>>
    BY <1>2 DEF CallBegin, fs_vars, import_vars
  <2>2. /\ p'[t].pc = "call" /\ p'[t].seq = p[t].seq /\ p'[t].txg = p[t].txg
        /\ \A u \in Procs : u # t => p'[u] = p[u]
    BY <1>1, <2>0, <2>1 DEF IsProc
  <2>. QED  BY <1>1, <2>0, <2>1, <2>2, QuietMove DEF LoopPcs
<1>3. ASSUME NEW t \in Procs, CommitStep(t)
      PROVE  LoopStep(t) \/ EnterStep(t) \/ (Quiet /\ Calls)
  <2>1. CASE zil_create(t)
    <3>1. UNCHANGED <<rec, crashes, acked, moot, w>> /\ p[t].pc = "create"
      BY <2>1 DEF zil_create, fs_vars, import_vars
    <3>2. zl'.itx = zl.itx /\ zl'.commit_seq = zl.commit_seq
      BY <1>1, <2>1 DEF zil_create, IsZl
    <3>3. p' = [p EXCEPT ![t].pc = "created"] \/ p' = [p EXCEPT ![t].pc = "created", ![t].txg = open]
      BY <2>1 DEF zil_create
    <3>4. /\ p'[t].pc = "created" /\ p'[t].seq = p[t].seq /\ p'[t].txg \in Nat
          /\ \A u \in Procs : u # t => p'[u] = p[u]
      BY <1>1, <3>3 DEF IsProc
    <3>. QED  BY <1>1, <3>1, <3>2, <3>4, QuietMove DEF LoopPcs
  <2>. QED  BY <1>3, <2>1 DEF CommitStep, LoopStep, EnterStep
<1>4. ASSUME NEW b \in Blocks, NEW ok \in BOOLEAN, zil_lwb_write_done(b, ok)
      PROVE  Quiet /\ Calls
  BY <1>4, QuietIdle DEF zil_lwb_write_done, fs_vars, import_vars
<1>5. CASE SyncStep
  <2>1. CASE zil_sync
    <3>1. /\ UNCHANGED <<rec, crashes, acked, moot, w, p>>
          /\ \E s, f : zl' = [zl EXCEPT !.lwb = s, !.replayed = f]
      BY <2>1 DEF zil_sync, fs_vars, import_vars
    <3>2. zl'.itx = zl.itx /\ zl'.commit_seq = zl.commit_seq
      BY <1>1, <3>1 DEF IsZl
    <3>. QED  BY <3>1, <3>2, QuietIdle
  <2>2. CASE Stabilize
    <3>. DEFINE x == \/ zl.clean
                     \/ (stable + 1 \in dirty /\ zl.itx # <<>> /\ rec[Head(zl.itx)].txg <= stable + 1)
    <3>1. UNCHANGED <<rec, crashes, acked, moot, w, p>> /\ zl' = [zl EXCEPT !.clean = x]
      BY <2>2 DEF Stabilize, fs_vars, import_vars
    <3>. HIDE DEF x
    <3>2. zl'.itx = zl.itx /\ zl'.commit_seq = zl.commit_seq
      BY <1>1, <3>1 DEF IsZl
    <3>. QED  BY <3>1, <3>2, QuietIdle
  <2>3. CASE Advance
    BY <2>3, QuietIdle DEF Advance, fs_vars, import_vars
  <2>. QED  BY <1>5, <2>1, <2>2, <2>3 DEF SyncStep
<1>6. CASE ImportStep
  <2>1. UNCHANGED <<rec, crashes, acked, moot, w, p>>
    BY <1>6 DEF ImportStep, zil_claim, zil_replay, zil_replay_log_record, ReplayDestroy, ReplayDone, fs_vars
  <2>2. zl'.itx = zl.itx /\ zl'.commit_seq = zl.commit_seq
    <3>1. CASE zil_claim \/ ReplayDone
      BY <3>1 DEF zil_claim, ReplayDone
    <3>2. CASE zil_replay \/ ReplayDestroy
      <4>1. UNCHANGED zl \/ Destroy(TRUE, zl) \/ Destroy(FALSE, zl)
        BY <3>2 DEF zil_replay, ReplayDestroy
      <4>. QED  BY <1>1, <4>1 DEF Destroy, Destroyed, IsZl
    <3>3. CASE zil_replay_log_record
      <4>. DEFINE y == [zl.replayed EXCEPT ![open % TXG_SIZE] = Log[r.pos + 1].seq]
      <4>1. zl' = zl \/ zl' = [zl EXCEPT !.replayed = y]
        BY <3>3 DEF zil_replay_log_record
      <4>. HIDE DEF y
      <4>. QED  BY <1>1, <4>1 DEF IsZl
    <3>. QED  BY <1>6, <3>1, <3>2, <3>3 DEF ImportStep
  <2>. QED  BY <2>1, <2>2, QuietIdle
<1>7. CASE UNCHANGED vars
  BY <1>7, QuietIdle DEF vars, fs_vars, import_vars
<1>8. ASSUME NEW t \in Suspenders, zil_suspend(t) \/ SuspendStep(t)
      PROVE  t \in Procs /\ (EnterStep(t) \/ (Quiet /\ Calls))
  BY <1>8, SuspendQuiet, NullFact DEF SuspendStep, EnterStep
<1>9. \A t \in Threads : t \in Procs
  BY DEF Procs
<1>. QED  BY <1>2, <1>3, <1>4, <1>5, <1>6, <1>7, <1>8, <1>9 DEF Next, EnterStep

\* The calls that are in progress are finitely many.
LEMMA CallersFinite ==
  ASSUME NEW q
  PROVE  /\ IsFiniteSet({u \in Threads : q[u].pc = "call"})
         /\ Cardinality({u \in Threads : q[u].pc = "call"}) \in Nat
<1>. DEFINE S == {u \in Threads : q[u].pc = "call"}
<1>1. S \in SUBSET Procs /\ IsFiniteSet(Procs)
  BY ZilAssumption DEF Procs
<1>. HIDE DEF S
<1>2. IsFiniteSet(S)
  BY <1>1, FS_Subset
<1>3. Cardinality(S) \in Nat
  BY <1>2, FS_CardinalityType
<1>. QED  BY <1>2, <1>3 DEF S

\* The numbers stay those of records when no record is added.
Counted ==
  /\ rec' = rec /\ Calls /\ \A u \in Procs : p'[u].seq \in 0 .. Len(rec) /\ p'[u].txg \in Nat
  /\ w'.next \in 0 .. Len(rec) /\ w'.commit_seq \in 0 .. Len(rec) /\ zl'.commit_seq \in 0 .. Len(rec)

\* And there are not more than there may be.
LEMMA CountKeeps ==
  ASSUME ZilInv, CountInv, Counted
  PROVE  CountInv'
<1>. DEFINE S == {u \in Threads : p[u].pc = "call"}
            T == {u \in Threads : p'[u].pc = "call"}
<1>1. T \in SUBSET S /\ rec' = rec /\ Len(rec) \in Nat /\ MaxRec \in Nat
  BY ZilAssumption DEF Counted, Calls, Procs, ZilInv, RecInv
<1>2. IsFiniteSet(S) /\ Cardinality(S) \in Nat /\ Cardinality(T) \in Nat
  BY CallersFinite
<1>3. Recs = Len(rec) + Cardinality(S) /\ Recs' = Len(rec) + Cardinality(T)
  BY <1>1 DEF Recs
<1>4. Recs <= MaxRec
  BY DEF CountInv
<1>. HIDE DEF S, T
<1>5. Cardinality(T) <= Cardinality(S)
  BY <1>1, <1>2, FS_Subset
<1>6. Recs' <= MaxRec
  BY <1>1, <1>2, <1>3, <1>4, <1>5
<1>. QED  BY <1>1, <1>6 DEF CountInv, Counted

\* A call begins if there is room for its record.
LEMMA CallBeginCount ==
  ASSUME ZilInv, CountInv, NEW t \in Threads, NEW k \in Kinds, CallBegin(t, k), Quiet
  PROVE  CountInv'
<1>. DEFINE S == {u \in Threads : p[u].pc = "call"}
            T == {u \in Threads : p'[u].pc = "call"}
<1>1. /\ p' = [p EXCEPT ![t].pc = "call", ![t].kind = k] /\ rec' = rec /\ Recs < MaxRec
      /\ Len(rec) \in Nat /\ MaxRec \in Nat /\ UNCHANGED zl /\ UNCHANGED w
  BY ZilAssumption DEF CallBegin, fs_vars, ZilInv, RecInv
<1>2. T \in SUBSET (S \cup {t})
  <2>1. \A u \in Procs : u # t => p'[u] = p[u]
    BY <1>1 DEF ZilInv, ShapeInv
  <2>. QED  BY <2>1 DEF Procs
<1>3. IsFiniteSet(S) /\ Cardinality(S) \in Nat /\ Cardinality(T) \in Nat
  BY CallersFinite
<1>4. Recs = Len(rec) + Cardinality(S) /\ Recs' = Len(rec) + Cardinality(T)
  BY <1>1 DEF Recs
<1>. HIDE DEF S, T
<1>5. IsFiniteSet(S \cup {t}) /\ (Cardinality(S \cup {t}) = Cardinality(S) \/ Cardinality(S \cup {t}) = Cardinality(S) + 1)
  BY <1>3, FS_AddElement
<1>6. Cardinality(T) <= Cardinality(S \cup {t})
  BY <1>2, <1>5, FS_Subset
<1>7. Recs' <= MaxRec
  BY <1>1, <1>3, <1>4, <1>5, <1>6
<1>. QED  BY <1>1, <1>7 DEF CountInv, Quiet, Apart

\* When it ends there is one record more and one call less.
LEMMA zil_itx_assignCount ==
  ASSUME ZilInv, CountInv, NEW t \in Threads, zil_itx_assign(t)
  PROVE  CountInv'
<1>. DEFINE S == {u \in Threads : p[u].pc = "call"}
            T == {u \in Threads : p'[u].pc = "call"}
            s == Append(zl.itx, Len(rec) + 1)
<1>0. t \in Procs /\ IsZl(zl) /\ DOMAIN p = Procs /\ Len(rec) \in Nat /\ MaxRec \in Nat
  BY ZilAssumption, NullFact DEF ZilInv, ShapeInv, RecInv, Procs
<1>1. /\ p' = [p EXCEPT ![t] = Idle] /\ zl' = [zl EXCEPT !.itx = s] /\ UNCHANGED w
      /\ p[t].pc = "call"
  BY DEF zil_itx_assign
<1>2. Len(rec') = Len(rec) + 1
  BY AssignRec
<1>3. /\ p'[t] = Idle /\ (\A u \in Procs : u # t => p'[u] = p[u])
      /\ Idle.pc = "idle" /\ Idle.seq = 0 /\ Idle.txg = 0
  BY <1>0, <1>1 DEF Idle
<1>4. T = S \ {t} /\ t \in S
  BY <1>1, <1>3 DEF Procs
<1>5. IsFiniteSet(S) /\ Cardinality(S) \in Nat /\ Cardinality(T) \in Nat
  BY CallersFinite
<1>6. Recs = Len(rec) + Cardinality(S) /\ Recs' = Len(rec) + 1 + Cardinality(T)
  BY <1>2 DEF Recs
<1>. HIDE DEF S, T, s
<1>7. Cardinality(T) = Cardinality(S) - 1
  BY <1>4, <1>5, FS_RemoveElement
<1>8. Recs' <= MaxRec
  BY <1>0, <1>5, <1>6, <1>7 DEF CountInv
<1>9. zl'.commit_seq = zl.commit_seq
  BY <1>0, <1>1 DEF IsZl
<1>10. \A u \in Procs : p'[u].seq \in 0 .. Len(rec') /\ p'[u].txg \in Nat
  BY <1>0, <1>2, <1>3 DEF CountInv
<1>. QED  BY <1>0, <1>1, <1>2, <1>8, <1>9, <1>10 DEF CountInv

\* A crash leaves no call and no number.
LEMMA CrashCount ==
  ASSUME ZilInv, CountInv, Crash
  PROVE  CountInv'
<1>1. zl' = NoLog /\ w' = NoWriter /\ p' = [t \in Procs |-> Idle] /\ rec' = rec /\ Len(rec) \in Nat
  BY DEF Crash, ZilInv, RecInv
<1>2. /\ \A u \in Procs : p'[u].pc = "idle" /\ p'[u].seq = 0 /\ p'[u].txg = 0
      /\ w'.next = 0 /\ w'.commit_seq = 0 /\ zl'.commit_seq = 0
  BY <1>1 DEF Idle, NoWriter, NoLog
<1>3. Counted
  BY <1>1, <1>2 DEF Counted, Calls
<1>. QED  BY <1>3, CountKeeps

----------------------------------------------------------------------------
\* What the log writer answers for.

\* A record that is in a block stays there until it is safe.
LEMMA EntryNext ==
  ASSUME ZilInv, BookInv, ChainInv, ReplayInv, MaxInv, [Next]_vars, ~Crash,
         NEW b \in Blocks, NEW x \in DOMAIN blk[b].recs, NEW i, i = blk[b].recs[x].itx, Current(i)
  PROVE  (x \in DOMAIN blk'[b].recs /\ blk'[b].recs[x] = blk[b].recs[x]) \/ Safe(i)'
<1>1. Outlasts(b, rec[i].txg)
  BY DEF MaxInv
<1>2. CASE \E t \in Procs : zil_create(t)
  <2>1. zl.lwb = <<>> /\ (blk'[b] = blk[b] \/ blk[b].freed = 0)
    BY <1>2, zil_createKept
  <2>2. DOMAIN zl.lwb = {}
    BY <2>1
  <2>3. blk'[b] = blk[b]
    BY <1>1, <2>1, <2>2 DEF Outlasts
  <2>. QED  BY <2>3
<1>3. CASE Steady
  BY <1>3 DEF Steady, BlockStep, StillReads
<1>4. CASE Stabilize
  <2>1. /\ blk'[b] = (IF blk[b].freed = stable + 1 THEN NoBlk ELSE Flushed[b])
        /\ home' = home /\ stable' = stable + 1 /\ stable \in Nat
    BY <1>4 DEF Stabilize, GC!Stabilize, fs_vars, ZilInv, GroupInv
  <2>2. CASE blk[b].freed = stable + 1
    <3>1. \A n \in DOMAIN zl.lwb : b # zl.lwb[n]
      BY <2>1, <2>2 DEF ZilInv, TailInv
    <3>2. rec[i].txg <= stable + 1
      BY <1>1, <2>2, <3>1 DEF Outlasts
    <3>3. home[i] = rec[i].txg /\ home[i] # 0 /\ home[i] \in Nat
      BY DEF ReplayInv, HomeInv, Current, CurrentIn
    <3>4. home'[i] \in 1 .. stable'
      BY <2>1, <3>2, <3>3
    <3>. QED  BY <3>4 DEF Safe
  <2>3. CASE blk[b].freed # stable + 1
    <3>1. blk'[b].recs = blk[b].recs
      BY <2>1, <2>3, FlushBlocks
    <3>. QED  BY <3>1
  <2>. QED  BY <2>2, <2>3
<1>. QED  BY <1>2, <1>3, <1>4, SteadyNext

\* It is in that block, at least.
LEMMA InBlockNext ==
  ASSUME ZilInv, BookInv, ChainInv, ReplayInv, MaxInv, [Next]_vars, ~Crash,
         NEW b \in Blocks, NEW i, Current(i), InBlock(b, i)
  PROVE  InBlock(b, i)' \/ Safe(i)'
<1>1. PICK x \in DOMAIN blk[b].recs : blk[b].recs[x].itx = i
  BY DEF InBlock
<1>2. (x \in DOMAIN blk'[b].recs /\ blk'[b].recs[x] = blk[b].recs[x]) \/ Safe(i)'
  BY <1>1, EntryNext
<1>. QED  BY <1>1, <1>2 DEF InBlock

\* What was promised is safe still, whatever the step does to other records.
LEMMA PromiseKeeps ==
  ASSUME ZilInv, BookInv, ChainInv, ReplayInv, MaxInv, CountInv, PromiseInv, [Next]_vars, ~Crash,
         moot \subseteq moot', acked' = acked, zl'.commit_seq = zl.commit_seq
  PROVE  PromiseInv'
<1>1. Len(rec) \in Nat /\ Len(rec') \in Nat /\ Len(rec) <= Len(rec') /\ zl.commit_seq \in 0 .. Len(rec)
  BY RecNext DEF ZilInv, RecInv, CountInv
<1>2. acked' \subseteq 1 .. Len(rec')
  BY <1>1 DEF PromiseInv
<1>3. \A i \in acked' \ moot' : Safe(i)'
  BY SafeNext DEF PromiseInv
<1>4. ASSUME NEW i \in 1 .. zl'.commit_seq, CurrentIn(rec', crashes', i)
      PROVE  i \in moot' \/ Safe(i)'
  <2>1. i \in 1 .. Len(rec) /\ i \in 1 .. zl.commit_seq
    BY <1>1
  <2>2. Current(i)
    BY <1>4, <2>1, SameCurrentNext
  <2>. QED  BY <2>1, <2>2, SafeNext DEF PromiseInv
<1>. QED  BY <1>2, <1>3, <1>4 DEF PromiseInv, Current

\* A step with no new record holds every record if it holds those that were in the
\* list or that a thread answered for.
LEMMA HeldKeeps ==
  ASSUME ZilInv, BookInv, ChainInv, ReplayInv, MaxInv, HeldInv, [Next]_vars, ~Crash,
         rec' = rec, moot \subseteq moot',
         \A i \in 1 .. Len(rec) : Current(i) /\ InList(i) => Held(i)',
         \A i \in 1 .. Len(rec), t \in Procs : Current(i) /\ Answers(t, i) => Held(i)'
  PROVE  HeldInv'
<1>. SUFFICES ASSUME NEW i \in 1 .. Len(rec'), CurrentIn(rec', crashes', i)
              PROVE  Held(i)'
  BY DEF HeldInv, Current
<1>1. i \in 1 .. Len(rec) /\ Current(i)
  BY SameCurrentNext
<1>2. CASE Safe(i)
  BY <1>1, <1>2, SafeNext DEF Held
<1>3. CASE i \in moot
  BY <1>3 DEF Held
<1>4. CASE LogErrors /\ \E b \in Blocks : InBlock(b, i)
  BY <1>1, <1>4, InBlockNext DEF Held
<1>. QED  BY <1>1, <1>2, <1>3, <1>4 DEF HeldInv, Held

\* A step beside the log writer.
LEMMA ApartAck ==
  ASSUME ZilInv, BookInv, ChainInv, ReplayInv, AckInv, [Next]_vars, Apart
  PROVE  LoopInv' /\ HeldInv'
<1>1. MaxInv /\ CountInv /\ LoopInv /\ HeldInv /\ (~LogErrors => PromiseInv)
  BY DEF AckInv
<1>2. ~Crash
  <2>1. crashes \in Nat /\ crashes' = crashes
    BY DEF ZilInv, RecInv, Apart
  <2>2. Crash => crashes' = crashes + 1
    BY DEF Crash
  <2>. QED  BY <2>1, <2>2
<1>3. LoopInv'
  <2>. SUFFICES ASSUME NEW t \in Procs, p'[t].pc \in LoopPcs
                PROVE  /\ p'[t].pc \in {"push", "log", "recWait"} => \A n \in DOMAIN zl'.itx :
                            IF w'.next = 0 THEN Spared(t, zl.itx[n])'
                            ELSE zl'.itx[n] < w'.next => Skip(t, zl.itx[n])'
                       /\ p'[t].pc \in {"io", "sync"} => \A n \in DOMAIN zl'.itx :
                            zl'.itx[n] > w'.commit_seq /\ Spared(t, zl.itx[n])'
                       /\ p'[t].pc = "io" /\ w'.lwb # NULL => blk'[w'.lwb].recs = <<>>
    BY DEF LoopInv, LoopPcs
  <2>1. p'[t] = p[t] /\ p[t].pc \in LoopPcs /\ w' = w /\ rec' = rec /\ zl'.itx = zl.itx
    BY DEF Apart
  <2>2. /\ p[t].pc \in {"push", "log", "recWait"} => \A n \in DOMAIN zl.itx :
             IF w.next = 0 THEN Spared(t, zl.itx[n]) ELSE zl.itx[n] < w.next => Skip(t, zl.itx[n])
        /\ p[t].pc \in {"io", "sync"} => \A n \in DOMAIN zl.itx :
             zl.itx[n] > w.commit_seq /\ Spared(t, zl.itx[n])
        /\ p[t].pc = "io" /\ w.lwb # NULL => blk[w.lwb].recs = <<>>
    BY <1>1 DEF LoopInv
  <2>3. p[t].pc = "io" /\ w.lwb # NULL => blk'[w.lwb].recs = <<>>
    <3>. SUFFICES ASSUME p[t].pc = "io", w.lwb # NULL
                  PROVE  blk'[w.lwb].recs = <<>>
      OBVIOUS
    <3>1. w.lwb \in Blocks
      BY DEF ZilInv, ShapeInv, IsWriter
    <3>2. \A u \in Procs : p[u].pc # "log"
      BY <2>1, OneWriter DEF WriterPcs
    <3>3. SameRecs
      BY <3>2, RecsNext DEF RecsStep, WritesRecord
    <3>. QED  BY <2>2, <3>1, <3>3 DEF SameRecs
  <2>4. \A i : (Spared(t, i) => Spared(t, i)') /\ (Skip(t, i) => Skip(t, i)')
    BY <2>1 DEF Spared, Skip
  <2>. QED  BY <2>1, <2>2, <2>3, <2>4 DEF Spared, Skip
<1>4. HeldInv'
  <2>1. rec' = rec /\ moot' = moot /\ zl'.itx = zl.itx /\ w' = w
    BY DEF Apart
  <2>2. ASSUME NEW i \in 1 .. Len(rec), InList(i)
        PROVE  Held(i)'
    BY <2>1, <2>2 DEF InList, Held
  <2>3. ASSUME NEW i \in 1 .. Len(rec), NEW t \in Procs, Current(i), Answers(t, i)
        PROVE  Held(i)'
    <3>1. p[t].pc \in LoopPcs /\ p'[t] = p[t]
      BY <2>3 DEF Answers, LoopPcs, Apart
    <3>2. (\E b \in Blocks : InBlock(b, i)) => (\E b \in Blocks : InBlock(b, i)') \/ Safe(i)'
      BY <1>1, <1>2, <2>3, InBlockNext
    <3>3. Answers(t, i)' \/ Safe(i)'
      BY <2>1, <2>3, <3>1, <3>2 DEF Answers
    <3>. QED  BY <3>3 DEF Held
  <2>. QED  BY <1>1, <1>2, <2>1, <2>2, <2>3, HeldKeeps
<1>. QED  BY <1>3, <1>4

\* One that promises nothing.
LEMMA QuietAck ==
  ASSUME ZilInv, BookInv, ChainInv, ReplayInv, AckInv, [Next]_vars, Quiet
  PROVE  LoopInv' /\ HeldInv' /\ (~LogErrors => PromiseInv')
<1>1. MaxInv /\ CountInv /\ (~LogErrors => PromiseInv)
  BY DEF AckInv
<1>2. ~Crash
  <2>1. crashes \in Nat /\ crashes' = crashes
    BY DEF ZilInv, RecInv, Quiet, Apart
  <2>2. Crash => crashes' = crashes + 1
    BY DEF Crash
  <2>. QED  BY <2>1, <2>2
<1>3. ~LogErrors => PromiseInv'
  BY <1>1, <1>2, PromiseKeeps DEF Quiet, Apart
<1>. QED  BY <1>3, ApartAck DEF Quiet

\* A call that logs its record adds it to the list.
LEMMA zil_itx_assignAck ==
  ASSUME ZilInv, BookInv, ChainInv, ReplayInv, AckInv, [Next]_vars, NEW t \in Threads, zil_itx_assign(t)
  PROVE  LoopInv' /\ HeldInv' /\ (~LogErrors => PromiseInv')
<1>0. MaxInv /\ CountInv /\ LoopInv /\ HeldInv /\ (~LogErrors => PromiseInv)
  BY DEF AckInv
<1>. DEFINE N == Len(rec)
            s == Append(zl.itx, N + 1)
<1>1. /\ t \in Procs /\ IsZl(zl) /\ DOMAIN p = Procs /\ N \in Nat /\ zl.itx \in Seq(Nat)
      /\ \A n \in DOMAIN zl.itx : zl.itx[n] \in 1 .. N
      /\ \A u \in Procs : p[u].seq \in 0 .. N
      /\ w.next \in 0 .. N /\ w.commit_seq \in 0 .. N
  BY <1>0, NullFact DEF ZilInv, ShapeInv, RecInv, Procs, CountInv, Current, CurrentIn
<1>2. /\ p' = [p EXCEPT ![t] = Idle] /\ zl' = [zl EXCEPT !.itx = s] /\ UNCHANGED <<w, blk, moot, acked>>
      /\ p[t].pc = "call"
  BY DEF zil_itx_assign
<1>3. /\ Len(rec') = N + 1 /\ (\A i \in 1 .. N : rec'[i] = rec[i]) /\ crashes' = crashes
      /\ DOMAIN rec' = 1 .. N + 1
  BY AssignRec
<1>4. /\ DOMAIN s = 1 .. Len(zl.itx) + 1 /\ Len(zl.itx) \in Nat /\ DOMAIN zl.itx = 1 .. Len(zl.itx)
      /\ s[Len(zl.itx) + 1] = N + 1 /\ \A n \in DOMAIN zl.itx : s[n] = zl.itx[n]
  BY <1>1
<1>5. (\A n \in DOMAIN s : n \in DOMAIN zl.itx \/ n = Len(zl.itx) + 1) /\ Len(zl.itx) + 1 \in DOMAIN s
      /\ \A n \in DOMAIN zl.itx : n \in DOMAIN s
  BY <1>4
<1>. HIDE DEF s
<1>6. /\ zl'.itx = s /\ zl'.commit_seq = zl.commit_seq
      /\ p'[t] = Idle /\ (\A u \in Procs : u # t => p'[u] = p[u]) /\ Idle.pc = "idle"
  BY <1>1, <1>2 DEF IsZl, Idle
<1>7. ~Crash
  <2>1. Crash => crashes' = crashes + 1
    BY DEF Crash
  <2>. QED  BY <1>3, <2>1 DEF ZilInv, RecInv
<1>8. LoopInv'
  <2>. SUFFICES ASSUME NEW u \in Procs, p'[u].pc \in LoopPcs
                PROVE  /\ p'[u].pc \in {"push", "log", "recWait"} => \A n \in DOMAIN zl'.itx :
                            IF w'.next = 0 THEN Spared(u, zl.itx[n])'
                            ELSE zl'.itx[n] < w'.next => Skip(u, zl.itx[n])'
                       /\ p'[u].pc \in {"io", "sync"} => \A n \in DOMAIN zl'.itx :
                            zl'.itx[n] > w'.commit_seq /\ Spared(u, zl.itx[n])'
                       /\ p'[u].pc = "io" /\ w'.lwb # NULL => blk'[w'.lwb].recs = <<>>
    BY DEF LoopInv, LoopPcs
  <2>1. p'[u] = p[u] /\ p[u].pc \in LoopPcs
    BY <1>6 DEF LoopPcs
  <2>2. /\ p[u].pc \in {"push", "log", "recWait"} => \A n \in DOMAIN zl.itx :
             IF w.next = 0 THEN Spared(u, zl.itx[n]) ELSE zl.itx[n] < w.next => Skip(u, zl.itx[n])
        /\ p[u].pc \in {"io", "sync"} => \A n \in DOMAIN zl.itx :
             zl.itx[n] > w.commit_seq /\ Spared(u, zl.itx[n])
        /\ p[u].pc = "io" /\ w.lwb # NULL => blk[w.lwb].recs = <<>>
    BY <1>0 DEF LoopInv
  <2>3. \A i \in 1 .. N : (Spared(u, i) => Spared(u, i)') /\ (Skip(u, i) => Skip(u, i)')
    BY <1>3, <2>1 DEF Spared, Skip
  <2>4. PICK x : x = N + 1
    OBVIOUS
  <2>5. x > p[u].seq /\ ~(x < w.next) /\ x > w.commit_seq
    BY <1>1, <2>4
  <2>6. Spared(u, x)'
    BY <2>1, <2>5 DEF Spared
  <2>7. \A n \in DOMAIN s : (n \in DOMAIN zl.itx /\ s[n] = zl.itx[n]) \/ s[n] = x
    BY <1>4, <1>5, <2>4
  <2>8. ASSUME NEW n \in DOMAIN s, NEW j, j = s[n]
        PROVE  /\ p[u].pc \in {"push", "log", "recWait"} =>
                    IF w.next = 0 THEN Spared(u, j)' ELSE j < w.next => Skip(u, j)'
               /\ p[u].pc \in {"io", "sync"} => j > w.commit_seq /\ Spared(u, j)'
    <3>1. CASE n \in DOMAIN zl.itx /\ s[n] = zl.itx[n]
      BY <1>1, <2>2, <2>3, <2>8, <3>1
    <3>2. CASE j = x
      BY <2>5, <2>6, <3>2
    <3>. QED  BY <2>7, <2>8, <3>1, <3>2
  <2>. QED  BY <1>2, <1>6, <2>1, <2>2, <2>8 DEF Spared, Skip
<1>9. HeldInv'
  <2>. SUFFICES ASSUME NEW i \in 1 .. N + 1, CurrentIn(rec', crashes', i)
                PROVE  Held(i)'
    BY <1>3 DEF HeldInv, Current
  <2>1. CASE i = N + 1
    <3>1. InList(i)'
      BY <1>4, <1>5, <1>6, <2>1 DEF InList
    <3>. QED  BY <3>1 DEF Held
  <2>2. CASE i # N + 1
    <3>1. i \in 1 .. N
      BY <1>1, <2>2
    <3>2. Current(i) /\ rec'[i] = rec[i]
      BY <1>7, <3>1, SameCurrentNext
    <3>3. CASE InList(i)
      <4>1. InList(i)'
        BY <1>4, <1>5, <1>6, <3>3 DEF InList
      <4>. QED  BY <4>1 DEF Held
    <3>4. CASE i \in moot
      BY <1>2, <3>4 DEF Held
    <3>5. CASE Safe(i)
      BY <1>0, <3>1, <3>5, SafeNext DEF Held
    <3>6. ASSUME NEW u \in Procs, Answers(u, i)
          PROVE  Held(i)'
      <4>1. p'[u] = p[u]
        BY <1>2, <1>6, <3>6 DEF Answers
      <4>2. \A b : InBlock(b, i) => InBlock(b, i)'
        BY <1>2 DEF InBlock
      <4>3. Answers(u, i)'
        BY <1>2, <3>2, <3>6, <4>1, <4>2 DEF Answers
      <4>. QED  BY <4>3 DEF Held
    <3>7. CASE LogErrors /\ \E b \in Blocks : InBlock(b, i)
      BY <1>2, <3>7 DEF Held, InBlock
    <3>. QED  BY <1>0, <3>1, <3>2, <3>3, <3>4, <3>5, <3>6, <3>7 DEF HeldInv, Held
  <2>. QED  BY <2>1, <2>2
<1>10. ~LogErrors => PromiseInv'
  BY <1>0, <1>2, <1>6, <1>7, PromiseKeeps
<1>. QED  BY <1>8, <1>9, <1>10

\* The broadcast changes no arguments.
LEMMA WakeSeq ==
  ASSUME NEW q, \A u \in Procs : IsProc(q[u])
  PROVE  \A u \in Procs : /\ Wake(q)[u].seq = q[u].seq /\ Wake(q)[u].foid = q[u].foid
                          /\ Wake(q)[u].txg = q[u].txg
                          /\ Wake(q)[u].pc \in LoopPcs \cup {"call"} \/ q[u].pc \in LoopPcs \cup {"call"}
                               => Wake(q)[u] = q[u]
<1>. SUFFICES ASSUME NEW u \in Procs
              PROVE  /\ Wake(q)[u].seq = q[u].seq /\ Wake(q)[u].foid = q[u].foid
                     /\ Wake(q)[u].txg = q[u].txg
                     /\ Wake(q)[u].pc \in LoopPcs \cup {"call"} \/ q[u].pc \in LoopPcs \cup {"call"}
                          => Wake(q)[u] = q[u]
  OBVIOUS
<1>0. IsProc(q[u])
  OBVIOUS
<1>1. CASE q[u].pc = "cvWait"
  <2>1. Wake(q)[u] = [q[u] EXCEPT !.pc = "cvWoken"]
    BY <1>1 DEF Wake
  <2>. QED  BY <1>0, <1>1, <2>1 DEF IsProc, LoopPcs
<1>2. CASE q[u].pc = "drainWait"
  <2>1. Wake(q)[u] = [q[u] EXCEPT !.pc = "drain"]
    BY <1>2 DEF Wake
  <2>. QED  BY <1>0, <1>2, <2>1 DEF IsProc, LoopPcs
<1>3. CASE q[u].pc \notin {"cvWait", "drainWait"}
  BY <1>3 DEF Wake
<1>. QED  BY <1>1, <1>2, <1>3

\* zil_itx_clean() drops records whose groups are on disk.
LEMMA zil_itx_cleanAck ==
  ASSUME ZilInv, BookInv, ChainInv, ReplayInv, AckInv, [Next]_vars, zil_itx_clean
  PROVE  CountInv' /\ LoopInv' /\ HeldInv' /\ (~LogErrors => PromiseInv')
<1>0. MaxInv /\ CountInv /\ LoopInv /\ HeldInv /\ (~LogErrors => PromiseInv)
  BY DEF AckInv
<1>. DEFINE synced == {n \in DOMAIN zl.itx : \A m \in 1 .. n : rec[zl.itx[m]].txg <= stable}
            l == Cardinality(synced)
            s == SubSeq(zl.itx, l + 1, Len(zl.itx))
<1>1. /\ IsZl(zl) /\ (\A u \in Procs : IsProc(p[u])) /\ zl.itx \in Seq(Nat) /\ stable \in Nat
      /\ Len(zl.itx) \in Nat /\ DOMAIN zl.itx = 1 .. Len(zl.itx)
      /\ \A n \in DOMAIN zl.itx : Current(zl.itx[n])
  BY DEF ZilInv, ShapeInv, RecInv, GroupInv
<1>2. /\ zl' = [zl EXCEPT !.clean = FALSE, !.itx = s] /\ p' = Wake(p) /\ zl.writer = NULL
      /\ UNCHANGED <<rec, crashes, acked, moot, w, stable, home>>
  BY DEF zil_itx_clean, fs_vars, gc_vars, import_vars
<1>3. \A u \in Procs : p[u].pc \notin LoopPcs
  BY <1>2, NullFact DEF ZilInv, WriterInv, WriterPcs, LoopPcs
<1>4. \A u \in Procs : /\ p'[u].pc \notin LoopPcs /\ p'[u].seq = p[u].seq /\ p'[u].txg = p[u].txg
                       /\ p'[u].pc = "call" => p'[u] = p[u]
  BY <1>1, <1>2, <1>3, WakeSeq
<1>5. l \in Nat /\ 1 .. l \subseteq synced
  <2>1. synced \in SUBSET (1 .. Len(zl.itx)) /\ \A n \in synced : \A m \in 1 .. n : m \in synced
    <3>1. ASSUME NEW n \in synced, NEW m \in 1 .. n
          PROVE  m \in synced
      <4>1. m \in DOMAIN zl.itx /\ \A k \in 1 .. m : k \in 1 .. n
        BY <1>1
      <4>. QED  BY <4>1
    <3>. QED  BY <1>1, <3>1
  <2>. HIDE DEF synced
  <2>. QED  BY <1>1, <2>1, FirstNumbers
<1>6. \A n \in 1 .. l : n \in DOMAIN zl.itx /\ rec[zl.itx[n]].txg <= stable
  <2>1. \A n \in 1 .. l : n \in 1 .. n
    BY <1>5
  <2>. QED  BY <1>5, <2>1
<1>. HIDE DEF synced
<1>7. /\ Len(s) = (IF l <= Len(zl.itx) THEN Len(zl.itx) - l ELSE 0) /\ s \in Seq(Nat)
      /\ \A n \in DOMAIN s : l + n \in DOMAIN zl.itx /\ s[n] = zl.itx[l + n]
  BY <1>1, <1>5, DropFact
<1>. HIDE DEF l, s
<1>8. zl'.itx = s /\ zl'.commit_seq = zl.commit_seq
  BY <1>1, <1>2 DEF IsZl
<1>9. ~Crash
  <2>1. Crash => crashes' = crashes + 1
    BY DEF Crash
  <2>. QED  BY <1>2, <2>1 DEF ZilInv, RecInv
<1>10. CountInv'
  <2>1. Counted
    BY <1>0, <1>2, <1>4, <1>8 DEF Counted, Calls, CountInv
  <2>. QED  BY <1>0, <2>1, CountKeeps
<1>11. LoopInv'
  BY <1>4 DEF LoopInv, LoopPcs
<1>12. HeldInv'
  <2>1. ASSUME NEW i \in 1 .. Len(rec), Current(i), InList(i)
        PROVE  Held(i)'
    <3>1. PICK n \in DOMAIN zl.itx : i = zl.itx[n]
      BY <2>1 DEF InList
    <3>2. CASE n <= l
      <4>1. n \in 1 .. l
        BY <1>1, <1>5, <3>2
      <4>2. rec[i].txg <= stable
        BY <1>6, <3>1, <4>1
      <4>3. home[i] = rec[i].txg /\ home[i] # 0 /\ home[i] \in Nat
        BY <2>1 DEF ReplayInv, HomeInv, Current, CurrentIn
      <4>4. home'[i] \in 1 .. stable'
        BY <1>1, <1>2, <4>2, <4>3
      <4>. QED  BY <4>4 DEF Held, Safe
    <3>3. CASE ~(n <= l)
      <4>1. n - l \in DOMAIN s /\ l + (n - l) = n
        BY <1>1, <1>5, <1>7, <3>3
      <4>2. s[n - l] = i
        BY <1>7, <3>1, <4>1
      <4>3. InList(i)'
        BY <1>8, <4>1, <4>2 DEF InList
      <4>. QED  BY <4>3 DEF Held
    <3>. QED  BY <3>2, <3>3
  <2>2. \A i \in 1 .. Len(rec), t \in Procs : ~Answers(t, i)
    BY <1>3 DEF Answers, LoopPcs
  <2>. QED  BY <1>0, <1>2, <1>9, <2>1, <2>2, HeldKeeps
<1>13. ~LogErrors => PromiseInv'
  BY <1>0, <1>2, <1>8, <1>9, PromiseKeeps
<1>. QED  BY <1>10, <1>11, <1>12, <1>13

\* After a crash no record is of this boot.
LEMMA CrashAck ==
  ASSUME ZilInv, BookInv, ChainInv, ReplayInv, AckInv, [Next]_vars, Crash
  PROVE  LoopInv' /\ HeldInv' /\ (~LogErrors => PromiseInv')
<1>0. MaxInv /\ CountInv /\ LoopInv /\ HeldInv /\ (~LogErrors => PromiseInv)
  BY DEF AckInv
<1>1. /\ zl' = NoLog /\ p' = [t \in Procs |-> Idle] /\ rec' = rec /\ acked' = acked /\ moot' = moot
  BY DEF Crash
<1>2. (\A t \in Procs : p'[t].pc = "idle") /\ zl'.commit_seq = 0
  BY <1>1 DEF Idle, NoLog
<1>3. LoopInv'
  BY <1>2 DEF LoopInv
<1>4. HeldInv'
  BY CrashCurrent DEF HeldInv, Current
<1>5. ASSUME ~LogErrors
      PROVE  PromiseInv'
  <2>1. acked' \subseteq 1 .. Len(rec') /\ \A i \in acked' \ moot' : Safe(i)'
    BY <1>0, <1>1, <1>5, SafeNext DEF PromiseInv
  <2>. QED  BY <1>2, <2>1, CrashCurrent DEF PromiseInv, Current
<1>. QED  BY <1>3, <1>4, <1>5

----------------------------------------------------------------------------
\* The steps of the log writer.

\* The log writer t does something and nobody else does.
Works(t) ==
  /\ rec' = rec /\ crashes' = crashes /\ acked' = acked /\ moot \subseteq moot'
  /\ zl'.commit_seq = zl.commit_seq /\ \A u \in Procs : u # t => p'[u] = p[u]
  /\ p'[t].pc \in LoopPcs /\ p'[t].seq = p[t].seq /\ p'[t].foid = p[t].foid /\ p'[t].txg \in Nat
  /\ w'.next \in 0 .. Len(rec) /\ w'.commit_seq \in 0 .. Len(rec)

\* The list is what LoopInv says after a step of t.
Passes(t) ==
  /\ \A n \in DOMAIN zl'.itx :
       /\ p'[t].pc \in {"push", "log", "recWait"} =>
            IF w'.next = 0 THEN Spared(t, zl'.itx[n]) ELSE zl'.itx[n] < w'.next => Skip(t, zl'.itx[n])
       /\ p'[t].pc \in {"io", "sync"} => zl'.itx[n] > w'.commit_seq /\ Spared(t, zl'.itx[n])
  /\ p'[t].pc = "io" /\ w'.lwb # NULL => blk'[w'.lwb].recs = <<>>

\* Nobody else is in the loop.
LEMMA LoopOf ==
  ASSUME NEW t \in Procs, \A u \in Procs : u # t => p'[u].pc \notin LoopPcs,
         \A n \in DOMAIN zl'.itx : \A j : j = zl'.itx[n] =>
           /\ p'[t].pc \in {"push", "log", "recWait"} =>
                IF w'.next = 0 THEN Spared(t, j)' ELSE j < w'.next => Skip(t, j)'
           /\ p'[t].pc \in {"io", "sync"} => j > w'.commit_seq /\ Spared(t, j)',
         p'[t].pc = "io" /\ w'.lwb # NULL => blk'[w'.lwb].recs = <<>>
  PROVE  LoopInv'
<1>. SUFFICES ASSUME NEW u \in Procs, p'[u].pc \in LoopPcs
              PROVE  /\ p'[u].pc \in {"push", "log", "recWait"} => \A n \in DOMAIN zl'.itx :
                          IF w'.next = 0 THEN Spared(u, zl.itx[n])'
                          ELSE zl'.itx[n] < w'.next => Skip(u, zl.itx[n])'
                     /\ p'[u].pc \in {"io", "sync"} => \A n \in DOMAIN zl'.itx :
                          zl'.itx[n] > w'.commit_seq /\ Spared(u, zl.itx[n])'
                     /\ p'[u].pc = "io" /\ w'.lwb # NULL => blk'[w'.lwb].recs = <<>>
  BY DEF LoopInv, LoopPcs
<1>1. u = t
  OBVIOUS
<1>. QED  BY <1>1 DEF Spared, Skip

\* What is left to show for a step of the log writer.
LEMMA WorksAck ==
  ASSUME ZilInv, BookInv, ChainInv, ReplayInv, AckInv, [Next]_vars,
         NEW t \in Procs, p[t].pc \in WriterPcs, Works(t), Passes(t),
         \A i \in 1 .. Len(rec) : Current(i) /\ (InList(i) \/ Answers(t, i)) => Held(i)'
  PROVE  AckInv'
<1>0. MaxInv /\ CountInv /\ LoopInv /\ HeldInv /\ (~LogErrors => PromiseInv)
  BY DEF AckInv
<1>1. \A u \in Procs : u # t => p[u].pc \notin WriterPcs /\ p[u].pc \notin LoopPcs
  BY DEF ZilInv, WriterInv, WriterPcs, LoopPcs
<1>2. ~Crash
  <2>1. crashes \in Nat /\ crashes' = crashes
    BY DEF ZilInv, RecInv, Works
  <2>2. Crash => crashes' = crashes + 1
    BY DEF Crash
  <2>. QED  BY <2>1, <2>2
<1>3. CountInv'
  <2>1. Counted
    <3>1. \A u \in Procs : p[u].seq \in 0 .. Len(rec) /\ p[u].txg \in Nat
      BY <1>0 DEF CountInv
    <3>2. \A u \in Procs : p'[u].seq \in 0 .. Len(rec) /\ p'[u].txg \in Nat
      BY <3>1 DEF Works
    <3>3. Calls
      BY DEF Calls, Works, LoopPcs
    <3>4. zl'.commit_seq \in 0 .. Len(rec)
      BY <1>0 DEF CountInv, Works
    <3>. QED  BY <3>2, <3>3, <3>4 DEF Counted, Works
  <2>. QED  BY <1>0, <2>1, CountKeeps
<1>4. LoopInv'
  <2>1. \A j : (Spared(t, j) => Spared(t, j)') /\ (Skip(t, j) => Skip(t, j)')
    BY DEF Works, Spared, Skip
  <2>2. \A u \in Procs : u # t => p'[u].pc \notin LoopPcs
    BY <1>1 DEF Works
  <2>3. \A n \in DOMAIN zl'.itx : \A j : j = zl'.itx[n] =>
          /\ p'[t].pc \in {"push", "log", "recWait"} =>
               IF w'.next = 0 THEN Spared(t, j)' ELSE j < w'.next => Skip(t, j)'
          /\ p'[t].pc \in {"io", "sync"} => j > w'.commit_seq /\ Spared(t, j)'
    BY <2>1 DEF Passes
  <2>4. p'[t].pc = "io" /\ w'.lwb # NULL => blk'[w'.lwb].recs = <<>>
    BY DEF Passes
  <2>. QED  BY <2>2, <2>3, <2>4, LoopOf
<1>5. HeldInv'
  <2>1. \A i \in 1 .. Len(rec), u \in Procs : Answers(u, i) => u = t
    BY <1>1 DEF Answers, LoopPcs
  <2>2. \A i \in 1 .. Len(rec) : Current(i) /\ InList(i) => Held(i)'
    OBVIOUS
  <2>3. \A i \in 1 .. Len(rec), u \in Procs : Current(i) /\ Answers(u, i) => Held(i)'
    BY <2>1
  <2>4. rec' = rec /\ moot \subseteq moot'
    BY DEF Works
  <2>. QED  BY <1>0, <1>2, <2>2, <2>3, <2>4, HeldKeeps
<1>6. ~LogErrors => PromiseInv'
  BY <1>0, <1>2, PromiseKeeps DEF Works
<1>7. MaxInv'
  BY <1>0, MaxNext
<1>. QED  BY <1>3, <1>4, <1>5, <1>6, <1>7 DEF AckInv

\* A record in a group on disk is safe.
LEMMA SyncedSafe ==
  ASSUME ZilInv, ReplayInv, NEW i, Current(i), rec[i].txg <= stable
  PROVE  Safe(i) /\ i \in 1 .. Len(rec)
<1>1. i \in 1 .. Len(rec) /\ stable \in Nat
  BY DEF Current, CurrentIn, ZilInv, GroupInv
<1>2. home[i] = rec[i].txg /\ home[i] # 0 /\ home[i] \in Nat
  BY <1>1 DEF ReplayInv, HomeInv, Current, CurrentIn
<1>3. home[i] \in 1 .. stable
  BY <1>1, <1>2
<1>. QED  BY <1>1, <1>3 DEF Safe

\* The record's group is on disk.
LEMMA RecordSyncedAck ==
  ASSUME ZilInv, BookInv, ChainInv, ReplayInv, AckInv, [Next]_vars, NEW t \in Procs, RecordSynced(t)
  PROVE  AckInv'
<1>0. MaxInv /\ CountInv /\ LoopInv
  BY DEF AckInv
<1>1. /\ p[t].pc = "recWait" /\ stable >= p[t].txg
      /\ p' = [p EXCEPT ![t] = [p[t] EXCEPT !.pc = "push", !.txg = 0]]
      /\ UNCHANGED <<zl, blk, rec, crashes, acked, moot, w, home, stable>>
  BY DEF RecordSynced, fs_vars, gc_vars, import_vars
<1>2. DOMAIN p = Procs /\ IsProc(p[t]) /\ stable \in Nat
  BY DEF ZilInv, ShapeInv, GroupInv
<1>3. /\ p'[t].pc = "push" /\ p'[t].txg = 0 /\ p'[t].seq = p[t].seq /\ p'[t].foid = p[t].foid
      /\ \A u \in Procs : u # t => p'[u] = p[u]
  BY <1>1, <1>2 DEF IsProc
<1>4. Works(t)
  <2>1. w.next \in 0 .. Len(rec) /\ w.commit_seq \in 0 .. Len(rec)
    BY <1>0 DEF CountInv
  <2>. QED  BY <1>1, <1>3, <2>1 DEF Works, LoopPcs
<1>5. Passes(t)
  BY <1>0, <1>1, <1>3 DEF Passes, LoopInv
<1>6. ASSUME NEW i \in 1 .. Len(rec), Current(i), InList(i) \/ Answers(t, i)
      PROVE  Held(i)'
  <2>1. CASE InList(i)
    BY <1>1, <2>1 DEF InList, Held
  <2>2. CASE w.lwb = NULL \/ \E b \in Blocks : InBlock(b, i)
    <3>1. \A b : InBlock(b, i) => InBlock(b, i)'
      BY <1>1 DEF InBlock
    <3>2. Answers(t, i)'
      BY <1>1, <1>3, <2>2, <3>1 DEF Answers
    <3>. QED  BY <3>2 DEF Held
  <2>3. CASE rec[i].txg <= p[t].txg
    <3>1. rec[i].txg \in Nat /\ p[t].txg \in Nat
      BY <1>0 DEF CountInv, ZilInv, RecInv, IsRec
    <3>2. rec[i].txg <= stable
      BY <1>1, <1>2, <2>3, <3>1
    <3>3. Safe(i)'
      BY <1>0, <1>6, <3>2, SyncedSafe, SafeNext
    <3>. QED  BY <3>3 DEF Held
  <2>. QED  BY <1>1, <1>6, <2>1, <2>2, <2>3 DEF Answers
<1>7. p[t].pc \in WriterPcs
  BY <1>1 DEF WriterPcs
<1>. QED  BY <1>4, <1>5, <1>6, <1>7, WorksAck

\* There are at most MaxRec records.
LEMMA RecsBelow ==
  ASSUME ZilInv, CountInv
  PROVE  Len(rec) <= MaxRec /\ Len(rec) \in Nat
<1>1. Len(rec) \in Nat /\ Cardinality({u \in Threads : p[u].pc = "call"}) \in Nat /\ MaxRec \in Nat
  BY CallersFinite, ZilAssumption DEF ZilInv, RecInv
<1>. QED  BY <1>1 DEF CountInv, Recs

\* A log writer starts at the head of the list.
LEMMA HeadFact ==
  ASSUME ZilInv, CountInv, NEW a, a = After(0)
  PROVE  a \in 0 .. Len(rec) /\ \A n \in DOMAIN zl.itx : a # 0 /\ ~(zl.itx[n] < a)
<1>1. Len(rec) <= MaxRec /\ Len(rec) \in Nat
  BY RecsBelow
<1>2. \A n \in DOMAIN zl.itx : zl.itx[n] \in Nat \ {0}
  BY DEF ZilInv, RecInv, Current, CurrentIn
<1>3. 0 \in Nat
  OBVIOUS
<1>4. a \in 0 .. Len(rec) /\ \A n \in DOMAIN zl.itx : zl.itx[n] > 0 => a # 0 /\ a <= zl.itx[n]
  BY <1>1, <1>3, AfterFact
<1>. QED  BY <1>1, <1>2, <1>4

\* zil_create() is over, and the loop begins.
LEMMA zil_createdAck ==
  ASSUME ZilInv, BookInv, ChainInv, ReplayInv, AckInv, [Next]_vars, NEW t \in Procs, zil_created(t)
  PROVE  AckInv'
<1>0. MaxInv /\ CountInv /\ LoopInv
  BY DEF AckInv
<1>. DEFINE a == After(0)
            l == IF zl.lwb = <<>> THEN NULL ELSE Last(zl.lwb)
<1>1. /\ p[t].pc = "created" /\ w' = [NoWriter EXCEPT !.lwb = l, !.next = a]
      /\ p' = [p EXCEPT ![t] = [p[t] EXCEPT !.pc = "push", !.txg = 0]]
      /\ UNCHANGED <<zl, blk, rec, crashes, acked, moot, home, stable>>
  BY DEF zil_created, fs_vars, gc_vars, import_vars
<1>. HIDE DEF a, l
<1>2. DOMAIN p = Procs /\ IsProc(p[t]) /\ Len(rec) \in Nat
  BY DEF ZilInv, ShapeInv, RecInv
<1>3. /\ p'[t].pc = "push" /\ p'[t].txg = 0 /\ p'[t].seq = p[t].seq /\ p'[t].foid = p[t].foid
      /\ \A u \in Procs : u # t => p'[u] = p[u]
  BY <1>1, <1>2 DEF IsProc
<1>4. w'.next = a /\ w'.commit_seq = 0
  BY <1>1 DEF NoWriter
<1>5. Passes(t) /\ w'.next \in 0 .. Len(rec)
  <2>1. a \in 0 .. Len(rec) /\ \A n \in DOMAIN zl.itx : a # 0 /\ ~(zl.itx[n] < a)
    BY <1>0, HeadFact DEF a
  <2>. QED  BY <1>1, <1>3, <1>4, <2>1 DEF Passes
<1>6. Works(t)
  BY <1>1, <1>2, <1>3, <1>4, <1>5 DEF Works, LoopPcs
<1>7. ASSUME NEW i \in 1 .. Len(rec), Current(i), InList(i) \/ Answers(t, i)
      PROVE  Held(i)'
  BY <1>1, <1>7 DEF InList, Held, Answers
<1>8. p[t].pc \in WriterPcs
  BY <1>1 DEF WriterPcs
<1>. QED  BY <1>5, <1>6, <1>7, <1>8, WorksAck

\* A record is taken off the list.
LEMMA TakeItxAck ==
  ASSUME ZilInv, BookInv, ChainInv, ReplayInv, AckInv, [Next]_vars, NEW t \in Procs, TakeItx(t)
  PROVE  AckInv'
<1>0. MaxInv /\ CountInv /\ LoopInv
  BY DEF AckInv
<1>1. PICK i, a, s : i = NextItx(t) /\ a = After(i) /\ s = RemoveItx(zl.itx, i)
  OBVIOUS
<1>2. /\ p[t].pc = "push" /\ i # 0 /\ zl' = [zl EXCEPT !.itx = s]
      /\ \/ /\ p' = [p EXCEPT ![t] = [p[t] EXCEPT !.pc = "log"]]
            /\ w' = [w EXCEPT !.itx = i, !.next = a]
         \/ /\ rec[i].txg <= stable /\ p' = p /\ w' = [w EXCEPT !.next = a]
      /\ UNCHANGED <<blk, rec, crashes, acked, moot, home, stable>>
  <2>1. \/ rec[i].txg > stable
        \/ rec[i].txg <= stable
    <3>1. stable \in Nat /\ p[t].seq \in Nat /\ i # 0
      BY <1>0, <1>1 DEF ZilInv, GroupInv, CountInv, TakeItx
    <3>2. \E n \in DOMAIN zl.itx : i = zl.itx[n]
      BY <1>1, <3>1, NextItxFact
    <3>3. rec[i].txg \in Nat
      BY <3>2 DEF ZilInv, RecInv, Current, CurrentIn, IsRec
    <3>. QED  BY <3>1, <3>3
  <2>. QED  BY <1>1, <2>1 DEF TakeItx, fs_vars, gc_vars, import_vars
<1>3. /\ DOMAIN p = Procs /\ IsProc(p[t]) /\ IsZl(zl) /\ IsWriter(w) /\ Len(rec) \in Nat
      /\ zl.itx \in Seq(Nat) /\ p[t].seq \in Nat /\ p[t].txg \in Nat /\ w.commit_seq \in 0 .. Len(rec)
      /\ (\A n \in DOMAIN zl.itx : Current(zl.itx[n]) /\ zl.itx[n] \in Nat) /\ Ascending(zl.itx)
      /\ w.next \in Nat
  BY <1>0 DEF ZilInv, ShapeInv, RecInv, CountInv, ReplayInv, OnceInv
<1>4. /\ zl'.itx = s /\ zl'.commit_seq = zl.commit_seq
      /\ w'.next = a /\ w'.commit_seq = w.commit_seq /\ w'.lwb = w.lwb
      /\ p'[t].pc \in {"push", "log"} /\ p'[t].seq = p[t].seq /\ p'[t].foid = p[t].foid
      /\ p'[t].txg = p[t].txg /\ \A u \in Procs : u # t => p'[u] = p[u]
      /\ (p'[t].pc = "log" /\ w'.itx = i) \/ rec[i].txg <= stable
  <2>1. zl'.itx = s /\ zl'.commit_seq = zl.commit_seq
    BY <1>2, <1>3 DEF IsZl
  <2>2. CASE /\ p' = [p EXCEPT ![t] = [p[t] EXCEPT !.pc = "log"]]
             /\ w' = [w EXCEPT !.itx = i, !.next = a]
    <3>1. /\ w'.next = a /\ w'.commit_seq = w.commit_seq /\ w'.lwb = w.lwb /\ w'.itx = i
      BY <1>3, <2>2 DEF IsWriter
    <3>2. /\ p'[t].pc = "log" /\ p'[t].seq = p[t].seq /\ p'[t].foid = p[t].foid
          /\ p'[t].txg = p[t].txg /\ \A u \in Procs : u # t => p'[u] = p[u]
      BY <1>3, <2>2 DEF IsProc
    <3>. QED  BY <2>1, <3>1, <3>2
  <2>3. CASE rec[i].txg <= stable /\ p' = p /\ w' = [w EXCEPT !.next = a]
    BY <1>2, <1>3, <2>1, <2>3 DEF IsWriter
  <2>. QED  BY <1>2, <2>2, <2>3
<1>5. /\ \E n \in DOMAIN zl.itx : i = zl.itx[n]
      /\ w.next \in 1 .. i
      /\ \A n \in DOMAIN zl.itx : w.next \in 1 .. zl.itx[n] /\ zl.itx[n] < i => Skip(t, zl.itx[n])
  BY <1>1, <1>2, <1>3, NextItxFact
<1>6. PICK n \in DOMAIN zl.itx : i = zl.itx[n]
  BY <1>5
<1>7. /\ i \in Nat /\ s \in Seq(Nat)
      /\ \A m \in DOMAIN s : s[m] # i /\ \E k \in DOMAIN zl.itx : s[m] = zl.itx[k]
      /\ \A k \in DOMAIN zl.itx : k # n => \E m \in DOMAIN s : s[m] = zl.itx[k]
  BY <1>1, <1>3, <1>6, RemoveOrdered
<1>8. /\ a \in 0 .. Len(rec)
      /\ \A m \in DOMAIN zl.itx : zl.itx[m] > i => a # 0 /\ a <= zl.itx[m]
      /\ a # 0 => a > i
  BY <1>0, <1>1, <1>7, RecsBelow, AfterFact
<1>9. ASSUME NEW m \in DOMAIN s
      PROVE  IF a = 0 THEN Spared(t, s[m]) ELSE s[m] < a => Skip(t, s[m])
  <2>1. PICK k \in DOMAIN zl.itx : s[m] = zl.itx[k]
    BY <1>7, <1>9
  <2>2. s[m] # i /\ s[m] \in Nat
    BY <1>3, <1>7, <1>9, <2>1
  <2>3. CASE s[m] > i
    <3>1. a # 0 /\ ~(s[m] < a)
      BY <1>3, <1>8, <2>1, <2>2, <2>3
    <3>. QED  BY <3>1
  <2>4. CASE s[m] < i
    <3>1. Skip(t, s[m])
      <4>1. CASE w.next \in 1 .. s[m]
        BY <1>5, <2>1, <2>4, <4>1
      <4>2. CASE w.next \notin 1 .. s[m]
        <5>1. w.next # 0 /\ s[m] < w.next
          BY <1>3, <1>5, <2>2, <4>2, SMTT(30)
        <5>. QED  BY <1>0, <1>2, <2>1, <5>1 DEF LoopInv
      <4>. QED  BY <4>1, <4>2
    <3>. QED  BY <3>1 DEF Spared
  <2>. QED  BY <1>7, <2>2, <2>3, <2>4
<1>10. Passes(t)
  BY <1>4, <1>9 DEF Passes
<1>11. Works(t)
  BY <1>2, <1>3, <1>4, <1>8 DEF Works, LoopPcs
<1>12. ASSUME NEW j \in 1 .. Len(rec), Current(j), InList(j) \/ Answers(t, j)
       PROVE  Held(j)'
  <2>1. CASE InList(j) /\ j # i
    <3>1. PICK k \in DOMAIN zl.itx : j = zl.itx[k]
      BY <2>1 DEF InList
    <3>2. \E m \in DOMAIN s : s[m] = j
      BY <1>6, <1>7, <2>1, <3>1
    <3>3. InList(j)'
      BY <1>4, <3>2 DEF InList
    <3>. QED  BY <3>3 DEF Held
  <2>2. CASE j = i /\ rec[i].txg <= stable
    <3>1. Safe(j)'
      BY <1>0, <1>12, <2>2, SyncedSafe, SafeNext
    <3>. QED  BY <3>1 DEF Held
  <2>3. CASE j = i /\ p'[t].pc = "log" /\ w'.itx = i
    <3>1. Answers(t, j)'
      BY <2>3 DEF Answers
    <3>. QED  BY <3>1 DEF Held
  <2>4. CASE Answers(t, j)
    <3>1. w.lwb = NULL \/ \E b \in Blocks : InBlock(b, j)
      BY <1>2, <2>4 DEF Answers
    <3>2. \A b : InBlock(b, j) => InBlock(b, j)'
      BY <1>2 DEF InBlock
    <3>3. Answers(t, j)'
      BY <1>4, <3>1, <3>2 DEF Answers
    <3>. QED  BY <3>3 DEF Held
  <2>. QED  BY <1>4, <1>12, <2>1, <2>2, <2>3, <2>4
<1>13. p[t].pc \in WriterPcs
  BY <1>2 DEF WriterPcs
<1>. QED  BY <1>10, <1>11, <1>12, <1>13, WorksAck

\* A record that is in hand goes where the log writer answers for it.
LEMMA zil_lwb_commitAck ==
  ASSUME ZilInv, BookInv, ChainInv, ReplayInv, AckInv, [Next]_vars, NEW t \in Procs, zil_lwb_commit(t)
  PROVE  AckInv'
<1>0. MaxInv /\ CountInv /\ LoopInv /\ OpenInv
  BY DEF AckInv, ChainInv
<1>1. PICK i : i = w.itx
  OBVIOUS
<1>2. /\ p[t].pc = "log" /\ UNCHANGED <<rec, crashes, acked>> /\ moot \subseteq moot'
  BY DEF zil_lwb_commit, LogRecord, import_vars
<1>3. /\ DOMAIN p = Procs /\ IsProc(p[t]) /\ IsWriter(w)
      /\ p[t].seq \in Nat /\ p[t].txg \in Nat
      /\ w.next \in 0 .. Len(rec) /\ w.commit_seq \in 0 .. Len(rec)
      /\ i \in 1 .. Len(rec) /\ rec[i].txg \in Nat
  BY <1>0, <1>1, <1>2 DEF ZilInv, ShapeInv, RecInv, CountInv, Current, CurrentIn, IsRec
<1>4. /\ p'[t].pc \in {"push", "recWait"} /\ p'[t].seq = p[t].seq /\ p'[t].foid = p[t].foid
      /\ p'[t].txg \in Nat /\ \A u \in Procs : u # t => p'[u] = p[u]
  <2>1. \/ p' = [p EXCEPT ![t] = [p[t] EXCEPT !.pc = "push"]]
        \/ p' = [p EXCEPT ![t] = [p[t] EXCEPT !.pc = "recWait", !.txg = rec[i].txg]]
    BY <1>1 DEF zil_lwb_commit, LogRecord
  <2>. QED  BY <1>3, <2>1 DEF IsProc
<1>5. w'.next = w.next /\ w'.commit_seq = w.commit_seq
  <2>1. w' = [w EXCEPT !.itx = 0] \/ \E n : w' = [w EXCEPT !.lwb = n, !.itx = 0]
    BY DEF zil_lwb_commit
  <2>. QED  BY <1>3, <2>1 DEF IsWriter
<1>6. /\ \A b \in Blocks : BlockStep(b)
      /\ zl'.itx = zl.itx /\ zl'.commit_seq = zl.commit_seq /\ (w.lwb = NULL => w'.lwb = NULL)
      /\ \/ w'.lwb = NULL \/ (\E b \in Blocks : InBlock(b, i)') \/ i \in moot'
         \/ p'[t].pc = "recWait" /\ p'[t].txg = rec[i].txg
  BY <1>0, <1>1, zil_lwb_commitBlocks
<1>7. Works(t)
  BY <1>2, <1>3, <1>4, <1>5, <1>6 DEF Works, LoopPcs
<1>8. Passes(t)
  BY <1>0, <1>2, <1>4, <1>5, <1>6 DEF Passes, LoopInv
<1>9. ASSUME NEW j \in 1 .. Len(rec), Current(j), InList(j) \/ Answers(t, j)
      PROVE  Held(j)'
  <2>1. CASE InList(j)
    BY <1>6, <2>1 DEF InList, Held
  <2>2. CASE j = i
    <3>1. i \in moot' \/ Answers(t, j)'
      BY <1>2, <1>3, <1>4, <1>6, <2>2 DEF Answers
    <3>. QED  BY <2>2, <3>1 DEF Held
  <2>3. CASE w.lwb = NULL \/ \E b \in Blocks : InBlock(b, j)
    <3>1. \A b \in Blocks : InBlock(b, j) => InBlock(b, j)'
      BY <1>6 DEF InBlock, BlockStep, StillReads
    <3>2. Answers(t, j)'
      BY <1>4, <1>6, <2>3, <3>1 DEF Answers
    <3>. QED  BY <3>2 DEF Held
  <2>. QED  BY <1>1, <1>2, <1>9, <2>1, <2>2, <2>3 DEF Answers
<1>10. p[t].pc \in WriterPcs
  BY <1>2 DEF WriterPcs
<1>. QED  BY <1>7, <1>8, <1>9, <1>10, WorksAck

\* The end of the loop: what is left does not concern the commit.
LEMMA WriteLastAck ==
  ASSUME ZilInv, BookInv, ChainInv, ReplayInv, AckInv, [Next]_vars, NEW t \in Procs, WriteLast(t)
  PROVE  AckInv'
<1>0. MaxInv /\ CountInv /\ LoopInv /\ OpenInv
  BY DEF AckInv, ChainInv
<1>1. PICK q : q = IF zl.itx = <<>> THEN Len(rec) ELSE Head(zl.itx) - 1
  OBVIOUS
<1>2. /\ p[t].pc = "push" /\ NextItx(t) = 0 /\ UNCHANGED <<rec, crashes, acked, moot>>
      /\ p' = [p EXCEPT ![t] = [p[t] EXCEPT !.pc = "io"]]
      /\ \/ w' = [w EXCEPT !.commit_seq = q, !.next = 0]
         \/ \E n : w' = [w EXCEPT !.commit_seq = q, !.lwb = n, !.next = 0]
  BY <1>1 DEF WriteLast, fs_vars, import_vars
<1>3. /\ DOMAIN p = Procs /\ IsProc(p[t]) /\ IsWriter(w) /\ Len(rec) \in Nat
      /\ zl.itx \in Seq(Nat) /\ p[t].seq \in Nat /\ p[t].txg \in Nat /\ w.next \in Nat
      /\ (\A n \in DOMAIN zl.itx : zl.itx[n] \in 1 .. Len(rec)) /\ Ascending(zl.itx)
  BY <1>0 DEF ZilInv, ShapeInv, RecInv, CountInv, ReplayInv, OnceInv, Current, CurrentIn
<1>4. /\ p'[t].pc = "io" /\ p'[t].seq = p[t].seq /\ p'[t].foid = p[t].foid
      /\ p'[t].txg = p[t].txg /\ \A u \in Procs : u # t => p'[u] = p[u]
  BY <1>2, <1>3 DEF IsProc
<1>5. w'.commit_seq = q /\ w'.next = 0
  BY <1>2, <1>3 DEF IsWriter
<1>6. /\ \A b \in Blocks : BlockStep(b)
      /\ zl'.itx = zl.itx /\ zl'.commit_seq = zl.commit_seq /\ (w.lwb = NULL => w'.lwb = NULL)
      /\ w'.lwb # NULL => blk'[w'.lwb].recs = <<>>
  BY <1>0, WriteLastBlocks
<1>7. q \in 0 .. Len(rec) /\ \A n \in DOMAIN zl.itx : zl.itx[n] > q
  <2>1. CASE zl.itx = <<>>
    BY <1>1, <1>3, <2>1
  <2>2. CASE zl.itx # <<>>
    <3>1. 1 \in DOMAIN zl.itx /\ Head(zl.itx) = zl.itx[1] /\ DOMAIN zl.itx = 1 .. Len(zl.itx) /\ Len(zl.itx) \in Nat
      BY <1>3, <2>2
    <3>2. \A n \in DOMAIN zl.itx : n = 1 \/ zl.itx[1] < zl.itx[n]
      BY <1>3, <3>1 DEF Ascending
    <3>3. zl.itx[1] \in 1 .. Len(rec) /\ q = zl.itx[1] - 1
      BY <1>1, <1>3, <2>2, <3>1
    <3>4. q \in 0 .. Len(rec) /\ zl.itx[1] > q
      BY <1>3, <3>3
    <3>5. ASSUME NEW n \in DOMAIN zl.itx, n # 1
          PROVE  zl.itx[n] > q
      <4>1. zl.itx[n] \in Nat /\ zl.itx[1] < zl.itx[n] /\ zl.itx[1] \in Nat /\ q \in Nat
        BY <1>3, <3>2, <3>3, <3>4, <3>5
      <4>. QED  BY <3>4, <4>1
    <3>. QED  BY <3>4, <3>5
  <2>. QED  BY <2>1, <2>2
<1>8. ASSUME NEW n \in DOMAIN zl.itx
      PROVE  Spared(t, zl.itx[n])
  <2>1. CASE w.next = 0
    BY <1>0, <1>2, <2>1 DEF LoopInv
  <2>2. CASE w.next # 0 /\ zl.itx[n] < w.next
    BY <1>0, <1>2, <2>2 DEF LoopInv, Spared
  <2>3. CASE w.next # 0 /\ ~(zl.itx[n] < w.next)
    <3>1. w.next \in 1 .. zl.itx[n]
      BY <1>3, <2>3
    <3>2. PICK i : i = NextItx(t) /\ i = 0
      BY <1>2
    <3>. QED  BY <1>3, <3>1, <3>2, NextItxFact
  <2>. QED  BY <2>1, <2>2, <2>3
<1>9. Works(t)
  <2>1. UNCHANGED <<rec, crashes, acked, moot>>
    BY <1>2
  <2>2. 0 \in 0 .. Len(rec)
    BY <1>3
  <2>. QED  BY <1>3, <1>4, <1>5, <1>6, <1>7, <2>1, <2>2 DEF Works, LoopPcs
<1>10. Passes(t)
  BY <1>4, <1>5, <1>6, <1>7, <1>8 DEF Passes
<1>11. ASSUME NEW j \in 1 .. Len(rec), Current(j), InList(j) \/ Answers(t, j)
       PROVE  Held(j)'
  <2>1. CASE InList(j)
    BY <1>6, <2>1 DEF InList, Held
  <2>2. CASE w.lwb = NULL \/ \E b \in Blocks : InBlock(b, j)
    <3>1. \A b \in Blocks : InBlock(b, j) => InBlock(b, j)'
      BY <1>6 DEF InBlock, BlockStep, StillReads
    <3>2. Answers(t, j)'
      BY <1>4, <1>6, <2>2, <3>1 DEF Answers
    <3>. QED  BY <3>2 DEF Held
  <2>. QED  BY <1>2, <1>11, <2>1, <2>2 DEF Answers
<1>12. p[t].pc \in WriterPcs
  BY <1>2 DEF WriterPcs
<1>. QED  BY <1>9, <1>10, <1>11, <1>12, WorksAck

\* Without a block the log writer waits for the groups that there are.
LEMMA WaitStartsAck ==
  ASSUME ZilInv, BookInv, ChainInv, ReplayInv, AckInv, [Next]_vars, NEW t \in Procs, WaitForWrites(t),
         NeedsSync
  PROVE  AckInv'
<1>0. MaxInv /\ CountInv /\ LoopInv
  BY DEF AckInv
<1>. DEFINE g == open + TXG_DEFER_SIZE
<1>1. /\ p[t].pc = "io" /\ p' = [p EXCEPT ![t] = [p[t] EXCEPT !.pc = "sync", !.txg = g]]
      /\ UNCHANGED <<zl, rec, crashes, acked, moot, w, home, stable>> /\ w.lwb = NULL
  BY DEF WaitForWrites, NeedsSync, gc_vars, import_vars
<1>2. g \in Nat /\ open <= g /\ open \in Nat
  BY DEF ZilInv, GroupInv, TXG_DEFER_SIZE
<1>. HIDE DEF g
<1>3. DOMAIN p = Procs /\ IsProc(p[t])
  BY DEF ZilInv, ShapeInv
<1>4. /\ p'[t].pc = "sync" /\ p'[t].txg = g /\ p'[t].seq = p[t].seq /\ p'[t].foid = p[t].foid
      /\ \A u \in Procs : u # t => p'[u] = p[u]
  BY <1>1, <1>3 DEF IsProc
<1>5. Works(t)
  <2>1. w.next \in 0 .. Len(rec) /\ w.commit_seq \in 0 .. Len(rec)
    BY <1>0 DEF CountInv
  <2>. QED  BY <1>1, <1>2, <1>4, <2>1 DEF Works, LoopPcs
<1>6. Passes(t)
  BY <1>0, <1>1, <1>4 DEF Passes, LoopInv
<1>7. ASSUME NEW i \in 1 .. Len(rec), Current(i), InList(i) \/ Answers(t, i)
      PROVE  Held(i)'
  <2>1. rec[i].txg \in Nat /\ rec[i].txg <= open
    BY <1>7 DEF ZilInv, RecInv, IsRec, Current, CurrentIn
  <2>2. rec'[i].txg <= p'[t].txg
    BY <1>1, <1>2, <1>4, <2>1
  <2>3. Answers(t, i)'
    BY <1>4, <2>2 DEF Answers
  <2>. QED  BY <2>3 DEF Held
<1>8. p[t].pc \in WriterPcs
  BY <1>1 DEF WriterPcs
<1>. QED  BY <1>5, <1>6, <1>7, <1>8, WorksAck

\* When the writes are over, no write having failed, all that is in blocks is on disk.
LEMMA WrittenOnLog ==
  ASSUME ZilInv, BookInv, ChainInv, ~LogErrors, WritesDone, w.lwb # NULL, blk[w.lwb].recs = <<>>,
         blk' = Flushed, zh_disk' = zh_disk, NEW i, Current(i), NEW b \in Blocks, InBlock(b, i)
  PROVE  OnLog(i)'
<1>1. PICK D \in Seq(Blocks), k \in Nat : IsLog(D, k)
  BY DEF ChainInv
<1>2. PICK x \in DOMAIN blk[b].recs : blk[b].recs[x].itx = i
  BY DEF InBlock
<1>3. PICK y \in DOMAIN D : b = D[y]
  BY <1>1, <1>2 DEF IsLog, Recorded, Reached
<1>4. Len(D) \in DOMAIN D /\ D[Len(D)] = w.lwb /\ OpenInv
  BY <1>1, WriterLog DEF ChainInv
<1>5. blk[b].recs # <<>>
  BY <1>2
<1>6. y # Len(D)
  BY <1>3, <1>4, <1>5
<1>7. /\ y \in Nat \ {0} /\ y < Len(D) /\ Len(D) \in Nat /\ DOMAIN D = 1 .. Len(D)
      /\ \A z \in DOMAIN D : D[z] \in Blocks
  BY <1>3, <1>6
<1>8. Written(D) /\ Linked(D) /\ zh_disk.log = First(D)
  BY <1>1 DEF IsLog, Headed
<1>9. ASSUME NEW z \in 1 .. y
      PROVE  Valid(blk', D[z]) /\ blk'[D[z]].next = D[z + 1]
  <2>1. z \in DOMAIN D /\ z < Len(D) /\ z + 1 \in DOMAIN D /\ D[z] \in Blocks /\ D[z + 1] \in Blocks
    BY <1>7
  <2>2. blk[D[z]].io = "done" /\ blk[D[z]].content \in {"cache", "disk"}
    BY <1>8, <2>1 DEF Written, Issued, IssuedIn, WritesDone
  <2>3. blk[D[z]].next = D[z + 1]
    BY <1>8, <2>1 DEF Linked
  <2>4. blk'[D[z]].content = "disk" /\ blk'[D[z]].next = D[z + 1]
    BY <2>1, <2>2, <2>3, FlushBlocks
  <2>. QED  BY <2>1, <2>4, NullFact DEF Valid
<1>. DEFINE E == [z \in 1 .. y |-> D[z]]
<1>10. /\ E \in Seq(Blocks) /\ Len(E) = y /\ DOMAIN E = 1 .. y /\ E # <<>>
       /\ \A z \in 1 .. y : E[z] = D[z]
  <2>1. E \in [1 .. y -> Blocks]
    BY <1>7
  <2>2. E \in Seq(Blocks) /\ Len(E) = y
    BY <1>7, <2>1
  <2>3. DOMAIN E = 1 .. y /\ \A z \in 1 .. y : E[z] = D[z]
    OBVIOUS
  <2>. HIDE DEF E
  <2>. QED  BY <1>7, <2>2, <2>3
<1>. HIDE DEF E
<1>11. 1 \in 1 .. y /\ y \in 1 .. y /\ 1 \in DOMAIN D /\ D # <<>>
  BY <1>7
<1>12. E[1] = zh_disk'.log
  BY <1>8, <1>10, <1>11 DEF First
<1>13. \A z \in DOMAIN E : Valid(blk', E[z]) /\ (z < Len(E) => blk'[E[z]].next = E[z + 1])
  <2>1. \A z \in 1 .. y : z < y => z + 1 \in 1 .. y
    BY <1>7
  <2>. QED  BY <1>9, <1>10, <2>1
<1>14. Readable(blk', zh_disk'.log, E)
  BY <1>10, <1>12, <1>13 DEF Readable
<1>15. E[Len(E)] = b
  BY <1>3, <1>10, <1>11
<1>16. blk'[b].recs = blk[b].recs
  BY FlushBlocks
<1>17. InBlock(E[Len(E)], i)'
  BY <1>2, <1>15, <1>16 DEF InBlock
<1>. QED  BY <1>10, <1>14, <1>17 DEF OnLog

\* The end of a commit: what it promises is safe.
LEMMA PublishAck ==
  ASSUME ZilInv, BookInv, ChainInv, ReplayInv, AckInv, [Next]_vars, NEW t \in Procs,
         p[t].pc \in {"io", "sync"}, Publish(t), UNCHANGED <<rec, crashes, moot>>,
         \A i \in 1 .. Len(rec) : Current(i) /\ Answers(t, i) =>
           Safe(i)' \/ (LogErrors /\ \E b \in Blocks : InBlock(b, i)')
  PROVE  AckInv'
<1>0. MaxInv /\ CountInv /\ LoopInv /\ HeldInv /\ (~LogErrors => PromiseInv)
  BY DEF AckInv
<1>1. /\ zl' = [zl EXCEPT !.writer = NULL, !.commit_seq = w.commit_seq] /\ w' = NoWriter
      /\ Return(t, Wake(p))
  BY DEF Publish
<1>2. /\ IsZl(zl) /\ DOMAIN p = Procs /\ (\A u \in Procs : IsProc(p[u])) /\ Len(rec) \in Nat
      /\ (\A u \in Procs : p[u].seq \in 0 .. Len(rec) /\ p[u].txg \in Nat)
      /\ w.commit_seq \in 0 .. Len(rec) /\ p[t].pc \in LoopPcs /\ DOMAIN rec = 1 .. Len(rec)
  BY <1>0 DEF ZilInv, ShapeInv, RecInv, CountInv, LoopPcs
<1>3. \A u \in Procs : u # t => p[u].pc \notin WriterPcs /\ p[u].pc \notin LoopPcs
  BY <1>2 DEF ZilInv, WriterInv, WriterPcs, LoopPcs
<1>4. zl'.itx = zl.itx /\ zl'.commit_seq = w.commit_seq /\ w'.next = 0 /\ w'.commit_seq = 0
  BY <1>1, <1>2 DEF IsZl, NoWriter
<1>5. /\ DOMAIN Wake(p) = Procs /\ (\A u \in Procs : IsProc(Wake(p)[u]))
      /\ \A u \in Procs : /\ Wake(p)[u].seq = p[u].seq /\ Wake(p)[u].foid = p[u].foid
                          /\ Wake(p)[u].txg = p[u].txg
                          /\ Wake(p)[u].pc \in LoopPcs \cup {"call"} \/ p[u].pc \in LoopPcs \cup {"call"}
                               => Wake(p)[u] = p[u]
  BY <1>2, WakeFact, WakeSeq
<1>6. /\ \A u \in Procs : u # t => p'[u] = Wake(p)[u]
      /\ p'[t].pc \in {"drain", "idle"} /\ p'[t].txg = 0 /\ p'[t].seq = 0
  <2>1. p' = [Wake(p) EXCEPT ![t] = IF t \in Suspenders THEN [Idle EXCEPT !.pc = "drain"] ELSE Idle]
    BY <1>1 DEF Return
  <2>2. /\ Idle.pc = "idle" /\ Idle.seq = 0 /\ Idle.txg = 0 /\ [Idle EXCEPT !.pc = "drain"].pc = "drain"
        /\ [Idle EXCEPT !.pc = "drain"].seq = 0 /\ [Idle EXCEPT !.pc = "drain"].txg = 0
    BY DEF Idle
  <2>. QED  BY <1>5, <2>1, <2>2
<1>7. \A u \in Procs : /\ p'[u].pc \notin LoopPcs /\ (p'[u].pc = "call" => p'[u] = p[u])
                       /\ p'[u].seq \in 0 .. Len(rec) /\ p'[u].txg \in Nat
  <2>1. ASSUME NEW u \in Procs, u # t
        PROVE  /\ p'[u].pc \notin LoopPcs /\ (p'[u].pc = "call" => p'[u] = p[u])
               /\ p'[u].seq \in 0 .. Len(rec) /\ p'[u].txg \in Nat
    BY <1>2, <1>3, <1>5, <1>6, <2>1
  <2>2. /\ p'[t].pc \notin LoopPcs /\ p'[t].pc # "call" /\ p'[t].seq \in 0 .. Len(rec) /\ p'[t].txg \in Nat
    BY <1>2, <1>6 DEF LoopPcs
  <2>. QED  BY <2>1, <2>2
<1>8. ~Crash
  <2>1. crashes \in Nat /\ crashes' = crashes
    BY DEF ZilInv, RecInv
  <2>2. Crash => crashes' = crashes + 1
    BY DEF Crash
  <2>. QED  BY <2>1, <2>2
<1>9. CountInv'
  <2>1. Counted
    BY <1>2, <1>4, <1>7 DEF Counted, Calls
  <2>. QED  BY <1>0, <2>1, CountKeeps
<1>10. LoopInv'
  BY <1>7 DEF LoopInv, LoopPcs
<1>11. \A i \in 1 .. Len(rec), u \in Procs : Answers(u, i) => u = t
  BY <1>3 DEF Answers, LoopPcs
<1>12. HeldInv'
  <2>1. \A i \in 1 .. Len(rec) : InList(i) => Held(i)'
    BY <1>4 DEF InList, Held
  <2>2. \A i \in 1 .. Len(rec), u \in Procs : Current(i) /\ Answers(u, i) => Held(i)'
    BY <1>11 DEF Held
  <2>. QED  BY <1>0, <1>8, <2>1, <2>2, HeldKeeps
<1>13. ASSUME ~LogErrors, NEW i \in 1 .. Len(rec), Current(i), ~InList(i)
       PROVE  i \in moot' \/ Safe(i)'
  <2>1. CASE Safe(i)
    BY <1>0, <1>13, <2>1, SafeNext
  <2>2. CASE \E u \in Procs : Answers(u, i)
    BY <1>11, <1>13, <2>2
  <2>. QED  BY <1>0, <1>13, <2>1, <2>2 DEF HeldInv, Held
<1>14. \A n \in DOMAIN zl.itx : zl.itx[n] > w.commit_seq /\ Spared(t, zl.itx[n]) /\ zl.itx[n] \in Nat
  BY <1>0 DEF LoopInv, ZilInv, RecInv
<1>15. ASSUME NEW i \in Promised(p[t].seq, p[t].foid)
       PROVE  i \in 1 .. Len(rec) /\ Current(i) /\ ~InList(i)
  <2>1. /\ i \in 1 .. p[t].seq /\ rec[i].boot = crashes
        /\ p[t].foid = 0 \/ rec[i].foid = p[t].foid \/ ~rec[i].ooo
    BY <1>15 DEF Promised
  <2>2. i \in 1 .. Len(rec) /\ ~(i > p[t].seq)
    BY <1>2, <2>1
  <2>3. ~Spared(t, i)
    BY <2>1, <2>2 DEF Spared, Skip
  <2>. QED  BY <1>14, <2>1, <2>2, <2>3 DEF InList, Current, CurrentIn
<1>16. ASSUME NEW i \in 1 .. w.commit_seq
       PROVE  i \in 1 .. Len(rec) /\ ~InList(i)
  BY <1>2, <1>14, <1>16 DEF InList
<1>17. ASSUME ~LogErrors
       PROVE  PromiseInv'
  <2>1. acked' = acked \cup Promised(p[t].seq, p[t].foid)
    BY <1>1, <1>5 DEF Return
  <2>2. acked' \subseteq 1 .. Len(rec')
    BY <1>0, <1>15, <1>17, <2>1 DEF PromiseInv
  <2>3. ASSUME NEW i \in acked' \ moot'
        PROVE  Safe(i)'
    <3>1. CASE i \in acked
      BY <1>0, <1>17, <2>3, <3>1, SafeNext DEF PromiseInv
    <3>2. CASE i \in Promised(p[t].seq, p[t].foid)
      BY <1>13, <1>15, <1>17, <2>3, <3>2
    <3>. QED  BY <2>1, <2>3, <3>1, <3>2
  <2>4. ASSUME NEW i \in 1 .. zl'.commit_seq, CurrentIn(rec', crashes', i)
        PROVE  i \in moot' \/ Safe(i)'
    <3>1. i \in 1 .. w.commit_seq
      BY <1>4, <2>4
    <3>2. Current(i)
      BY <2>4 DEF Current
    <3>. QED  BY <1>13, <1>16, <1>17, <3>1, <3>2
  <2>. QED  BY <2>2, <2>3, <2>4 DEF PromiseInv, Current
<1>18. MaxInv'
  BY <1>0, MaxNext
<1>. QED  BY <1>9, <1>10, <1>12, <1>17, <1>18 DEF AckInv

\* The writes are over, and that was all.
LEMMA WaitForWritesAck ==
  ASSUME ZilInv, BookInv, ChainInv, ReplayInv, AckInv, [Next]_vars, NEW t \in Procs, WaitForWrites(t)
  PROVE  AckInv'
<1>1. CASE NeedsSync
  BY <1>1, WaitStartsAck
<1>2. CASE ~NeedsSync
  <2>1. /\ p[t].pc = "io" /\ WritesDone /\ blk' = Flushed /\ Publish(t) /\ w.lwb # NULL
        /\ UNCHANGED <<rec, crashes, moot, zh_disk>>
    BY <1>2 DEF WaitForWrites, NeedsSync, import_vars
  <2>2. blk[w.lwb].recs = <<>>
    BY <2>1 DEF AckInv, LoopInv
  <2>3. ASSUME NEW i \in 1 .. Len(rec), Current(i), Answers(t, i)
        PROVE  Safe(i)' \/ (LogErrors /\ \E b \in Blocks : InBlock(b, i)')
    <3>1. PICK b \in Blocks : InBlock(b, i)
      BY <2>1, <2>3 DEF Answers
    <3>2. ~LogErrors => OnLog(i)'
      BY <2>1, <2>2, <2>3, <3>1, WrittenOnLog
    <3>3. blk'[b].recs = blk[b].recs
      BY <2>1, FlushBlocks
    <3>4. InBlock(b, i)'
      BY <3>1, <3>3 DEF InBlock
    <3>. QED  BY <3>2, <3>4, ZilAssumption DEF Safe
  <2>. QED  BY <2>1, <2>3, PublishAck
<1>. QED  BY <1>1, <1>2

\* The groups are on disk.
LEMMA WaitForSyncAck ==
  ASSUME ZilInv, BookInv, ChainInv, ReplayInv, AckInv, [Next]_vars, NEW t \in Procs, WaitForSync(t)
  PROVE  AckInv'
<1>1. /\ p[t].pc = "sync" /\ stable >= p[t].txg /\ Publish(t) /\ UNCHANGED <<rec, crashes, moot>>
  BY DEF WaitForSync, import_vars
<1>2. MaxInv /\ p[t].txg \in Nat /\ stable \in Nat
  BY DEF AckInv, CountInv, ZilInv, GroupInv
<1>3. ASSUME NEW i \in 1 .. Len(rec), Current(i), Answers(t, i)
      PROVE  Safe(i)'
  <2>1. rec[i].txg <= p[t].txg
    BY <1>1, <1>3 DEF Answers
  <2>2. rec[i].txg \in Nat
    BY DEF ZilInv, RecInv, IsRec
  <2>3. rec[i].txg <= stable
    BY <1>1, <1>2, <2>1, <2>2
  <2>. QED  BY <1>2, <1>3, <2>3, SyncedSafe, SafeNext
<1>. QED  BY <1>1, <1>3, PublishAck

----------------------------------------------------------------------------
\* The way to the loop, and every step.

\* What a commit that returns now has promised.
LEMMA PromiseGrows ==
  ASSUME ZilInv, BookInv, ChainInv, ReplayInv, MaxInv, CountInv, PromiseInv, [Next]_vars, ~Crash,
         moot' = moot, zl'.commit_seq = zl.commit_seq, rec' = rec,
         NEW seq \in 0 .. Len(rec), NEW foid, acked' = acked \cup Promised(seq, foid),
         \A i \in 1 .. seq : Current(i) => i \in moot \/ Safe(i)
  PROVE  PromiseInv'
<1>0. Len(rec) \in Nat /\ zl.commit_seq \in 0 .. Len(rec)
  BY DEF ZilInv, RecInv, CountInv
<1>1. \A i \in Promised(seq, foid) : i \in 1 .. seq /\ i \in 1 .. Len(rec) /\ Current(i)
  BY <1>0 DEF Promised, Current, CurrentIn
<1>2. acked' \subseteq 1 .. Len(rec')
  BY <1>1 DEF PromiseInv
<1>3. ASSUME NEW i \in acked' \ moot'
      PROVE  Safe(i)'
  <2>1. i \in 1 .. Len(rec) /\ Safe(i)
    BY <1>1, <1>3 DEF PromiseInv
  <2>. QED  BY <2>1, SafeNext
<1>4. ASSUME NEW i \in 1 .. zl'.commit_seq, CurrentIn(rec', crashes', i)
      PROVE  i \in moot' \/ Safe(i)'
  <2>1. i \in 1 .. Len(rec) /\ i \in 1 .. zl.commit_seq
    BY <1>0
  <2>2. Current(i)
    BY <1>4, <2>1, SameCurrentNext
  <2>. QED  BY <2>1, <2>2, SafeNext DEF PromiseInv
<1>. QED  BY <1>2, <1>3, <1>4 DEF PromiseInv, Current

\* The commit of t, the threads being q, starts when there is no log writer.
LEMMA BecomeWriterAck ==
  ASSUME ZilInv, BookInv, ChainInv, ReplayInv, AckInv, [Next]_vars, NEW t \in Procs, zl.writer = NULL,
         NEW q, DOMAIN q = Procs, \A u \in Procs : IsProc(q[u]), \A u \in Procs : u # t => q[u] = p[u],
         q[t].pc = p[t].pc, q[t].seq \in 0 .. Len(rec), q[t].txg \in Nat,
         BecomeWriter(t, q), UNCHANGED <<rec, crashes, moot>>
  PROVE  AckInv'
<1>0. MaxInv /\ CountInv /\ LoopInv /\ HeldInv /\ (~LogErrors => PromiseInv)
  BY DEF AckInv
<1>1. /\ IsZl(zl) /\ DOMAIN p = Procs /\ (\A u \in Procs : IsProc(p[u])) /\ Len(rec) \in Nat
      /\ (\A u \in Procs : p[u].seq \in 0 .. Len(rec) /\ p[u].txg \in Nat)
      /\ w.next \in 0 .. Len(rec) /\ w.commit_seq \in 0 .. Len(rec) /\ zl.commit_seq \in 0 .. Len(rec)
  BY <1>0 DEF ZilInv, ShapeInv, RecInv, CountInv
<1>2. \A u \in Procs : p[u].pc \notin LoopPcs /\ q[u].pc \notin LoopPcs
  BY NullFact DEF ZilInv, WriterInv, WriterPcs, LoopPcs
<1>3. ~Crash
  <2>1. crashes \in Nat /\ crashes' = crashes
    BY DEF ZilInv, RecInv
  <2>2. Crash => crashes' = crashes + 1
    BY DEF Crash
  <2>. QED  BY <2>1, <2>2
<1>4. \A i, u : u \in Procs => ~Answers(u, i)
  BY <1>2 DEF Answers, LoopPcs
<1>5. zl'.itx = zl.itx /\ zl'.commit_seq = zl.commit_seq
  BY <1>1 DEF BecomeWriter, IsZl
<1>6. HeldInv'
  <2>1. \A i \in 1 .. Len(rec) : InList(i) => Held(i)'
    BY <1>5 DEF InList, Held
  <2>. QED  BY <1>0, <1>3, <1>4, <2>1, HeldKeeps
<1>7. MaxInv'
  BY <1>0, MaxNext
<1>8. CASE zl.itx = <<>> /\ Return(t, Wake(q)) /\ UNCHANGED <<zl, w>>
  <2>1. /\ DOMAIN Wake(q) = Procs
        /\ \A u \in Procs : /\ Wake(q)[u].seq = q[u].seq /\ Wake(q)[u].foid = q[u].foid
                            /\ Wake(q)[u].txg = q[u].txg
                            /\ Wake(q)[u].pc \in LoopPcs \cup {"call"} \/ q[u].pc \in LoopPcs \cup {"call"}
                                 => Wake(q)[u] = q[u]
    BY WakeFact, WakeSeq
  <2>2. /\ \A u \in Procs : u # t => p'[u] = Wake(q)[u]
        /\ p'[t].pc \in {"drain", "idle"} /\ p'[t].txg = 0 /\ p'[t].seq = 0
    <3>1. p' = [Wake(q) EXCEPT ![t] = IF t \in Suspenders THEN [Idle EXCEPT !.pc = "drain"] ELSE Idle]
      BY <1>8 DEF Return
    <3>2. /\ Idle.pc = "idle" /\ Idle.seq = 0 /\ Idle.txg = 0 /\ [Idle EXCEPT !.pc = "drain"].pc = "drain"
          /\ [Idle EXCEPT !.pc = "drain"].seq = 0 /\ [Idle EXCEPT !.pc = "drain"].txg = 0
      BY DEF Idle
    <3>. QED  BY <2>1, <3>1, <3>2
  <2>3. \A u \in Procs : /\ p'[u].pc \notin LoopPcs /\ (p'[u].pc = "call" => p'[u] = p[u])
                         /\ p'[u].seq \in 0 .. Len(rec) /\ p'[u].txg \in Nat
    <3>1. ASSUME NEW u \in Procs, u # t
          PROVE  /\ p'[u].pc \notin LoopPcs /\ (p'[u].pc = "call" => p'[u] = p[u])
                 /\ p'[u].seq \in 0 .. Len(rec) /\ p'[u].txg \in Nat
      BY <1>1, <1>2, <2>1, <2>2, <3>1
    <3>2. /\ p'[t].pc \notin LoopPcs /\ p'[t].pc # "call" /\ p'[t].seq \in 0 .. Len(rec) /\ p'[t].txg \in Nat
      BY <1>1, <2>2 DEF LoopPcs
    <3>. QED  BY <3>1, <3>2
  <2>4. CountInv'
    <3>1. Counted
      BY <1>1, <1>8, <2>3 DEF Counted, Calls
    <3>. QED  BY <1>0, <3>1, CountKeeps
  <2>5. LoopInv'
    BY <2>3 DEF LoopInv, LoopPcs
  <2>6. ASSUME ~LogErrors
        PROVE  PromiseInv'
    <3>1. PICK s, f : s = q[t].seq /\ f = q[t].foid
      OBVIOUS
    <3>2. acked' = acked \cup Promised(s, f)
      BY <1>8, <2>1, <3>1 DEF Return
    <3>3. \A i : ~InList(i)
      BY <1>8 DEF InList
    <3>4. s \in 0 .. Len(rec) /\ \A i \in 1 .. s : Current(i) => i \in moot \/ Safe(i)
      BY <1>0, <1>1, <1>4, <2>6, <3>1, <3>3 DEF HeldInv, Held
    <3>. QED  BY <1>0, <1>3, <1>5, <2>6, <3>2, <3>4, PromiseGrows
  <2>. QED  BY <1>6, <1>7, <2>4, <2>5, <2>6 DEF AckInv
<1>9. ASSUME acked' = acked
      PROVE  ~LogErrors => PromiseInv'
  BY <1>0, <1>3, <1>5, <1>9, PromiseKeeps
<1>. DEFINE a == After(0)
            l == IF LogClosed THEN NULL ELSE Last(zl.lwb)
<1>10. CASE w' = [NoWriter EXCEPT !.lwb = l, !.next = a] /\ p' = [q EXCEPT ![t].pc = "push"] /\ acked' = acked
  <2>1. /\ p'[t].pc = "push" /\ p'[t].seq = q[t].seq /\ p'[t].txg = q[t].txg
        /\ \A u \in Procs : u # t => p'[u] = p[u]
    <3>1. IsProc(q[t]) /\ p' = [q EXCEPT ![t] = [q[t] EXCEPT !.pc = "push"]]
      BY <1>10
    <3>. QED  BY <3>1 DEF IsProc
  <2>. HIDE DEF l
  <2>2. a \in 0 .. Len(rec) /\ \A n \in DOMAIN zl.itx : a # 0 /\ ~(zl.itx[n] < a)
    BY <1>0, HeadFact
  <2>. HIDE DEF a
  <2>3. w'.next = a /\ w'.commit_seq = 0
    BY <1>10 DEF NoWriter
  <2>4. CountInv'
    <3>1. \A u \in Procs : p'[u].seq \in 0 .. Len(rec) /\ p'[u].txg \in Nat
      BY <1>1, <2>1
    <3>2. Calls
      BY <2>1 DEF Calls
    <3>3. 0 \in 0 .. Len(rec)
      BY <1>1
    <3>4. Counted
      BY <1>1, <1>5, <2>2, <2>3, <3>1, <3>2, <3>3 DEF Counted
    <3>. QED  BY <1>0, <3>4, CountKeeps
  <2>5. LoopInv'
    <3>1. \A u \in Procs : u # t => p'[u].pc \notin LoopPcs
      BY <1>2, <2>1
    <3>2. \A n \in DOMAIN zl'.itx : \A j : j = zl'.itx[n] => w'.next # 0 /\ ~(j < w'.next)
      BY <1>5, <2>2, <2>3
    <3>3. \A n \in DOMAIN zl'.itx : \A j : j = zl'.itx[n] =>
            /\ p'[t].pc \in {"push", "log", "recWait"} =>
                 IF w'.next = 0 THEN Spared(t, j)' ELSE j < w'.next => Skip(t, j)'
            /\ p'[t].pc \in {"io", "sync"} => j > w'.commit_seq /\ Spared(t, j)'
      BY <2>1, <3>2
    <3>. QED  BY <2>1, <3>1, <3>3, LoopOf
  <2>. QED  BY <1>6, <1>7, <1>9, <1>10, <2>4, <2>5 DEF AckInv
<1>11. CASE p' = [q EXCEPT ![t].pc = "create"] /\ UNCHANGED w /\ acked' = acked
  <2>1. /\ p'[t].pc = "create" /\ p'[t].seq = q[t].seq /\ p'[t].txg = q[t].txg
        /\ \A u \in Procs : u # t => p'[u] = p[u]
    <3>1. IsProc(q[t]) /\ p' = [q EXCEPT ![t] = [q[t] EXCEPT !.pc = "create"]]
      BY <1>11
    <3>. QED  BY <3>1 DEF IsProc
  <2>2. CountInv'
    <3>1. Counted
      BY <1>1, <1>5, <1>11, <2>1 DEF Counted, Calls
    <3>. QED  BY <1>0, <3>1, CountKeeps
  <2>3. \A u \in Procs : p'[u].pc \notin LoopPcs
    BY <1>2, <2>1 DEF LoopPcs
  <2>4. LoopInv'
    BY <2>3 DEF LoopInv, LoopPcs
  <2>. QED  BY <1>6, <1>7, <1>9, <1>11, <2>2, <2>4 DEF AckInv
<1>. QED  BY <1>8, <1>10, <1>11 DEF BecomeWriter

\* A commit that waits for its turn, or that finds its work done.
LEMMA EnterAck ==
  ASSUME ZilInv, BookInv, ChainInv, ReplayInv, AckInv, [Next]_vars, NEW t \in Procs, EnterStep(t)
  PROVE  AckInv' \/ (Quiet /\ Calls)
<1>0. MaxInv /\ CountInv /\ LoopInv /\ HeldInv /\ (~LogErrors => PromiseInv)
  BY DEF AckInv
<1>1. /\ DOMAIN p = Procs /\ (\A u \in Procs : IsProc(p[u])) /\ Len(rec) \in Nat
      /\ (\A u \in Procs : p[u].seq \in 0 .. Len(rec) /\ p[u].txg \in Nat)
      /\ w.next \in 0 .. Len(rec) /\ w.commit_seq \in 0 .. Len(rec) /\ zl.commit_seq \in 0 .. Len(rec)
  BY <1>0 DEF ZilInv, ShapeInv, RecInv, CountInv
<1>2. ASSUME NEW q, DOMAIN q = Procs, \A u \in Procs : IsProc(q[u]),
             \A u \in Procs : u # t => q[u] = p[u],
             q[t].pc = p[t].pc, p[t].pc \notin LoopPcs, q[t].seq \in 0 .. Len(rec), q[t].txg \in Nat,
             p' = [q EXCEPT ![t].pc = "cvWait"], UNCHANGED <<zl, w, acked, rec, crashes, moot>>
      PROVE  Quiet /\ Calls
  <2>1. IsProc(q[t]) /\ p' = [q EXCEPT ![t] = [q[t] EXCEPT !.pc = "cvWait"]]
    BY <1>2
  <2>2. /\ p'[t].pc = "cvWait" /\ p'[t].seq = q[t].seq /\ p'[t].txg = q[t].txg
        /\ \A u \in Procs : u # t => p'[u] = p[u]
    BY <1>2, <2>1 DEF IsProc
  <2>3. p'[t].pc \notin LoopPcs /\ p'[t].pc # "call"
    BY <2>2 DEF LoopPcs
  <2>. QED  BY <1>0, <1>2, <2>2, <2>3, QuietMove
<1>3. ASSUME NEW f, NEW seq, zil_commit(t, f, seq)
      PROVE  AckInv' \/ (Quiet /\ Calls)
  <2>. DEFINE q == [p EXCEPT ![t] = [p[t] EXCEPT !.seq = seq, !.foid = f]]
  <2>1. /\ p[t].pc \in {"idle", "suspCommit"} /\ seq \in {LastItx(f), LastItx(0)}
        /\ UNCHANGED <<rec, crashes, moot>>
        /\ IF zl.writer # NULL
           THEN p' = [q EXCEPT ![t].pc = "cvWait"] /\ UNCHANGED <<zl, w, acked>>
           ELSE BecomeWriter(t, q)
    <3>1. q = [p EXCEPT ![t].seq = seq, ![t].foid = f]
      BY <1>1
    <3>. QED  BY <1>3, <3>1 DEF zil_commit, import_vars
  <2>2. seq \in 0 .. Len(rec)
    BY <2>1, LastItxFact
  <2>3. /\ DOMAIN q = Procs /\ (\A u \in Procs : IsProc(q[u])) /\ (\A u \in Procs : u # t => q[u] = p[u])
        /\ q[t].pc = p[t].pc /\ q[t].seq = seq /\ q[t].txg = p[t].txg
    BY <1>1 DEF IsProc
  <2>. HIDE DEF q
  <2>4. p[t].pc \notin LoopPcs
    BY <2>1 DEF LoopPcs
  <2>5. CASE zl.writer # NULL
    BY <1>1, <1>2, <2>1, <2>2, <2>3, <2>4, <2>5
  <2>6. CASE zl.writer = NULL
    BY <1>1, <2>1, <2>2, <2>3, <2>6, BecomeWriterAck
  <2>. QED  BY <2>5, <2>6
<1>4. ASSUME zil_commit_wakeup(t)
      PROVE  AckInv' \/ (Quiet /\ Calls)
  <2>1. p[t].pc = "cvWoken" /\ UNCHANGED <<rec, crashes, moot>>
    BY <1>4 DEF zil_commit_wakeup, import_vars
  <2>2. p[t].pc \notin LoopPcs
    BY <2>1 DEF LoopPcs
  <2>3. CASE p[t].seq <= zl.commit_seq /\ Return(t, p) /\ UNCHANGED <<zl, w>>
    <3>1. /\ \A u \in Procs : u # t => p'[u] = p[u]
          /\ p'[t].pc \in {"drain", "idle"} /\ p'[t].txg = 0 /\ p'[t].seq = 0
      <4>1. p' = [p EXCEPT ![t] = IF t \in Suspenders THEN [Idle EXCEPT !.pc = "drain"] ELSE Idle]
        BY <2>3 DEF Return
      <4>2. /\ Idle.pc = "idle" /\ Idle.seq = 0 /\ Idle.txg = 0 /\ [Idle EXCEPT !.pc = "drain"].pc = "drain"
            /\ [Idle EXCEPT !.pc = "drain"].seq = 0 /\ [Idle EXCEPT !.pc = "drain"].txg = 0
        BY DEF Idle
      <4>. QED  BY <1>1, <4>1, <4>2
    <3>2. /\ p'[t].pc \notin LoopPcs /\ p'[t].pc # "call" /\ p'[t].seq \in 0 .. Len(rec) /\ p'[t].txg \in Nat
      BY <1>1, <3>1 DEF LoopPcs
    <3>3. \A u \in Procs : /\ p[u].pc \in LoopPcs \/ p'[u].pc \in LoopPcs => p'[u] = p[u]
                           /\ p'[u].seq \in 0 .. Len(rec) /\ p'[u].txg \in Nat
                           /\ p'[u].pc = "call" => p'[u] = p[u]
      BY <1>1, <2>2, <3>1, <3>2
    <3>4. Apart
      BY <2>1, <2>3, <3>3 DEF Apart
    <3>5. LoopInv' /\ HeldInv'
      BY <3>4, ApartAck
    <3>6. CountInv'
      <4>1. Counted
        BY <1>1, <2>1, <2>3, <3>3 DEF Counted, Calls
      <4>. QED  BY <1>0, <4>1, CountKeeps
    <3>7. MaxInv'
      BY <1>0, MaxNext
    <3>8. ~Crash
      <4>1. crashes \in Nat /\ crashes' = crashes
        BY <2>1 DEF ZilInv, RecInv
      <4>2. Crash => crashes' = crashes + 1
        BY DEF Crash
      <4>. QED  BY <4>1, <4>2
    <3>9. ASSUME ~LogErrors
          PROVE  PromiseInv'
      <4>1. PICK s, f : s = p[t].seq /\ f = p[t].foid
        OBVIOUS
      <4>2. acked' = acked \cup Promised(s, f)
        BY <2>3, <4>1 DEF Return
      <4>3. s \in 0 .. Len(rec) /\ \A i \in 1 .. s : i \in 1 .. zl.commit_seq
        BY <1>1, <2>3, <4>1
      <4>4. \A i \in 1 .. s : Current(i) => i \in moot \/ Safe(i)
        BY <1>0, <3>9, <4>3 DEF PromiseInv
      <4>. QED  BY <1>0, <2>1, <2>3, <3>8, <3>9, <4>2, <4>3, <4>4, PromiseGrows
    <3>. QED  BY <3>5, <3>6, <3>7, <3>9 DEF AckInv
  <2>4. CASE p' = [p EXCEPT ![t].pc = "cvWait"] /\ UNCHANGED <<zl, w, acked>>
    BY <1>1, <1>2, <2>1, <2>2, <2>4
  <2>5. CASE zl.writer = NULL /\ BecomeWriter(t, p)
    BY <1>1, <2>1, <2>5, BecomeWriterAck
  <2>. QED  BY <1>4, <2>3, <2>4, <2>5 DEF zil_commit_wakeup
<1>. QED  BY <1>3, <1>4 DEF EnterStep

\* Every step.
LEMMA AckNext ==
  ASSUME ZilInv, BookInv, ChainInv, ReplayInv, AckInv, [Next]_vars
  PROVE  AckInv'
<1>0. MaxInv /\ CountInv
  BY DEF AckInv
<1>1. MaxInv'
  BY <1>0, MaxNext
<1>2. ASSUME Quiet, Calls
      PROVE  AckInv'
  <2>1. Counted
    BY <1>0, <1>2 DEF Counted, Quiet, Apart, CountInv
  <2>. QED  BY <1>0, <1>1, <1>2, <2>1, CountKeeps, QuietAck DEF AckInv
<1>3. ASSUME Quiet, NEW t \in Threads, NEW k \in Kinds, CallBegin(t, k)
      PROVE  AckInv'
  BY <1>0, <1>1, <1>3, CallBeginCount, QuietAck DEF AckInv
<1>4. ASSUME NEW t \in Threads, zil_itx_assign(t)
      PROVE  AckInv'
  BY <1>0, <1>1, <1>4, zil_itx_assignCount, zil_itx_assignAck DEF AckInv
<1>5. CASE zil_itx_clean
  BY <1>1, <1>5, zil_itx_cleanAck DEF AckInv
<1>6. CASE Crash
  BY <1>0, <1>1, <1>6, CrashCount, CrashAck DEF AckInv
<1>7. ASSUME NEW t \in Procs, LoopStep(t)
      PROVE  AckInv'
  BY <1>7, zil_createdAck, TakeItxAck, zil_lwb_commitAck, RecordSyncedAck, WriteLastAck,
     WaitForWritesAck, WaitForSyncAck DEF LoopStep
<1>8. ASSUME NEW t \in Procs, EnterStep(t)
      PROVE  AckInv'
  BY <1>2, <1>8, EnterAck
<1>. QED  BY <1>0, <1>2, <1>3, <1>4, <1>5, <1>6, <1>7, <1>8, QuietNext

\* At the start there is no record and nothing is promised.
LEMMA AckInit == Init => AckInv
<1>. SUFFICES ASSUME Init
              PROVE  AckInv
  OBVIOUS
<1>1. /\ zl = NoLog /\ w = NoWriter /\ rec = <<>> /\ acked = {} /\ moot = {}
      /\ blk = [b \in Blocks |-> NoBlk] /\ p = [t \in Procs |-> Idle]
  BY DEF Init
<1>2. /\ \A t \in Procs : p[t].pc = "idle" /\ p[t].seq = 0 /\ p[t].txg = 0
      /\ w.next = 0 /\ w.commit_seq = 0 /\ zl.commit_seq = 0 /\ zl.itx = <<>> /\ Len(rec) = 0
      /\ \A b \in Blocks : blk[b].recs = <<>>
  BY <1>1 DEF NoLog, NoWriter, NoBlk, Idle
<1>3. MaxInv
  BY <1>2 DEF MaxInv
<1>4. CountInv
  <2>. DEFINE S == {u \in Threads : p[u].pc = "call"}
  <2>1. S = {}
    BY <1>2 DEF Procs
  <2>. HIDE DEF S
  <2>2. Cardinality(S) = 0
    BY <2>1, FS_EmptySet
  <2>3. Recs = 0 /\ MaxRec \in Nat
    BY <1>2, <2>2, ZilAssumption DEF Recs, S
  <2>. QED  BY <1>2, <2>3 DEF CountInv
<1>5. LoopInv
  BY <1>2 DEF LoopInv
<1>6. HeldInv
  BY <1>2 DEF HeldInv
<1>7. PromiseInv
  BY <1>1, <1>2 DEF PromiseInv
<1>. QED  BY <1>3, <1>4, <1>5, <1>6, <1>7 DEF AckInv

\* What a commit relies on holds in every state: a record is in the list, on disk or
\* in the log on disk, or the log writer answers for it; and whatever was promised is on disk
\* or in the log on disk.
THEOREM ZilAck == Spec => []AckInv
<1>1. ZilInv /\ BookInv /\ ChainInv /\ ReplayInv /\ AckInv /\ [Next]_vars => AckInv'
  BY AckNext
<1>. QED  BY <1>1, AckInit, ZilInvariant, ZilBook, ZilChain, ZilReplay, PTL DEF Spec

\* Unless a log write fails, what zil_commit() has promised outlives any number of
\* crashes: zil_commit_writer() leaves nothing in the list that its caller asked for,
\* waits for the writes and flushes them, or waits for a group; zil_sync() frees a
\* block only with the group that has its records; and a replay that is cut short goes
\* on where it was.
THEOREM ZilAckedSurvive ==
  ASSUME ~LogErrors
  PROVE  Spec => []AckedSurvive
<1>1. ZilInv /\ BookInv /\ ChainInv /\ ReplayInv /\ AckInv => AckedSurvive
  <2>. SUFFICES ASSUME ZilInv, BookInv, ChainInv, ReplayInv, AckInv, mode = "up", NEW i \in acked \ moot
                PROVE  home[i] # 0
    BY DEF AckedSurvive
  <2>1. i \in 1 .. Len(rec) /\ Safe(i)
    BY DEF AckInv, PromiseInv
  <2>2. CASE home[i] \in 1 .. stable
    BY <2>2
  <2>3. CASE OnLog(i)
    <3>1. PICK E \in Seq(Blocks) : Readable(blk, zh_disk.log, E) /\ InBlock(E[Len(E)], i)
      BY <2>3 DEF OnLog
    <3>2. Opened
      BY DEF Opened, Importing
    <3>3. Current(i)
      BY <3>1, <3>2, ReadEntry
    <3>. QED  BY <2>1, <3>3 DEF ReplayInv, HomeInv, Current, CurrentIn
  <2>. QED  BY <2>1, <2>2, <2>3 DEF Safe
<1>. QED  BY <1>1, ZilInvariant, ZilBook, ZilChain, ZilReplay, ZilAck, PTL

----------------------------------------------------------------------------
\* The records that others rely on.

\* The record in hand concerns the commit, and those before it in the list do not.
PastInv ==
  \A t \in Procs : p[t].pc = "log" =>
    ~Skip(t, w.itx) /\ \A n \in DOMAIN zl.itx : zl.itx[n] < w.itx => Skip(t, zl.itx[n])

\* Record i is in a block, before sequence number s.
Before(i, s) ==
  \E b \in Blocks : \E x \in DOMAIN blk[b].recs : blk[b].recs[x].itx = i /\ blk[b].recs[x].seq < s

\* What a record in a block relies on comes before it in the log, or is safe without.
RelyInv ==
  \A b \in Blocks : \A x \in DOMAIN blk[b].recs : Current(blk[b].recs[x].itx) =>
    \A i \in 1 .. Len(rec) : ReliesOn(blk[b].recs[x].itx, i) =>
      i \in moot \/ Safe(i) \/ Before(i, blk[b].recs[x].seq)

\* A crash keeps record j.
Kept(j) == home[j] # 0 \/ OnLog(j)

\* What a record that outlived a crash relies on is safe.
PastCrashInv ==
  \A i, j \in 1 .. Len(rec) : ~Current(j) /\ Kept(j) /\ ReliesOn(j, i) => i \in moot \/ Safe(i)

\* The inductive invariant of what records rely on.
CloseInv == PastInv /\ RelyInv /\ PastCrashInv

----------------------------------------------------------------------------
\* What the log on disk holds, once more.

\* What can be read is what comes before the end of the log.
LEMMA ReadsAlong ==
  ASSUME NEW f, NEW D \in Seq(Blocks), NEW m, EndsAt(f, D, m), NEW E, Readable(f, D[1], E)
  PROVE  \A y \in DOMAIN E : y \in 1 .. m - 1 /\ E[y] = D[y]
<1>1. /\ E \in Seq(Blocks) /\ E # <<>> /\ E[1] = D[1] /\ Len(E) \in Nat
      /\ DOMAIN E = 1 .. Len(E) /\ m \in Nat /\ 1 <= m /\ DOMAIN D = 1 .. Len(D) /\ Len(D) \in Nat
      /\ \A y \in DOMAIN E : Valid(f, E[y]) /\ (y < Len(E) => f[E[y]].next = E[y + 1])
  BY DEF Readable, EndsAt
<1>2. ~Valid(f, D[m]) /\ \A i \in 1 .. m - 1 : f[D[i]].next = D[i + 1]
  BY DEF EndsAt
<1>. DEFINE S == {y \in DOMAIN E : ~(y \in 1 .. m - 1 /\ E[y] = D[y])}
<1>. SUFFICES ASSUME S # {}
              PROVE  FALSE
  OBVIOUS
<1>3. S \in SUBSET Nat
  BY <1>1
<1>4. PICK n \in S : \A l \in S : ~(<<l, n>> \in OpToRel(<, Nat))
  BY <1>3, WFMin, NatLessThanWellFounded
<1>5. n \in Nat /\ n \in DOMAIN E /\ \A l \in S : ~(l < n)
  BY <1>3, <1>4 DEF OpToRel
<1>6. E[n] = D[n] /\ n <= m
  <2>1. CASE n = 1
    BY <1>1, <2>1
  <2>2. CASE n # 1
    <3>1. n - 1 \in DOMAIN E /\ n - 1 < n /\ n - 1 < Len(E) /\ n - 1 + 1 = n
      BY <1>1, <1>5, <2>2
    <3>2. n - 1 \in 1 .. m - 1 /\ E[n - 1] = D[n - 1]
      BY <1>5, <3>1
    <3>3. E[n] = f[E[n - 1]].next /\ D[n] = f[D[n - 1]].next
      BY <1>1, <1>2, <3>1, <3>2
    <3>. QED  BY <1>1, <3>1, <3>2, <3>3
  <2>. QED  BY <2>1, <2>2
<1>7. n # m
  BY <1>1, <1>2, <1>5, <1>6
<1>8. n \in 1 .. m - 1
  BY <1>1, <1>5, <1>6, <1>7
<1>. QED  BY <1>4, <1>6, <1>8

\* And every block before the end can be read.
LEMMA ReadsUpTo ==
  ASSUME NEW f, NEW D \in Seq(Blocks), NEW m, EndsAt(f, D, m), NEW l \in 1 .. m - 1
  PROVE  \E E \in Seq(Blocks) : Readable(f, D[1], E) /\ E[Len(E)] = D[l]
<1>1. /\ m \in Nat /\ m <= Len(D) /\ Len(D) \in Nat /\ DOMAIN D = 1 .. Len(D)
      /\ \A i \in 1 .. m - 1 : Valid(f, D[i]) /\ f[D[i]].next = D[i + 1]
  BY DEF EndsAt
<1>. DEFINE E == [y \in 1 .. l |-> D[y]]
<1>2. E \in Seq(Blocks) /\ Len(E) = l /\ DOMAIN E = 1 .. l /\ \A y \in 1 .. l : E[y] = D[y]
  BY <1>1
<1>. HIDE DEF E
<1>3. 1 \in 1 .. l /\ l \in 1 .. l /\ l \in Nat /\ l < m
  BY <1>1
<1>4. E # <<>> /\ E[1] = D[1] /\ E[Len(E)] = D[l]
  BY <1>2, <1>3
<1>5. \A y \in DOMAIN E : Valid(f, E[y]) /\ (y < Len(E) => f[E[y]].next = E[y + 1])
  <2>. SUFFICES ASSUME NEW y \in 1 .. l
                PROVE  Valid(f, E[y]) /\ (y < l => f[E[y]].next = E[y + 1])
    BY <1>2
  <2>1. y \in 1 .. m - 1 /\ (y < l => y + 1 \in 1 .. l)
    BY <1>1, <1>3
  <2>. QED  BY <1>1, <1>2, <2>1
<1>. QED  BY <1>2, <1>4, <1>5 DEF Readable

\* A record in the log can be read.
LEMMA EntryOnLog ==
  ASSUME ZilInv, BookInv, ChainInv, NEW n \in DOMAIN DiskLog, NEW i, i = DiskLog[n].itx
  PROVE  OnLog(i)
<1>1. PICK D \in Seq(Blocks), k \in Nat : IsLog(D, k)
  BY DEF ChainInv
<1>2. PICK L : L = DiskLog
  OBVIOUS
<1>3. D # <<>>
  <2>1. D = <<>> => L = <<>>
    BY <1>1, <1>2, DiskLogIs
  <2>. QED  BY <1>2, <2>1
<1>4. PICK m \in DOMAIN D : EndsAt(blk, D, m) /\ LogHolds(blk, D, m, L) /\ zh_disk.log = D[1]
  BY <1>1, <1>2, <1>3, DiskLogIs
<1>5. PICK y \in 1 .. m - 1 : \E x \in DOMAIN blk[D[y]].recs : L[n] = blk[D[y]].recs[x]
  BY <1>2, <1>4 DEF LogHolds
<1>6. PICK E \in Seq(Blocks) : Readable(blk, D[1], E) /\ E[Len(E)] = D[y]
  BY <1>4, <1>5, ReadsUpTo
<1>. QED  BY <1>2, <1>4, <1>5, <1>6 DEF OnLog, InBlock

\* If the blocks on disk are the same, so is what can be read.
LEMMA OnLogBack ==
  ASSUME zh_disk'.log = zh_disk.log, \A b \in Blocks : SameBlock(b), NEW i, OnLog(i)'
  PROVE  OnLog(i)
<1>1. PICK E \in Seq(Blocks) : Readable(blk', zh_disk'.log, E) /\ InBlock(E[Len(E)], i)'
  BY DEF OnLog
<1>2. Len(E) \in DOMAIN E /\ \A y \in DOMAIN E : E[y] \in Blocks
  BY <1>1 DEF Readable
<1>3. \A y \in DOMAIN E : /\ blk'[E[y]].next = blk[E[y]].next /\ blk'[E[y]].recs = blk[E[y]].recs
                          /\ blk'[E[y]].content = "disk" <=> blk[E[y]].content = "disk"
  BY <1>2 DEF SameBlock
<1>4. Readable(blk, zh_disk.log, E)
  BY <1>1, <1>3 DEF Readable, Valid
<1>5. InBlock(E[Len(E)], i)
  BY <1>1, <1>2, <1>3 DEF InBlock
<1>. QED  BY <1>4, <1>5 DEF OnLog

----------------------------------------------------------------------------
\* What the threads are at.

\* A thread that logs a record has been at it before.
LogStays == \A u \in Procs : p'[u].pc = "log" => p'[u] = p[u] /\ w' = w

\* In a step of zil_commit() nobody starts a call, and only TakeItx() begins to log.
LEMMA CommitStays ==
  ASSUME ZilInv, NEW t \in Procs, LoopStep(t) \/ EnterStep(t)
  PROVE  Calls /\ (LogStays \/ TakeItx(t)) /\ UNCHANGED rec /\ moot \subseteq moot'
<1>0. UNCHANGED rec /\ moot \subseteq moot'
  BY DEF LoopStep, EnterStep, zil_commit_wakeup, zil_commit, zil_created, TakeItx, zil_lwb_commit,
         LogRecord, RecordSynced, WriteLast, WaitForWrites, WaitForSync, fs_vars
<1>1. DOMAIN p = Procs /\ \A u \in Procs : IsProc(p[u])
  BY DEF ZilInv, ShapeInv
<1>2. ASSUME \A u \in Procs : u # t => Woken(p[u], p'[u]), p'[t].pc \notin {"call", "log"},
             w' = w \/ \A u \in Procs : u # t => p[u].pc # "log"
      PROVE  Calls /\ LogStays
  BY <1>2 DEF Calls, LogStays, Woken
<1>3. ASSUME NEW q, DOMAIN q = Procs, \A u \in Procs : IsProc(q[u]),
             \A u \in Procs : u # t => q[u] = p[u], zl.writer = NULL, BecomeWriter(t, q)
      PROVE  Calls /\ LogStays
  <2>1. \A u \in Procs : p[u].pc # "log"
    BY <1>3, NullFact DEF ZilInv, WriterInv, WriterPcs
  <2>2. CASE Return(t, Wake(q))
    <3>1. /\ \A u \in Procs : u # t => p'[u] = Wake(q)[u]
          /\ p'[t].pc = (IF t \in Suspenders THEN "drain" ELSE "idle")
      BY <1>3, <2>2, WakeFact, ReturnFact
    <3>2. \A u \in Procs : u # t => Woken(p[u], p'[u])
      BY <1>3, <3>1, WakeFact
    <3>. QED  BY <1>2, <2>1, <3>1, <3>2
  <2>3. CASE ~Return(t, Wake(q))
    <3>1. p' = [q EXCEPT ![t].pc = "push"] \/ p' = [q EXCEPT ![t].pc = "create"]
      BY <1>3, <2>3 DEF BecomeWriter
    <3>2. \A u \in Procs : u # t => Woken(p[u], p'[u])
      BY <1>3, <3>1 DEF Woken
    <3>3. p'[t].pc \notin {"call", "log"}
      BY <1>3, <3>1 DEF IsProc
    <3>. QED  BY <1>2, <2>1, <3>2, <3>3
  <2>. QED  BY <2>2, <2>3
<1>4. ASSUME NEW q, DOMAIN q = Procs, \A u \in Procs : IsProc(q[u]),
             \A u \in Procs : u # t => q[u] = p[u],
             p' = [q EXCEPT ![t].pc = "cvWait"], w' = w
      PROVE  Calls /\ LogStays
  <2>1. \A u \in Procs : u # t => Woken(p[u], p'[u])
    BY <1>4 DEF Woken
  <2>2. p'[t].pc \notin {"call", "log"}
    BY <1>4 DEF IsProc
  <2>. QED  BY <1>2, <1>4, <2>1, <2>2
<1>5. ASSUME NEW f, NEW seq, zil_commit(t, f, seq)
      PROVE  Calls /\ LogStays
  <2>. DEFINE q == [p EXCEPT ![t].seq = seq, ![t].foid = f]
  <2>1. \/ zl.writer # NULL /\ p' = [q EXCEPT ![t].pc = "cvWait"] /\ UNCHANGED <<zl, w>>
        \/ zl.writer = NULL /\ BecomeWriter(t, q)
    BY <1>5 DEF zil_commit
  <2>2. DOMAIN q = Procs /\ (\A u \in Procs : IsProc(q[u])) /\ \A u \in Procs : u # t => q[u] = p[u]
    BY <1>1 DEF IsProc
  <2>. HIDE DEF q
  <2>. QED  BY <1>3, <1>4, <2>1, <2>2
<1>6. CASE zil_commit_wakeup(t)
  <2>1. \/ Return(t, p) /\ UNCHANGED <<zl, w>>
        \/ p' = [p EXCEPT ![t].pc = "cvWait"] /\ UNCHANGED <<zl, w>>
        \/ zl.writer = NULL /\ BecomeWriter(t, p)
    BY <1>6 DEF zil_commit_wakeup
  <2>2. ASSUME Return(t, p), UNCHANGED <<zl, w>>
        PROVE  Calls /\ LogStays
    <3>1. /\ \A u \in Procs : u # t => p'[u] = p[u]
          /\ p'[t].pc = (IF t \in Suspenders THEN "drain" ELSE "idle")
      BY <1>1, <2>2, ReturnFact
    <3>. QED  BY <1>2, <2>2, <3>1 DEF Woken
  <2>. QED  BY <1>0, <1>1, <1>3, <1>4, <2>1, <2>2
<1>7. ASSUME p[t].pc \in WriterPcs
      PROVE  \A u \in Procs : u # t => p[u].pc # "log"
  BY <1>7 DEF ZilInv, WriterInv, WriterPcs
<1>8. ASSUME p[t].pc \in WriterPcs, NEW x, x \notin {"call", "log"}, NEW g,
             p' = [p EXCEPT ![t].pc = x] \/ p' = [p EXCEPT ![t].pc = x, ![t].txg = g]
      PROVE  Calls /\ LogStays
  <2>1. p'[t].pc = x /\ \A u \in Procs : u # t => Woken(p[u], p'[u])
    BY <1>1, <1>8 DEF IsProc, Woken
  <2>. QED  BY <1>2, <1>7, <1>8, <2>1
<1>9. CASE zil_created(t) \/ RecordSynced(t)
  BY <1>0, <1>8, <1>9 DEF zil_created, RecordSynced, WriterPcs
<1>10. CASE zil_lwb_commit(t)
  <2>1. p[t].pc \in WriterPcs
    BY <1>10 DEF zil_lwb_commit, WriterPcs
  <2>2. \/ p' = [p EXCEPT ![t].pc = "recWait", ![t].txg = rec[w.itx].txg]
        \/ p' = [p EXCEPT ![t].pc = "push"]
    BY <1>10 DEF zil_lwb_commit, LogRecord
  <2>. QED  BY <1>0, <1>8, <2>1, <2>2
<1>11. CASE WriteLast(t)
  BY <1>0, <1>8, <1>11 DEF WriteLast, WriterPcs
<1>12. ASSUME p[t].pc \in WriterPcs, Publish(t)
       PROVE  Calls /\ LogStays
  <2>2. /\ \A u \in Procs : u # t => p'[u] = Wake(p)[u]
        /\ p'[t].pc = (IF t \in Suspenders THEN "drain" ELSE "idle")
    BY <1>1, <1>12, WakeFact, ReturnFact DEF Publish
  <2>3. \A u \in Procs : u # t => Woken(p[u], p'[u])
    BY <1>1, <2>2, WakeFact
  <2>. QED  BY <1>2, <1>7, <1>12, <2>2, <2>3
<1>13. CASE WaitForWrites(t)
  <2>1. /\ p[t].pc \in WriterPcs
        /\ \/ Publish(t)
           \/ p' = [p EXCEPT ![t].pc = "sync", ![t].txg = open + TXG_DEFER_SIZE]
    BY <1>13 DEF WaitForWrites, WriterPcs
  <2>. QED  BY <1>0, <1>8, <1>12, <2>1
<1>14. CASE WaitForSync(t)
  BY <1>0, <1>12, <1>14 DEF WaitForSync, WriterPcs
<1>15. CASE TakeItx(t)
  <2>1. p[t].pc = "push" /\ (p' = [p EXCEPT ![t].pc = "log"] \/ UNCHANGED p)
    BY <1>15 DEF TakeItx
  <2>2. p'[t].pc # "call" /\ \A u \in Procs : u # t => p'[u] = p[u]
    BY <1>1, <2>1 DEF IsProc
  <2>. QED  BY <1>0, <1>15, <2>2 DEF Calls
<1>. QED
  BY <1>0, <1>5, <1>6, <1>9, <1>10, <1>11, <1>13, <1>14, <1>15 DEF LoopStep, EnterStep

\* Every step.
LEMMA StaysNext ==
  ASSUME ZilInv, CountInv, [Next]_vars
  PROVE  /\ Calls \/ \E t \in Threads, k \in Kinds : CallBegin(t, k)
         /\ LogStays \/ \E t \in Procs : TakeItx(t)
         /\ moot \subseteq moot'
<1>1. DOMAIN p = Procs /\ \A u \in Procs : IsProc(p[u])
  BY DEF ZilInv, ShapeInv
<1>2. CASE Quiet /\ (Calls \/ \E t \in Threads, k \in Kinds : CallBegin(t, k))
  BY <1>2 DEF Quiet, Apart, LogStays, LoopPcs
<1>3. ASSUME NEW t \in Threads, zil_itx_assign(t)
      PROVE  Calls /\ LogStays /\ moot \subseteq moot'
  <2>1. p' = [p EXCEPT ![t] = Idle] /\ UNCHANGED <<w, moot>> /\ t \in Procs
    BY <1>3, NullFact DEF zil_itx_assign
  <2>2. p'[t].pc = "idle" /\ \A u \in Procs : u # t => p'[u] = p[u]
    BY <1>1, <2>1 DEF Idle
  <2>. QED  BY <2>1, <2>2 DEF Calls, LogStays
<1>4. CASE zil_itx_clean
  <2>1. p' = Wake(p) /\ UNCHANGED <<w, moot>>
    BY <1>4 DEF zil_itx_clean, fs_vars
  <2>2. \A u \in Procs : Woken(p[u], p'[u])
    BY <1>1, <2>1, WakeFact
  <2>. QED  BY <2>1, <2>2 DEF Calls, LogStays, Woken
<1>5. CASE Crash
  <2>1. p' = [t \in Procs |-> Idle] /\ moot' = moot
    BY <1>5 DEF Crash
  <2>. QED  BY <2>1 DEF Calls, LogStays, Idle
<1>. QED  BY <1>2, <1>3, <1>4, <1>5, CommitStays, QuietNext

\* The log writer takes the first record that concerns the commit.
LEMMA PastNext ==
  ASSUME ZilInv, ReplayInv, CountInv, LoopInv, PastInv, [Next]_vars
  PROVE  PastInv'
<1>1. /\ IsZl(zl) /\ DOMAIN p = Procs /\ (\A u \in Procs : IsProc(p[u])) /\ IsWriter(w)
      /\ Len(rec) \in Nat /\ (\A n \in DOMAIN zl.itx : zl.itx[n] \in 1 .. Len(rec))
      /\ \A u \in Procs : p[u].pc = "log" => w.itx \in 1 .. Len(rec)
  BY DEF ZilInv, ShapeInv, RecInv, Current, CurrentIn
<1>2. \A n \in DOMAIN zl'.itx :
        (\E m \in DOMAIN zl.itx : zl'.itx[n] = zl.itx[m]) \/ zl'.itx[n] = Len(rec) + 1
  BY ItxNext DEF ReplayInv, ItxStep
<1>3. \A i \in 1 .. Len(rec) : rec'[i] = rec[i]
  BY RecNext
<1>. SUFFICES ASSUME NEW t \in Procs, p'[t].pc = "log"
              PROVE  /\ ~Skip(t, w.itx)'
                     /\ \A n \in DOMAIN zl'.itx : zl'.itx[n] < w'.itx => Skip(t, zl.itx[n])'
  BY DEF PastInv
<1>4. ASSUME NEW j, j = w'.itx, j \in 1 .. Len(rec), p'[t].foid = p[t].foid, ~Skip(t, j),
             \A m \in DOMAIN zl.itx : zl.itx[m] < j => Skip(t, zl.itx[m])
      PROVE  /\ ~Skip(t, w.itx)'
             /\ \A n \in DOMAIN zl'.itx : zl'.itx[n] < w'.itx => Skip(t, zl.itx[n])'
  <2>1. ~Skip(t, w.itx)'
    BY <1>3, <1>4 DEF Skip
  <2>2. ASSUME NEW n \in DOMAIN zl'.itx, zl'.itx[n] < w'.itx
        PROVE  Skip(t, zl.itx[n])'
    <3>1. PICK m \in DOMAIN zl.itx : zl'.itx[n] = zl.itx[m]
      BY <1>1, <1>2, <1>4, <2>2
    <3>2. Skip(t, zl.itx[m]) /\ zl.itx[m] \in 1 .. Len(rec)
      BY <1>1, <1>4, <2>2, <3>1
    <3>. QED  BY <1>3, <1>4, <3>1, <3>2 DEF Skip
  <2>. QED  BY <2>1, <2>2
<1>5. CASE LogStays
  <2>1. p'[t] = p[t] /\ w' = w
    BY <1>5 DEF LogStays
  <2>. QED  BY <1>1, <1>4, <2>1 DEF PastInv
<1>6. ASSUME NEW u \in Procs, TakeItx(u)
      PROVE  /\ ~Skip(t, w.itx)'
             /\ \A n \in DOMAIN zl'.itx : zl'.itx[n] < w'.itx => Skip(t, zl.itx[n])'
  <2>. DEFINE i == NextItx(u)
  <2>1. /\ p[u].pc = "push" /\ i # 0
        /\ \/ p' = [p EXCEPT ![u].pc = "log"] /\ w' = [w EXCEPT !.itx = i, !.next = After(i)]
           \/ UNCHANGED p
    BY <1>6 DEF TakeItx
  <2>2. \A v \in Procs : p[v].pc # "log"
    BY <2>1 DEF ZilInv, WriterInv, WriterPcs
  <2>3. p' = [p EXCEPT ![u].pc = "log"] /\ w' = [w EXCEPT !.itx = i, !.next = After(i)]
    BY <2>1, <2>2
  <2>4. /\ (\E n \in DOMAIN zl.itx : i = zl.itx[n]) /\ w.next \in 1 .. i /\ ~Skip(u, i)
        /\ \A n \in DOMAIN zl.itx : w.next \in 1 .. zl.itx[n] /\ zl.itx[n] < i => Skip(u, zl.itx[n])
    BY <2>1, NextItxFact DEF CountInv
  <2>. HIDE DEF i
  <2>5. t = u /\ p'[t].foid = p[t].foid /\ w'.itx = i
    <3>1. \A v \in Procs : v # u => p'[v] = p[v]
      BY <1>1, <2>3
    <3>2. p'[u].foid = p[u].foid
      BY <1>1, <2>3 DEF IsProc
    <3>3. w'.itx = i
      BY <1>1, <2>3 DEF IsWriter
    <3>. QED  BY <2>2, <3>1, <3>2, <3>3
  <2>6. \A n \in DOMAIN zl.itx : zl.itx[n] < w.next => Skip(u, zl.itx[n])
    BY <2>1, <2>4 DEF LoopInv
  <2>7. \A m \in DOMAIN zl.itx : zl.itx[m] < i => Skip(t, zl.itx[m])
    BY <1>1, <2>4, <2>5, <2>6
  <2>8. i \in 1 .. Len(rec)
    BY <1>1, <2>4
  <2>. QED  BY <1>4, <2>4, <2>5, <2>7, <2>8
<1>. QED  BY <1>5, <1>6, StaysNext

----------------------------------------------------------------------------
\* What a record in a block relies on.

\* What comes before a sequence number stays there until it is safe.
LEMMA BeforeNext ==
  ASSUME ZilInv, BookInv, ChainInv, ReplayInv, MaxInv, [Next]_vars, ~Crash,
         NEW i, Current(i), NEW s, Before(i, s)
  PROVE  Before(i, s)' \/ Safe(i)'
<1>1. PICK b \in Blocks : \E x \in DOMAIN blk[b].recs : blk[b].recs[x].itx = i /\ blk[b].recs[x].seq < s
  BY DEF Before
<1>2. PICK x \in DOMAIN blk[b].recs : blk[b].recs[x].itx = i /\ blk[b].recs[x].seq < s
  BY <1>1
<1>3. (x \in DOMAIN blk'[b].recs /\ blk'[b].recs[x] = blk[b].recs[x]) \/ Safe(i)'
  BY <1>2, EntryNext
<1>. QED  BY <1>2, <1>3 DEF Before

\* What the record in hand relies on has been logged before it.
LEMMA HandRelies ==
  ASSUME ZilInv, BookInv, ChainInv, HeldInv, PastInv,
         NEW t \in Procs, p[t].pc = "log", w.lwb # NULL,
         NEW j, j = w.itx, NEW i \in 1 .. Len(rec), ReliesOn(j, i)
  PROVE  i \in moot \/ Safe(i) \/ Before(i, zl.lr_seq + 1)
<1>1. Current(j) /\ Current(i) /\ j \in 1 .. Len(rec) /\ i < j
  BY DEF ZilInv, RecInv, Current, CurrentIn, ReliesOn
<1>2. \A u \in Procs : u # t => p[u].pc \notin LoopPcs
  BY DEF ZilInv, WriterInv, WriterPcs, LoopPcs
<1>3. ~InList(i)
  <2>1. SUFFICES ASSUME InList(i)
                 PROVE  FALSE
    OBVIOUS
  <2>2. Skip(t, i) /\ ~Skip(t, j)
    BY <1>1, <2>1 DEF InList, PastInv
  <2>3. Loose(i)
    BY <2>2 DEF Skip, Loose
  <2>4. rec[i].foid = rec[j].foid /\ Loose(j)
    BY <2>3 DEF Loose, ReliesOn
  <2>. QED  BY <2>2, <2>4 DEF Skip, Loose
<1>4. \A u \in Procs : Answers(u, i) => \E b \in Blocks : InBlock(b, i)
  <2>1. i # w.itx
    BY <1>1 DEF ZilInv, RecInv
  <2>. QED  BY <1>2, <2>1 DEF Answers, LoopPcs
<1>5. i \in moot \/ Safe(i) \/ \E b \in Blocks : InBlock(b, i)
  BY <1>1, <1>3, <1>4 DEF HeldInv, Held
<1>6. ASSUME NEW b \in Blocks, InBlock(b, i)
      PROVE  Before(i, zl.lr_seq + 1)
  <2>1. PICK x \in DOMAIN blk[b].recs : blk[b].recs[x].itx = i
    BY <1>6 DEF InBlock
  <2>2. PICK D \in Seq(Blocks), k \in Nat : IsLog(D, k)
    BY DEF ChainInv
  <2>3. PICK n \in DOMAIN D : b = D[n]
    BY <1>1, <2>1, <2>2 DEF IsLog, Recorded, Reached
  <2>4. blk[b].recs[x].seq <= zl.lr_seq
    BY <2>1, <2>2, <2>3, WriterLog DEF ChainInv
  <2>5. blk[b].recs[x].seq < zl.lr_seq + 1
    <3>1. blk[b].recs \in Seq(Entries) /\ zl.lr_seq \in Nat
      BY DEF BookInv
    <3>2. blk[b].recs[x] \in Entries
      BY <3>1
    <3>3. blk[b].recs[x].seq \in Nat
      BY <3>2 DEF Entries
    <3>. QED  BY <2>4, <3>1, <3>3
  <2>. QED  BY <2>1, <2>5 DEF Before
<1>. QED  BY <1>5, <1>6

\* So what a record in a block relies on is safe or comes first.
LEMMA RelyNext ==
  ASSUME ZilInv, BookInv, ChainInv, ReplayInv, AckInv, PastInv, RelyInv, [Next]_vars
  PROVE  RelyInv'
<1>. SUFFICES ASSUME NEW b \in Blocks, NEW x \in DOMAIN blk'[b].recs,
                     Current(blk[b].recs[x].itx)',
                     NEW i \in 1 .. Len(rec'), ReliesOn(blk[b].recs[x].itx, i)'
              PROVE  i \in moot' \/ Safe(i)' \/ Before(i, blk[b].recs[x].seq)'
  BY DEF RelyInv
<1>a. PICK j, s : j = blk'[b].recs[x].itx /\ s = blk'[b].recs[x].seq
  OBVIOUS
<1>b. CurrentIn(rec', crashes', j) /\ ReliesOn(j, i)'
  BY <1>a DEF Current, ReliesOn, Loose
<1>. SUFFICES i \in moot' \/ Safe(i)' \/ Before(i, s)'
  BY <1>a DEF Before
<1>. USE <1>a, <1>b
<1>0. MaxInv /\ CountInv /\ HeldInv /\ Len(rec) \in Nat
  BY DEF AckInv, ZilInv, RecInv
<1>1. ~Crash
  BY CrashCurrent
<1>2. moot \subseteq moot'
  BY <1>0, StaysNext
<1>3. ASSUME NEW l \in 1 .. Len(rec), j = l
      PROVE  /\ i \in 1 .. Len(rec) /\ Current(j) /\ Current(i) /\ ReliesOn(j, i)
  <2>1. i < j
    BY DEF ReliesOn
  <2>2. i \in 1 .. Len(rec)
    BY <1>0, <1>3, <2>1
  <2>3. rec'[i] = rec[i] /\ rec'[j] = rec[j] /\ Current(j)
    BY <1>1, <1>3, <2>2, SameCurrentNext
  <2>4. ReliesOn(j, i)
    BY <2>3 DEF ReliesOn, Loose
  <2>. QED  BY <2>2, <2>3, <2>4 DEF ReliesOn, Current, CurrentIn
<1>4. ASSUME i \in 1 .. Len(rec), Current(i), i \in moot \/ Safe(i) \/ Before(i, s)
      PROVE  i \in moot' \/ Safe(i)' \/ Before(i, s)'
  BY <1>0, <1>1, <1>2, <1>4, SafeNext, BeforeNext
<1>5. ASSUME x \in DOMAIN blk[b].recs, blk'[b].recs[x] = blk[b].recs[x]
      PROVE  i \in moot' \/ Safe(i)' \/ Before(i, s)'
  <2>1. j = blk[b].recs[x].itx /\ s = blk[b].recs[x].seq /\ j \in 1 .. Len(rec)
    BY <1>5 DEF BookInv
  <2>2. i \in 1 .. Len(rec) /\ Current(j) /\ Current(i) /\ ReliesOn(j, i)
    BY <1>3, <2>1
  <2>3. i \in moot \/ Safe(i) \/ Before(i, s)
    BY <1>5, <2>1, <2>2 DEF RelyInv
  <2>. QED  BY <1>4, <2>2, <2>3
<1>6. CASE SameRecs
  BY <1>5, <1>6 DEF SameRecs
<1>7. CASE WritesRecord
  <2>0. PICK c \in Blocks : \E o \in {blk[c].recs, <<>>} :
          /\ w.lwb # NULL /\ \E t \in Procs : p[t].pc = "log"
          /\ blk'[c].recs = Append(o, [itx |-> w.itx, seq |-> zl.lr_seq + 1])
          /\ \A d \in Blocks : d # c => blk'[d].recs = blk[d].recs
    BY <1>7 DEF WritesRecord
  <2>1. PICK o \in {blk[c].recs, <<>>} :
          /\ w.lwb # NULL /\ \E t \in Procs : p[t].pc = "log"
          /\ blk'[c].recs = Append(o, [itx |-> w.itx, seq |-> zl.lr_seq + 1])
          /\ \A d \in Blocks : d # c => blk'[d].recs = blk[d].recs
    BY <2>0
  <2>2. PICK t \in Procs : p[t].pc = "log"
    BY <2>1
  <2>3. CASE b # c
    BY <1>5, <2>1, <2>3
  <2>4. CASE b = c
    <3>0. blk[c].recs \in Seq(Entries) /\ o \in {blk[c].recs, <<>>}
      BY DEF BookInv
    <3>1. o \in Seq(Entries)
      <4>1. <<>> \in Seq(Entries)
        OBVIOUS
      <4>. QED  BY <3>0, <4>1, Zenon
    <3>2. x \in DOMAIN o \/ (j = w.itx /\ s = zl.lr_seq + 1)
      BY <2>1, <2>4, <3>1
    <3>3. CASE x \in DOMAIN o
      <4>1. x \in DOMAIN blk[c].recs /\ o[x] = blk[c].recs[x]
        BY <2>1, <3>3
      <4>2. blk'[c].recs[x] = o[x]
        BY <2>1, <3>1, <3>3
      <4>. QED  BY <1>5, <2>4, <4>1, <4>2
    <3>4. CASE j = w.itx /\ s = zl.lr_seq + 1
      <4>1. j \in 1 .. Len(rec)
        BY <2>2, <3>4 DEF ZilInv, RecInv, Current, CurrentIn
      <4>2. i \in 1 .. Len(rec) /\ Current(i) /\ ReliesOn(j, i)
        BY <1>3, <4>1
      <4>3. i \in moot \/ Safe(i) \/ Before(i, s)
        BY <1>0, <2>1, <2>2, <3>4, <4>2, HandRelies
      <4>. QED  BY <1>4, <4>2, <4>3
    <3>. QED  BY <3>2, <3>3, <3>4
  <2>. QED  BY <2>3, <2>4
<1>. QED  BY <1>6, <1>7, RecsNext DEF RecsStep

----------------------------------------------------------------------------
\* What a record that has outlived a crash relies on.

\* Once the log is open, what can be read has been logged since the import.
CurrentLog == \A i : OnLog(i) /\ Opened => Current(i)

\* It has: the log on disk is the chain that the commits have made.
LEMMA OnLogCurrent ==
  ASSUME ZilInv, BookInv, ChainInv
  PROVE  CurrentLog
BY ReadEntry DEF CurrentLog, OnLog

\* Until then the log on disk stays as it is.
LEMMA QuietBack ==
  ASSUME ZilInv, BookInv, ChainInv, ReplayInv, [Next]_vars, ~Crash, ~Opened'
  PROVE  zh_disk'.log = zh_disk.log /\ \A b \in Blocks : SameBlock(b)
<1>0. ASSUME ~Opened
      PROVE  /\ zh.log = NULL /\ mode # "replayed" => zh_disk.log = NULL
             /\ mode = "replayed" => zl.destroy_txg > stable
             /\ mode # "replayed" => zl.destroy_txg = 0
             /\ mode # "up" /\ QuietInv /\ (zh.log # NULL => ClaimInv)
  BY <1>0, ImportHead
<1>1. IsZl(zl) /\ (\A b \in Blocks : IsBlk(blk[b])) /\ DOMAIN blk = Blocks /\ stable \in Nat
      /\ zl.destroy_txg \in Nat
  BY DEF ZilInv, ShapeInv, GroupInv
<1>2. ASSUME UNCHANGED <<blk, zh_disk>>
      PROVE  zh_disk'.log = zh_disk.log /\ \A b \in Blocks : SameBlock(b)
  BY <1>2 DEF SameBlock
<1>3. CASE Beside
  <2>1. ~Opened /\ mode # "up"
    BY <1>3 DEF Beside, Opened, Importing
  <2>2. \A b \in Blocks : blk[b].io # "issued"
    BY <1>0, <2>1 DEF QuietInv
  <2>. QED  BY <1>2, <1>3, <2>1, <2>2 DEF Beside
<1>4. CASE zil_sync
  <2>. DEFINE X == {zl.lwb[n] : n \in 1 .. Cardinality(Obsolete(stable + 1))}
              G == stable + 1
  <2>1. blk' = FreeBlocks(X, G) /\ UNCHANGED zh_disk
    BY <1>4 DEF zil_sync
  <2>. HIDE DEF X, G
  <2>2. \A b \in Blocks : SameBlock(b)
    <3>. SUFFICES ASSUME NEW b \in Blocks
                  PROVE  SameBlock(b)
      OBVIOUS
    <3>1. IsBlk(blk[b]) /\ blk'[b] \in {blk[b], [blk[b] EXCEPT !.freed = G]}
      BY <1>1, <2>1 DEF FreeBlocks
    <3>. QED  BY <3>1 DEF SameBlock, IsBlk
  <2>. QED  BY <2>1, <2>2
<1>5. CASE Stabilize
  <2>. DEFINE G == stable + 1
              x == zl.clean \/ (G \in dirty /\ zl.itx # <<>> /\ rec[Head(zl.itx)].txg <= G)
  <2>1. /\ stable' = G /\ zh_disk' = (IF G \in dirty THEN zh ELSE zh_disk)
        /\ blk' = [b \in Blocks |-> IF blk[b].freed = G THEN NoBlk ELSE Flushed[b]]
        /\ zl' = [zl EXCEPT !.clean = x] /\ UNCHANGED mode
    BY <1>5 DEF Stabilize, GC!Stabilize, import_vars
  <2>. HIDE DEF x
  <2>2. zl'.destroy_txg = zl.destroy_txg
    BY <1>1, <2>1 DEF IsZl
  <2>3. ~Opened /\ (mode = "replayed" => zl.destroy_txg > G)
    BY <1>1, <2>1, <2>2 DEF Opened, Importing
  <2>4. mode = "replayed" => zh.log # NULL
    BY <1>1, <2>3 DEF ZilInv, DestroyInv, Destroying, Synced, SyncedIn
  <2>5. zh_disk'.log = zh_disk.log
    <3>1. CASE zh.log = NULL
      BY <1>0, <2>1, <2>3, <2>4, <3>1
    <3>2. CASE zh.log # NULL
      BY <1>0, <2>1, <2>3, <3>2 DEF ClaimInv
    <3>. QED  BY <3>1, <3>2
  <2>6. zl.destroy_txg # G
    BY <1>0, <1>1, <2>3
  <2>7. ASSUME NEW b \in Blocks
        PROVE  SameBlock(b)
    <3>1. blk[b].freed # G /\ blk[b].content # "cache"
      BY <1>0, <1>1, <2>3, <2>6 DEF QuietInv
    <3>2. blk'[b] = Flushed[b]
      BY <2>1, <3>1
    <3>. QED  BY <3>1, <3>2, FlushBlocks DEF SameBlock
  <2>. QED  BY <2>5, <2>7
<1>6. CASE Advance \/ zil_replay_log_record \/ ReplayDone
  BY <1>2, <1>6 DEF Advance, zil_replay_log_record, ReplayDone
<1>7. CASE zil_claim
  <2>1. /\ UNCHANGED zh_disk
        /\ \/ UNCHANGED blk
           \/ blk' = [b \in Blocks |-> IF b \in Claimed THEN [blk[b] EXCEPT !.birth = open] ELSE blk[b]]
    BY <1>7 DEF zil_claim
  <2>2. ASSUME NEW b \in Blocks
        PROVE  SameBlock(b)
    <3>1. IsBlk(blk[b]) /\ blk'[b] \in {blk[b], [blk[b] EXCEPT !.birth = open]}
      BY <1>1, <2>1
    <3>. QED  BY <3>1 DEF SameBlock, IsBlk
  <2>. QED  BY <2>1, <2>2
<1>8. CASE zil_replay
  <2>1. mode' = "replay"
    BY <1>8 DEF zil_replay, Opened, Importing
  <2>2. UNCHANGED <<blk, zh_disk>>
    BY <1>8, <2>1 DEF zil_replay
  <2>. QED  BY <1>2, <2>2
<1>9. CASE ReplayDestroy
  <2>1. Destroy(FALSE, zl) /\ UNCHANGED zh_disk
    BY <1>9 DEF ReplayDestroy
  <2>. QED  BY <2>1, DestroySame
<1>. QED
  BY <1>3, <1>4, <1>5, <1>6, <1>7, <1>8, <1>9, BesideNext DEF SyncStep, ImportStep

\* A record that is older than the import has been there before the step.
LEMMA OldRecord ==
  ASSUME ZilInv, [Next]_vars, NEW j \in 1 .. Len(rec'), ~CurrentIn(rec', crashes', j)
  PROVE  j \in 1 .. Len(rec)
<1>1. CASE rec' = rec
  BY <1>1
<1>2. ASSUME NEW t \in Threads, zil_itx_assign(t)
      PROVE  j \in 1 .. Len(rec)
  <2>. DEFINE x == [foid |-> p[t].kind.foid, ooo |-> p[t].kind.ooo, sync |-> p[t].kind.sync,
                    txg |-> active[t], boot |-> crashes]
              n == Len(rec) + 1
  <2>1. rec' = Append(rec, x) /\ x.boot = crashes
    BY <1>2 DEF zil_itx_assign
  <2>. HIDE DEF x
  <2>2. Len(rec) \in Nat /\ Len(rec') = n /\ rec'[n] = x /\ crashes' = crashes
    BY <1>2, <2>1, AssignRec
  <2>. QED  BY <2>1, <2>2 DEF CurrentIn
<1>3. rec' = rec \/ \E t \in Threads : zil_itx_assign(t)
  BY BesideNext DEF Beside, SyncStep, zil_sync, Stabilize, Advance, ImportStep, zil_claim, zil_replay,
     zil_replay_log_record, ReplayDestroy, ReplayDone, Crash, fs_vars
<1>. QED  BY <1>1, <1>2, <1>3

\* It has not come back by itself: the import replays what the log on disk holds.
LEMMA KeptBack ==
  ASSUME ZilInv, BookInv, ChainInv, ReplayInv, CurrentLog', [Next]_vars, ~Crash,
         NEW j \in 1 .. Len(rec), ~CurrentIn(rec', crashes', j), Kept(j)'
  PROVE  Kept(j)
<1>1. /\ home \in Seq(Nat) /\ DOMAIN home = 1 .. Len(rec) /\ Len(home) = Len(rec) /\ j \in DOMAIN home
  BY DEF ReplayInv, HomeInv, ZilInv, RecInv
<1>2. CASE OnLog(j)'
  <2>1. ~Opened'
    BY <1>2 DEF CurrentLog, Current
  <2>2. OnLog(j)
    BY <1>2, <2>1, QuietBack, OnLogBack
  <2>. QED  BY <2>2 DEF Kept
<1>3. CASE home'[j] = home[j] /\ home'[j] # 0
  BY <1>3 DEF Kept
<1>4. CASE home'[j] # home[j]
  <2>1. zil_replay_log_record
    <3>1. CASE Beside
      <4>1. home' # home
        BY <1>4
      <4>2. PICK t \in Threads : zil_itx_assign(t)
        BY <3>1, <4>1 DEF Beside
      <4>3. home' = Append(home, active[t])
        BY <4>2 DEF zil_itx_assign
      <4>4. home'[j] = home[j]
        BY <1>1, <4>3
      <4>. QED  BY <1>4, <4>4
    <3>2. CASE SyncStep
      BY <1>4, <3>2 DEF SyncStep, zil_sync, Stabilize, Advance, fs_vars
    <3>3. CASE ImportStep
      BY <1>4, <3>3 DEF ImportStep, zil_claim, zil_replay, ReplayDestroy, ReplayDone, fs_vars
    <3>. QED  BY <3>1, <3>2, <3>3, BesideNext
  <2>2. mode = "replay" /\ ~Opened /\ r.pos < Len(Log)
    BY <2>1 DEF zil_replay_log_record, Opened, Importing
  <2>3. PICK L : L = DiskLog
    OBVIOUS
  <2>4. zh.log # NULL /\ ClaimInv /\ r.pos \in 0 .. Len(L)
    BY <2>2, <2>3, ImportHead
  <2>5. L = Log
    BY <2>3, <2>4 DEF ClaimInv, DiskLog, Log
  <2>6. IsRecords(L) /\ Len(L) \in Nat /\ DOMAIN L = 1 .. Len(L)
    BY <2>3, DiskLogRecords DEF ReplayInv, IsRecords
  <2>7. PICK q, i : q = r.pos + 1 /\ i = L[q].itx
    OBVIOUS
  <2>8. q \in DOMAIN L
    BY <2>2, <2>4, <2>5, <2>6, <2>7
  <2>9. home' = [home EXCEPT ![i] = open]
    <3>1. home' = home \/ home' = [home EXCEPT ![i] = open]
      BY <2>1, <2>5, <2>7 DEF zil_replay_log_record
    <3>. QED  BY <1>4, <3>1
  <2>10. i = j
    BY <1>1, <1>4, <2>9
  <2>11. OnLog(j)
    BY <2>3, <2>7, <2>8, <2>10, EntryOnLog
  <2>. QED  BY <2>11 DEF Kept
<1>. QED  BY <1>2, <1>3, <1>4 DEF Kept

\* A crash leaves the blocks up to some one of the log.
Leaves(D, m) ==
  /\ m \in DOMAIN D /\ EndsAt(blk', D, m) /\ zh_disk.log = D[1] /\ zh_disk'.log = D[1]
  /\ \A y \in 1 .. m :
       /\ blk'[D[y]].next = blk[D[y]].next /\ blk'[D[y]].recs = blk[D[y]].recs
       /\ blk'[D[y]].content = "disk" => blk[D[y]].io = "issued" \/ blk[D[y]].content \in {"cache", "disk"}

\* What can be read after it is a record in one of these.
LEMMA CrashRead ==
  ASSUME ZilInv, BookInv, Crash, NEW D \in Seq(Blocks), NEW k \in Nat, IsLog(D, k),
         NEW E, Readable(blk', zh_disk'.log, E), NEW j, InBlock(E[Len(E)], j)'
  PROVE  \E m \in Nat : /\ Leaves(D, m)
                        /\ \A y \in DOMAIN E : y \in 1 .. m - 1 /\ E[y] = D[y]
                        /\ \E l \in 1 .. m - 1 : l = Len(E) /\ InBlock(D[l], j)
<1>1. E \in Seq(Blocks) /\ E # <<>> /\ E[1] = zh_disk'.log /\ Len(E) \in DOMAIN E /\ E[1] \in Blocks
  BY DEF Readable
<1>2. zh_disk'.log = zh_disk.log /\ zh_disk.log = First(D)
  BY DEF Crash, IsLog, Headed
<1>3. D # <<>>
  BY <1>1, <1>2, NullFact DEF First
<1>4. PICK m \in DOMAIN D :
        /\ EndsAt(blk', D, m) /\ zh_disk'.log = D[1]
        /\ \A y \in 1 .. m :
             /\ blk'[D[y]].next = blk[D[y]].next /\ blk'[D[y]].recs = blk[D[y]].recs
             /\ blk'[D[y]].content = "disk" =>
                  blk[D[y]].io = "issued" \/ blk[D[y]].content \in {"cache", "disk"}
  BY <1>3, CrashLog
<1>5. Leaves(D, m) /\ m \in Nat
  BY <1>2, <1>4 DEF Leaves
<1>6. \A y \in DOMAIN E : y \in 1 .. m - 1 /\ E[y] = D[y]
  BY <1>4, ReadsAlong
<1>7. PICK l : l = Len(E)
  OBVIOUS
<1>8. l \in 1 .. m - 1 /\ l \in 1 .. m /\ E[l] = D[l]
  BY <1>1, <1>5, <1>6, <1>7
<1>9. InBlock(D[l], j)
  BY <1>4, <1>7, <1>8 DEF InBlock
<1>. QED  BY <1>5, <1>6, <1>7, <1>8, <1>9

\* A record that is older than the import and that can be read could be before.
LEMMA CrashBack ==
  ASSUME ZilInv, BookInv, ChainInv, ReplayInv, Crash, NEW j, ~Current(j), OnLog(j)'
  PROVE  OnLog(j)
<1>1. PICK D \in Seq(Blocks), k \in Nat : IsLog(D, k)
  BY DEF ChainInv
<1>2. PICK E \in Seq(Blocks) : Readable(blk', zh_disk'.log, E) /\ InBlock(E[Len(E)], j)'
  BY DEF OnLog
<1>3. PICK m \in Nat : /\ Leaves(D, m)
                       /\ \A y \in DOMAIN E : y \in 1 .. m - 1 /\ E[y] = D[y]
                       /\ \E l \in 1 .. m - 1 : l = Len(E) /\ InBlock(D[l], j)
  BY <1>1, <1>2, CrashRead
<1>4. PICK l \in 1 .. m - 1 : l = Len(E) /\ InBlock(D[l], j)
  BY <1>3
<1>5. m <= Len(D) /\ DOMAIN D = 1 .. Len(D) /\ Len(D) \in Nat /\ l \in DOMAIN D /\ l < Len(D)
  BY <1>3, <1>4 DEF Leaves
<1>6. ~Opened
  BY <1>1, <1>4, <1>5 DEF IsLog, Recorded, Recent, InBlock
<1>7. QuietInv
  BY <1>6, ImportHead
<1>8. ASSUME NEW y \in 1 .. m - 1
      PROVE  Valid(blk, D[y]) /\ blk'[D[y]].next = blk[D[y]].next
  <2>1. y \in 1 .. m /\ y \in DOMAIN D
    BY <1>5
  <2>2. D[y] \in Blocks
    BY <2>1
  <2>3. EndsAt(blk', D, m)
    BY <1>3 DEF Leaves
  <2>4. Valid(blk', D[y])
    BY <2>3 DEF EndsAt
  <2>. QED  BY <1>3, <1>7, <2>1, <2>2, <2>4 DEF Leaves, Valid, QuietInv
<1>9. /\ \A y \in DOMAIN E : Valid(blk, E[y]) /\ blk'[E[y]].next = blk[E[y]].next
      /\ E[Len(E)] = D[l]
  <2>1. l \in DOMAIN E
    BY <1>2, <1>4 DEF Readable
  <2>. QED  BY <1>3, <1>4, <1>8, <2>1
<1>10. Readable(blk, zh_disk.log, E)
  BY <1>2, <1>3, <1>9 DEF Readable, Leaves
<1>. QED  BY <1>4, <1>9, <1>10 DEF OnLog

\* Of the records since the import a crash keeps with one what comes before it.
LEMMA CrashBefore ==
  ASSUME ZilInv, BookInv, ChainInv, ReplayInv, RelyInv, MaxInv, [Next]_vars, Crash,
         NEW j, Current(j), OnLog(j)', NEW i \in 1 .. Len(rec), ReliesOn(j, i)
  PROVE  i \in moot \/ Safe(i)'
<1>0. Current(i)
  BY DEF ReliesOn, Current, CurrentIn
<1>1. PICK D \in Seq(Blocks), k \in Nat : IsLog(D, k)
  BY DEF ChainInv
<1>2. PICK E \in Seq(Blocks) : Readable(blk', zh_disk'.log, E) /\ InBlock(E[Len(E)], j)'
  BY DEF OnLog
<1>3. PICK m \in Nat : Leaves(D, m) /\ \E l \in 1 .. m - 1 : InBlock(D[l], j)
  BY <1>1, <1>2, CrashRead
<1>4. PICK l \in 1 .. m - 1 : InBlock(D[l], j)
  BY <1>3
<1>5. m <= Len(D) /\ DOMAIN D = 1 .. Len(D) /\ Len(D) \in Nat /\ l \in DOMAIN D /\ D[l] \in Blocks
  BY <1>3, <1>4 DEF Leaves
<1>6. PICK x \in DOMAIN blk[D[l]].recs : blk[D[l]].recs[x].itx = j
  BY <1>4 DEF InBlock
<1>7. PICK s : s = blk[D[l]].recs[x].seq
  OBVIOUS
<1>8. i \in moot \/ Safe(i) \/ Before(i, s)
  BY <1>5, <1>6, <1>7 DEF RelyInv
<1>9. CASE Before(i, s)
  <2>1. PICK c \in Blocks : \E y \in DOMAIN blk[c].recs : blk[c].recs[y].itx = i /\ blk[c].recs[y].seq < s
    BY <1>9 DEF Before
  <2>2. PICK y \in DOMAIN blk[c].recs : blk[c].recs[y].itx = i /\ blk[c].recs[y].seq < s
    BY <2>1
  <2>3. PICK n \in DOMAIN D : c = D[n]
    BY <1>0, <1>1, <2>2 DEF IsLog, Recorded, Reached
  <2>4. blk[D[l]].recs \in Seq(Entries) /\ blk[D[n]].recs \in Seq(Entries)
    BY <1>5, <2>3 DEF BookInv
  <2>5. blk[D[l]].recs[x] \in Entries /\ blk[D[n]].recs[y] \in Entries
    <3>1. blk[D[l]].recs[x] \in Entries
      BY <1>6, <2>4
    <3>2. y \in DOMAIN blk[D[n]].recs
      BY <2>2, <2>3
    <3>. QED  BY <2>4, <3>1, <3>2
  <2>6. s \in Nat /\ blk[D[n]].recs[y].seq \in Nat
    BY <1>7, <2>5 DEF Entries
  <2>7. ~(l < n)
    <3>1. Ordered(D)
      BY <1>1 DEF IsLog, Recorded
    <3>2. y \in DOMAIN blk[D[n]].recs /\ blk[D[n]].recs[y].seq < s
      BY <2>2, <2>3
    <3>3. l < n => s < blk[D[n]].recs[y].seq
      BY <1>5, <1>6, <1>7, <2>3, <3>1, <3>2 DEF Ordered
    <3>. QED  BY <2>6, <3>2, <3>3
  <2>8. n \in 1 .. m - 1 /\ n \in 1 .. m
    BY <1>5, <2>3, <2>7
  <2>9. PICK F \in Seq(Blocks) : Readable(blk', D[1], F) /\ F[Len(F)] = D[n]
    BY <1>3, <2>8, ReadsUpTo DEF Leaves
  <2>10. InBlock(D[n], i)'
    BY <1>3, <2>2, <2>3, <2>8 DEF Leaves, InBlock
  <2>11. OnLog(i)'
    BY <1>3, <2>9, <2>10 DEF Leaves, OnLog, InBlock
  <2>. QED  BY <2>11 DEF Safe
<1>10. CASE Safe(i)
  BY <1>10, SafeNext
<1>. QED  BY <1>8, <1>9, <1>10

\* So what a record that outlives a crash relies on does, too.
LEMMA PastCrashNext ==
  ASSUME ZilInv, BookInv, ChainInv, ReplayInv, AckInv, RelyInv, PastCrashInv, CurrentLog', [Next]_vars
  PROVE  PastCrashInv'
<1>0. MaxInv /\ CountInv /\ Len(rec) \in Nat
  BY DEF AckInv, ZilInv, RecInv
<1>. SUFFICES ASSUME NEW i \in 1 .. Len(rec'), NEW j \in 1 .. Len(rec'),
                     ~CurrentIn(rec', crashes', j), Kept(j)', ReliesOn(j, i)'
              PROVE  i \in moot' \/ Safe(i)'
  BY DEF PastCrashInv, Current
<1>1. j \in 1 .. Len(rec) /\ i \in 1 .. Len(rec)
  <2>1. j \in 1 .. Len(rec)
    BY OldRecord
  <2>. QED  BY <1>0, <2>1 DEF ReliesOn
<1>2. rec'[i] = rec[i] /\ rec'[j] = rec[j]
  BY <1>1, RecNext
<1>3. ReliesOn(j, i)
  BY <1>2 DEF ReliesOn, Loose
<1>4. moot \subseteq moot'
  BY <1>0, StaysNext
<1>5. ASSUME i \in moot \/ Safe(i)
      PROVE  i \in moot' \/ Safe(i)'
  BY <1>0, <1>1, <1>4, <1>5, SafeNext
<1>6. CASE ~Crash
  <2>1. ~Current(j)
    BY <1>1, <1>6, SameCurrentNext
  <2>2. Kept(j)
    BY <1>1, <1>6, KeptBack
  <2>. QED  BY <1>1, <1>3, <1>5, <2>1, <2>2 DEF PastCrashInv
<1>7. CASE Crash
  <2>1. home'[j] = (IF home[j] > stable THEN 0 ELSE home[j]) /\ home[j] \in Nat /\ stable \in Nat
    <3>1. home' = [x \in DOMAIN home |-> IF home[x] > stable THEN 0 ELSE home[x]]
      BY <1>7 DEF Crash
    <3>2. home \in Seq(Nat) /\ DOMAIN home = 1 .. Len(rec) /\ stable \in Nat
      BY DEF ReplayInv, HomeInv, ZilInv, RecInv, GroupInv
    <3>. QED  BY <1>1, <3>1, <3>2
  <2>2. CASE ~Current(j)
    <3>1. Kept(j)
      BY <1>7, <2>1, <2>2, CrashBack DEF Kept
    <3>. QED  BY <1>1, <1>3, <1>5, <2>2, <3>1 DEF PastCrashInv
  <2>3. CASE Current(j) /\ OnLog(j)'
    BY <1>0, <1>1, <1>3, <1>4, <1>7, <2>3, CrashBefore
  <2>4. CASE Current(j) /\ home'[j] # 0
    <3>1. home[j] = rec[j].txg /\ Current(i)
      BY <1>1, <1>3, <2>4 DEF ReplayInv, HomeInv, ReliesOn, Current, CurrentIn
    <3>2. rec[i].txg <= rec[j].txg /\ rec[j].txg <= stable
      BY <1>3, <2>1, <2>4, <3>1 DEF ReliesOn
    <3>3. home[i] = rec[i].txg /\ home[i] \in Nat
      <4>1. home \in Seq(Nat) /\ DOMAIN home = 1 .. Len(rec)
        BY DEF ReplayInv, HomeInv, ZilInv, RecInv
      <4>2. home[i] = rec[i].txg
        BY <1>1, <3>1 DEF ReplayInv, HomeInv, Current, CurrentIn
      <4>. QED  BY <1>1, <4>1, <4>2
    <3>4. rec[i].txg <= stable
      BY <2>1, <3>1, <3>2, <3>3
    <3>. QED  BY <1>5, <3>1, <3>4, SyncedSafe
  <2>. QED  BY <2>2, <2>3, <2>4 DEF Kept
<1>. QED  BY <1>6, <1>7

\* At the start there is no record.
LEMMA CloseInit == Init => CloseInv
<1>. SUFFICES ASSUME Init
              PROVE  CloseInv
  OBVIOUS
<1>1. /\ zl = NoLog /\ rec = <<>> /\ blk = [b \in Blocks |-> NoBlk] /\ p = [t \in Procs |-> Idle]
  BY DEF Init
<1>2. /\ \A t \in Procs : p[t].pc = "idle"
      /\ Len(rec) = 0 /\ 1 .. 0 = {} /\ \A b \in Blocks : blk[b].recs = <<>>
  BY <1>1 DEF NoBlk, Idle
<1>. QED  BY <1>2 DEF CloseInv, PastInv, RelyInv, PastCrashInv

\* What a record relies on comes before it in the log or is safe without, and what a
\* survivor of a crash relies on survives it.
THEOREM ZilClose == Spec => []CloseInv
<1>1. Init => CloseInv
  BY CloseInit
<1>2. /\ ZilInv /\ BookInv /\ ChainInv /\ ReplayInv /\ AckInv /\ CurrentLog' /\ CloseInv /\ [Next]_vars
      => CloseInv'
  <2>. SUFFICES ASSUME ZilInv, BookInv, ChainInv, ReplayInv, AckInv, CurrentLog', CloseInv, [Next]_vars
                PROVE  CloseInv'
    OBVIOUS
  <2>1. PastInv /\ RelyInv /\ PastCrashInv /\ CountInv /\ LoopInv
    BY DEF CloseInv, AckInv
  <2>3. PastInv'
    BY <2>1, PastNext
  <2>4. RelyInv'
    BY <2>1, RelyNext
  <2>5. PastCrashInv'
    BY <2>1, PastCrashNext
  <2>. QED  BY <2>3, <2>4, <2>5 DEF CloseInv
<1>3. ZilInv /\ BookInv /\ ChainInv => CurrentLog
  BY OnLogCurrent
<1>. QED  BY <1>1, <1>2, <1>3, ZilInvariant, ZilBook, ZilChain, ZilReplay, ZilAck, PTL DEF Spec

\* A crash loses no record that one it keeps relies on, in whatever order files are
\* committed, records are left out and log writes end, and whichever of them fail,
\* although synchronous and asynchronous writers share files.
THEOREM ZilSurvivorsClosed == Spec => []SurvivorsClosed
<1>1. ZilInv /\ BookInv /\ ChainInv /\ ReplayInv /\ CloseInv => SurvivorsClosed
  <2>. SUFFICES ASSUME ZilInv, BookInv, ChainInv, ReplayInv, CloseInv, mode = "up",
                       NEW j \in DOMAIN rec, NEW i \in DOMAIN rec, i \notin moot,
                       home[j] # 0, ReliesOn(j, i)
                PROVE  home[i] # 0
    BY DEF SurvivorsClosed
  <2>1. i \in 1 .. Len(rec) /\ j \in 1 .. Len(rec)
    BY DEF ZilInv, RecInv
  <2>2. CASE Current(i)
    BY <2>1, <2>2 DEF ReplayInv, HomeInv, Current, CurrentIn
  <2>3. CASE ~Current(i)
    <3>1. ~Current(j)
      BY <2>1, <2>3 DEF ReliesOn, Current, CurrentIn
    <3>2. Safe(i)
      BY <2>1, <3>1 DEF CloseInv, PastCrashInv, Kept
    <3>3. ~OnLog(i)
      <4>1. Opened
        BY DEF Opened, Importing
      <4>. QED  BY <2>3, <4>1, OnLogCurrent DEF CurrentLog
    <3>. QED  BY <3>2, <3>3 DEF Safe
  <2>. QED  BY <2>2, <2>3
<1>. QED  BY <1>1, ZilInvariant, ZilBook, ZilChain, ZilReplay, ZilClose, PTL

=============================================================================
