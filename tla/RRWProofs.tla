----------------------------- MODULE RRWProofs -----------------------------
(***************************************************************************)
(* Proofs about RRWLock, for every set of threads and depth of nesting.    *)
(***************************************************************************)
EXTENDS RRWLock, FiniteSetTheorems, TLAPS

\* A writer holds nothing while it waits, and rr_writer does not wait.
WriterInv ==
  \A t \in Threads :
    /\ pc[t] \in {"writeSleep", "writeWoken"} => reads[t] = 0
    /\ rr_writer = t => pc[t] = "run"

\* rr_writer_wanted is set only while some writer still waits.
WantedInv ==
  rr_writer_wanted =>
    \E w \in Threads : pc[w] \in {"writeSleep", "writeWoken"}

\* The inductive invariant.
RRWInv ==
  /\ TypeOK
  /\ CountsAreReads
  /\ WriterIsAlone
  /\ ReentrantNeverSleeps
  /\ WriterInv
  /\ WantedInv
  /\ SleepersHaveAReason

HoldCounts == [Threads -> 0 .. MaxDepth]

----------------------------------------------------------------------------
\* Counting read locks: one more or one fewer of thread t.

\* The holds that a count stands for are finitely many.
LEMMA HoldsFinite ==
  ASSUME NEW f
  PROVE  IsFiniteSet(Holds(f)) /\ Cardinality(Holds(f)) \in Nat
<1>1. IsFiniteSet(1 .. MaxDepth)
  BY RRWAssumption, FS_Interval
<1>2. IsFiniteSet(Threads \X (1 .. MaxDepth))
  BY <1>1, RRWAssumption, FS_Product
<1>3. Holds(f) \in SUBSET (Threads \X (1 .. MaxDepth))
  BY DEF Holds
<1> QED
  BY <1>2, <1>3, FS_Subset, FS_CardinalityType

\* One more hold of thread t is one more element.
LEMMA HoldsUp ==
  ASSUME NEW f \in HoldCounts, NEW g \in HoldCounts, NEW t \in Threads,
         g = [f EXCEPT ![t] = @ + 1]
  PROVE  Cardinality(Holds(g)) = Cardinality(Holds(f)) + 1
<1> DEFINE x == <<t, f[t] + 1>>
<1>1. g[t] = f[t] + 1 /\ f[t] \in Nat /\ g[t] \in 0 .. MaxDepth
  BY RRWAssumption DEF HoldCounts
<1>2. x \in Threads \X (1 .. MaxDepth)
  BY <1>1, RRWAssumption
<1>3. x \notin Holds(f)
  BY <1>1 DEF Holds
<1>4. Holds(g) = Holds(f) \cup {x}
  <2>1. ASSUME NEW u \in Threads, NEW k \in 1 .. MaxDepth
        PROVE  k <= g[u] <=> (k <= f[u] \/ <<u, k>> = x)
    <3>1. CASE u = t
      BY <1>1, <3>1, RRWAssumption
    <3>2. CASE u # t
      BY <3>2 DEF HoldCounts
    <3> QED
      BY <3>1, <3>2
  <2> QED
    BY <1>2, <2>1 DEF Holds
<1> HIDE DEF x
<1> QED
  BY <1>3, <1>4, HoldsFinite, FS_AddElement

\* One hold fewer of thread t is one element fewer.
LEMMA HoldsDown ==
  ASSUME NEW f \in HoldCounts, NEW g \in HoldCounts, NEW t \in Threads,
         g = [f EXCEPT ![t] = @ - 1]
  PROVE  Cardinality(Holds(g)) = Cardinality(Holds(f)) - 1
<1>1. f = [g EXCEPT ![t] = @ + 1]
  <2>1. g[t] + 1 = f[t]
    <3>1. f[t] \in Int
      BY RRWAssumption DEF HoldCounts
    <3>2. g[t] = f[t] - 1
      BY DEF HoldCounts
    <3> QED
      BY <3>1, <3>2
  <2>2. \A u \in Threads : u # t => g[u] = f[u]
    BY DEF HoldCounts
  <2> QED
    BY <2>1, <2>2 DEF HoldCounts
<1>2. Cardinality(Holds(f)) = Cardinality(Holds(g)) + 1
  BY <1>1, HoldsUp
<1> QED
  BY <1>2, HoldsFinite

\* A count of zero says that no thread holds.
LEMMA HoldsNone ==
  ASSUME NEW f \in HoldCounts
  PROVE  Cardinality(Holds(f)) = 0 <=> \A t \in Threads : f[t] = 0
<1>1. Cardinality(Holds(f)) = 0 <=> Holds(f) = {}
  BY HoldsFinite, FS_EmptySet
<1>2. ASSUME \A t \in Threads : f[t] = 0
      PROVE  Holds(f) = {}
  BY <1>2 DEF Holds
<1>3. ASSUME Holds(f) = {}, NEW t \in Threads
      PROVE  f[t] = 0
  <2>1. f[t] \in 0 .. MaxDepth
    BY DEF HoldCounts
  <2>2. f[t] > 0 => <<t, f[t]>> \in Holds(f)
    BY <2>1, RRWAssumption DEF Holds
  <2> QED
    BY <1>3, <2>1, <2>2
<1> QED
  BY <1>1, <1>2, <1>3

\* The anonymous holds of the threads are counts too.
LEMMA AnonymousType ==
  ASSUME TypeOK, CountsAreReads
  PROVE  Anonymous \in HoldCounts
<1>1. ASSUME NEW t \in Threads
      PROVE  reads[t] - rrn[t] \in 0 .. MaxDepth
  BY <1>1, RRWAssumption DEF TypeOK, CountsAreReads
<1> QED
  BY <1>1 DEF Anonymous, HoldCounts

\* What the code can tell from the two counts: somebody reads exactly when
\* one of them is not zero, and a thread that reads while there is no
\* anonymous reader has a node of its own.
LEMMA WhatCountsTell ==
  ASSUME TypeOK, CountsAreReads
  PROVE  /\ rr_anon_rcount = 0 /\ rr_linked_rcount = 0
              <=> \A t \in Threads : reads[t] = 0
         /\ \A t \in Threads :
              rr_anon_rcount = 0 /\ reads[t] > 0 => rrn_find(t)
<1>1. rr_anon_rcount = 0 <=> \A t \in Threads : Anonymous[t] = 0
  BY AnonymousType, HoldsNone DEF CountsAreReads
<1>2. rr_anon_rcount = 0 <=> \A t \in Threads : reads[t] = rrn[t]
  <2>1. \A t \in Threads : Anonymous[t] = 0 <=> reads[t] = rrn[t]
    BY RRWAssumption DEF Anonymous, TypeOK
  <2> QED
    BY <1>1, <2>1
<1>3. rr_linked_rcount = 0 <=> \A t \in Threads : rrn[t] = 0
  BY HoldsNone DEF CountsAreReads, TypeOK, HoldCounts
<1>4. \A t \in Threads : rrn[t] \in Nat /\ reads[t] \in Nat /\ rrn[t] <= reads[t]
  BY RRWAssumption DEF TypeOK, CountsAreReads
<1> QED
  BY <1>2, <1>3, <1>4 DEF rrn_find

----------------------------------------------------------------------------
\* Entering and leaving as a reader keeps the books.

\* ReadLoop puts a caller to sleep only if it does not read already.
LEMMA BlockedIsNew ==
  ASSUME RRWInv, NEW t \in Threads, ReadBlocked(t)
  PROVE  reads[t] = 0
<1>1. CASE rr_writer # NULL
  BY <1>1 DEF RRWInv, WriterIsAlone
<1>2. CASE rr_anon_rcount = 0 /\ ~rrn_find(t)
  <2>1. ~(reads[t] > 0)
    BY <1>2, WhatCountsTell DEF RRWInv
  <2> QED
    BY <2>1, RRWAssumption DEF RRWInv, TypeOK
<1> QED
  BY <1>1, <1>2 DEF ReadBlocked

\* ReadLoop keeps the counts.
LEMMA ReadLoopCounts ==
  ASSUME TypeOK, CountsAreReads, NEW t \in Threads, reads[t] < MaxDepth,
         ReadLoop(t)
  PROVE  TypeOK' /\ CountsAreReads'
<1>0. /\ rrn[t] \in 0 .. MaxDepth /\ reads[t] \in 0 .. MaxDepth
      /\ rrn[t] <= reads[t] /\ rrn[t] + 1 \in 0 .. MaxDepth
      /\ reads[t] + 1 \in 0 .. MaxDepth
  BY RRWAssumption DEF TypeOK, CountsAreReads
<1>1. CASE ReadBlocked(t)
  <2>1. TypeOK'
    BY <1>1 DEF ReadLoop, TypeOK, Pcs
  <2>2. CountsAreReads'
    BY <1>1 DEF ReadLoop, CountsAreReads, Holds, Anonymous
  <2> QED
    BY <2>1, <2>2
<1>2. CASE ~ReadBlocked(t) /\ rr_writer_wanted
  <2>1. /\ rrn' = [rrn EXCEPT ![t] = @ + 1]
        /\ reads' = [reads EXCEPT ![t] = @ + 1]
        /\ rr_linked_rcount' = rr_linked_rcount + 1
        /\ rr_anon_rcount' = rr_anon_rcount
    BY <1>2 DEF ReadLoop
  <2>2. rrn' \in HoldCounts /\ reads' \in HoldCounts /\ rrn \in HoldCounts
    BY <1>0, <2>1 DEF TypeOK, HoldCounts
  <2>3. TypeOK'
    BY <1>2, <2>1, <2>2 DEF ReadLoop, TypeOK, Pcs, HoldCounts
  <2>4. \A u \in Threads : rrn'[u] <= reads'[u] /\ reads'[u] - rrn'[u] = reads[u] - rrn[u]
    <3> TAKE u \in Threads
    <3>1. rrn[u] \in Nat /\ reads[u] \in Nat /\ rrn[u] <= reads[u]
      BY RRWAssumption DEF TypeOK, CountsAreReads
    <3>2. (u = t /\ rrn'[u] = rrn[u] + 1 /\ reads'[u] = reads[u] + 1)
            \/ (rrn'[u] = rrn[u] /\ reads'[u] = reads[u])
      BY <2>1 DEF TypeOK
    <3> QED
      BY <3>1, <3>2
  <2>5. Anonymous' = Anonymous
    BY <2>4 DEF Anonymous
  <2>6. Holds(Anonymous)' = Holds(Anonymous) /\ Holds(rrn)' = Holds(rrn')
    BY <2>5 DEF Holds
  <2>7. Cardinality(Holds(rrn')) = Cardinality(Holds(rrn)) + 1
    BY <2>1, <2>2, HoldsUp
  <2> QED
    BY <2>1, <2>3, <2>4, <2>6, <2>7 DEF CountsAreReads
<1>3. CASE ~ReadBlocked(t) /\ ~rr_writer_wanted
  <2>1. /\ rrn' = rrn
        /\ reads' = [reads EXCEPT ![t] = @ + 1]
        /\ rr_linked_rcount' = rr_linked_rcount
        /\ rr_anon_rcount' = rr_anon_rcount + 1
    BY <1>3 DEF ReadLoop
  <2>2. reads' \in HoldCounts
    BY <1>0, <2>1 DEF TypeOK, HoldCounts
  <2>3. TypeOK'
    BY <1>3, <2>1, <2>2 DEF ReadLoop, TypeOK, Pcs, HoldCounts
  <2>4. \A u \in Threads : rrn'[u] <= reads'[u] /\ reads'[u] - rrn'[u] =
                              (IF u = t THEN (reads[u] - rrn[u]) + 1 ELSE reads[u] - rrn[u])
    <3> TAKE u \in Threads
    <3>1. rrn[u] \in Nat /\ reads[u] \in Nat /\ rrn[u] <= reads[u]
      BY RRWAssumption DEF TypeOK, CountsAreReads
    <3>2. rrn'[u] = rrn[u] /\ reads'[u] = (IF u = t THEN reads[u] + 1 ELSE reads[u])
      BY <2>1 DEF TypeOK
    <3> QED
      BY <3>1, <3>2
  <2>5. Anonymous' = [Anonymous EXCEPT ![t] = @ + 1]
    BY <2>4 DEF Anonymous
  <2>6. Anonymous \in HoldCounts /\ Anonymous' \in HoldCounts
    <3>1. \A u \in Threads : rrn'[u] \in 0 .. MaxDepth /\ reads'[u] \in 0 .. MaxDepth
      BY <2>3 DEF TypeOK
    <3>2. \A u \in Threads : reads'[u] - rrn'[u] \in 0 .. MaxDepth
      BY <2>4, <3>1, RRWAssumption
    <3> QED
      BY <3>2, AnonymousType DEF Anonymous, HoldCounts
  <2>7. Cardinality(Holds(Anonymous')) = Cardinality(Holds(Anonymous)) + 1
    BY <2>5, <2>6, HoldsUp
  <2>8. Holds(Anonymous)' = Holds(Anonymous') /\ Holds(rrn)' = Holds(rrn)
    BY <2>1 DEF Holds
  <2> QED
    BY <2>1, <2>3, <2>4, <2>7, <2>8 DEF CountsAreReads
<1> QED
  BY <1>1, <1>2, <1>3

\* rrw_exit() of a reader keeps the counts.
LEMMA ExitCounts ==
  ASSUME TypeOK, CountsAreReads, NEW t \in Threads, rrw_exit_read(t)
  PROVE  TypeOK' /\ CountsAreReads'
<1>0. /\ rrn[t] \in 0 .. MaxDepth /\ reads[t] \in 0 .. MaxDepth
      /\ rrn[t] <= reads[t] /\ reads[t] > 0 /\ reads[t] - 1 \in 0 .. MaxDepth
  BY RRWAssumption DEF TypeOK, CountsAreReads, rrw_exit_read
<1>1. /\ reads' = [reads EXCEPT ![t] = @ - 1]
      /\ reads' \in HoldCounts /\ reads \in HoldCounts /\ rrn \in HoldCounts
  BY <1>0 DEF rrw_exit_read, TypeOK, HoldCounts
<1>2. pc' \in [Threads -> Pcs]
  BY DEF rrw_exit_read, Broadcast, TypeOK, Pcs
<1>3. CASE rrn_find(t)
  <2>1. /\ rrn' = [rrn EXCEPT ![t] = @ - 1]
        /\ rr_linked_rcount' = rr_linked_rcount - 1
        /\ rr_anon_rcount' = rr_anon_rcount
    BY <1>3 DEF rrw_exit_read, rrn_find_and_remove
  <2>2. rrn' \in HoldCounts
    <3>1. rrn[t] - 1 \in 0 .. MaxDepth
      BY <1>0, <1>3, RRWAssumption DEF rrn_find
    <3> QED
      BY <2>1, <3>1 DEF TypeOK, HoldCounts
  <2>3. Cardinality(Holds(rrn')) = Cardinality(Holds(rrn)) - 1
    BY <1>1, <2>1, <2>2, HoldsDown
  <2>4. \A u \in Threads : rrn'[u] <= reads'[u] /\ reads'[u] - rrn'[u] = reads[u] - rrn[u]
    <3> TAKE u \in Threads
    <3>1. rrn[u] \in Nat /\ reads[u] \in Nat /\ rrn[u] <= reads[u]
      BY RRWAssumption DEF TypeOK, CountsAreReads
    <3>2. (u = t /\ rrn'[u] = rrn[u] - 1 /\ reads'[u] = reads[u] - 1)
            \/ (rrn'[u] = rrn[u] /\ reads'[u] = reads[u])
      BY <1>1, <2>1 DEF TypeOK
    <3> QED
      BY <3>1, <3>2
  <2>5. Anonymous' = Anonymous
    BY <2>4 DEF Anonymous
  <2>6. Holds(Anonymous)' = Holds(Anonymous) /\ Holds(rrn)' = Holds(rrn')
    BY <2>5 DEF Holds
  <2>7. rr_linked_rcount' \in Nat
    BY <1>3, <2>1 DEF TypeOK, rrn_find
  <2>8. TypeOK'
    BY <1>1, <1>2, <2>1, <2>2, <2>7 DEF TypeOK, rrw_exit_read, HoldCounts
  <2> QED
    BY <2>1, <2>3, <2>4, <2>6, <2>8 DEF CountsAreReads
<1>4. CASE ~rrn_find(t)
  <2>1. /\ rrn' = rrn
        /\ rr_linked_rcount' = rr_linked_rcount
        /\ rr_anon_rcount' = rr_anon_rcount - 1
    BY <1>4 DEF rrw_exit_read, rrn_find_and_remove
  <2>2. rr_anon_rcount > 0
    <3>1. rr_anon_rcount # 0
      BY <1>0, <1>4, WhatCountsTell
    <3> QED
      BY <3>1 DEF TypeOK
  <2>3. rrn[t] = 0
    <3>1. rrn[t] # 0 => ~(\A u \in Threads : rrn[u] = 0)
      OBVIOUS
    <3>2. rrn[t] # 0 => rr_linked_rcount # 0
      BY <1>1, <3>1, HoldsNone DEF CountsAreReads
    <3> QED
      BY <1>4, <3>2 DEF rrn_find
  <2>4. \A u \in Threads : rrn'[u] <= reads'[u] /\ reads'[u] - rrn'[u] =
                              (IF u = t THEN (reads[u] - rrn[u]) - 1 ELSE reads[u] - rrn[u])
    <3> TAKE u \in Threads
    <3>1. rrn[u] \in Nat /\ reads[u] \in Nat /\ rrn[u] <= reads[u]
      BY RRWAssumption DEF TypeOK, CountsAreReads
    <3>2. rrn'[u] = rrn[u] /\ reads'[u] = (IF u = t THEN reads[u] - 1 ELSE reads[u])
      BY <1>1, <2>1 DEF TypeOK
    <3> QED
      BY <1>0, <2>3, <3>1, <3>2
  <2>5. Anonymous' = [Anonymous EXCEPT ![t] = @ - 1]
    BY <2>4 DEF Anonymous
  <2>6. Anonymous \in HoldCounts /\ Anonymous' \in HoldCounts
    <3>1. \A u \in Threads : rrn'[u] \in 0 .. MaxDepth /\ reads'[u] \in 0 .. MaxDepth
      BY <1>1, <2>1 DEF HoldCounts
    <3>2. \A u \in Threads : reads'[u] - rrn'[u] \in 0 .. MaxDepth
      BY <2>4, <3>1, RRWAssumption
    <3> QED
      BY <3>2, AnonymousType DEF Anonymous, HoldCounts
  <2>7. Cardinality(Holds(Anonymous')) = Cardinality(Holds(Anonymous)) - 1
    BY <2>5, <2>6, HoldsDown
  <2>8. Holds(Anonymous)' = Holds(Anonymous') /\ Holds(rrn)' = Holds(rrn)
    BY <2>1 DEF Holds
  <2>9. TypeOK'
    <3>1. rr_anon_rcount' \in Nat
      BY <2>1, <2>2 DEF TypeOK
    <3> QED
      BY <1>1, <1>2, <2>1, <3>1 DEF TypeOK, rrw_exit_read, HoldCounts
  <2> QED
    BY <2>1, <2>4, <2>7, <2>8, <2>9 DEF CountsAreReads
<1> QED
  BY <1>3, <1>4

----------------------------------------------------------------------------
\* The inductive step, one lemma per kind of step.

\* Entering as a reader, from the first attempt or after a wakeup.
LEMMA ReadStep ==
  ASSUME RRWInv, NEW t \in Threads, pc[t] \in {"run", "readWoken"},
         rr_writer # t, reads[t] < MaxDepth, ReadLoop(t)
  PROVE  RRWInv'
<1>1. TypeOK' /\ CountsAreReads'
  BY ReadLoopCounts DEF RRWInv
<1>2. CASE ReadBlocked(t)
  <2>1. /\ pc' = [pc EXCEPT ![t] = "readSleep"]
        /\ UNCHANGED <<rr_writer, rr_anon_rcount, rr_linked_rcount,
                       rr_writer_wanted, rrn, reads>>
    BY <1>2 DEF ReadLoop
  <2>2. WriterIsAlone' /\ WriterInv'
    BY <2>1 DEF RRWInv, TypeOK, WriterIsAlone, WriterInv
  <2>3. ReentrantNeverSleeps'
    BY <1>2, <2>1, BlockedIsNew DEF RRWInv, TypeOK, ReentrantNeverSleeps
  <2>4. WantedInv'
    BY <2>1 DEF RRWInv, TypeOK, WantedInv
  <2>5. Held \/ \E u \in Threads : pc[u] = "writeWoken"
    <3>1. CASE rr_writer # NULL
      BY <3>1 DEF Held
    <3>2. CASE rr_writer_wanted
      <4>1. PICK w \in Threads : pc[w] \in {"writeSleep", "writeWoken"}
        BY <3>2 DEF RRWInv, WantedInv
      <4> QED
        BY <4>1 DEF RRWInv, SleepersHaveAReason
    <3> QED
      BY <1>2, <3>1, <3>2 DEF ReadBlocked
  <2>6. (Held <=> Held') /\ \A u \in Threads : pc[u] = "writeWoken" => pc'[u] = "writeWoken"
    BY <2>1 DEF Held, RRWInv, TypeOK
  <2>7. SleepersHaveAReason'
    BY <2>1, <2>5, <2>6 DEF RRWInv, TypeOK, SleepersHaveAReason
  <2> QED
    BY <1>1, <2>2, <2>3, <2>4, <2>7 DEF RRWInv
<1>3. CASE ~ReadBlocked(t)
  <2>1. /\ pc' = [pc EXCEPT ![t] = "run"]
        /\ reads' = [reads EXCEPT ![t] = @ + 1]
        /\ UNCHANGED <<rr_writer, rr_writer_wanted>>
        /\ rr_writer = NULL
    BY <1>3 DEF ReadLoop, ReadBlocked
  <2>2. WriterIsAlone'
    BY <2>1 DEF WriterIsAlone
  <2>3. WriterInv'
    BY <2>1 DEF RRWInv, TypeOK, WriterInv
  <2>4. ReentrantNeverSleeps'
    BY <2>1 DEF RRWInv, TypeOK, ReentrantNeverSleeps
  <2>5. WantedInv'
    BY <2>1 DEF RRWInv, TypeOK, WantedInv
  <2>6. reads'[t] > 0
    BY <2>1, RRWAssumption DEF RRWInv, TypeOK
  <2>7. SleepersHaveAReason'
    BY <2>6 DEF SleepersHaveAReason, Held
  <2> QED
    BY <1>1, <2>2, <2>3, <2>4, <2>5, <2>7 DEF RRWInv
<1> QED
  BY <1>2, <1>3

\* Entering as a writer, from the first attempt or after a wakeup.
LEMMA WriteStep ==
  ASSUME RRWInv, NEW t \in Threads, pc[t] \in {"run", "writeWoken"},
         rr_writer # t, reads[t] = 0, WriteLoop(t)
  PROVE  RRWInv'
<1>1. UNCHANGED <<rr_anon_rcount, rr_linked_rcount, rrn, reads>>
  BY DEF WriteLoop
<1>2. CountsAreReads'
  BY <1>1 DEF RRWInv, CountsAreReads, Holds, Anonymous
<1>3. rr_writer # NULL => \A u \in Threads : reads[u] = 0
  BY DEF RRWInv, WriterIsAlone
<1>4. WriteBlocked <=> Held
  <2>1. rr_anon_rcount > 0 \/ rr_linked_rcount > 0 <=>
          ~(\A u \in Threads : reads[u] = 0)
    BY WhatCountsTell DEF RRWInv, TypeOK
  <2>2. \A u \in Threads : reads[u] > 0 <=> reads[u] # 0
    BY RRWAssumption DEF RRWInv, TypeOK
  <2> QED
    BY <2>1, <2>2 DEF WriteBlocked, Held
<1>5. CASE WriteBlocked
  <2>1. /\ rr_writer_wanted' = TRUE
        /\ pc' = [pc EXCEPT ![t] = "writeSleep"]
        /\ rr_writer' = rr_writer
    BY <1>5 DEF WriteLoop
  <2>2. TypeOK'
    BY <1>1, <2>1 DEF RRWInv, TypeOK, Pcs
  <2>3. WriterIsAlone' /\ WriterInv' /\ ReentrantNeverSleeps'
    BY <1>1, <2>1 DEF RRWInv, TypeOK, WriterIsAlone, WriterInv,
                      ReentrantNeverSleeps
  <2>4. pc'[t] = "writeSleep"
    BY <2>1 DEF RRWInv, TypeOK
  <2>5. WantedInv'
    BY <2>4 DEF WantedInv
  <2>6. Held'
    BY <1>1, <1>4, <1>5, <2>1 DEF Held
  <2>7. SleepersHaveAReason'
    BY <2>6 DEF SleepersHaveAReason
  <2> QED
    BY <1>2, <2>2, <2>3, <2>5, <2>7 DEF RRWInv
<1>6. CASE ~WriteBlocked
  <2>1. /\ rr_writer_wanted' = FALSE
        /\ pc' = [pc EXCEPT ![t] = "run"]
        /\ rr_writer' = t
    BY <1>6 DEF WriteLoop
  <2>2. TypeOK'
    BY <1>1, <2>1 DEF RRWInv, TypeOK, Pcs
  <2>3. \A u \in Threads : reads'[u] = 0
    <3>1. \A u \in Threads : ~(reads[u] > 0)
      BY <1>4, <1>6 DEF Held
    <3> QED
      BY <1>1, <3>1, RRWAssumption DEF RRWInv, TypeOK
  <2>4. WriterIsAlone' /\ ReentrantNeverSleeps'
    BY <2>3 DEF WriterIsAlone, ReentrantNeverSleeps
  <2>5. WriterInv'
    BY <2>1, <2>3 DEF RRWInv, TypeOK, WriterInv
  <2>6. WantedInv'
    BY <2>1 DEF WantedInv
  <2>7. Held'
    BY <2>1, RRWAssumption DEF Held
  <2>8. SleepersHaveAReason'
    BY <2>7 DEF SleepersHaveAReason
  <2> QED
    BY <1>2, <2>2, <2>4, <2>5, <2>6, <2>8 DEF RRWInv
<1> QED
  BY <1>5, <1>6

\* After a broadcast nobody sleeps, and those who waited still do.
LEMMA BroadcastWakes ==
  ASSUME TypeOK, NEW t \in Threads, pc[t] = "run", Broadcast(t)
  PROVE  \A u \in Threads :
           /\ pc'[u] \notin {"readSleep", "writeSleep"}
           /\ pc'[u] \in {"readSleep", "readWoken"} <=>
                pc[u] \in {"readSleep", "readWoken"}
           /\ pc'[u] \in {"writeSleep", "writeWoken"} <=>
                pc[u] \in {"writeSleep", "writeWoken"}
           /\ pc[u] = "run" => pc'[u] = "run"
BY DEF TypeOK, Broadcast, Pcs

\* Leaving as a reader.
LEMMA ExitReadStep ==
  ASSUME RRWInv, NEW t \in Threads, rrw_exit_read(t)
  PROVE  RRWInv'
<1>1. TypeOK' /\ CountsAreReads'
  BY ExitCounts DEF RRWInv
<1>2. /\ pc[t] = "run"
      /\ rr_writer = NULL /\ rr_writer' = NULL
      /\ rr_writer_wanted' = rr_writer_wanted
      /\ reads' = [reads EXCEPT ![t] = @ - 1]
      /\ Broadcast(t) \/ pc' = pc
  BY DEF rrw_exit_read
<1>3. \A u \in Threads :
        /\ pc'[u] \in {"readSleep", "readWoken"} <=> pc[u] \in {"readSleep", "readWoken"}
        /\ pc'[u] \in {"writeSleep", "writeWoken"} <=> pc[u] \in {"writeSleep", "writeWoken"}
  BY <1>2, BroadcastWakes DEF RRWInv
<1>4. WriterIsAlone'
  BY <1>2 DEF WriterIsAlone
<1>5. ReentrantNeverSleeps'
  BY <1>2, <1>3 DEF RRWInv, TypeOK, ReentrantNeverSleeps
<1>6. WriterInv'
  BY <1>2, <1>3, RRWAssumption DEF RRWInv, TypeOK, WriterInv
<1>7. WantedInv'
  BY <1>2, <1>3 DEF RRWInv, WantedInv
<1>8. SleepersHaveAReason'
  <2>1. CASE Broadcast(t)
    <3>1. \A u \in Threads : pc'[u] \notin {"readSleep", "writeSleep"}
      BY <1>2, <2>1, BroadcastWakes DEF RRWInv
    <3> QED
      BY <3>1 DEF SleepersHaveAReason
  <2>2. CASE ~Broadcast(t)
    <3>1. ~(rr_linked_rcount' = 0 /\ rr_anon_rcount' = 0)
      <4>1. CASE rrn_find(t)
        <5>1. rr_linked_rcount' = rr_linked_rcount - 1 /\ rr_linked_rcount # 1
          BY <2>2, <4>1 DEF rrw_exit_read, rrn_find_and_remove, ExitWakes
        <5> QED
          BY <5>1 DEF RRWInv, TypeOK
      <4>2. CASE ~rrn_find(t)
        <5>1. rr_anon_rcount' = rr_anon_rcount - 1 /\ rr_anon_rcount # 1
          BY <2>2, <4>2 DEF rrw_exit_read, rrn_find_and_remove, ExitWakes
        <5> QED
          BY <5>1 DEF RRWInv, TypeOK
      <4> QED
        BY <4>1, <4>2
    <3>2. /\ rr_linked_rcount' = Cardinality(Holds(rrn'))
          /\ rr_anon_rcount' = Cardinality(Holds(Anonymous'))
      BY <1>1 DEF CountsAreReads, Holds
    <3>3. ASSUME \A u \in Threads : reads'[u] = 0
          PROVE  FALSE
      <4>1. rrn' \in HoldCounts /\ \A u \in Threads : rrn'[u] = 0
        BY <1>1, <3>3, RRWAssumption DEF TypeOK, CountsAreReads, HoldCounts
      <4>2. \A u \in Threads : Anonymous'[u] = 0
        BY <3>3, <4>1 DEF Anonymous
      <4>3. Anonymous' \in HoldCounts
        BY <3>3, <4>1, RRWAssumption DEF Anonymous, HoldCounts
      <4> QED
        BY <3>1, <3>2, <4>1, <4>2, <4>3, HoldsNone
    <3>4. PICK u \in Threads : reads'[u] # 0
      BY <3>3
    <3>5. Held'
      BY <1>1, <3>4, RRWAssumption DEF TypeOK, Held
    <3> QED
      BY <3>5 DEF SleepersHaveAReason
  <2> QED
    BY <2>1, <2>2
<1> QED
  BY <1>1, <1>4, <1>5, <1>6, <1>7, <1>8 DEF RRWInv

\* Leaving as the writer.
LEMMA ExitWriteStep ==
  ASSUME RRWInv, NEW t \in Threads, rrw_exit_write(t)
  PROVE  RRWInv'
<1>1. /\ pc[t] = "run" /\ rr_writer' = NULL /\ Broadcast(t)
      /\ UNCHANGED <<rr_anon_rcount, rr_linked_rcount, rr_writer_wanted, rrn, reads>>
  BY DEF rrw_exit_write
<1>2. TypeOK'
  BY <1>1 DEF RRWInv, TypeOK, Broadcast, Pcs
<1>3. CountsAreReads'
  BY <1>1 DEF RRWInv, CountsAreReads, Holds, Anonymous
<1>4. \A u \in Threads :
        /\ pc'[u] \notin {"readSleep", "writeSleep"}
        /\ pc'[u] \in {"readSleep", "readWoken"} <=> pc[u] \in {"readSleep", "readWoken"}
        /\ pc'[u] \in {"writeSleep", "writeWoken"} <=> pc[u] \in {"writeSleep", "writeWoken"}
  BY <1>1, BroadcastWakes DEF RRWInv
<1>5. WriterIsAlone' /\ SleepersHaveAReason'
  BY <1>1, <1>4 DEF WriterIsAlone, SleepersHaveAReason
<1>6. ReentrantNeverSleeps' /\ WantedInv'
  BY <1>1, <1>4 DEF RRWInv, ReentrantNeverSleeps, WantedInv
<1>7. WriterInv'
  BY <1>1, <1>4, RRWAssumption DEF RRWInv, WriterInv
<1> QED
  BY <1>2, <1>3, <1>5, <1>6, <1>7 DEF RRWInv

\* The lock starts free, with both counts at zero.
LEMMA InitInv == Init => RRWInv
<1> SUFFICES ASSUME Init
             PROVE  RRWInv
  OBVIOUS
<1>1. TypeOK
  <2>1. 0 \in 0 .. MaxDepth
    BY RRWAssumption
  <2> QED
    BY <2>1 DEF Init, TypeOK, Pcs
<1>2. rrn \in HoldCounts /\ Anonymous \in HoldCounts
  BY RRWAssumption DEF Init, HoldCounts, Anonymous
<1>3. \A t \in Threads : rrn[t] = 0 /\ Anonymous[t] = 0
  BY DEF Init, Anonymous
<1>4. CountsAreReads
  BY <1>2, <1>3, HoldsNone DEF Init, CountsAreReads
<1>5. WriterIsAlone /\ ReentrantNeverSleeps /\ WriterInv /\ WantedInv
        /\ SleepersHaveAReason
  BY RRWAssumption DEF Init, WriterIsAlone, ReentrantNeverSleeps, WriterInv,
                       WantedInv, SleepersHaveAReason
<1> QED
  BY <1>1, <1>4, <1>5 DEF RRWInv

\* RRWInv holds in every reachable state.
THEOREM RRWInvariance == Spec => []RRWInv
<1>1. RRWInv /\ [Next]_vars => RRWInv'
  <2> SUFFICES ASSUME RRWInv, [Next]_vars
               PROVE  RRWInv'
    OBVIOUS
  <2>1. ASSUME NEW t \in Threads, rrw_enter_read(t)
        PROVE  RRWInv'
    BY <2>1, ReadStep DEF rrw_enter_read
  <2>2. ASSUME NEW t \in Threads, rrw_enter_read_wakeup(t)
        PROVE  RRWInv'
    <3>1. pc[t] = "readWoken" /\ ReadLoop(t)
      BY <2>2 DEF rrw_enter_read_wakeup
    <3>2. reads[t] = 0 /\ rr_writer # t
      BY <3>1 DEF RRWInv, ReentrantNeverSleeps, WriterInv
    <3> QED
      BY <3>1, <3>2, ReadStep, RRWAssumption
  <2>3. ASSUME NEW t \in Threads, rrw_enter_write(t)
        PROVE  RRWInv'
    BY <2>3, WriteStep DEF rrw_enter_write
  <2>4. ASSUME NEW t \in Threads, rrw_enter_write_wakeup(t)
        PROVE  RRWInv'
    <3>1. pc[t] = "writeWoken" /\ WriteLoop(t)
      BY <2>4 DEF rrw_enter_write_wakeup
    <3>2. reads[t] = 0 /\ rr_writer # t
      BY <3>1 DEF RRWInv, WriterInv
    <3> QED
      BY <3>1, <3>2, WriteStep
  <2>5. CASE UNCHANGED vars
    BY <2>5 DEF vars, RRWInv, TypeOK, CountsAreReads, Holds, Anonymous,
                WriterIsAlone, ReentrantNeverSleeps, WriterInv, WantedInv,
                SleepersHaveAReason, Held
  <2> QED
    BY <2>1, <2>2, <2>3, <2>4, <2>5, ExitReadStep, ExitWriteStep DEF Next
<1> QED
  BY InitInv, <1>1, PTL DEF Spec

----------------------------------------------------------------------------
\* rr_anon_rcount and rr_linked_rcount never go below zero in rrw_exit().
THEOREM RRWTypeCorrect == Spec => []TypeOK
<1>1. RRWInv => TypeOK
  BY DEF RRWInv
<1> QED
  BY RRWInvariance, <1>1, PTL

\* The counts of rrw_enter_read() and rrw_exit() add up to the read locks.
THEOREM CountsExact == Spec => []CountsAreReads
<1>1. RRWInv => CountsAreReads
  BY DEF RRWInv
<1> QED
  BY RRWInvariance, <1>1, PTL

\* rrw_enter_write() gives the lock to a writer only when nobody reads, and
\* rrw_enter_read() lets nobody in beside it.
THEOREM Exclusion == Spec => []WriterIsAlone
<1>1. RRWInv => WriterIsAlone
  BY DEF RRWInv
<1> QED
  BY RRWInvariance, <1>1, PTL

\* The while loop of rrw_enter_read() never puts a thread to sleep that
\* reads already, although an anonymous hold leaves no trace of its owner.
THEOREM ReentrantReads == Spec => []ReentrantNeverSleeps
<1>1. RRWInv => ReentrantNeverSleeps
  BY DEF RRWInv
<1> QED
  BY RRWInvariance, <1>1, PTL

\* The broadcasts of rrw_exit() leave nobody asleep on a free lock.
THEOREM NoLostWakeup == Spec => []SleepersHaveAReason
<1>1. RRWInv => SleepersHaveAReason
  BY DEF RRWInv
<1> QED
  BY RRWInvariance, <1>1, PTL

=============================================================================
