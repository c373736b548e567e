----------------------------- MODULE RwstProofs -----------------------------
(***************************************************************************)
(* Proofs for RwstLock: for any finite set of threads, rwst_count says who *)
(* holds the lock, and no thread sleeps without a reason.                  *)
(*                                                                         *)
(* TypeOK alone is not inductive: that rwst_exit() of a reader leaves a    *)
(* count that is not negative needs CountIsHolders.  SleepersHaveAReason   *)
(* needs the type of rwst_count only.  That a woken thread may be granted  *)
(* the lock needs that it holds nothing yet, WaitersHoldNothing.  IInv is  *)
(* the four together.                                                      *)
(***************************************************************************)
EXTENDS RwstLock, FiniteSetTheorems, TLAPS

\* Who is in rwst_enter_common() does not hold the lock.
WaitersHoldNothing == \A t \in Threads : pc[t] # "run" => mode[t] = "none"

IInv ==
  /\ TypeOK
  /\ CountIsHolders
  /\ SleepersHaveAReason
  /\ WaitersHoldNothing

\* The sets of holders are finite.
LEMMA HoldersFinite ==
  ASSUME TypeOK, NEW m
  PROVE  IsFiniteSet(In(m)) /\ Cardinality(In(m)) \in Nat
<1>1. In(m) \in SUBSET Threads
  BY DEF In
<1>2. IsFiniteSet(In(m))
  BY <1>1, FS_Subset, RwstAssumption
<1> QED
  BY <1>2, FS_CardinalityType

\* At first nobody holds the lock and nobody sleeps.
LEMMA InitIInv == Init => IInv
<1> SUFFICES ASSUME Init PROVE IInv
  OBVIOUS
<1>1. TypeOK
  BY DEF Init, TypeOK, Pcs, WRITER
<1>2. In("reader") = {} /\ In("writer") = {}
  BY DEF Init, In
<1>3. CountIsHolders
  BY <1>2, FS_EmptySet DEF Init, CountIsHolders, WRITER
<1>4. SleepersHaveAReason
  BY DEF Init, SleepersHaveAReason
<1>5. WaitersHoldNothing
  BY DEF Init, WaitersHoldNothing
<1> QED
  BY <1>1, <1>3, <1>4, <1>5 DEF IInv

\* A grant that Blocked() allows keeps the count exact.
LEMMA GrantCount ==
  ASSUME IInv, NEW t \in Threads, NEW m \in {"reader", "writer"},
         mode[t] = "none", ~Blocked(m), Grant(t, m)
  PROVE  TypeOK' /\ CountIsHolders'
<1> USE DEF IInv
<1>1. rwst_count \in Nat
  BY DEF Blocked, TypeOK, RWST_WRITE_HELD, RWST_HELD, WRITER
<1>2. In("writer") = {} /\ rwst_count = Cardinality(In("reader"))
  BY <1>1 DEF CountIsHolders, WRITER
<1>3. TypeOK'
  BY <1>1 DEF Grant, TypeOK, Pcs, WRITER
<1>4. CASE m = "reader"
  <2>1. In("reader")' = In("reader") \cup {t} /\ In("writer")' = {}
    BY <1>2, <1>4 DEF Grant, In, TypeOK
  <2>2. t \notin In("reader")
    BY DEF In
  <2>3. Cardinality(In("reader") \cup {t}) = Cardinality(In("reader")) + 1
    BY <2>2, HoldersFinite, FS_AddElement
  <2>4. rwst_count' = Cardinality(In("reader")')
    BY <1>2, <1>4, <2>1, <2>3 DEF Grant
  <2>5. rwst_count' # WRITER
    BY <1>1, <1>4 DEF Grant, WRITER
  <2> QED
    BY <1>3, <2>1, <2>4, <2>5 DEF CountIsHolders
<1>5. CASE m = "writer"
  <2>1. rwst_count = 0
    BY <1>5 DEF Blocked, RWST_HELD
  <2>2. In("reader") = {}
    BY <1>2, <2>1, HoldersFinite, FS_EmptySet
  <2>3. In("writer")' = {t} /\ In("reader")' = {}
    BY <1>2, <1>5, <2>2 DEF Grant, In, TypeOK
  <2>4. rwst_count' = WRITER
    BY <1>5 DEF Grant
  <2> QED
    BY <1>3, <2>3, <2>4 DEF CountIsHolders
<1> QED
  BY <1>4, <1>5

\* Whoever is left asleep when the lock is granted has a reason: readers the
\* writer that kept them out, writers the new holder.
LEMMA GrantSleepers ==
  ASSUME IInv, NEW t \in Threads, NEW m \in {"reader", "writer"},
         ~Blocked(m), Grant(t, m),
         m = "reader" => pc[t] \in {"run", "rdSignalled", "rdIntr"}
  PROVE  SleepersHaveAReason'
<1> USE DEF IInv
<1>1. rwst_count \in Nat
  BY DEF Blocked, TypeOK, RWST_WRITE_HELD, RWST_HELD, WRITER
<1>2. (RWST_HELD)'
  BY <1>1 DEF Grant, RWST_HELD, WRITER
<1>3. ASSUME NEW u \in Threads, pc'[u] = "wrSleep"
      PROVE  (RWST_HELD)' \/ \E w \in Threads : pc'[w] = "wrSignalled"
  BY <1>2
<1>4. ASSUME NEW u \in Threads, pc'[u] = "rdSleep"
      PROVE  \/ (RWST_WRITE_HELD)'
             \/ \E w \in Threads : pc'[w] \in {"wrSleep", "wrSignalled", "wrIntr"}
  <2>1. CASE m = "writer"
    BY <2>1 DEF Grant, RWST_WRITE_HELD, WRITER
  <2>2. CASE m = "reader"
    <3>1. u # t /\ pc[u] = "rdSleep"
      BY <1>4 DEF Grant, TypeOK
    <3>2. ~RWST_WRITE_HELD
      BY <1>1 DEF RWST_WRITE_HELD
    <3>3. PICK w \in Threads : pc[w] \in {"wrSleep", "wrSignalled", "wrIntr"}
      BY <3>1, <3>2 DEF SleepersHaveAReason
    <3>4. w # t
      BY <2>2, <3>3
    <3>5. pc'[w] = pc[w]
      BY <3>4 DEF Grant, TypeOK
    <3> QED
      BY <3>3, <3>5
  <2> QED
    BY <2>1, <2>2
<1> QED
  BY <1>3, <1>4 DEF SleepersHaveAReason

\* A thread goes to sleep only when something blocks it, which is its reason.
LEMMA SleepKeeps ==
  ASSUME IInv, NEW t \in Threads, NEW m \in {"reader", "writer"}, NEW s \in BOOLEAN,
         mode[t] = "none", Blocked(m), Sleep(t, m, s),
         m = "reader" => pc[t] \in {"run", "rdSignalled", "rdIntr"}
  PROVE  IInv'
<1> USE DEF IInv
<1>1. TypeOK'
  BY DEF Sleep, TypeOK, Pcs
<1>2. CountIsHolders'
  BY DEF Sleep, CountIsHolders, In
<1>3. ASSUME NEW u \in Threads, pc'[u] = "wrSleep"
      PROVE  (RWST_HELD)' \/ \E w \in Threads : pc'[w] = "wrSignalled"
  <2>1. CASE m = "writer"
    BY <2>1 DEF Sleep, Blocked, RWST_HELD
  <2>2. CASE m = "reader"
    <3>1. pc[u] = "wrSleep"
      BY <1>3, <2>2 DEF Sleep, TypeOK
    <3>2. CASE RWST_HELD
      BY <3>2 DEF Sleep, RWST_HELD
    <3>3. CASE \E w \in Threads : pc[w] = "wrSignalled"
      <4>1. PICK w \in Threads : pc[w] = "wrSignalled"
        BY <3>3
      <4>2. pc'[w] = "wrSignalled"
        BY <2>2, <4>1 DEF Sleep, TypeOK
      <4> QED
        BY <4>2
    <3> QED
      BY <3>1, <3>2, <3>3 DEF SleepersHaveAReason
  <2> QED
    BY <2>1, <2>2
<1>4. ASSUME NEW u \in Threads, pc'[u] = "rdSleep"
      PROVE  \/ (RWST_WRITE_HELD)'
             \/ \E w \in Threads : pc'[w] \in {"wrSleep", "wrSignalled", "wrIntr"}
  <2>1. CASE m = "writer"
    <3>1. pc'[t] = "wrSleep"
      BY <2>1 DEF Sleep, TypeOK
    <3> QED
      BY <3>1
  <2>2. CASE m = "reader"
    <3>1. RWST_WRITE_HELD \/ \E w \in Threads : pc[w] \in {"wrSleep", "wrSignalled", "wrIntr"}
      BY <2>2 DEF Blocked, RWST_WRITE_WANTED
    <3>2. CASE RWST_WRITE_HELD
      BY <3>2 DEF Sleep, RWST_WRITE_HELD
    <3>3. CASE \E w \in Threads : pc[w] \in {"wrSleep", "wrSignalled", "wrIntr"}
      <4>1. PICK w \in Threads : pc[w] \in {"wrSleep", "wrSignalled", "wrIntr"}
        BY <3>3
      <4>2. pc'[w] = pc[w]
        BY <2>2, <4>1 DEF Sleep, TypeOK
      <4> QED
        BY <4>1, <4>2
    <3> QED
      BY <3>1, <3>2, <3>3
  <2> QED
    BY <2>1, <2>2
<1>5. SleepersHaveAReason'
  BY <1>3, <1>4 DEF SleepersHaveAReason
<1>6. WaitersHoldNothing'
  BY DEF Sleep, WaitersHoldNothing, TypeOK
<1> QED
  BY <1>1, <1>2, <1>5, <1>6

\* One round of the loop of rwst_enter_common(), by a thread that holds nothing.
LEMMA RoundKeeps ==
  ASSUME IInv, NEW t \in Threads, NEW m \in {"reader", "writer"}, NEW s \in BOOLEAN,
         mode[t] = "none",
         m = "reader" => pc[t] \in {"run", "rdSignalled", "rdIntr"},
         IF Blocked(m) THEN Sleep(t, m, s) ELSE Grant(t, m)
  PROVE  IInv'
<1>1. CASE Blocked(m)
  BY <1>1, SleepKeeps
<1>2. CASE ~Blocked(m)
  <2>1. TypeOK' /\ CountIsHolders'
    BY <1>2, GrantCount
  <2>2. SleepersHaveAReason'
    BY <1>2, GrantSleepers
  <2>3. WaitersHoldNothing'
    BY <1>2 DEF Grant, WaitersHoldNothing, TypeOK, IInv
  <2> QED
    BY <2>1, <2>2, <2>3 DEF IInv
<1> QED
  BY <1>1, <1>2

\* A step that only moves program counters keeps IInv when it puts nobody new
\* to sleep or into the loop and leaves every sleeper a reason.
LEMMA MoveKeeps ==
  ASSUME IInv, UNCHANGED <<rwst_count, mode>>,
         sig' \in [Threads -> BOOLEAN], pc' \in [Threads -> Pcs],
         \A u \in Threads : pc[u] = "run" => pc'[u] = "run",
         SleepersHaveAReason'
  PROVE  IInv'
<1>1. TypeOK'
  BY DEF IInv, TypeOK
<1>2. CountIsHolders'
  BY DEF IInv, CountIsHolders, In
<1>3. WaitersHoldNothing'
  BY DEF IInv, WaitersHoldNothing
<1> QED
  BY <1>1, <1>2, <1>3 DEF IInv

\* cv_signal() wakes one of those asleep, if there is one, and nobody else.
LEMMA SignalSpec ==
  ASSUME NEW p \in [Threads -> Pcs], NEW from \in Pcs, NEW to \in Pcs, NEW q,
         q \in Signal(p, from, to)
  PROVE  /\ q \in [Threads -> Pcs]
         /\ \A u \in Threads : q[u] = p[u] \/ (p[u] = from /\ q[u] = to)
         /\ (\E u \in Threads : p[u] = from) => \E u \in Threads : q[u] = to
<1> DEFINE asleep == {u \in Threads : p[u] = from}
<1>1. CASE asleep = {}
  BY <1>1 DEF Signal
<1>2. CASE asleep # {}
  <2>1. PICK u \in asleep : q = [p EXCEPT ![u] = to]
    BY <1>2 DEF Signal
  <2> QED
    BY <2>1
<1> QED
  BY <1>1, <1>2

\* A signal that takes a thread off its queue leaves the others their reasons.
LEMMA InterruptKeeps ==
  ASSUME IInv, NEW t \in Threads, Interrupt(t)
  PROVE  IInv'
<1> USE DEF IInv
<1>1. pc' \in [Threads -> Pcs] /\ sig' \in [Threads -> BOOLEAN]
  BY DEF Interrupt, TypeOK, Pcs
<1>2. \A u \in Threads : u # t => pc'[u] = pc[u]
  BY DEF Interrupt, TypeOK
<1>3. /\ pc[t] \in {"rdSleep", "wrSleep"}
      /\ pc'[t] = IF pc[t] = "rdSleep" THEN "rdIntr" ELSE "wrIntr"
  BY DEF Interrupt, TypeOK
<1>4. ASSUME NEW u \in Threads, pc'[u] = "wrSleep"
      PROVE  (RWST_HELD)' \/ \E w \in Threads : pc'[w] = "wrSignalled"
  <2>1. pc[u] = "wrSleep"
    BY <1>2, <1>3, <1>4
  <2>2. RWST_HELD \/ \E w \in Threads : pc[w] = "wrSignalled"
    BY <2>1 DEF SleepersHaveAReason
  <2> QED
    BY <1>2, <1>3, <2>2 DEF Interrupt, RWST_HELD
<1>5. ASSUME NEW u \in Threads, pc'[u] = "rdSleep"
      PROVE  \/ (RWST_WRITE_HELD)'
             \/ \E w \in Threads : pc'[w] \in {"wrSleep", "wrSignalled", "wrIntr"}
  <2>1. pc[u] = "rdSleep"
    BY <1>2, <1>3, <1>5
  <2>2. RWST_WRITE_HELD
        \/ \E w \in Threads : pc[w] \in {"wrSleep", "wrSignalled", "wrIntr"}
    BY <2>1 DEF SleepersHaveAReason
  <2> QED
    BY <1>2, <1>3, <2>2 DEF Interrupt, RWST_WRITE_HELD
<1>6. SleepersHaveAReason'
  BY <1>4, <1>5 DEF SleepersHaveAReason
<1> QED
  BY <1>1, <1>2, <1>3, <1>6, MoveKeeps DEF Interrupt

\* A reader that returns EINTR kept nobody out; it may pass its signal on.
LEMMA ReadEintrKeeps ==
  ASSUME IInv, NEW t \in Threads, rwst_enter_read_eintr(t)
  PROVE  IInv'
<1> USE DEF IInv
<1> DEFINE p == [pc EXCEPT ![t] = "run"]
<1>1. p \in [Threads -> Pcs] /\ p[t] = "run" /\ \A u \in Threads \ {t} : p[u] = pc[u]
  BY DEF TypeOK, Pcs
<1>2. pc[t] \in {"rdSignalled", "rdIntr"}
  BY DEF rwst_enter_read_eintr
<1>3. PICK q \in IF pc[t] = "rdSignalled" THEN Signal(p, "rdSleep", "rdSignalled")
                                          ELSE {p} : Eintr(t, q)
  BY DEF rwst_enter_read_eintr
<1> HIDE DEF p
<1>4. /\ q \in [Threads -> Pcs]
      /\ \A u \in Threads : q[u] = p[u] \/ (p[u] = "rdSleep" /\ q[u] = "rdSignalled")
  <2>1. CASE pc[t] = "rdSignalled"
    <3>1. q \in Signal(p, "rdSleep", "rdSignalled")
      BY <1>3, <2>1
    <3>2. "rdSleep" \in Pcs /\ "rdSignalled" \in Pcs
      BY DEF Pcs
    <3> QED
      BY <1>1, <3>1, <3>2, SignalSpec
  <2>2. CASE pc[t] # "rdSignalled"
    BY <1>1, <1>3, <2>2
  <2> QED
    BY <2>1, <2>2
<1>5. pc' = q /\ sig' \in [Threads -> BOOLEAN] /\ UNCHANGED <<rwst_count, mode>>
  BY <1>3 DEF Eintr, TypeOK
<1>6. ASSUME NEW u \in Threads, pc'[u] = "wrSleep"
      PROVE  (RWST_HELD)' \/ \E w \in Threads : pc'[w] = "wrSignalled"
  <2>1. pc[u] = "wrSleep"
    BY <1>1, <1>4, <1>5, <1>6
  <2>2. RWST_HELD \/ \E w \in Threads : pc[w] = "wrSignalled"
    BY <2>1 DEF SleepersHaveAReason
  <2> QED
    BY <1>1, <1>2, <1>4, <1>5, <2>2 DEF RWST_HELD
<1>7. ASSUME NEW u \in Threads, pc'[u] = "rdSleep"
      PROVE  \/ (RWST_WRITE_HELD)'
             \/ \E w \in Threads : pc'[w] \in {"wrSleep", "wrSignalled", "wrIntr"}
  <2>1. pc[u] = "rdSleep"
    BY <1>1, <1>4, <1>5, <1>7
  <2>2. CASE RWST_WRITE_HELD
    BY <1>5, <2>2 DEF RWST_WRITE_HELD
  <2>3. CASE \E w \in Threads : pc[w] \in {"wrSleep", "wrSignalled", "wrIntr"}
    <3>1. PICK w \in Threads : pc[w] \in {"wrSleep", "wrSignalled", "wrIntr"}
      BY <2>3
    <3>2. pc'[w] = pc[w]
      BY <1>1, <1>2, <1>4, <1>5, <3>1
    <3> QED
      BY <3>1, <3>2
  <2> QED
    BY <2>1, <2>2, <2>3 DEF SleepersHaveAReason
<1>8. SleepersHaveAReason'
  BY <1>6, <1>7 DEF SleepersHaveAReason
<1>9. \A u \in Threads : pc[u] = "run" => pc'[u] = "run"
  BY <1>1, <1>4, <1>5
<1> QED
  BY <1>4, <1>5, <1>8, <1>9, MoveKeeps

\* A writer that returns EINTR passes its signal on to another writer, and
\* when none is left it wakes the readers.
LEMMA WriteEintrKeeps ==
  ASSUME IInv, NEW t \in Threads, rwst_enter_write_eintr(t)
  PROVE  IInv'
<1> USE DEF IInv
<1> DEFINE p == [pc EXCEPT ![t] = "run"]
<1>1. p \in [Threads -> Pcs] /\ p[t] = "run" /\ \A u \in Threads \ {t} : p[u] = pc[u]
  BY DEF TypeOK, Pcs
<1>2. pc[t] \in {"wrSignalled", "wrIntr"}
  BY DEF rwst_enter_write_eintr
<1>3. PICK q \in PassOn(t, p) : Eintr(t, EintrWake(q))
  BY DEF rwst_enter_write_eintr
<1> HIDE DEF p
<1>4. /\ q \in [Threads -> Pcs]
      /\ \A u \in Threads : q[u] = p[u] \/ (p[u] = "wrSleep" /\ q[u] = "wrSignalled")
      /\ pc[t] = "wrSignalled" =>
           ((\E u \in Threads : p[u] = "wrSleep") =>
              \E u \in Threads : q[u] = "wrSignalled")
  <2>1. CASE pc[t] = "wrSignalled"
    <3>1. q \in Signal(p, "wrSleep", "wrSignalled")
      BY <1>3, <2>1 DEF PassOn
    <3>2. "wrSleep" \in Pcs /\ "wrSignalled" \in Pcs
      BY DEF Pcs
    <3> QED
      BY <1>1, <3>1, <3>2, SignalSpec
  <2>2. CASE pc[t] # "wrSignalled"
    BY <1>1, <1>3, <2>2 DEF PassOn
  <2> QED
    BY <2>1, <2>2
<1>5. pc' = EintrWake(q) /\ sig' \in [Threads -> BOOLEAN] /\ UNCHANGED <<rwst_count, mode>>
  BY <1>3 DEF Eintr, TypeOK
<1>6. CASE ~RWST_WRITE_HELD /\ ~RWST_WRITE_WANTED(q)
  <2>1. pc' = RWST_READ_WAKE_ALL(q)
    BY <1>5, <1>6 DEF EintrWake
  <2>2. \A u \in Threads : pc'[u] = IF q[u] = "rdSleep" THEN "rdSignalled" ELSE q[u]
    BY <2>1 DEF RWST_READ_WAKE_ALL
  <2>3. pc' \in [Threads -> Pcs]
    BY <1>4, <2>1 DEF RWST_READ_WAKE_ALL, Pcs
  <2>4. \A u \in Threads : pc'[u] # "rdSleep" /\ pc'[u] # "wrSleep"
    BY <1>6, <2>2 DEF RWST_WRITE_WANTED
  <2>5. SleepersHaveAReason'
    BY <2>4 DEF SleepersHaveAReason
  <2>6. \A u \in Threads : pc[u] = "run" => pc'[u] = "run"
    BY <1>1, <1>4, <2>2
  <2> QED
    BY <1>5, <2>3, <2>5, <2>6, MoveKeeps
<1>7. CASE RWST_WRITE_HELD \/ RWST_WRITE_WANTED(q)
  <2>1. pc' = q
    BY <1>5, <1>7 DEF EintrWake
  <2>2. \/ (RWST_WRITE_HELD)'
        \/ \E w \in Threads : pc'[w] \in {"wrSleep", "wrSignalled", "wrIntr"}
    BY <1>5, <1>7, <2>1 DEF RWST_WRITE_HELD, RWST_WRITE_WANTED
  <2>3. ASSUME NEW u \in Threads, pc'[u] = "wrSleep"
        PROVE  (RWST_HELD)' \/ \E w \in Threads : pc'[w] = "wrSignalled"
    <3>1. p[u] = "wrSleep" /\ pc[u] = "wrSleep"
      BY <1>1, <1>4, <2>1, <2>3
    <3>2. CASE RWST_HELD
      BY <1>5, <3>2 DEF RWST_HELD
    <3>3. CASE \E w \in Threads : pc[w] = "wrSignalled"
      <4>1. PICK w \in Threads : pc[w] = "wrSignalled"
        BY <3>3
      <4>2. CASE w = t
        BY <1>4, <2>1, <3>1, <4>1, <4>2
      <4>3. CASE w # t
        BY <1>1, <1>4, <2>1, <4>1, <4>3
      <4> QED
        BY <4>2, <4>3
    <3> QED
      BY <3>1, <3>2, <3>3 DEF SleepersHaveAReason
  <2>4. SleepersHaveAReason'
    BY <2>2, <2>3 DEF SleepersHaveAReason
  <2>5. \A u \in Threads : pc[u] = "run" => pc'[u] = "run"
    BY <1>1, <1>4, <2>1
  <2> QED
    BY <1>4, <1>5, <2>1, <2>4, <2>5, MoveKeeps
<1> QED
  BY <1>6, <1>7

\* Whoever releases the lock, for whichever holder, the count stays exact.
LEMMA ExitCount ==
  ASSUME IInv, NEW t \in Threads, NEW h \in Threads, rwst_exit(t, h)
  PROVE  rwst_count' \in Nat /\ CountIsHolders'
<1> USE DEF IInv
<1>1. mode' = [mode EXCEPT ![h] = "none"] /\ mode[h] \in {"reader", "writer"}
  BY DEF rwst_exit, TypeOK
<1>2. In("reader")' = In("reader") \ {h} /\ In("writer")' = In("writer") \ {h}
  BY <1>1 DEF In, TypeOK
<1>3. h \in In("reader") \cup In("writer")
  BY <1>1 DEF In
<1>4. CASE rwst_count = WRITER
  <2>1. rwst_count' = 0
    BY <1>4 DEF rwst_exit, CountAfterExit, RWST_WRITE_HELD, WRITER
  <2>2. PICK x \in Threads : In("writer") = {x} /\ In("reader") = {}
    BY <1>4 DEF CountIsHolders
  <2>3. In("writer")' = {} /\ In("reader")' = {}
    BY <1>2, <1>3, <2>2
  <2> QED
    BY <2>1, <2>3, FS_EmptySet DEF CountIsHolders, WRITER
<1>5. CASE rwst_count # WRITER
  <2>1. rwst_count \in Nat
    BY <1>5 DEF TypeOK
  <2>2. In("writer") = {} /\ rwst_count = Cardinality(In("reader"))
    BY <1>5 DEF CountIsHolders
  <2>3. h \in In("reader")
    BY <1>3, <2>2
  <2>4. IsFiniteSet(In("reader"))
    BY HoldersFinite
  <2>5. Cardinality(In("reader") \ {h}) = Cardinality(In("reader")) - 1
    BY <2>3, <2>4, FS_RemoveElement
  <2>6. rwst_count # 0
    BY <2>2, <2>3, <2>4, FS_EmptySet
  <2>7. rwst_count' = rwst_count - 1
    BY <2>1 DEF rwst_exit, CountAfterExit, RWST_WRITE_HELD
  <2>8. rwst_count' \in Nat
    BY <2>1, <2>6, <2>7
  <2>9. In("writer")' = {} /\ rwst_count' = Cardinality(In("reader")')
    BY <1>2, <2>2, <2>5, <2>7
  <2> QED
    BY <2>8, <2>9 DEF CountIsHolders, WRITER
<1> QED
  BY <1>4, <1>5

\* rwst_exit() wakes all readers, or a writer, or leaves the lock held.
LEMMA ExitKeeps ==
  ASSUME IInv, NEW t \in Threads, NEW h \in Threads, rwst_exit(t, h)
  PROVE  IInv'
<1> USE DEF IInv
<1>1. rwst_count' \in Nat /\ CountIsHolders'
  BY ExitCount
<1>2. /\ pc' \in [Threads -> Pcs]
      /\ \A u \in Threads : pc[u] = "run" => pc'[u] = "run"
      /\ SleepersHaveAReason'
  <2>1. CASE ~RWST_WRITE_WANTED(pc)
    <3>1. pc' = RWST_READ_WAKE_ALL(pc)
      BY <2>1 DEF rwst_exit
    <3>2. \A u \in Threads : pc'[u] = IF pc[u] = "rdSleep" THEN "rdSignalled" ELSE pc[u]
      BY <3>1 DEF RWST_READ_WAKE_ALL
    <3>3. pc' \in [Threads -> Pcs]
      BY <3>1 DEF RWST_READ_WAKE_ALL, TypeOK, Pcs
    <3>4. \A u \in Threads : pc'[u] # "rdSleep" /\ pc'[u] # "wrSleep"
      BY <2>1, <3>2 DEF RWST_WRITE_WANTED
    <3>5. SleepersHaveAReason'
      BY <3>4 DEF SleepersHaveAReason
    <3> QED
      BY <3>2, <3>3, <3>5
  <2>2. CASE RWST_WRITE_WANTED(pc) /\ rwst_count' = 0
    <3>1. pc' \in Signal(pc, "wrSleep", "wrSignalled")
      BY <2>2 DEF rwst_exit
    <3>2. "wrSleep" \in Pcs /\ "wrSignalled" \in Pcs /\ pc \in [Threads -> Pcs]
      BY DEF Pcs, TypeOK
    <3>3. /\ pc' \in [Threads -> Pcs]
          /\ \A u \in Threads : pc'[u] = pc[u] \/ (pc[u] = "wrSleep" /\ pc'[u] = "wrSignalled")
          /\ (\E u \in Threads : pc[u] = "wrSleep") => \E u \in Threads : pc'[u] = "wrSignalled"
      BY <3>1, <3>2, SignalSpec
    <3>4. \E u \in Threads : pc'[u] = "wrSignalled"
      BY <2>2, <3>3 DEF RWST_WRITE_WANTED
    <3>5. SleepersHaveAReason'
      BY <3>4 DEF SleepersHaveAReason
    <3>6. \A u \in Threads : pc[u] = "run" => pc'[u] = "run"
      BY <3>3
    <3> QED
      BY <3>3, <3>5, <3>6
  <2>3. CASE RWST_WRITE_WANTED(pc) /\ rwst_count' # 0
    <3>1. pc' = pc
      BY <2>3 DEF rwst_exit
    <3>2. (RWST_HELD)'
      BY <2>3 DEF RWST_HELD
    <3>3. \E w \in Threads : pc'[w] = "wrSleep"
      BY <2>3, <3>1 DEF RWST_WRITE_WANTED
    <3>4. SleepersHaveAReason'
      BY <3>2, <3>3 DEF SleepersHaveAReason
    <3> QED
      BY <3>1, <3>4 DEF TypeOK
  <2> QED
    BY <2>1, <2>2, <2>3
<1>3. TypeOK'
  BY <1>1, <1>2 DEF rwst_exit, TypeOK
<1>4. WaitersHoldNothing'
  BY <1>2 DEF rwst_exit, WaitersHoldNothing, TypeOK
<1> QED
  BY <1>1, <1>2, <1>3, <1>4

----------------------------------------------------------------------------
\* IInv is inductive.
LEMMA NextIInv == IInv /\ [Next]_vars => IInv'
<1> SUFFICES ASSUME IInv, [Next]_vars PROVE IInv'
  OBVIOUS
<1>1. ASSUME NEW t \in Threads, NEW m \in {"reader", "writer"}, NEW s \in BOOLEAN,
             rwst_enter(t, m, s)
      PROVE  IInv'
  BY <1>1, RoundKeeps DEF rwst_enter
<1>2. ASSUME NEW t \in Threads, NEW m \in {"reader", "writer"}, rwst_tryenter(t, m)
      PROVE  IInv'
  <2>1. FALSE \in BOOLEAN
    OBVIOUS
  <2> QED
    BY <1>2, <2>1, RoundKeeps DEF rwst_tryenter
<1>3. ASSUME NEW t \in Threads, Interrupt(t) PROVE IInv'
  BY <1>3, InterruptKeeps
<1>4. ASSUME NEW t \in Threads, rwst_enter_wakeup(t) PROVE IInv'
  <2>1. mode[t] = "none" /\ sig[t] \in BOOLEAN
    BY <1>4 DEF rwst_enter_wakeup, IInv, WaitersHoldNothing, TypeOK
  <2>2. CASE pc[t] \in {"rdSignalled", "rdIntr"}
    <3>1. IF Blocked("reader") THEN Sleep(t, "reader", sig[t]) ELSE Grant(t, "reader")
      BY <1>4, <2>2 DEF rwst_enter_wakeup
    <3> QED
      BY <2>1, <2>2, <3>1, RoundKeeps
  <2>3. CASE pc[t] \in {"wrSignalled", "wrIntr"}
    <3>1. IF Blocked("writer") THEN Sleep(t, "writer", sig[t]) ELSE Grant(t, "writer")
      BY <1>4, <2>3 DEF rwst_enter_wakeup
    <3> QED
      BY <2>1, <3>1, RoundKeeps
  <2> QED
    BY <1>4, <2>2, <2>3 DEF rwst_enter_wakeup
<1>5. ASSUME NEW t \in Threads, rwst_enter_read_eintr(t) PROVE IInv'
  BY <1>5, ReadEintrKeeps
<1>6. ASSUME NEW t \in Threads, rwst_enter_write_eintr(t) PROVE IInv'
  BY <1>6, WriteEintrKeeps
<1>7. ASSUME NEW t \in Threads, NEW h \in Threads, rwst_exit(t, h) PROVE IInv'
  BY <1>7, ExitKeeps
<1>8. CASE UNCHANGED vars
  BY <1>8 DEF vars, IInv, TypeOK, CountIsHolders, SleepersHaveAReason,
              WaitersHoldNothing, In, RWST_HELD, RWST_WRITE_HELD
<1> QED
  BY <1>1, <1>2, <1>3, <1>4, <1>5, <1>6, <1>7, <1>8 DEF Next, Enter

\* The strengthened invariant holds throughout.
LEMMA RwstInvariant == Spec => []IInv
  BY InitIInv, NextIInv, PTL DEF Spec

\* However many threads there are, rwst_count never falls below the writer's
\* mark: every rwst_exit() undoes one rwst_enter().
THEOREM RwstTypeCorrect == Spec => []TypeOK
<1>1. IInv => TypeOK
  BY DEF IInv
<1> QED
  BY <1>1, RwstInvariant, PTL

\* One writer or any number of readers hold the lock and rwst_count says
\* which, though any thread may call rwst_exit() for another.
THEOREM RwstExclusion == Spec => []CountIsHolders
<1>1. IInv => CountIsHolders
  BY DEF IInv
<1> QED
  BY <1>1, RwstInvariant, PTL

\* No thread sleeps in rwst_enter_common() on a lock that nobody will release
\* and no signal is about to pass on, whoever is interrupted and when.
THEOREM RwstNoLostWakeup == Spec => []SleepersHaveAReason
<1>1. IInv => SleepersHaveAReason
  BY DEF IInv
<1> QED
  BY <1>1, RwstInvariant, PTL

=============================================================================
