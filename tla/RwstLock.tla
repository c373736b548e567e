----------------------------- MODULE RwstLock -----------------------------
(***************************************************************************)
(* The interruptible reader/writer lock that any thread may release,       *)
(* uts/common/os/rwstlock.c (the vfs and vnode mount locks).               *)
(*                                                                         *)
(* rwst_lock makes each stretch between two sleeps one action.  Whether a  *)
(* writer wants the lock is whether rwst_wcv has a waiter, and a thread    *)
(* stops being one when it is signalled, not when it runs.                 *)
(***************************************************************************)
EXTENDS Integers, FiniteSets

CONSTANT Threads

ASSUME RwstAssumption == IsFiniteSet(Threads)

VARIABLES
  rwst_count,   \* readers, or WRITER
  mode,         \* mode[t]: how t's last enter, not released yet, holds the lock
  sig,          \* sig[t]: t's call is rwst_enter_sig()
  pc

vars == <<rwst_count, mode, sig, pc>>

\* LONG_MIN | curthread, whoever the thread is.
WRITER == -1

Init ==
  /\ rwst_count = 0
  /\ mode = [t \in Threads |-> "none"]
  /\ sig = [t \in Threads |-> FALSE]
  /\ pc = [t \in Threads |-> "run"]

RWST_HELD == rwst_count # 0
RWST_WRITE_HELD == rwst_count < 0

\* CV_HAS_WAITERS(), the program counters being p.
RWST_WRITE_WANTED(p) == \E t \in Threads : p[t] = "wrSleep"

\* cv_broadcast(&l->rwst_rcv), the program counters being p.
RWST_READ_WAKE_ALL(p) ==
  [t \in Threads |-> IF p[t] = "rdSleep" THEN "rdSignalled" ELSE p[t]]

\* cv_signal(): what the program counters can be when one of those asleep at
\* from, if there are any, has been sent to to.
Signal(p, from, to) ==
  LET asleep == {t \in Threads : p[t] = from}
  IN IF asleep = {} THEN {p} ELSE {[p EXCEPT ![t] = to] : t \in asleep}

----------------------------------------------------------------------------
\* rwst_enter_common()

Grant(t, m) ==
  /\ rwst_count' = IF m = "reader" THEN rwst_count + 1 ELSE WRITER
  /\ mode' = [mode EXCEPT ![t] = m]
  /\ pc' = [pc EXCEPT ![t] = "run"]
  /\ sig' = [sig EXCEPT ![t] = FALSE]

Sleep(t, m, s) ==
  /\ pc' = [pc EXCEPT ![t] = IF m = "reader" THEN "rdSleep" ELSE "wrSleep"]
  /\ sig' = [sig EXCEPT ![t] = s]
  /\ UNCHANGED <<rwst_count, mode>>

\* Fault: a writer waits for a writer only.
Blocked_HeldOnly(m) ==
  IF m = "reader" THEN RWST_WRITE_HELD \/ RWST_WRITE_WANTED(pc) ELSE RWST_WRITE_HELD

Blocked(m) ==
  IF m = "reader" THEN RWST_WRITE_HELD \/ RWST_WRITE_WANTED(pc) ELSE RWST_HELD

\* rwst_enter() and rwst_enter_sig() by a thread that holds nothing.
rwst_enter(t, m, s) ==
  /\ pc[t] = "run"
  /\ mode[t] = "none"
  /\ IF Blocked(m) THEN Sleep(t, m, s) ELSE Grant(t, m)

\* rwst_tryenter() that gets the lock; otherwise it changes nothing.
rwst_tryenter(t, m) ==
  /\ pc[t] = "run"
  /\ mode[t] = "none"
  /\ ~Blocked(m)
  /\ Grant(t, m)

\* A signal takes a thread off the condition variable's queue.
Interrupt(t) ==
  /\ sig[t]
  /\ pc[t] \in {"rdSleep", "wrSleep"}
  /\ pc' = [pc EXCEPT ![t] = IF @ = "rdSleep" THEN "rdIntr" ELSE "wrIntr"]
  /\ UNCHANGED <<rwst_count, mode, sig>>

\* cv_wait() or cv_wait_sig() returns nonzero: once more round the loop.
rwst_enter_wakeup(t) ==
  /\ pc[t] \in {"rdSignalled", "rdIntr", "wrSignalled", "wrIntr"}
  /\ LET m == IF pc[t] \in {"rdSignalled", "rdIntr"} THEN "reader" ELSE "writer"
     IN IF Blocked(m) THEN Sleep(t, m, sig[t]) ELSE Grant(t, m)

Eintr(t, p) ==
  /\ pc' = p
  /\ sig' = [sig EXCEPT ![t] = FALSE]
  /\ UNCHANGED <<rwst_count, mode>>

\* cv_wait_sig() of a reader returns 0; it passes on a signal that it got.
rwst_enter_read_eintr(t) ==
  /\ sig[t]
  /\ pc[t] \in {"rdSignalled", "rdIntr"}
  /\ LET p == [pc EXCEPT ![t] = "run"]
     IN \E q \in IF pc[t] = "rdSignalled" THEN Signal(p, "rdSleep", "rdSignalled")
                                          ELSE {p} :
          Eintr(t, q)

\* Fault: the signal that the interrupted writer got is lost.
PassOn_Lost(t, p) == {p}

\* cv_wait_sig(): one that was signalled and interrupted signals another.
PassOn(t, p) ==
  IF pc[t] = "wrSignalled" THEN Signal(p, "wrSleep", "wrSignalled") ELSE {p}

\* Fault: an interrupted writer forgets the readers that it kept out.
EintrWake_None(p) == p

\* If no writer is left, the readers that it kept out are woken.
EintrWake(p) ==
  IF ~RWST_WRITE_HELD /\ ~RWST_WRITE_WANTED(p) THEN RWST_READ_WAKE_ALL(p) ELSE p

\* cv_wait_sig() of a writer returns 0.
rwst_enter_write_eintr(t) ==
  /\ sig[t]
  /\ pc[t] \in {"wrSignalled", "wrIntr"}
  /\ \E q \in PassOn(t, [pc EXCEPT ![t] = "run"]) : Eintr(t, EintrWake(q))

----------------------------------------------------------------------------
\* RWST_WRITE_EXIT() or RWST_READ_EXIT()
CountAfterExit == IF RWST_WRITE_HELD THEN 0 ELSE rwst_count - 1

\* rwst_exit() by t of the lock that h has entered.
rwst_exit(t, h) ==
  /\ pc[t] = "run"
  /\ mode[h] # "none"
  /\ rwst_count' = CountAfterExit
  /\ mode' = [mode EXCEPT ![h] = "none"]
  /\ IF ~RWST_WRITE_WANTED(pc)
     THEN pc' = RWST_READ_WAKE_ALL(pc)
     ELSE IF rwst_count' = 0
     THEN pc' \in Signal(pc, "wrSleep", "wrSignalled")
     ELSE UNCHANGED pc
  /\ UNCHANGED sig

Enter(t) ==
  \E m \in {"reader", "writer"} :
    \/ \E s \in BOOLEAN : rwst_enter(t, m, s)
    \/ rwst_tryenter(t, m)

Next ==
  \E t \in Threads :
    \/ Enter(t)
    \/ Interrupt(t)
    \/ rwst_enter_wakeup(t)
    \/ rwst_enter_read_eintr(t)
    \/ rwst_enter_write_eintr(t)
    \/ \E h \in Threads : rwst_exit(t, h)

Spec == Init /\ [][Next]_vars

\* Woken threads run and locks are released.  Nobody has to enter, and no
\* signal has to arrive.
Fairness ==
  \A t \in Threads :
    /\ WF_vars(rwst_enter_wakeup(t) \/ rwst_enter_read_eintr(t)
               \/ rwst_enter_write_eintr(t))
    /\ WF_vars(\E u \in Threads : rwst_exit(u, t))

FairSpec == Spec /\ Fairness

----------------------------------------------------------------------------
Pcs == {"run", "rdSleep", "rdSignalled", "rdIntr", "wrSleep", "wrSignalled",
        "wrIntr"}

\* Every variable has its type: rwst_count never goes below the writer's mark.
TypeOK ==
  /\ rwst_count \in {WRITER} \cup Nat
  /\ mode \in [Threads -> {"none", "reader", "writer"}]
  /\ sig \in [Threads -> BOOLEAN]
  /\ pc \in [Threads -> Pcs]

In(m) == {t \in Threads : mode[t] = m}

\* One writer and nobody else, or any number of readers; rwst_count tells
\* which, whoever releases the lock.
CountIsHolders ==
  /\ rwst_count = WRITER =>
       \E t \in Threads : In("writer") = {t} /\ In("reader") = {}
  /\ rwst_count # WRITER =>
       In("writer") = {} /\ rwst_count = Cardinality(In("reader"))

\* No wakeup is lost, although a writer may be interrupted just when it is
\* signalled: readers sleep only while a writer holds the lock or is about,
\* writers only while it is held or while a signal is on its way to one.
SleepersHaveAReason ==
  \A t \in Threads :
    /\ pc[t] = "rdSleep" =>
         \/ RWST_WRITE_HELD
         \/ \E w \in Threads : pc[w] \in {"wrSleep", "wrSignalled", "wrIntr"}
    /\ pc[t] = "wrSleep" =>
         RWST_HELD \/ \E w \in Threads : pc[w] = "wrSignalled"

Waiting == Pcs \ {"run"}

\* When nobody enters any more, everyone who waits returns, with the lock or
\* with EINTR.
WaitersReturn ==
  <>[][\A t \in Threads : pc[t] = "run" /\ mode[t] = "none" =>
         pc'[t] = "run" /\ mode'[t] = "none"]_vars =>
    \A t \in Threads : pc[t] \in Waiting ~> pc[t] = "run"

=============================================================================
