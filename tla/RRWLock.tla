------------------------------ MODULE RRWLock ------------------------------
(***************************************************************************)
(* The reader/writer lock with re-entrant reads of ZFS,                    *)
(* uts/common/fs/zfs/rrwlock.c (z_teardown_lock of a file system).         *)
(*                                                                         *)
(* While no writer wants the lock a reader only bumps an anonymous count;  *)
(* once one does, readers leave a node in thread-specific data and bump a  *)
(* linked count, so that a thread that already reads can be told from a    *)
(* new one.  rr_lock makes each stretch between two sleeps on rr_cv one    *)
(* action.                                                                 *)
(***************************************************************************)
EXTENDS Naturals, FiniteSets

CONSTANTS
  Threads,
  NULL,       \* the rr_writer of a lock that has no writer
  MaxDepth    \* bound: read locks that one thread nests

ASSUME RRWAssumption ==
  /\ IsFiniteSet(Threads)
  /\ NULL \notin Threads
  /\ MaxDepth \in Nat \ {0}

VARIABLES
  rr_writer, rr_anon_rcount, rr_linked_rcount, rr_writer_wanted,
  rrn,     \* rrn[t]: nodes for this lock on the list that t keeps in its tsd
  reads,   \* reads[t]: read locks t has entered and not exited
  pc       \* where t is

vars == <<rr_writer, rr_anon_rcount, rr_linked_rcount, rr_writer_wanted, rrn,
          reads, pc>>

Pcs == {"run", "readSleep", "readWoken", "writeSleep", "writeWoken"}

Init ==
  /\ rr_writer = NULL
  /\ rr_anon_rcount = 0
  /\ rr_linked_rcount = 0
  /\ rr_writer_wanted = FALSE
  /\ rrn = [t \in Threads |-> 0]
  /\ reads = [t \in Threads |-> 0]
  /\ pc = [t \in Threads |-> "run"]

\* cv_broadcast(&rrl->rr_cv), the caller being t.
Broadcast(t) ==
  pc' = [u \in Threads |-> IF u = t THEN "run"
                           ELSE IF pc[u] = "readSleep" THEN "readWoken"
                           ELSE IF pc[u] = "writeSleep" THEN "writeWoken"
                           ELSE pc[u]]

rrn_find(t) == rr_linked_rcount # 0 /\ rrn[t] # 0

\* Fault: the anonymous readers, who have no node, are not thought of.
ReadBlocked_NoAnon(t) ==
  rr_writer # NULL \/ (rr_writer_wanted /\ ~rrn_find(t))

\* The condition of the while loop in rrw_enter_read().
ReadBlocked(t) ==
  \/ rr_writer # NULL
  \/ rr_writer_wanted /\ rr_anon_rcount = 0 /\ ~rrn_find(t)

\* Fault: a reader never leaves a node.
ReadLoop_Anonymous(t) ==
  IF ReadBlocked(t)
  THEN /\ pc' = [pc EXCEPT ![t] = "readSleep"]
       /\ UNCHANGED <<rr_writer, rr_anon_rcount, rr_linked_rcount,
                      rr_writer_wanted, rrn, reads>>
  ELSE /\ rr_anon_rcount' = rr_anon_rcount + 1
       /\ reads' = [reads EXCEPT ![t] = @ + 1]
       /\ pc' = [pc EXCEPT ![t] = "run"]
       /\ UNCHANGED <<rr_writer, rr_writer_wanted, rr_linked_rcount, rrn>>

ReadLoop(t) ==
  IF ReadBlocked(t)
  THEN /\ pc' = [pc EXCEPT ![t] = "readSleep"]
       /\ UNCHANGED <<rr_writer, rr_anon_rcount, rr_linked_rcount,
                      rr_writer_wanted, rrn, reads>>
  ELSE /\ IF rr_writer_wanted
          THEN /\ rrn' = [rrn EXCEPT ![t] = @ + 1]
               /\ rr_linked_rcount' = rr_linked_rcount + 1
               /\ UNCHANGED rr_anon_rcount
          ELSE /\ rr_anon_rcount' = rr_anon_rcount + 1
               /\ UNCHANGED <<rrn, rr_linked_rcount>>
       /\ reads' = [reads EXCEPT ![t] = @ + 1]
       /\ pc' = [pc EXCEPT ![t] = "run"]
       /\ UNCHANGED <<rr_writer, rr_writer_wanted>>

\* A caller that already writes may not read.
rrw_enter_read(t) ==
  /\ pc[t] = "run"
  /\ rr_writer # t
  /\ reads[t] < MaxDepth
  /\ ReadLoop(t)

rrw_enter_read_wakeup(t) ==
  /\ pc[t] = "readWoken"
  /\ ReadLoop(t)

\* Fault: only the anonymous readers keep a writer out.
WriteBlocked_AnonOnly == rr_anon_rcount > 0 \/ rr_writer # NULL

\* The condition of the while loop in rrw_enter_write().
WriteBlocked ==
  rr_anon_rcount > 0 \/ rr_linked_rcount > 0 \/ rr_writer # NULL

WriteLoop(t) ==
  /\ IF WriteBlocked
     THEN /\ rr_writer_wanted' = TRUE
          /\ pc' = [pc EXCEPT ![t] = "writeSleep"]
          /\ UNCHANGED rr_writer
     ELSE /\ rr_writer_wanted' = FALSE
          /\ rr_writer' = t
          /\ pc' = [pc EXCEPT ![t] = "run"]
  /\ UNCHANGED <<rr_anon_rcount, rr_linked_rcount, rrn, reads>>

\* A caller that already reads or writes may not write.
rrw_enter_write(t) ==
  /\ pc[t] = "run"
  /\ rr_writer # t
  /\ reads[t] = 0
  /\ WriteLoop(t)

rrw_enter_write_wakeup(t) ==
  /\ pc[t] = "writeWoken"
  /\ WriteLoop(t)

\* Whether rrn_find_and_remove() finds a node.
rrn_find_and_remove(t) == rrn_find(t)

\* Fault: a broadcast only when the linked readers are gone.
ExitWakes_LinkedOnly(t) == rrn_find_and_remove(t) /\ rr_linked_rcount = 1

\* The count that goes down falls to zero.
ExitWakes(t) ==
  IF rrn_find_and_remove(t) THEN rr_linked_rcount = 1 ELSE rr_anon_rcount = 1

\* rrw_exit() of a reader.
rrw_exit_read(t) ==
  /\ pc[t] = "run"
  /\ rr_writer = NULL
  /\ reads[t] > 0
  /\ IF rrn_find_and_remove(t)
     THEN /\ rrn' = [rrn EXCEPT ![t] = @ - 1]
          /\ rr_linked_rcount' = rr_linked_rcount - 1
          /\ UNCHANGED rr_anon_rcount
     ELSE /\ rr_anon_rcount' = rr_anon_rcount - 1
          /\ UNCHANGED <<rrn, rr_linked_rcount>>
  /\ IF ExitWakes(t) THEN Broadcast(t) ELSE UNCHANGED pc
  /\ reads' = [reads EXCEPT ![t] = @ - 1]
  /\ UNCHANGED <<rr_writer, rr_writer_wanted>>

\* rrw_exit() of the writer.
rrw_exit_write(t) ==
  /\ pc[t] = "run"
  /\ rr_writer = t
  /\ rr_writer' = NULL
  /\ Broadcast(t)
  /\ UNCHANGED <<rr_anon_rcount, rr_linked_rcount, rr_writer_wanted, rrn, reads>>

Next ==
  \E t \in Threads :
    \/ rrw_enter_read(t)
    \/ rrw_enter_read_wakeup(t)
    \/ rrw_enter_write(t)
    \/ rrw_enter_write_wakeup(t)
    \/ rrw_exit_read(t)
    \/ rrw_exit_write(t)

Spec == Init /\ [][Next]_vars

\* A woken thread runs; a holder does not keep the lock for ever, and one that
\* nests its reads gets at last to drop the outermost one.  Nobody has to ask
\* for the lock.
Fairness ==
  \A t \in Threads :
    /\ WF_vars(rrw_enter_read_wakeup(t))
    /\ WF_vars(rrw_enter_write_wakeup(t))
    /\ WF_vars(rrw_exit_read(t))
    /\ \A d \in 1 .. MaxDepth : SF_vars(reads[t] = d /\ rrw_exit_read(t))
    /\ WF_vars(rrw_exit_write(t))

FairSpec == Spec /\ Fairness

----------------------------------------------------------------------------
\* Every variable has its type; neither count goes below zero.
TypeOK ==
  /\ rr_writer \in Threads \cup {NULL}
  /\ rr_anon_rcount \in Nat
  /\ rr_linked_rcount \in Nat
  /\ rr_writer_wanted \in BOOLEAN
  /\ rrn \in [Threads -> 0 .. MaxDepth]
  /\ reads \in [Threads -> 0 .. MaxDepth]
  /\ pc \in [Threads -> Pcs]

\* One element for each of the f[t] holds of every thread t.
Holds(f) == {h \in Threads \X (1 .. MaxDepth) : h[2] <= f[h[1]]}

Anonymous == [t \in Threads |-> reads[t] - rrn[t]]

\* The two counts and the nodes add up to the read locks held, whichever
\* count each of them was entered under and in whatever order they are left.
CountsAreReads ==
  /\ \A t \in Threads : rrn[t] <= reads[t]
  /\ rr_linked_rcount = Cardinality(Holds(rrn))
  /\ rr_anon_rcount = Cardinality(Holds(Anonymous))

\* A writer is alone: no thread reads, on either count.
WriterIsAlone ==
  rr_writer # NULL => \A t \in Threads : reads[t] = 0

\* "even if there are waiting writers": a thread that reads already is never
\* put to sleep when it enters again, which would be a deadlock with the
\* writer that waits for it.
ReentrantNeverSleeps ==
  \A t \in Threads : pc[t] \in {"readSleep", "readWoken"} => reads[t] = 0

Held == rr_writer # NULL \/ \E t \in Threads : reads[t] > 0

\* No wakeup is lost: a writer sleeps only while the lock is held, a reader
\* only while it is held or while a writer is on its way to take it.
SleepersHaveAReason ==
  \A t \in Threads :
    /\ pc[t] = "writeSleep" => Held
    /\ pc[t] = "readSleep" => Held \/ \E u \in Threads : pc[u] = "writeWoken"

\* "Hence, we do not starve writers": a writer with which only readers
\* compete, new ones and readers that enter again and again, gets the lock.
WriterNotStarved ==
  \A t \in Threads :
    <>[](\A u \in Threads \ {t} : rr_writer # u /\ pc[u] \notin {"writeSleep", "writeWoken"})
      => (pc[t] \in {"writeSleep", "writeWoken"} ~> rr_writer = t)

=============================================================================
