---------------------------- MODULE MCRangeLock ----------------------------
(* Instances of RangeLock for TLC. *)
EXTENDS RangeLock, TLC

\* All threads may do the same, and the order of wakeups is free.
ThreadSymmetry == Permutations(Threads)

=============================================================================
