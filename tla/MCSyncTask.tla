---------------------------- MODULE MCSyncTask -----------------------------
(* Instances of SyncTask for TLC. *)
EXTENDS SyncTask, TLC

\* Threads may be exchanged, and so may names.
Symmetry == Permutations(Threads) \cup Permutations(Names)

=============================================================================
