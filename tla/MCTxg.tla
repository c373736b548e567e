------------------------------- MODULE MCTxg -------------------------------
(* Instances of Txg for TLC. *)
EXTENDS Txg, TLC

\* The threads are interchangeable in the safety properties.
ThreadSymmetry == Permutations(Threads)

=============================================================================
