------------------------------- MODULE MCZil -------------------------------
EXTENDS Zil, TLC

\* A directory operation and a file's writes.
AsyncKinds == {[foid |-> 1, ooo |-> FALSE, sync |-> FALSE],
               [foid |-> 3, ooo |-> TRUE, sync |-> FALSE]}

\* A file that is open O_DSYNC, and another that is not.
TwoFiles == {[foid |-> 1, ooo |-> TRUE, sync |-> TRUE],
             [foid |-> 2, ooo |-> TRUE, sync |-> FALSE]}

\* A file that is open O_DSYNC.
SyncKind == {[foid |-> 2, ooo |-> TRUE, sync |-> TRUE]}

\* A file of which only some writers are O_DSYNC, and another file.
MixedKinds == {[foid |-> 2, ooo |-> TRUE, sync |-> b] : b \in BOOLEAN}
              \cup {[foid |-> 3, ooo |-> TRUE, sync |-> FALSE]}

ThreadSymmetry == Permutations(Threads)

=============================================================================
