------------------------------ MODULE TxgList ------------------------------
(***************************************************************************)
(* Per-txg object lists, the second half of uts/common/fs/zfs/txg.c: dirty *)
(* datasets, directories, vdevs and sync tasks of each group.              *)
(*                                                                         *)
(* An object embeds one link and one membership flag for each slot, so it  *)
(* may be on the lists of several groups at once.  The module keeps the    *)
(* pointers of the code; each operation runs under tl_lock and is one      *)
(* action.  PerTxgStacks says what the pointers are for.                   *)
(***************************************************************************)
EXTENDS Naturals, SequencesExt, FiniteSetsExt

CONSTANTS
  Objects,    \* what may be put on the list
  NULL,
  Txgs        \* bound: the groups that callers name

TXG_SIZE == 4

ASSUME TxgListAssumption ==
  /\ IsFiniteSet(Objects)
  /\ NULL \notin Objects
  /\ Txgs \subseteq Nat

Slots == 0 .. TXG_SIZE - 1
Slot(txg) == txg % TXG_SIZE

VARIABLES
  tl_head,    \* tl_head[g]: the first object of slot g, or NULL
  tn_next,    \* tn_next[p][g]: the object after p
  tn_member,  \* tn_member[p][g]
  result      \* what the last operation returned

vars == <<tl_head, tn_next, tn_member, result>>

\* Both txg_list_create() and the zeroed objects.
Init ==
  /\ tl_head = [g \in Slots |-> NULL]
  /\ tn_next = [p \in Objects |-> [g \in Slots |-> NULL]]
  /\ tn_member = [p \in Objects |-> [g \in Slots |-> FALSE]]
  /\ result = NULL

\* The objects that txg_list_head() and txg_list_next() visit, in order; a
\* walk longer than there are objects would be a cycle.
Walk(g) ==
  LET step[k \in Nat] == IF k = 0 THEN tl_head[g]
                         ELSE IF step[k - 1] = NULL THEN NULL
                         ELSE tn_next[step[k - 1]][g]
      last == CHOOSE k \in 0 .. Cardinality(Objects) + 1 :
                \/ k = Cardinality(Objects) + 1
                \/ step[k] = NULL /\ \A j \in 0 .. k - 1 : step[j] # NULL
  IN [i \in 1 .. last |-> step[i - 1]]

txg_list_add(p, txg) ==
  LET g == Slot(txg)
      already_on_list == tn_member[p][g]
  IN
  /\ IF already_on_list
     THEN UNCHANGED <<tn_member, tn_next, tl_head>>
     ELSE /\ tn_member' = [tn_member EXCEPT ![p][g] = TRUE]
          /\ tn_next' = [tn_next EXCEPT ![p][g] = tl_head[g]]
          /\ tl_head' = [tl_head EXCEPT ![g] = p]
  /\ result' = already_on_list

txg_list_remove(txg) ==
  LET g == Slot(txg)
      tn == tl_head[g]
  IN
  /\ IF tn = NULL
     THEN UNCHANGED <<tn_member, tn_next, tl_head>>
     ELSE /\ tl_head' = [tl_head EXCEPT ![g] = tn_next[tn][g]]
          /\ tn_next' = [tn_next EXCEPT ![tn][g] = NULL]
          /\ tn_member' = [tn_member EXCEPT ![tn][g] = FALSE]
  /\ result' = tn

\* Fault: the successor is forgotten when the object is not the first one.
txg_list_remove_this_CutTail(p, txg) ==
  LET g == Slot(txg) IN
  /\ p \in ToSet(Walk(g))
  /\ IF tl_head[g] = p
     THEN /\ tl_head' = [tl_head EXCEPT ![g] = tn_next[p][g]]
          /\ tn_next' = [tn_next EXCEPT ![p][g] = NULL]
     ELSE /\ tn_next' = [q \in Objects |->
                           [tn_next[q] EXCEPT ![g] = IF @ = p THEN NULL ELSE @]]
          /\ UNCHANGED tl_head
  /\ tn_member' = [tn_member EXCEPT ![p][g] = FALSE]
  /\ result' = p

\* The walk along tn_next stops at the link that holds p, which is tl_head or
\* the tn_next of the object before p.
txg_list_remove_this(p, txg) ==
  LET g == Slot(txg)
      list == Walk(g)
      before == SelectInSeq(list, LAMBDA q : tn_next[q][g] = p)
  IN
  IF p \notin ToSet(list)
  THEN /\ result' = NULL
       /\ UNCHANGED <<tn_member, tn_next, tl_head>>
  ELSE /\ IF tl_head[g] = p
          THEN /\ tl_head' = [tl_head EXCEPT ![g] = tn_next[p][g]]
               /\ tn_next' = [tn_next EXCEPT ![p][g] = NULL]
          ELSE /\ tn_next' = [tn_next EXCEPT ![list[before]][g] = tn_next[p][g],
                                             ![p][g] = NULL]
               /\ UNCHANGED tl_head
       /\ tn_member' = [tn_member EXCEPT ![p][g] = FALSE]
       /\ result' = p

Next ==
  \E txg \in Txgs :
    \/ \E p \in Objects : txg_list_add(p, txg)
    \/ txg_list_remove(txg)
    \/ \E p \in Objects : txg_list_remove_this(p, txg)

Spec == Init /\ [][Next]_vars

----------------------------------------------------------------------------
\* The lists are stacks, one for each slot, that do not touch each other, and
\* the operations return what those of PerTxgStacks return.
Stacks == INSTANCE PerTxgStacks WITH
            stack <- [g \in Slots |-> Walk(g)], returned <- result

ImplementsStacks == Stacks!Spec

=============================================================================
