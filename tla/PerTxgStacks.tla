---------------------------- MODULE PerTxgStacks ----------------------------
(***************************************************************************)
(* What the per-txg object lists of ZFS are: one stack for each slot, with *)
(* no object twice on the same stack.                                      *)
(***************************************************************************)
EXTENDS SequencesExt

CONSTANTS Objects, NULL, Slots

VARIABLES stack, returned

stacks_vars == <<stack, returned>>

Init ==
  /\ stack = [g \in Slots |-> <<>>]
  /\ returned = NULL

\* Tells whether the object was there already.
Add(p, g) ==
  /\ returned' = (p \in ToSet(stack[g]))
  /\ stack' = IF p \in ToSet(stack[g]) THEN stack
              ELSE [stack EXCEPT ![g] = <<p>> \o @]

Pop(g) ==
  IF stack[g] = <<>>
  THEN returned' = NULL /\ UNCHANGED stack
  ELSE /\ returned' = Head(stack[g])
       /\ stack' = [stack EXCEPT ![g] = Tail(@)]

\* Tells whether there was anything to remove; the order of the rest stays.
Delete(p, g) ==
  /\ returned' = IF p \in ToSet(stack[g]) THEN p ELSE NULL
  /\ stack' = [stack EXCEPT ![g] = SelectSeq(@, LAMBDA q : q # p)]

Next ==
  \E g \in Slots :
    \/ \E p \in Objects : Add(p, g) \/ Delete(p, g)
    \/ Pop(g)

Spec == Init /\ [][Next]_stacks_vars

=============================================================================
