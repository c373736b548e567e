---------------------------- MODULE GroupCommit ----------------------------
(***************************************************************************)
(* What transaction groups promise to the rest of ZFS, without threads,    *)
(* locks, slots or sleeping.                                               *)
(*                                                                         *)
(* A transaction belongs to the group that was open when it began.  Groups *)
(* become stable (are on disk) one at a time, in order, and only when no   *)
(* transaction of the group is active.  A callback left by a transaction   *)
(* is delivered in the very step that makes its group stable, and at most  *)
(* two groups ever have active transactions.                               *)
(***************************************************************************)
EXTENDS Naturals

CONSTANTS Clients, First

VARIABLES
  open,     \* the group that transactions enter
  stable,   \* the last group on disk
  active,   \* the group of each client's transaction, 0 when it has none
  pending   \* callbacks, <<client, group>>, that wait for their group

gc_vars == <<open, stable, active, pending>>

Init ==
  /\ open = First
  /\ stable = First - 1
  /\ active = [c \in Clients |-> 0]
  /\ pending = {}

Begin(c) ==
  /\ active[c] = 0
  /\ active' = [active EXCEPT ![c] = open]
  /\ UNCHANGED <<open, stable, pending>>

Register(c) ==
  /\ active[c] # 0
  /\ pending' = pending \cup {<<c, active[c]>>}
  /\ UNCHANGED <<open, stable, active>>

End(c) ==
  /\ active[c] # 0
  /\ active' = [active EXCEPT ![c] = 0]
  /\ UNCHANGED <<open, stable, pending>>

\* The group before the open one has no transaction left.
Advance ==
  /\ \A c \in Clients : active[c] \in {0, open}
  /\ open' = open + 1
  /\ UNCHANGED <<stable, active, pending>>

Stabilize ==
  /\ stable + 1 < open
  /\ \A c \in Clients : active[c] # stable + 1
  /\ stable' = stable + 1
  /\ pending' = {cb \in pending : cb[2] # stable + 1}
  /\ UNCHANGED <<open, active>>

Next ==
  \/ \E c \in Clients : Begin(c) \/ Register(c) \/ End(c)
  \/ Advance
  \/ Stabilize

Spec == Init /\ [][Next]_gc_vars

=============================================================================
