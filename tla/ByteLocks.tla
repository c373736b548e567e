----------------------------- MODULE ByteLocks -----------------------------
(***************************************************************************)
(* What a range lock promises: each thread holds a set of bytes, shared or *)
(* exclusive, and no byte that somebody holds exclusively is held by       *)
(* anybody else.                                                           *)
(***************************************************************************)
CONSTANTS Threads, Bytes

VARIABLE held   \* held[t]: the bytes that t holds and whether to itself

Nothing == [bytes |-> {}, excl |-> FALSE]

Init == held = [t \in Threads |-> Nothing]

Compatible(t, h) ==
  \A u \in Threads \ {t} :
    h.excl \/ held[u].excl => h.bytes \cap held[u].bytes = {}

Lock(t) ==
  /\ held[t] = Nothing
  /\ held'[t] \in [bytes : (SUBSET Bytes) \ {{}}, excl : BOOLEAN]
  /\ Compatible(t, held'[t])
  /\ held' = [held EXCEPT ![t] = held'[t]]

\* An exclusive lock may be narrowed, never widened.
Reduce(t) ==
  /\ held[t].excl
  /\ held'[t].bytes \in (SUBSET held[t].bytes) \ {{}}
  /\ held' = [held EXCEPT ![t].bytes = held'[t].bytes]

Unlock(t) ==
  /\ held[t] # Nothing
  /\ held' = [held EXCEPT ![t] = Nothing]

Next == \E t \in Threads : Lock(t) \/ Reduce(t) \/ Unlock(t)

Spec == Init /\ [][Next]_held

=============================================================================
