------------------------------ MODULE Semaphore ------------------------------
(* What a slot supplier promises: at most Limit permits are out at a time. *)
EXTENDS Naturals, FiniteSets

CONSTANTS Permits, Limit

VARIABLE out

Init == out = {}

Acquire(p) ==
  /\ p \notin out
  /\ Cardinality(out) < Limit
  /\ out' = out \cup {p}

Release(p) ==
  /\ p \in out
  /\ out' = out \ {p}

Next == \E p \in Permits : Acquire(p) \/ Release(p)

Spec == Init /\ [][Next]_out
=============================================================================
