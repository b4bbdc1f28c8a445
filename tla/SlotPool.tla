------------------------------ MODULE SlotPool ------------------------------
(***************************************************************************)
(* What a connection budget promises: a connection takes one slot, if one  *)
(* is free in total and for its source, and gives back the one it holds.   *)
(* There are no counters here; ControlPlane implements this with two.      *)
(***************************************************************************)
EXTENDS Integers, FiniteSets

CONSTANTS Users, SourceOf, MaxTotal, MaxPerSource

VARIABLE held      \* who holds a slot

Init == held = {}

HeldFrom(s) == {u \in held : SourceOf[u] = s}

Take(u) ==
    /\ u \notin held
    /\ Cardinality(held) < MaxTotal
    /\ Cardinality(HeldFrom(SourceOf[u])) < MaxPerSource
    /\ held' = held \cup {u}

Give(u) ==
    /\ u \in held
    /\ held' = held \ {u}

Next == \E u \in Users : Take(u) \/ Give(u)

Spec == Init /\ [][Next]_held
=============================================================================
