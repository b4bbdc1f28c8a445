--------------------------- MODULE ControlPlaneMC ---------------------------
(* Three connections: two of one source, one of another.                     *)
EXTENDS ControlPlane, TLC

CONSTANTS c1, c2, c3, s1, s2

MCConns == {c1, c2, c3}
MCSourceOf == c1 :> s1 @@ c2 :> s1 @@ c3 :> s2
=============================================================================
