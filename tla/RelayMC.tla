------------------------------ MODULE RelayMC ------------------------------
(* Instances of the relay for TLC. *)
EXTENDS Relay, TLC

CONSTANTS s1, s2, x1, x2, y1, k1, k2, e1, e2, e3

(* x1 and x2 are two addresses of one network (one NAT), y1 is another. *)
MCAcctOf == (x1 :> k1) @@ (x2 :> k1) @@ (y1 :> k2)

B(s, n, e, x) == [sid |-> s, name |-> n, epk |-> e, src |-> x]

(* A pair whose first buddy roams between x1 and y1 and restarts with a new key
   (e3), whose second buddy sits at x2 or y1, and a third buddy behind the NAT of
   the first two. *)
RoamBinds ==
  {B(s1, "a", e1, x1), B(s1, "a", e1, y1), B(s1, "a", e3, x1),
   B(s1, "b", e2, x2), B(s1, "b", e2, y1), B(s2, "a", e3, x1)}

(* Network mode, --listen-port: the buddy at x1 keeps its source port when the
   pair moves from the invite's session id (s1) to the stored session's (s2); x2
   shares its network. *)
SharedNetBinds == ({s1, s2} \X {x1, y1}) \cup {<<s1, x2>>}
=============================================================================
