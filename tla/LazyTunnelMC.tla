---------------------------- MODULE LazyTunnelMC ----------------------------
(* LazyTunnel for TLC. *)
EXTENDS LazyTunnel, TLC

(* Channels are interchangeable, and so are connections; used where only
   invariants are checked. *)
Symmetric == Permutations(Chans) \cup Permutations(Clients)

=============================================================================
