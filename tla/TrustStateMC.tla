---------------------------- MODULE TrustStateMC ----------------------------
(* Two buddies, one pinned and one met by SAS; two command processes.        *)
EXTENDS TrustState

CONSTANTS a, b, c1, c2
=============================================================================
