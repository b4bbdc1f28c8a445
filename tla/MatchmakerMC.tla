---------------------------- MODULE MatchmakerMC ----------------------------
(* Matchmaker for TLC: two buddies, each of which may restart once. *)
EXTENDS Matchmaker, TLC

CONSTANTS t1, t2, ka, kb

MCKeyOf == <<ka, ka, kb, kb>>

(* The first buddy restarts on the token they share, the second one on a token
   of its own, which presses on the table. *)
PressRegs == {<<t1, 1>>, <<t1, 2>>, <<t1, 3>>, <<t2, 4>>}

=============================================================================
