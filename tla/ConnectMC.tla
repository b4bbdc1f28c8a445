------------------------------ MODULE ConnectMC ------------------------------
(* Configurations of one process: two pinned workers (one of them on          *)
(* WireGuard), a first contact by token, and direct mode.                     *)
EXTENDS Connect, TLC

CONSTANTS k1, k2, w1, w2, n1

Off == [on |-> FALSE, pins |-> {}, lab |-> FALSE, direct |-> FALSE, listens |-> FALSE,
        wg |-> FALSE, relay |-> FALSE, human |-> FALSE, self |-> NoName]
On == [Off EXCEPT !.on = TRUE]

Pair == w1 :> [On EXCEPT !.pins = {k1}] @@ w2 :> [On EXCEPT !.pins = {k2}, !.wg = TRUE]
FirstContact(wg) == w1 :> [On EXCEPT !.human = TRUE, !.wg = wg] @@ w2 :> Off
Daemon == w1 :> On @@ w2 :> Off
Direct(listening, wg) ==
    w1 :> [On EXCEPT !.pins = {k1}, !.direct = TRUE, !.relay = TRUE,
                     !.listens = listening, !.wg = wg] @@ w2 :> Off

MCSetups == {Pair, FirstContact(TRUE), FirstContact(FALSE), Daemon, Direct(TRUE, TRUE),
             Direct(TRUE, FALSE), Direct(FALSE, FALSE)}
WGDialer == {Direct(FALSE, TRUE)}
TwoCached == {Pair}

Seen(name, cands, relay) ==
    [name |-> name, cands |-> cands, relay |-> relay, fresh |-> TRUE, sane |-> TRUE,
     earlier |-> FALSE]
Answer(k, vip, entry) == [key |-> k, vip |-> vip, entry |-> entry]

MCRosters ==
    {Answer(k1, TRUE, Seen(n1, TRUE, "same host")), Answer(k2, TRUE, Seen(n1, TRUE, "same host")),
     Answer(k2, TRUE, Seen(n1, TRUE, "elsewhere")), Answer(k1, FALSE, Seen(NoName, TRUE, "none")),
     Answer(Me, TRUE, Seen(NoName, TRUE, "none")), Answer(k1, TRUE, Seen(NoName, FALSE, "none"))}

Empty == [k \in Keys |-> Absent]
Before(name) == [Seen(name, TRUE, "none") EXCEPT !.earlier = TRUE]
MCCaches == {Empty, [Empty EXCEPT ![k1] = Before(NoName), ![k2] = [Before(n1) EXCEPT !.fresh = FALSE]]}
BothCached == {[k \in Keys |-> IF k = Me THEN Absent ELSE Before(NoName)]}

MCRank == k1 :> 1 @@ k2 :> 2 @@ Me :> 3
=============================================================================
