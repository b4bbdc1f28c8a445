---------------------------- MODULE AuthorizerMC ----------------------------
(* Two keys and three registrations: two of one client, the second made      *)
(* later, and one of another client that seals a code.                       *)
EXTENDS Authorizer, TLC

CONSTANTS k1, k2, r1, r2, r3, c1, c2

MCKeys == {k1, k2}
MCRegs == {r1, r2, r3}
MCCodes == {c1, c2}
MCKeyOf == r1 :> k1 @@ r2 :> k1 @@ r3 :> k2
MCTsOf == r1 :> 1 @@ r2 :> 2 @@ r3 :> 0
MCCodeOf == r1 :> c1 @@ r2 :> NoCode @@ r3 :> c2
MCStartLists == {{k2}}
=============================================================================
