---------------------------- MODULE RelayProofs ----------------------------
(***************************************************************************)
(* Machine-checked proofs about the relay, for any finite set of sessions, *)
(* any addresses, accounting keys, caps and timeouts, in both modes.       *)
(***************************************************************************)
EXTENDS Relay, FiniteSetTheorems, TLAPS

(* Time for the larger leaves. *)
USE SMTT(20), ZenonT(30)

(* A slot that is not held is the zero leg, and a held leg is charged to the
   accounting key of the address it sits at. *)
LegShape ==
  \A f \in Slots :
    /\ leg[f].addr = None => leg[f] = NoLeg
    /\ leg[f].addr # None => leg[f].acct = AcctOf[leg[f].addr]

(* Other(f) is the second slot of the same session. *)
LEMMA OtherSlot ==
  \A f \in Slots :
    /\ Other(f) \in Slots /\ Other(f) # f /\ Other(Other(f)) = f
    /\ Other(f)[1] = f[1]
    /\ \A g \in Slots : g[1] = f[1] => g \in {f, Other(f)}
  BY DEF Other, Slots, Names

(* A bind names a slot, a key and an address. *)
LEMMA BindType ==
  \A b \in Binds : /\ <<b.sid, b.name>> \in Slots
                   /\ b.epk \in Epks /\ b.src \in Addrs /\ b.sid \in Sids /\ b.name \in Names
  BY RelayAssumption DEF Slots

(* A network-mode bind names a session and an address. *)
LEMMA NetBindType ==
  \A nb \in NetBinds : nb[1] \in Sids /\ nb[2] \in Addrs
  BY RelayAssumption

(* Every address has an accounting key. *)
LEMMA AcctType == \A x \in Addrs : AcctOf[x] \in Accts
  BY RelayAssumption

-----------------------------------------------------------------------------
(* Type correctness *)

(* The mode and the mark of shared addresses stay well typed. *)
LEMMA HistoryType ==
  ASSUME TypeOK, History
  PROVE  ticketMode' \in BOOLEAN /\ shared' \subseteq Addrs
  BY DEF TypeOK, History

(* A new leg keeps the tables well typed. *)
LEMMA AddLegType ==
  ASSUME TypeOK, NEW f \in Slots, NEW x \in Addrs, NEW e \in Epks \cup {None},
         AddLeg(f, x, e), History, UNCHANGED verifying \/ verifying' \subseteq verifying
  PROVE  TypeOK'
<1> USE RelayAssumption, OtherSlot DEF TypeOK
<1>1. f[1] \in Sids
  BY DEF Slots
<1>2. leg' \in [Slots -> Leg]
  <2>1. leg[Other(f)].addr \in Addrs \cup {None}
    BY DEF Leg
  <2>2. [addr |-> x, acct |-> AcctOf[x], epk |-> e, idle |-> 0, peer |-> leg[Other(f)].addr] \in Leg
    BY <2>1 DEF Leg
  <2>3. ASSUME NEW g \in Slots PROVE [leg[g] EXCEPT !.peer = x] \in Leg
    BY DEF Leg
  <2> QED
    BY <2>2, <2>3 DEF AddLeg
<1>3. legsPerIP' \in [Accts -> Nat]
  BY AcctType DEF AddLeg
<1> QED
  BY Zenon, <1>1, <1>2, <1>3, HistoryType DEF AddLeg

(* A refreshed leg keeps the tables well typed. *)
LEMMA RefreshLegType ==
  ASSUME TypeOK, NEW f \in Slots, RefreshLeg(f), History,
         UNCHANGED verifying \/ verifying' \subseteq verifying
  PROVE  TypeOK'
<1> USE RelayAssumption DEF TypeOK, RefreshLeg
<1>1. [leg[f] EXCEPT !.idle = 0] \in Leg
  BY DEF Leg
<1>2. leg' \in [Slots -> Leg]
  BY <1>1
<1> QED
  BY <1>2, HistoryType

(* A migrated leg keeps the tables well typed. *)
LEMMA MigrateLegType ==
  ASSUME TypeOK, LegShape, NEW f \in Slots, NEW x \in Addrs, Held(f), MigrateLeg(f, x), History,
         UNCHANGED verifying \/ verifying' \subseteq verifying
  PROVE  TypeOK'
<1> USE RelayAssumption, OtherSlot DEF TypeOK
<1>1. leg' \in [Slots -> Leg]
  <2>1. leg[Other(f)].addr \in Addrs \cup {None}
    BY DEF Leg
  <2>2. ASSUME NEW p \in Addrs \cup {None}
        PROVE  [addr |-> x, acct |-> AcctOf[x], epk |-> leg[f].epk, idle |-> 0, peer |-> p] \in Leg
    BY AcctType DEF Leg
  <2>3. ASSUME NEW g \in Slots PROVE [leg[g] EXCEPT !.peer = x] \in Leg
    BY DEF Leg
  <2>4. leg[f].peer \in Addrs \cup {None}
    BY DEF Leg
  <2> QED
    BY <2>1, <2>2, <2>3, <2>4 DEF MigrateLeg
<1>2. leg[f].addr \in Addrs /\ leg[f].acct \in Accts
  BY DEF LegShape, Held, Leg
<1>3. byAddr' \in [Addrs -> Slots \cup {None}]
  BY <1>2 DEF MigrateLeg, Reindexed
<1>4. legsPerIP' \in [Accts -> Nat]
  BY <1>2 DEF MigrateLeg, Recharged, Released
<1> QED
  BY <1>1, <1>3, <1>4, HistoryType DEF MigrateLeg

(* bindTicketed keeps the tables well typed. *)
LEMMA BindTicketedType ==
  ASSUME TypeOK, LegShape, NEW b \in verifying, BindTicketed(b)
  PROVE  TypeOK'
<1> DEFINE f == <<b.sid, b.name>>
<1>1. b \in Binds /\ f \in Slots /\ b.epk \in Epks /\ b.src \in Addrs
  BY BindType DEF TypeOK
<1>2. verifying' \subseteq verifying /\ History
  BY DEF BindTicketed
<1>3. CASE Refuse(b.sid)
  BY <1>2, <1>3, HistoryType DEF TypeOK, Refuse
<1>4. CASE AddLeg(f, b.src, b.epk)
  BY <1>1, <1>2, <1>4, AddLegType
<1>5. CASE RefreshLeg(f)
  BY <1>1, <1>2, <1>5, RefreshLegType
<1>6. CASE Held(f) /\ MigrateLeg(f, b.src)
  BY <1>1, <1>2, <1>6, MigrateLegType
<1> QED
  BY <1>3, <1>4, <1>5, <1>6 DEF BindTicketed

(* bindNetworkMode keeps the tables well typed. *)
LEMMA BindNetworkModeType ==
  ASSUME TypeOK, NEW s \in Sids, NEW x \in Addrs, BindNetworkMode(s, x)
  PROVE  TypeOK'
<1>1. UNCHANGED verifying /\ History
  BY DEF BindNetworkMode
<1>2. ASSUME NEW f \in Slots, RefreshLeg(f) PROVE TypeOK'
  BY <1>1, <1>2, RefreshLegType
<1>3. ASSUME NEW f \in Slots, AddLeg(f, x, None) PROVE TypeOK'
  BY <1>1, <1>3, AddLegType
<1>4. CASE Refuse(s)
  BY <1>1, <1>4, HistoryType DEF TypeOK, Refuse
<1> QED
  BY <1>2, <1>3, <1>4 DEF BindNetworkMode

(* forward keeps the tables well typed. *)
LEMMA ForwardType ==
  ASSUME TypeOK, NEW x \in Addrs, Forward(x)
  PROVE  TypeOK'
<1>1. byAddr[x] \in Slots
  BY DEF TypeOK, Forward
<1>2. [leg[byAddr[x]] EXCEPT !.idle = 0] \in Leg
  BY <1>1, RelayAssumption DEF TypeOK, Leg
<1>3. leg' \in [Slots -> Leg]
  BY <1>1, <1>2 DEF TypeOK, Forward
<1> QED
  BY <1>3, HistoryType DEF TypeOK, Forward

(* The passing of time keeps the ages in range. *)
LEMMA TickType ==
  ASSUME TypeOK, Tick
  PROVE  TypeOK'
<1> USE RelayAssumption DEF TypeOK
<1>1. ASSUME NEW f \in Slots, leg[f].idle <= TTL
      PROVE  [leg[f] EXCEPT !.idle = @ + 1] \in Leg
  BY <1>1 DEF Leg
<1>2. leg' \in [Slots -> Leg]
  BY <1>1 DEF Tick
<1>3. age' \in [Sids -> 0 .. PendingPair + 1]
  BY DEF Tick
<1> QED
  BY <1>2, <1>3, HistoryType DEF Tick

(* The legs of a finite number of sessions are finitely many. *)
LEMMA SlotsFinite == IsFiniteSet(Slots)
<1>1. IsFiniteSet({"a"}) /\ IsFiniteSet({"b"})
  BY FS_Singleton
<1>2. IsFiniteSet({"a"} \cup {"b"})
  BY Zenon, <1>1, FS_Union
<1>3. Names = {"a"} \cup {"b"}
  BY DEF Names
<1>4. IsFiniteSet(Names)
  BY <1>2, <1>3
<1>5. IsFiniteSet(Sids)
  BY RelayAssumption
<1>6. IsFiniteSet(Sids \X Names)
  BY <1>4, <1>5, FS_Product
<1> QED
  BY <1>6 DEF Slots

(* reap keeps the tables well typed. *)
LEMMA ReapType ==
  ASSUME TypeOK, Reap
  PROVE  TypeOK'
<1> USE RelayAssumption DEF TypeOK
<1> DEFINE left == {f \in Slots : Held(f)} \ Doomed
<1>1. NoLeg \in Leg
  BY DEF NoLeg, Leg
<1>2. ASSUME NEW f \in Slots PROVE Survivor(f, left) \in Leg
  BY DEF Survivor, Leg
<1>3. leg' \in [Slots -> Leg]
  BY <1>1, <1>2 DEF Reap
<1>4. ASSUME NEW k \in Accts PROVE legsPerIP'[k] \in Nat
  <2> DEFINE S == {f \in Doomed : leg[f].acct = k}
  <2>1. IsFiniteSet(S)
    BY SlotsFinite, FS_Subset DEF Doomed
  <2>2. Cardinality(S) \in Nat
    BY <2>1, FS_CardinalityType
  <2>3. legsPerIP'[k] = Released(legsPerIP[k], Cardinality(S))
    BY DEF Reap
  <2> HIDE DEF S
  <2> QED
    BY <2>2, <2>3 DEF Released
<1>5. legsPerIP' \in [Accts -> Nat]
  BY <1>4 DEF Reap
<1>6. byAddr' \in [Addrs -> Slots \cup {None}]
  BY DEF Reap, Unindexed
<1>7. paired' \in [Sids -> BOOLEAN] /\ age' \in [Sids -> 0 .. PendingPair + 1]
  BY DEF Reap
<1> QED
  BY <1>3, <1>5, <1>6, <1>7, HistoryType DEF Reap

-----------------------------------------------------------------------------
(* The index, the peers and the shape of the legs *)

Shape == LegShape /\ IndexSound /\ PeersMatch

(* A new leg is indexed, and published to its partner. *)
LEMMA AddLegShape ==
  ASSUME TypeOK, Shape, NEW f \in Slots, NEW x \in Addrs, NEW e \in Epks \cup {None},
         ~ Held(f), AddLeg(f, x, e)
  PROVE  Shape'
<1> USE RelayAssumption, OtherSlot DEF Shape, Held
<1>1. /\ leg'[f] = [addr |-> x, acct |-> AcctOf[x], epk |-> e, idle |-> 0,
                    peer |-> leg[Other(f)].addr]
      /\ leg'[Other(f)] = IF Held(Other(f)) THEN [leg[Other(f)] EXCEPT !.peer = x]
                          ELSE leg[Other(f)]
      /\ \A g \in Slots \ {f, Other(f)} : leg'[g] = leg[g]
  BY DEF AddLeg
<1>2. \A g \in Slots \ {f} : /\ leg'[g].addr = leg[g].addr /\ leg'[g].acct = leg[g].acct
                             /\ leg[g].addr = None => leg'[g] = leg[g]
  BY <1>1 DEF TypeOK, Leg
<1>3. LegShape'
  BY <1>1, <1>2 DEF LegShape
<1>4. IndexSound'
  <2> SUFFICES ASSUME NEW y \in Addrs, byAddr'[y] # None
               PROVE  leg'[byAddr'[y]].addr = y
    BY DEF IndexSound
  <2>1. CASE y = x
    BY <1>1, <2>1 DEF AddLeg, TypeOK
  <2>2. CASE y # x
    <3>1. byAddr'[y] = byAddr[y] /\ byAddr[y] \in Slots /\ leg[byAddr[y]].addr = y
      BY <2>2 DEF AddLeg, TypeOK, IndexSound
    <3> QED
      BY <3>1, <1>2
  <2> QED
    BY <2>1, <2>2
<1>5. PeersMatch'
  <2> SUFFICES ASSUME NEW g \in Slots, leg'[g].addr # None
               PROVE  leg'[g].peer = leg'[Other(g)].addr
    BY DEF PeersMatch
  <2>1. CASE g = f
    BY <1>1, <1>2, <2>1
  <2>2. CASE g = Other(f)
    BY <1>1, <1>2, <2>2 DEF TypeOK, Leg
  <2>3. CASE g \notin {f, Other(f)}
    BY <1>1, <1>2, <2>3 DEF PeersMatch
  <2> QED
    BY <2>1, <2>2, <2>3
<1> QED
  BY <1>3, <1>4, <1>5

(* A migrated leg leaves no index entry behind, and its partner learns its address. *)
LEMMA MigrateLegShape ==
  ASSUME TypeOK, Shape, NEW f \in Slots, NEW x \in Addrs,
         Held(f), leg[f].addr # x, MigrateLeg(f, x)
  PROVE  Shape'
<1> USE RelayAssumption, OtherSlot DEF Shape, Held
<1>1. /\ leg'[f] = [addr |-> x, acct |-> AcctOf[x], epk |-> leg[f].epk, idle |-> 0,
                    peer |-> IF Held(Other(f)) THEN leg[Other(f)].addr ELSE leg[f].peer]
      /\ leg'[Other(f)] = IF Held(Other(f)) THEN [leg[Other(f)] EXCEPT !.peer = x]
                          ELSE leg[Other(f)]
      /\ \A g \in Slots \ {f, Other(f)} : leg'[g] = leg[g]
  BY DEF MigrateLeg
<1>2. \A g \in Slots \ {f} : /\ leg'[g].addr = leg[g].addr /\ leg'[g].acct = leg[g].acct
                             /\ leg[g].addr = None => leg'[g] = leg[g]
  BY <1>1 DEF TypeOK, Leg
<1>3. LegShape'
  BY <1>1, <1>2 DEF LegShape
<1>4. IndexSound'
  <2> SUFFICES ASSUME NEW y \in Addrs, byAddr'[y] # None
               PROVE  leg'[byAddr'[y]].addr = y
    BY DEF IndexSound
  <2>1. CASE y = x
    BY <1>1, <2>1 DEF MigrateLeg, Reindexed, TypeOK
  <2>2. CASE y # x
    <3>1. y # leg[f].addr /\ byAddr'[y] = byAddr[y]
      BY <2>2 DEF MigrateLeg, Reindexed, TypeOK
    <3>2. byAddr[y] \in Slots /\ leg[byAddr[y]].addr = y
      BY <3>1 DEF TypeOK, IndexSound
    <3> QED
      BY <3>1, <3>2, <1>2
  <2> QED
    BY <2>1, <2>2
<1>5. PeersMatch'
  <2> SUFFICES ASSUME NEW g \in Slots, leg'[g].addr # None
               PROVE  leg'[g].peer = leg'[Other(g)].addr
    BY DEF PeersMatch
  <2>1. CASE g = f
    BY <1>1, <1>2, <2>1 DEF PeersMatch
  <2>2. CASE g = Other(f)
    BY <1>1, <1>2, <2>2 DEF TypeOK, Leg
  <2>3. CASE g \notin {f, Other(f)}
    BY <1>1, <1>2, <2>3 DEF PeersMatch
  <2> QED
    BY <2>1, <2>2, <2>3
<1> QED
  BY <1>3, <1>4, <1>5

(* A step that touches idle timers only preserves the shape. *)
LEMMA IdleShape ==
  ASSUME TypeOK, Shape, UNCHANGED byAddr,
         \A g \in Slots : /\ leg'[g].addr = leg[g].addr /\ leg'[g].acct = leg[g].acct
                          /\ leg'[g].peer = leg[g].peer
                          /\ leg[g].addr = None => leg'[g] = leg[g]
  PROVE  Shape'
  BY OtherSlot DEF Shape, LegShape, IndexSound, PeersMatch, Held, TypeOK

(* reap leaves no index entry of a dropped leg, and no peer of a lone one. *)
LEMMA ReapShape ==
  ASSUME TypeOK, Shape, Reap
  PROVE  Shape'
<1> USE RelayAssumption, OtherSlot DEF Shape, Held
<1> DEFINE left == {f \in Slots : Held(f)} \ Doomed
<1>1. \A f \in Slots : leg'[f] = IF f \in left THEN Survivor(f, left) ELSE NoLeg
  BY DEF Reap
<1>2. \A f \in left : /\ leg'[f].addr = leg[f].addr /\ leg'[f].acct = leg[f].acct
                      /\ leg'[f].peer = IF Other(f) \in left THEN leg[f].peer ELSE None
  <2> SUFFICES ASSUME NEW f \in left
               PROVE  /\ leg'[f].addr = leg[f].addr /\ leg'[f].acct = leg[f].acct
                      /\ leg'[f].peer = IF Other(f) \in left THEN leg[f].peer ELSE None
    OBVIOUS
  <2>1. leg[f] \in Leg /\ leg'[f] = Survivor(f, left)
    BY <1>1 DEF TypeOK
  <2> HIDE DEF left
  <2> QED
    BY <2>1 DEF Survivor, Leg
<1>3. \A f \in Slots \ left : leg'[f] = NoLeg /\ leg'[f].addr = None
  <2> HIDE DEF left
  <2>1. NoLeg.addr = None
    BY DEF NoLeg
  <2> QED
    BY <1>1, <2>1
<1>4. \A f \in left : f \in Slots /\ leg[f].addr # None
  OBVIOUS
<1>5. LegShape'
  BY <1>2, <1>3, <1>4 DEF LegShape
<1>6. IndexSound'
  <2> SUFFICES ASSUME NEW y \in Addrs, byAddr'[y] # None
               PROVE  leg'[byAddr'[y]].addr = y
    BY DEF IndexSound
  <2>1. byAddr'[y] = byAddr[y] /\ \A g \in Doomed : leg[g].addr # y
    BY DEF Reap, Unindexed
  <2>2. byAddr[y] \in Slots /\ leg[byAddr[y]].addr = y
    BY <2>1 DEF TypeOK, IndexSound
  <2>3. byAddr[y] \in left
    BY <2>1, <2>2
  <2> QED
    BY <2>1, <2>2, <2>3, <1>2
<1>7. PeersMatch'
  <2> SUFFICES ASSUME NEW g \in Slots, leg'[g].addr # None
               PROVE  leg'[g].peer = leg'[Other(g)].addr
    BY DEF PeersMatch
  <2>1. g \in left
    BY <1>3
  <2>2. CASE Other(g) \in left
    BY <1>2, <1>4, <2>1, <2>2 DEF PeersMatch
  <2>3. CASE Other(g) \notin left
    BY <1>2, <1>3, <2>1, <2>3
  <2> QED
    BY <2>2, <2>3
<1> QED
  BY <1>5, <1>6, <1>7

-----------------------------------------------------------------------------
(* The accounts and the session table *)

Charged(k) == {f \in Slots : leg[f].acct = k}

Counts == AccountingExact /\ LegCapRespected /\ SessionsHaveLegs

(* The legs charged to an accounting key are finitely many. *)
LEMMA ChargedFinite ==
  \A k : IsFiniteSet(Charged(k)) /\ Cardinality(Charged(k)) \in Nat
  BY SlotsFinite, FS_Subset, FS_CardinalityType DEF Charged

(* SessionsHaveLegs by membership. *)
LEMMA SessionsByLeg ==
  ASSUME TypeOK
  PROVE  sessions = {f[1] : f \in {g \in Slots : Held(g)}}
           <=> \A s \in Sids : s \in sessions <=> \E f \in Slots : Held(f) /\ f[1] = s
  BY DEF TypeOK, Slots

(* A step that leaves addresses and accounts of all legs alone preserves the counts. *)
LEMMA SameCounts ==
  ASSUME Counts, UNCHANGED <<sessions, legsPerIP>>,
         \A g \in Slots : leg'[g].addr = leg[g].addr /\ leg'[g].acct = leg[g].acct
  PROVE  Counts'
<1>1. \A k \in Accts : {f \in Slots : leg'[f].acct = k} = {f \in Slots : leg[f].acct = k}
  OBVIOUS
<1>2. {g \in Slots : leg'[g].addr # None} = {g \in Slots : leg[g].addr # None}
  OBVIOUS
<1> QED
  BY <1>1, <1>2 DEF Counts, AccountingExact, LegCapRespected, SessionsHaveLegs, Held

(* A new leg is charged once, and its session is in the table. *)
LEMMA AddLegCounts ==
  ASSUME TypeOK, LegShape, Counts,
         NEW f \in Slots, NEW x \in Addrs, NEW e \in Epks \cup {None},
         ~ Held(f), AddLeg(f, x, e), TypeOK',
         SessionAvailable(f[1]), legsPerIP[AcctOf[x]] < MaxLegsPerIP
  PROVE  Counts'
<1>0. AcctOf[x] \in Accts /\ MaxLegsPerIP \in Nat /\ MaxSessions \in Nat /\ x # None
  BY AcctType, RelayAssumption
<1>1. /\ leg'[f].acct = AcctOf[x] /\ leg'[f].addr = x
      /\ \A g \in Slots \ {f} : leg'[g].acct = leg[g].acct /\ leg'[g].addr = leg[g].addr
  BY OtherSlot DEF AddLeg, TypeOK, Leg, Held
<1>2. leg[f].acct = None
  BY DEF LegShape, Held, NoLeg
<1>3. Charged(AcctOf[x])' = Charged(AcctOf[x]) \cup {f} /\ f \notin Charged(AcctOf[x])
  BY <1>0, <1>1, <1>2, RelayAssumption DEF Charged
<1>4. \A k \in Accts \ {AcctOf[x]} : Charged(k)' = Charged(k)
  BY <1>1, <1>2, RelayAssumption DEF Charged
<1>5. Cardinality(Charged(AcctOf[x])') = Cardinality(Charged(AcctOf[x])) + 1
  BY Zenon, <1>3, ChargedFinite, FS_AddElement
<1>6. \A k \in Accts : legsPerIP'[k] = IF k = AcctOf[x] THEN legsPerIP[k] + 1 ELSE legsPerIP[k]
  BY <1>0 DEF AddLeg, TypeOK
<1>7. \A k \in Accts : legsPerIP[k] = Cardinality(Charged(k)) /\ legsPerIP[k] <= MaxLegsPerIP
  BY DEF Counts, AccountingExact, LegCapRespected, Charged
<1>8. \A k \in Accts : legsPerIP'[k] = Cardinality(Charged(k)') /\ legsPerIP'[k] <= MaxLegsPerIP
  <2> SUFFICES ASSUME NEW k \in Accts
               PROVE  legsPerIP'[k] = Cardinality(Charged(k)') /\ legsPerIP'[k] <= MaxLegsPerIP
    OBVIOUS
  <2>1. CASE k = AcctOf[x]
    <3>1. legsPerIP[k] \in Nat
      BY DEF TypeOK
    <3> QED
      BY <1>0, <1>5, <1>6, <1>7, <2>1, <3>1
  <2>2. CASE k # AcctOf[x]
    BY <1>4, <1>6, <1>7, <2>2
  <2> QED
    BY <2>1, <2>2
<1>9. AccountingExact' /\ LegCapRespected'
  BY <1>8 DEF AccountingExact, LegCapRespected, Charged
<1>10. \A s \in Sids : s \in sessions' <=> \E g \in Slots : leg'[g].addr # None /\ g[1] = s
  <2>1. \A s \in Sids : s \in sessions <=> \E g \in Slots : leg[g].addr # None /\ g[1] = s
    BY SessionsByLeg DEF Counts, SessionsHaveLegs, Held
  <2>2. sessions' = sessions \cup {f[1]}
    BY DEF AddLeg
  <2>3. x # None /\ leg[f].addr = None
    BY <1>0 DEF Held
  <2> QED
    BY <2>1, <2>2, <2>3, <1>1
<1>11. Cardinality(sessions') <= MaxSessions
  <2>1. IsFiniteSet(sessions) /\ Cardinality(sessions) \in Nat
    BY FS_Subset, FS_CardinalityType, RelayAssumption DEF TypeOK
  <2>2. sessions' = sessions \cup {f[1]}
    BY DEF AddLeg
  <2>3. Cardinality(sessions') = IF f[1] \in sessions THEN Cardinality(sessions)
                                 ELSE Cardinality(sessions) + 1
    BY Zenon, <2>1, <2>2, FS_AddElement
  <2> QED
    BY <1>0, <2>1, <2>3 DEF SessionAvailable, Counts, SessionsHaveLegs
<1>12. SessionsHaveLegs'
  <2>1. sessions' = {g[1] : g \in {h \in Slots : leg'[h].addr # None}}
    BY <1>10 DEF TypeOK, Slots
  <2> QED
    BY <2>1, <1>11 DEF SessionsHaveLegs, Held
<1> QED
  BY <1>9, <1>12 DEF Counts

(* The charge of a migrated leg moves with it. *)
LEMMA MigrateLegCounts ==
  ASSUME TypeOK, LegShape, Counts, NEW f \in Slots, NEW x \in Addrs,
         Held(f), MigrateLeg(f, x),
         leg[f].acct = AcctOf[x] \/ legsPerIP[AcctOf[x]] < MaxLegsPerIP
  PROVE  Counts'
<1> DEFINE new == AcctOf[x]
<1>0. PICK old \in Accts : old = leg[f].acct
  BY RelayAssumption DEF LegShape, Held, TypeOK, Leg
<1>1. /\ leg'[f].acct = new /\ leg'[f].addr = x
      /\ \A g \in Slots \ {f} : leg'[g].acct = leg[g].acct /\ leg'[g].addr = leg[g].addr
  BY OtherSlot DEF MigrateLeg, TypeOK, Leg, Held
<1>2. new \in Accts /\ x # None /\ MaxLegsPerIP \in Nat
  BY AcctType, RelayAssumption
<1>3. SessionsHaveLegs'
  <2>1. {g \in Slots : leg'[g].addr # None} = {g \in Slots : leg[g].addr # None}
    BY <1>1, <1>2 DEF Held
  <2>2. sessions' = sessions
    BY DEF MigrateLeg
  <2> QED
    BY <2>1, <2>2 DEF Counts, SessionsHaveLegs, Held
<1>4. CASE old = new
  <2>1. \A k \in Accts : {g \in Slots : leg'[g].acct = k} = {g \in Slots : leg[g].acct = k}
    <3>1. \A g \in Slots : leg'[g].acct = leg[g].acct
      BY Zenon, <1>0, <1>1, <1>4
    <3> QED
      BY <3>1
  <2>2. legsPerIP' = legsPerIP
    BY <1>0, <1>4 DEF MigrateLeg, Recharged
  <2> QED
    BY <1>3, <2>1, <2>2 DEF Counts, AccountingExact, LegCapRespected
<1>5. CASE old # new
  <2>1. Charged(new)' = Charged(new) \cup {f} /\ f \notin Charged(new)
    BY <1>0, <1>1, <1>5 DEF Charged
  <2>2. Charged(old)' = Charged(old) \ {f} /\ f \in Charged(old)
    BY <1>0, <1>1, <1>5 DEF Charged
  <2>3. \A k \in Accts \ {old, new} : Charged(k)' = Charged(k)
    BY <1>0, <1>1 DEF Charged
  <2>4. Cardinality(Charged(new)') = Cardinality(Charged(new)) + 1
    BY Zenon, <2>1, ChargedFinite, FS_AddElement
  <2>5. Cardinality(Charged(old)') = Cardinality(Charged(old)) - 1
    BY ZenonT(30), <2>2, ChargedFinite, FS_RemoveElement
  <2>6. Cardinality(Charged(old)) # 0
    BY <2>2, ChargedFinite, FS_EmptySet
  <2>7. \A k \in Accts : legsPerIP[k] = Cardinality(Charged(k)) /\ legsPerIP[k] <= MaxLegsPerIP
    BY DEF Counts, AccountingExact, LegCapRespected, Charged
  <2>8. legsPerIP' = [legsPerIP EXCEPT ![old] = Released(@, 1), ![new] = @ + 1]
    BY <1>0, <1>5 DEF MigrateLeg, Recharged
  <2>9. /\ legsPerIP'[new] = legsPerIP[new] + 1
        /\ legsPerIP'[old] = Released(legsPerIP[old], 1)
        /\ \A k \in Accts \ {old, new} : legsPerIP'[k] = legsPerIP[k]
    BY <1>2, <1>5, <2>8 DEF TypeOK
  <2>10. legsPerIP'[old] = legsPerIP[old] - 1
    <3>1. legsPerIP[old] \in Nat /\ legsPerIP[old] # 0
      BY <2>6, <2>7 DEF TypeOK
    <3>2. Released(legsPerIP[old], 1) = legsPerIP[old] - 1
      BY <3>1 DEF Released
    <3> QED
      BY <2>9, <3>2
  <2>11. legsPerIP[new] < MaxLegsPerIP
    BY <1>0, <1>5
  <2> HIDE DEF new
  <2>12. \A k \in Accts : legsPerIP'[k] = Cardinality(Charged(k)') /\ legsPerIP'[k] <= MaxLegsPerIP
    <3> SUFFICES ASSUME NEW k \in Accts
                 PROVE  legsPerIP'[k] = Cardinality(Charged(k)') /\ legsPerIP'[k] <= MaxLegsPerIP
      OBVIOUS
    <3>1. legsPerIP[k] \in Nat
      BY DEF TypeOK
    <3>2. CASE k = new
      <4>1. legsPerIP[new] = Cardinality(Charged(new)) /\ legsPerIP'[new] = Cardinality(Charged(new)')
        BY <1>2, <2>4, <2>7, <2>9
      <4>2. legsPerIP'[new] <= MaxLegsPerIP
        BY <1>2, <2>9, <2>11, <3>1, <3>2
      <4> QED
        BY <3>2, <4>1, <4>2
    <3>3. CASE k = old
      BY <1>2, <2>5, <2>7, <2>10, <3>1, <3>3
    <3>4. CASE k \notin {old, new}
      BY <2>3, <2>7, <2>9, <3>4
    <3> QED
      BY <3>2, <3>3, <3>4
  <2> QED
    BY <1>3, <2>12 DEF Counts, AccountingExact, LegCapRespected, Charged
<1> QED
  BY <1>4, <1>5

(* reap credits every dropped leg once, and drops the sessions left empty. *)
LEMMA ReapCounts ==
  ASSUME TypeOK, LegShape, Counts, Reap
  PROVE  Counts'
<1> USE RelayAssumption, OtherSlot
<1> DEFINE left == {f \in Slots : Held(f)} \ Doomed
<1>1. \A f \in Slots : leg'[f] = IF f \in left THEN Survivor(f, left) ELSE NoLeg
  BY DEF Reap
<1>2. \A f \in left : leg'[f].addr = leg[f].addr /\ leg'[f].acct = leg[f].acct
  <2> SUFFICES ASSUME NEW f \in left
               PROVE  leg'[f].addr = leg[f].addr /\ leg'[f].acct = leg[f].acct
    OBVIOUS
  <2>1. leg[f] \in Leg /\ leg'[f] = Survivor(f, left)
    BY <1>1 DEF TypeOK
  <2> HIDE DEF left
  <2> QED
    BY <2>1 DEF Survivor, Leg
<1>3. \A f \in Slots \ left : leg'[f].addr = None /\ leg'[f].acct = None
  <2> HIDE DEF left
  <2>1. NoLeg.addr = None /\ NoLeg.acct = None
    BY DEF NoLeg
  <2> QED
    BY <1>1, <2>1
<1>4. \A k \in Accts : legsPerIP'[k] = Cardinality(Charged(k)') /\ legsPerIP'[k] <= MaxLegsPerIP
  <2> SUFFICES ASSUME NEW k \in Accts
               PROVE  legsPerIP'[k] = Cardinality(Charged(k)') /\ legsPerIP'[k] <= MaxLegsPerIP
    OBVIOUS
  <2> DEFINE G == {f \in Doomed : leg[f].acct = k}
  <2>1. G \subseteq Charged(k) /\ Charged(k) \cap G = G
    BY DEF Doomed, Charged
  <2>2. Charged(k)' = Charged(k) \ G
    <3>1. \A f \in Slots : leg[f].acct = k => leg[f].addr # None
      BY DEF LegShape, NoLeg
    <3>2. \A f \in Slots : f \in Charged(k)' <=> f \in left /\ leg[f].acct = k
      BY <1>2, <1>3 DEF Charged
    <3>3. \A f \in Slots : f \in Charged(k) \ G <=> f \in left /\ leg[f].acct = k
      BY <3>1 DEF Charged, Held
    <3> QED
      BY <3>2, <3>3 DEF Charged
  <2> HIDE DEF G
  <2>3. Cardinality(Charged(k)') = Cardinality(Charged(k)) - Cardinality(G)
    <3>1. IsFiniteSet(Charged(k))
      BY ChargedFinite
    <3>2. Cardinality(Charged(k) \ G) = Cardinality(Charged(k)) - Cardinality(Charged(k) \cap G)
      BY ZenonT(30), <3>1, FS_Difference
    <3> QED
      BY Zenon, <2>1, <2>2, <3>2
  <2>4. Cardinality(G) \in Nat /\ Cardinality(G) <= Cardinality(Charged(k))
    <3>1. IsFiniteSet(Charged(k))
      BY ChargedFinite
    <3> QED
      BY <2>1, <3>1, FS_Subset, FS_CardinalityType
  <2>5. legsPerIP'[k] = Released(legsPerIP[k], Cardinality(G))
    BY DEF Reap, G
  <2>6. legsPerIP[k] = Cardinality(Charged(k)) /\ legsPerIP[k] <= MaxLegsPerIP
    BY ZenonT(30) DEF Counts, AccountingExact, LegCapRespected, Charged
  <2> QED
    BY <2>3, <2>4, <2>5, <2>6, ChargedFinite DEF Released
<1>5. AccountingExact' /\ LegCapRespected'
  BY <1>4 DEF AccountingExact, LegCapRespected, Charged
<1>6. sessions' = {f[1] : f \in {g \in Slots : leg'[g].addr # None}}
  <2>1. {g \in Slots : leg'[g].addr # None} = left
    BY <1>2, <1>3 DEF Held
  <2>2. sessions' = sessions \cap {f[1] : f \in left}
    BY DEF Reap
  <2>3. sessions = {f[1] : f \in {g \in Slots : Held(g)}}
    BY DEF Counts, SessionsHaveLegs
  <2>4. {f[1] : f \in left} \subseteq sessions
    BY <2>3
  <2> QED
    BY <2>1, <2>2, <2>4
<1>7. Cardinality(sessions') <= MaxSessions
  <2>1. IsFiniteSet(sessions) /\ Cardinality(sessions) \in Nat
    BY FS_Subset, FS_CardinalityType DEF TypeOK
  <2>2. sessions' \in SUBSET sessions
    BY DEF Reap
  <2>3. Cardinality(sessions') <= Cardinality(sessions) /\ Cardinality(sessions') \in Nat
    BY <2>1, <2>2, FS_Subset, FS_CardinalityType
  <2> QED
    BY <2>1, <2>3 DEF Counts, SessionsHaveLegs
<1> QED
  BY <1>5, <1>6, <1>7 DEF Counts, SessionsHaveLegs, Held

-----------------------------------------------------------------------------
(* The inductive invariant *)

RelayInv == TypeOK /\ Shape /\ Counts

(* An empty relay satisfies the invariant. *)
LEMMA InitInv == Init => RelayInv
<1> SUFFICES ASSUME Init PROVE RelayInv
  OBVIOUS
<1> USE RelayAssumption DEF Init
<1>1. NoLeg \in Leg /\ NoLeg.addr = None /\ NoLeg.acct = None
  BY DEF NoLeg, Leg
<1>2. TypeOK
  BY <1>1 DEF TypeOK
<1>3. Shape
  BY <1>1 DEF Shape, LegShape, IndexSound, PeersMatch, Held
<1>4. \A k \in Accts : {f \in Slots : leg[f].acct = k} = {}
  BY <1>1
<1>5. {f[1] : f \in {g \in Slots : Held(g)}} = {}
  BY <1>1 DEF Held
<1>6. Cardinality({}) = 0
  BY FS_EmptySet
<1>7. AccountingExact
  BY <1>4, <1>6 DEF AccountingExact
<1>8. LegCapRespected
  <2>1. \A k \in Accts : Cardinality({f \in Slots : leg[f].acct = k}) = 0
    BY Zenon, <1>4, <1>6
  <2> QED
    BY <2>1 DEF LegCapRespected
<1>9. SessionsHaveLegs
  <2>1. Cardinality(sessions) = 0
    BY <1>6
  <2>2. sessions = {f[1] : f \in {g \in Slots : Held(g)}}
    BY Zenon, <1>5
  <2>3. Cardinality(sessions) <= MaxSessions
    BY <2>1
  <2> QED
    BY <2>2, <2>3 DEF SessionsHaveLegs
<1> QED
  BY <1>2, <1>3, <1>7, <1>8, <1>9 DEF RelayInv, Counts

(* A leg refreshed in place. *)
LEMMA RefreshLegInv ==
  ASSUME RelayInv, NEW f \in Slots, Held(f), TypeOK',
         leg' = [leg EXCEPT ![f].idle = 0], UNCHANGED <<sessions, byAddr, legsPerIP>>
  PROVE  RelayInv'
<1>1. \A g \in Slots : /\ leg'[g].addr = leg[g].addr /\ leg'[g].acct = leg[g].acct
                       /\ leg'[g].peer = leg[g].peer
                       /\ leg[g].addr = None => leg'[g] = leg[g]
  BY DEF RelayInv, TypeOK, Leg, Held
<1>2. Shape'
  BY <1>1, IdleShape DEF RelayInv
<1>3. Counts'
  BY <1>1, SameCounts DEF RelayInv
<1> QED
  BY <1>2, <1>3 DEF RelayInv

(* bindTicketed keeps the invariant. *)
LEMMA BindTicketedInv ==
  ASSUME RelayInv, NEW b \in verifying, BindTicketed(b)
  PROVE  RelayInv'
<1> DEFINE f == <<b.sid, b.name>>
<1>1. b \in Binds /\ f \in Slots /\ f[1] = b.sid /\ b.epk \in Epks /\ b.src \in Addrs
  BY BindType DEF RelayInv, TypeOK
<1>2. TypeOK'
  BY BindTicketedType DEF RelayInv, Shape
<1>3. CASE Refuse(b.sid)
  <2>1. Shape'
    BY <1>3, IdleShape DEF RelayInv, Refuse
  <2>2. Counts'
    BY <1>3, SameCounts DEF RelayInv, Refuse
  <2> QED
    BY <1>2, <2>1, <2>2 DEF RelayInv
<1>4. CASE ~ Capped(f, b.src) /\ ~ Held(f) /\ AddLeg(f, b.src, b.epk)
  <2> DEFINE n == legsPerIP[AcctOf[b.src]]
  <2>0. n \in Nat /\ MaxLegsPerIP \in Nat
    BY <1>1, AcctType, RelayAssumption DEF RelayInv, TypeOK
  <2>1. SessionAvailable(f[1]) /\ n < MaxLegsPerIP
    <3>1. SessionAvailable(f[1]) /\ ~(n >= MaxLegsPerIP)
      BY <1>4 DEF Capped
    <3> HIDE DEF f, n
    <3> QED
      BY <2>0, <3>1
  <2> HIDE DEF f
  <2>2. Shape'
    BY <1>1, <1>4, AddLegShape DEF RelayInv
  <2>3. Counts'
    BY <1>1, <1>2, <1>4, <2>1, AddLegCounts DEF RelayInv, Shape
  <2> QED
    BY <1>2, <2>2, <2>3 DEF RelayInv
<1>5. CASE Held(f) /\ RefreshLeg(f)
  BY Zenon, <1>1, <1>2, <1>5, RefreshLegInv DEF RefreshLeg
<1>6. CASE ~ Capped(f, b.src) /\ Held(f) /\ leg[f].addr # b.src /\ MigrateLeg(f, b.src)
  <2> DEFINE n == legsPerIP[AcctOf[b.src]]
  <2>0. n \in Nat /\ MaxLegsPerIP \in Nat
    BY <1>1, AcctType, RelayAssumption DEF RelayInv, TypeOK
  <2>1. leg[f].acct = AcctOf[b.src] \/ n < MaxLegsPerIP
    <3>1. leg[f].acct = AcctOf[b.src] \/ ~(n >= MaxLegsPerIP)
      BY <1>6 DEF Capped
    <3> HIDE DEF f, n
    <3> QED
      BY <2>0, <3>1
  <2> HIDE DEF f
  <2>2. Shape'
    BY <1>1, <1>6, MigrateLegShape DEF RelayInv
  <2>3. Counts'
    BY <1>1, <1>6, <2>1, MigrateLegCounts DEF RelayInv, Shape
  <2> QED
    BY <1>2, <2>2, <2>3 DEF RelayInv
<1> QED
  BY <1>3, <1>4, <1>5, <1>6 DEF BindTicketed

(* bindNetworkMode keeps the invariant. *)
LEMMA BindNetworkModeInv ==
  ASSUME RelayInv, NEW s \in Sids, NEW x \in Addrs, BindNetworkMode(s, x)
  PROVE  RelayInv'
<1>1. TypeOK'
  BY BindNetworkModeType DEF RelayInv
<1>2. ASSUME NEW f \in Slots, leg[f].addr = x, RefreshLeg(f)
      PROVE  RelayInv'
  <2>1. Held(f)
    BY <1>2, RelayAssumption DEF Held
  <2> QED
    BY ZenonT(30), <1>1, <1>2, <2>1, RefreshLegInv DEF RefreshLeg
<1>3. ASSUME NEW f \in Slots, f[1] = s, ~ Held(f), SessionAvailable(s),
             legsPerIP[AcctOf[x]] < MaxLegsPerIP, AddLeg(f, x, None)
      PROVE  RelayInv'
  <2>1. Shape'
    BY <1>3, AddLegShape DEF RelayInv
  <2>2. Counts'
    BY <1>1, <1>3, AddLegCounts DEF RelayInv, Shape
  <2> QED
    BY <1>1, <2>1, <2>2 DEF RelayInv
<1>4. CASE Refuse(s)
  <2>1. Shape'
    BY <1>4, IdleShape DEF RelayInv, Refuse
  <2>2. Counts'
    BY <1>4, SameCounts DEF RelayInv, Refuse
  <2> QED
    BY <1>1, <2>1, <2>2 DEF RelayInv
<1> QED
  BY <1>2, <1>3, <1>4 DEF BindNetworkMode

(* forward keeps the invariant. *)
LEMMA ForwardInv ==
  ASSUME RelayInv, NEW x \in Addrs, Forward(x)
  PROVE  RelayInv'
<1>1. byAddr[x] \in Slots /\ Held(byAddr[x])
  BY RelayAssumption DEF RelayInv, Shape, IndexSound, TypeOK, Forward, Held
<1>2. TypeOK'
  BY ForwardType DEF RelayInv
<1> QED
  BY Zenon, <1>1, <1>2, RefreshLegInv DEF Forward

(* The passing of time keeps the invariant. *)
LEMMA TickInv ==
  ASSUME RelayInv, Tick
  PROVE  RelayInv'
<1>1. \A g \in Slots : /\ leg'[g].addr = leg[g].addr /\ leg'[g].acct = leg[g].acct
                       /\ leg'[g].peer = leg[g].peer
                       /\ leg[g].addr = None => leg'[g] = leg[g]
  BY DEF RelayInv, TypeOK, Leg, Held, Tick
<1>2. Shape'
  BY <1>1, IdleShape DEF RelayInv, Tick
<1>3. Counts'
  BY <1>1, SameCounts DEF RelayInv, Tick
<1> QED
  BY <1>2, <1>3, TickType DEF RelayInv

(* Every step of the relay keeps the invariant. *)
LEMMA NextInv == RelayInv /\ [Next]_vars => RelayInv'
<1> SUFFICES ASSUME RelayInv, [Next]_vars PROVE RelayInv'
  OBVIOUS
<1>1. ASSUME NEW b \in Binds, AdmitTicketBind(b) PROVE RelayInv'
  <2>1. TypeOK'
    BY <1>1, HistoryType DEF AdmitTicketBind, RelayInv, TypeOK
  <2> QED
    BY <1>1, <2>1, IdleShape, SameCounts DEF AdmitTicketBind, RelayInv
<1>2. ASSUME NEW b \in verifying, RejectTicketBind(b) PROVE RelayInv'
  <2>1. TypeOK'
    BY <1>2, HistoryType DEF RejectTicketBind, RelayInv, TypeOK
  <2> QED
    BY <1>2, <2>1, IdleShape, SameCounts DEF RejectTicketBind, RelayInv
<1>3. ASSUME NEW b \in verifying, BindTicketed(b) PROVE RelayInv'
  BY <1>3, BindTicketedInv
<1>4. ASSUME NEW nb \in NetBinds, BindNetworkMode(nb[1], nb[2]) PROVE RelayInv'
  BY <1>4, NetBindType, BindNetworkModeInv
<1>5. ASSUME NEW x \in Addrs, Forward(x) PROVE RelayInv'
  BY <1>5, ForwardInv
<1>6. CASE Reap
  BY <1>6, ReapType, ReapShape, ReapCounts DEF RelayInv, Shape
<1>7. CASE Tick
  BY <1>7, TickInv
<1>8. CASE UNCHANGED vars
  <2>1. TypeOK'
    BY <1>8 DEF vars, RelayInv, TypeOK
  <2> QED
    BY <1>8, <2>1, IdleShape, SameCounts DEF vars, RelayInv
<1> QED
  BY <1>1, <1>2, <1>3, <1>4, <1>5, <1>6, <1>7, <1>8 DEF Next

(* The relay keeps its inductive invariant in every behaviour. *)
THEOREM RelayInvariant == Spec => []RelayInv
  BY InitInv, NextInv, PTL DEF Spec

(* bind, migration, forward and reap keep every table of the relay well typed. *)
THEOREM RelayTypeCorrect == Spec => []TypeOK
  BY RelayInvariant, PTL DEF RelayInv

(* What forward finds under an address is a bound leg at that address. *)
THEOREM RelayIndexSound == Spec => []IndexSound
<1>1. RelayInv => IndexSound
  BY DEF RelayInv, Shape
<1> QED
  BY <1>1, RelayInvariant, PTL

(* The published peers are the partners' current addresses, and nil for a lone leg. *)
THEOREM RelayPeersMatch == Spec => []PeersMatch
<1>1. RelayInv => PeersMatch
  BY DEF RelayInv, Shape
<1> QED
  BY <1>1, RelayInvariant, PTL

(* bind, migration and releaseIPLocked keep the per-source accounts exact. *)
THEOREM RelayAccounting == Spec => []AccountingExact
<1>1. RelayInv => AccountingExact
  BY DEF RelayInv, Counts
<1> QED
  BY <1>1, RelayInvariant, PTL

(* No source ever holds more legs than maxLegsPerIP. *)
THEOREM RelayLegCap == Spec => []LegCapRespected
<1>1. RelayInv => LegCapRespected
  BY DEF RelayInv, Counts
<1> QED
  BY <1>1, RelayInvariant, PTL

(* The session table holds exactly the sessions with a leg, at most maxSessions. *)
THEOREM RelaySessions == Spec => []SessionsHaveLegs
<1>1. RelayInv => SessionsHaveLegs
  BY DEF RelayInv, Counts
<1> QED
  BY <1>1, RelayInvariant, PTL

-----------------------------------------------------------------------------
(* The owner of a leg *)

(* Within bindTicketed only a migration changes the address of a bound leg. *)
LEMMA BindTicketedMoves ==
  ASSUME RelayInv, NEW b \in verifying, BindTicketed(b),
         NEW f \in Slots, Held(f), leg'[f].addr \notin {None, leg[f].addr}
  PROVE  /\ f = <<b.sid, b.name>> /\ leg[f].epk = b.epk
         /\ leg'[f].addr = b.src /\ leg'[f].epk = leg[f].epk
<1> DEFINE g == <<b.sid, b.name>>
<1> USE OtherSlot
<1>1. b \in Binds /\ g \in Slots
  BY BindType DEF RelayInv, TypeOK
<1>2. ~ Refuse(b.sid)
  BY DEF Refuse
<1>2a. ~ RefreshLeg(g)
  <2> SUFFICES ASSUME RefreshLeg(g) PROVE leg'[f].addr = leg[f].addr
    OBVIOUS
  <2> HIDE DEF g
  <2> QED
    BY <1>1 DEF RefreshLeg, RelayInv, TypeOK, Leg
<1>3. ~ (~ Held(g) /\ AddLeg(g, b.src, b.epk))
  <2> SUFFICES ASSUME ~ Held(g), AddLeg(g, b.src, b.epk) PROVE leg'[f].addr = leg[f].addr
    OBVIOUS
  <2> HIDE DEF g
  <2> QED
    BY <1>1 DEF AddLeg, RelayInv, TypeOK, Leg, Held
<1>4. ~ TakenByOther(g, b.epk) /\ Held(g) /\ MigrateLeg(g, b.src)
  BY <1>2, <1>2a, <1>3 DEF BindTicketed
<1>5. leg[g].epk = b.epk
  BY <1>4 DEF TakenByOther
<1>6. /\ leg'[g].addr = b.src /\ leg'[g].epk = leg[g].epk
      /\ \A h \in Slots \ {g} : leg'[h].addr = leg[h].addr
  BY <1>1, <1>4 DEF MigrateLeg, RelayInv, TypeOK, Leg
<1> QED
  BY <1>5, <1>6

(* A bound leg moves only to the source of a verified bind under its own key. *)
THEOREM RelayLegOwner == Spec => LegMovesOnlyByItsKey
<1> DEFINE A == \A f \in Slots :
                  Held(f) /\ leg'[f].addr \notin {None, leg[f].addr} =>
                    /\ leg'[f].epk = leg[f].epk
                    /\ [sid |-> f[1], name |-> f[2], epk |-> leg[f].epk, src |-> leg'[f].addr]
                         \in verifying
<1>1. RelayInv /\ [Next]_vars => [A]_vars
  <2> SUFFICES ASSUME RelayInv, Next,
                      NEW f \in Slots, Held(f), leg'[f].addr \notin {None, leg[f].addr}
               PROVE  /\ leg'[f].epk = leg[f].epk
                      /\ [sid |-> f[1], name |-> f[2], epk |-> leg[f].epk,
                          src |-> leg'[f].addr] \in verifying
    OBVIOUS
  <2> USE OtherSlot
  <2>1. \A b \in Binds : ~ AdmitTicketBind(b)
    BY DEF AdmitTicketBind
  <2>2. \A b \in verifying : ~ RejectTicketBind(b)
    BY DEF RejectTicketBind
  <2>3. ASSUME NEW nb \in NetBinds, BindNetworkMode(nb[1], nb[2]) PROVE FALSE
    <3>1. ASSUME NEW g \in Slots, RefreshLeg(g) PROVE FALSE
      BY <3>1 DEF RefreshLeg, RelayInv, TypeOK, Leg
    <3>2. ASSUME NEW g \in Slots, ~ Held(g), AddLeg(g, nb[2], None) PROVE FALSE
      BY <3>2 DEF AddLeg, RelayInv, TypeOK, Leg, Held
    <3>3. CASE Refuse(nb[1])
      BY <3>3 DEF Refuse
    <3> QED
      BY <2>3, <3>1, <3>2, <3>3 DEF BindNetworkMode
  <2>4. ASSUME NEW x \in Addrs PROVE ~ Forward(x)
    BY DEF Forward, RelayInv, TypeOK, Leg
  <2>5. ~ Reap
    <3> DEFINE left == {g \in Slots : Held(g)} \ Doomed
    <3> SUFFICES ASSUME Reap PROVE FALSE
      OBVIOUS
    <3>1. leg'[f] = IF f \in left THEN Survivor(f, left) ELSE NoLeg
      BY DEF Reap
    <3> HIDE DEF left
    <3> QED
      BY <3>1 DEF Survivor, NoLeg, RelayInv, TypeOK, Leg
  <2>6. ~ Tick
    BY DEF Tick, RelayInv, TypeOK, Leg
  <2>7. PICK b \in verifying : BindTicketed(b)
    BY <2>1, <2>2, <2>3, <2>4, <2>5, <2>6 DEF Next
  <2>8. /\ f = <<b.sid, b.name>> /\ leg[f].epk = b.epk
        /\ leg'[f].addr = b.src /\ leg'[f].epk = leg[f].epk
    BY <2>7, BindTicketedMoves
  <2>9. b = [sid |-> b.sid, name |-> b.name, epk |-> b.epk, src |-> b.src]
    <3>1. b \in [sid: Sids, name: Names, epk: Epks, src: Addrs]
      BY RelayAssumption DEF RelayInv, TypeOK
    <3> QED
      BY <3>1
  <2> QED
    BY <2>8, <2>9
<1> QED
  BY <1>1, RelayInvariant, PTL DEF Spec, LegMovesOnlyByItsKey

-----------------------------------------------------------------------------
(* Connected pairs *)

(* Legs bound from one address mark it as shared, and under any other address
   the index finds the leg. *)
Routed ==
  \A f \in Slots : Held(f) =>
    /\ \A g \in Slots \ {f} : leg[g].addr = leg[f].addr => leg[f].addr \in shared
    /\ leg[f].addr \notin shared => byAddr[leg[f].addr] = f

(* The mark of an address two legs use, or one leg still uses, is kept. *)
LEMMA SharedStays ==
  ASSUME History, NEW f \in Slots, leg'[f].addr \in Addrs
  PROVE  /\ \A g \in Slots \ {f} : leg'[g].addr = leg'[f].addr => leg'[f].addr \in shared'
         /\ leg'[f].addr \in shared => leg'[f].addr \in shared'
  BY DEF History

(* It is enough that the index finds the legs at unshared addresses. *)
LEMMA RoutedIf ==
  ASSUME TypeOK', History,
         \A f \in Slots : leg'[f].addr \in Addrs /\ leg'[f].addr \notin shared'
                            => byAddr'[leg'[f].addr] = f
  PROVE  Routed'
<1> SUFFICES ASSUME NEW f \in Slots, leg'[f].addr # None
             PROVE  /\ \A g \in Slots \ {f} : leg'[g].addr = leg'[f].addr => leg'[f].addr \in shared'
                    /\ leg'[f].addr \notin shared' => byAddr'[leg'[f].addr] = f
  BY DEF Routed, Held
<1>1. leg'[f].addr \in Addrs
  BY DEF TypeOK, Leg
<1> QED
  BY <1>1, SharedStays

(* A step that moves no leg keeps everyone routed. *)
LEMMA SameRouted ==
  ASSUME TypeOK', Routed, History, UNCHANGED byAddr,
         \A g \in Slots : leg'[g].addr = leg[g].addr
  PROVE  Routed'
<1>1. ASSUME NEW f \in Slots, leg'[f].addr \in Addrs, leg'[f].addr \notin shared'
      PROVE  byAddr'[leg'[f].addr] = f
  <2>1. leg[f].addr \notin shared
    BY <1>1, SharedStays
  <2> QED
    BY <1>1, <2>1, RelayAssumption DEF Routed, Held
<1> QED
  BY <1>1, RoutedIf

(* A new leg is indexed; an address it takes from another leg becomes shared. *)
LEMMA AddLegRouted ==
  ASSUME RelayInv, TypeOK', Routed, History, NEW f \in Slots, NEW x \in Addrs,
         NEW e \in Epks \cup {None}, AddLeg(f, x, e)
  PROVE  Routed'
<1>1. /\ leg'[f].addr = x
      /\ \A g \in Slots \ {f} : leg'[g].addr = leg[g].addr
  BY OtherSlot DEF AddLeg, RelayInv, TypeOK, Leg
<1>2. byAddr' = [byAddr EXCEPT ![x] = f]
  BY DEF AddLeg
<1>3. ASSUME NEW g \in Slots, leg'[g].addr \in Addrs, leg'[g].addr \notin shared'
      PROVE  byAddr'[leg'[g].addr] = g
  <2>1. CASE g = f
    BY <1>1, <1>2, <2>1 DEF RelayInv, TypeOK
  <2>2. CASE g # f
    <3>1. leg'[g].addr # x /\ leg[g].addr \notin shared
      BY <1>1, <1>3, <2>2, SharedStays
    <3>2. leg[g].addr \in Addrs /\ leg[g].addr # None
      BY <1>1, <1>3, <2>2, RelayAssumption
    <3>3. byAddr[leg[g].addr] = g
      BY <3>1, <3>2 DEF Routed, Held
    <3>4. leg'[g].addr = leg[g].addr /\ byAddr'[leg[g].addr] = byAddr[leg[g].addr]
      BY <1>1, <1>2, <2>2, <3>1, <3>2 DEF RelayInv, TypeOK
    <3> QED
      BY <3>3, <3>4
  <2> QED
    BY <2>1, <2>2
<1> QED
  BY <1>3, RoutedIf

(* A migration unindexes the old address only, which no unmarked leg shares. *)
LEMMA MigrateLegRouted ==
  ASSUME RelayInv, TypeOK', Routed, History, NEW f \in Slots, NEW x \in Addrs,
         Held(f), leg[f].addr # x, MigrateLeg(f, x)
  PROVE  Routed'
<1>1. /\ leg'[f].addr = x
      /\ \A g \in Slots \ {f} : leg'[g].addr = leg[g].addr
  BY OtherSlot DEF MigrateLeg, RelayInv, TypeOK, Leg
<1>2. byAddr' = [byAddr EXCEPT ![leg[f].addr] = None, ![x] = f]
  BY DEF MigrateLeg, Reindexed
<1>3. ASSUME NEW g \in Slots, leg'[g].addr \in Addrs, leg'[g].addr \notin shared'
      PROVE  byAddr'[leg'[g].addr] = g
  <2>1. CASE g = f
    BY <1>1, <1>2, <2>1 DEF RelayInv, TypeOK
  <2>2. CASE g # f
    <3>1. leg'[g].addr # x /\ leg[g].addr \notin shared
      BY <1>1, <1>3, <2>2, SharedStays
    <3>2. leg[g].addr \in Addrs /\ leg[g].addr # None
      BY <1>1, <1>3, <2>2, RelayAssumption
    <3>3. byAddr[leg[g].addr] = g
      BY <3>1, <3>2 DEF Routed, Held
    <3>4. leg[g].addr # leg[f].addr
      BY <2>2, <3>1, <3>2 DEF Routed, Held
    <3>5. leg'[g].addr = leg[g].addr /\ byAddr'[leg[g].addr] = byAddr[leg[g].addr]
      BY <1>1, <1>2, <2>2, <3>1, <3>2, <3>4 DEF RelayInv, TypeOK
    <3> QED
      BY <3>3, <3>5
  <2> QED
    BY <2>1, <2>2
<1> QED
  BY <1>3, RoutedIf

(* reap unindexes the addresses of the legs it drops, which no unmarked
   survivor shares. *)
LEMMA ReapRouted ==
  ASSUME RelayInv, TypeOK', Routed, Reap
  PROVE  Routed'
<1> DEFINE left == {f \in Slots : Held(f)} \ Doomed
<1> USE OtherSlot
<1>1. \A f \in Slots : leg'[f] = IF f \in left THEN Survivor(f, left) ELSE NoLeg
  BY DEF Reap
<1>2. ASSUME NEW f \in Slots, leg'[f].addr # None
      PROVE  f \in left /\ leg'[f].addr = leg[f].addr
  <2> HIDE DEF left
  <2>1. f \in left
    <3>1. NoLeg.addr = None
      BY DEF NoLeg
    <3> QED
      BY <1>1, <1>2, <3>1
  <2>2. leg[f] \in Leg /\ leg'[f] = Survivor(f, left)
    BY <1>1, <2>1 DEF RelayInv, TypeOK
  <2> QED
    BY <1>2, <2>1, <2>2 DEF Survivor, Leg
<1>3. History
  BY DEF Reap
<1>4. ASSUME NEW f \in Slots, leg'[f].addr \in Addrs, leg'[f].addr \notin shared'
      PROVE  byAddr'[leg'[f].addr] = f
  <2>1. f \in left /\ leg'[f].addr = leg[f].addr /\ leg[f].addr \notin shared
    BY ZenonT(30), <1>2, <1>3, <1>4, SharedStays, RelayAssumption
  <2>2. byAddr[leg[f].addr] = f /\ \A g \in Doomed : leg[g].addr # leg[f].addr
    BY <2>1 DEF Doomed, Routed, Held
  <2>3. byAddr'[leg[f].addr] = byAddr[leg[f].addr]
    BY Zenon, <1>4, <2>1, <2>2 DEF Reap, Unindexed
  <2> QED
    BY <2>1, <2>2, <2>3
<1> QED
  BY <1>3, <1>4, RoutedIf

(* Every step keeps everyone routed. *)
LEMMA RoutedStep ==
  ASSUME RelayInv, TypeOK', Routed, [Next]_vars
  PROVE  Routed'
<1> USE RelayAssumption
<1>1. ASSUME NEW b \in Binds, AdmitTicketBind(b) PROVE Routed'
  BY <1>1, SameRouted DEF AdmitTicketBind
<1>2. ASSUME NEW b \in verifying, RejectTicketBind(b) PROVE Routed'
  BY <1>2, SameRouted DEF RejectTicketBind
<1>0. ASSUME NEW f \in Slots, RefreshLeg(f), History PROVE Routed'
  <2>1. \A g \in Slots : leg'[g].addr = leg[g].addr
    BY <1>0 DEF RefreshLeg, RelayInv, TypeOK, Leg
  <2> QED
    BY <1>0, <2>1, SameRouted DEF RefreshLeg
<1>3. ASSUME NEW b \in verifying, BindTicketed(b) PROVE Routed'
  <2> DEFINE f == <<b.sid, b.name>>
  <2>1. f \in Slots /\ b.epk \in Epks /\ b.src \in Addrs
    BY BindType DEF RelayInv, TypeOK
  <2>2. History
    BY <1>3 DEF BindTicketed
  <2>3. CASE Refuse(b.sid)
    BY <2>2, <2>3, SameRouted DEF Refuse
  <2>4. CASE RefreshLeg(f)
    BY <1>0, <2>1, <2>2, <2>4
  <2>5. CASE AddLeg(f, b.src, b.epk)
    BY <2>1, <2>2, <2>5, AddLegRouted
  <2>6. CASE Held(f) /\ leg[f].addr # b.src /\ MigrateLeg(f, b.src)
    BY <2>1, <2>2, <2>6, MigrateLegRouted
  <2> QED
    BY ZenonT(30), <1>3, <2>3, <2>4, <2>5, <2>6 DEF BindTicketed
<1>4. ASSUME NEW nb \in NetBinds, BindNetworkMode(nb[1], nb[2]) PROVE Routed'
  <2>1. nb[1] \in Sids /\ nb[2] \in Addrs /\ History
    BY Zenon, <1>4, NetBindType DEF BindNetworkMode
  <2>2. ASSUME NEW f \in Slots, AddLeg(f, nb[2], None) PROVE Routed'
    BY <2>1, <2>2, AddLegRouted
  <2>3. CASE Refuse(nb[1])
    BY <2>1, <2>3, SameRouted DEF Refuse
  <2> QED
    BY ZenonT(30), <1>0, <1>4, <2>1, <2>2, <2>3 DEF BindNetworkMode
<1>5. ASSUME NEW x \in Addrs, Forward(x) PROVE Routed'
  <2>1. \A g \in Slots : leg'[g].addr = leg[g].addr
    BY <1>5 DEF Forward, RelayInv, TypeOK, Leg
  <2> QED
    BY <1>5, <2>1, SameRouted DEF Forward
<1>6. CASE Reap
  BY <1>6, ReapRouted
<1>7. CASE Tick
  <2>1. \A g \in Slots : leg'[g].addr = leg[g].addr
    BY <1>7 DEF Tick, RelayInv, TypeOK, Leg
  <2> QED
    BY <1>7, <2>1, SameRouted DEF Tick
<1>8. CASE UNCHANGED vars
  BY <1>8 DEF vars, Routed, Held
<1> QED
  BY <1>1, <1>2, <1>3, <1>4, <1>5, <1>6, <1>7, <1>8 DEF Next

(* Both directions of a bound pair are connected (forward finds the leg and its
   peer) at every address that no two legs have used at once. *)
THEOREM RelayPairForwards == Spec => []PairForwards
<1>1. Init => Routed
  BY DEF Init, Routed, Held, NoLeg
<1>2. RelayInv /\ Routed /\ [Next]_vars => Routed'
  BY NextInv, RoutedStep DEF RelayInv
<1>3. RelayInv /\ Routed => PairForwards
  <2> SUFFICES ASSUME RelayInv, Routed, NEW f \in Slots, Held(f), Held(Other(f)),
                      leg[f].addr \notin shared
               PROVE  Connected(f)
    BY DEF PairForwards
  <2>1. byAddr[leg[f].addr] = f /\ leg[f].peer = leg[Other(f)].addr
    BY DEF Routed, RelayInv, Shape, PeersMatch
  <2>2. f # None
    BY RelayAssumption
  <2> QED
    BY <2>1, <2>2 DEF Connected, Destination
<1> QED
  BY <1>1, <1>2, <1>3, RelayInvariant, PTL DEF Spec
=============================================================================
