-------------------------- MODULE MatchmakerProofs --------------------------
(***************************************************************************)
(* Proofs for Matchmaker, for any tokens, identities and caps.  MatchInv   *)
(* adds to Bounded what makes it inductive: the per-token key histories    *)
(* are finite, and the ids granted in a bucket's lifetime are the one the  *)
(* sids map holds.                                                         *)
(***************************************************************************)
EXTENDS Matchmaker, FiniteSetTheorems, TLAPS

(* Time for the larger leaves. *)
USE SMTT(20), ZenonT(30)

SidInv == \A t \in Tokens : granted[t] # {} => sids[t] # None /\ granted[t] = {sids[t]}

BucketInv == \A t \in Tokens : t \in waiting <=> bucket[t] # {}

HistoryInv ==
  \A t \in Tokens : /\ IsFiniteSet(seenPKs[t])
                    /\ Cardinality(seenPKs[t]) <= MaxIDs + 1
                    /\ t \notin waiting => seenPKs[t] = {}

WithSid == {t \in Tokens : sids[t] # None}

CapInv ==
  /\ Cardinality(waiting) <= MaxTokens
  /\ \A t \in Tokens : Cardinality(bucket[t]) <= MaxIDs
  /\ Cardinality(WithSid) <= MaxTokens
  /\ Cardinality(pairedLogged) <= MaxTokens
  /\ Cardinality(intruderWarned) <= MaxTokens

MatchInv == TypeOK /\ SidInv /\ BucketInv /\ HistoryInv /\ CapInv

-----------------------------------------------------------------------------
(* Facts about cardinalities *)

(* A set of tokens or of ids is finite, and its size is a number. *)
LEMMA FiniteParts ==
  /\ \A S \in SUBSET Tokens : IsFiniteSet(S) /\ Cardinality(S) \in Nat
  /\ \A S \in SUBSET Ids : IsFiniteSet(S) /\ Cardinality(S) \in Nat
<1>1. IsFiniteSet(Tokens) /\ IsFiniteSet(Ids)
  BY MatchmakerAssumption
<1>2. ASSUME NEW S \in SUBSET Tokens
      PROVE  IsFiniteSet(S) /\ Cardinality(S) \in Nat
  BY <1>1, FS_Subset, FS_CardinalityType
<1>3. ASSUME NEW S \in SUBSET Ids
      PROVE  IsFiniteSet(S) /\ Cardinality(S) \in Nat
  BY <1>1, FS_Subset, FS_CardinalityType
<1>4. QED
  BY <1>2, <1>3

(* Adding one element below a cap stays within the cap. *)
LEMMA AddBelowCap ==
  ASSUME NEW S, IsFiniteSet(S), NEW x, NEW n \in Nat, x \in S \/ Cardinality(S) < n,
         Cardinality(S) <= n
  PROVE  IsFiniteSet(S \cup {x}) /\ Cardinality(S \cup {x}) <= n
<1>1. Cardinality(S) \in Nat
  BY FS_CardinalityType
<1>2. /\ IsFiniteSet(S \cup {x})
      /\ Cardinality(S \cup {x}) = IF x \in S THEN Cardinality(S) ELSE Cardinality(S) + 1
  BY FS_AddElement
<1>3. QED
  BY <1>1, <1>2

(* A part of a set within a cap is within the cap. *)
LEMMA PartBelowCap ==
  ASSUME NEW S, IsFiniteSet(S), NEW T \in SUBSET S, NEW n \in Nat, Cardinality(S) <= n
  PROVE  IsFiniteSet(T) /\ Cardinality(T) <= n
<1>1. IsFiniteSet(T) /\ Cardinality(T) <= Cardinality(S)
  BY FS_Subset
<1>2. Cardinality(T) \in Nat /\ Cardinality(S) \in Nat
  BY <1>1, FS_CardinalityType
<1>3. QED
  BY <1>1, <1>2

(* Replacing one element by another keeps the size. *)
LEMMA SwapKeepsCap ==
  ASSUME NEW S, IsFiniteSet(S), NEW v \in S, NEW x, NEW n \in Nat, Cardinality(S) <= n
  PROVE  Cardinality((S \ {v}) \cup {x}) <= n
<1>1. Cardinality(S) \in Nat
  BY FS_CardinalityType
<1>2. IsFiniteSet(S \ {v}) /\ Cardinality(S \ {v}) = Cardinality(S) - 1
  BY FS_RemoveElement
<1>3. QED
  BY <1>1, <1>2, AddBelowCap

(* The latch of warnIntruderLocked stays within its bound. *)
LEMMA WarnedBelowCap ==
  ASSUME NEW S \in SUBSET Tokens, NEW t \in Tokens, Cardinality(S) <= MaxTokens
  PROVE  Warned(S, t) \in SUBSET Tokens /\ Cardinality(Warned(S, t)) <= MaxTokens
<1>1. IsFiniteSet(S) /\ MaxTokens \in Nat
  BY FiniteParts, MatchmakerAssumption
<1>2. CASE Cardinality(S) < MaxTokens
  BY <1>1, <1>2, AddBelowCap DEF Warned
<1>3. CASE ~(Cardinality(S) < MaxTokens)
  BY <1>3 DEF Warned
<1>4. QED
  BY <1>2, <1>3

-----------------------------------------------------------------------------
(* The invariant, action by action *)

(* An empty registry satisfies the invariant. *)
LEMMA MatchInit == Init => MatchInv
<1> SUFFICES ASSUME Init PROVE MatchInv
  OBVIOUS
<1>1. TypeOK
  <2>1. /\ bucket \in [Tokens -> SUBSET Ids] /\ waiting \subseteq Tokens
        /\ seenPKs \in [Tokens -> SUBSET Keys] /\ sids \in [Tokens -> Sids \cup {None}]
        /\ intruderWarned \subseteq Tokens /\ pairedLogged \subseteq Tokens
        /\ granted \in [Tokens -> SUBSET Sids] /\ up \in BOOLEAN
    BY DEF Init
  <2>2. idle \in [Tokens -> [Ids -> 0 .. TTL + 1]]
    BY MatchmakerAssumption DEF Init
  <2>3. run \in [Ids -> {"unborn", "polling", "gone"}]
    BY DEF Init
  <2>4. /\ req \in [Requests -> [at: {"parked", "found", "reading", "granting"},
                                token: Tokens \cup {None}, id: Ids \cup {None},
                                partner: Ids \cup {None}]]
        /\ \A r \in Requests : req[r].at = "parked"
    BY DEF Init, Parked
  <2>5. QED
    BY <2>1, <2>2, <2>3, <2>4 DEF TypeOK
<1>2. SidInv /\ BucketInv
  BY DEF Init, SidInv, BucketInv
<1>3. HistoryInv
  <2>1. 0 <= MaxIDs + 1
    BY MatchmakerAssumption
  <2>2. QED
    BY <2>1, FS_EmptySet DEF Init, HistoryInv
<1>4. CapInv
  <2>1. WithSid = {}
    BY DEF Init, WithSid
  <2>2. 0 <= MaxIDs /\ 0 <= MaxTokens
    BY MatchmakerAssumption
  <2>3. QED
    BY <2>1, <2>2, FS_EmptySet DEF Init, CapInv
<1>5. QED
  BY <1>1, <1>2, <1>3, <1>4 DEF MatchInv

(* Steps that change neither the registry nor the grants. *)
LEMMA MatchIdle ==
  ASSUME MatchInv, UNCHANGED <<bucket, waiting, seenPKs, sids, granted>>, TypeOK',
         Cardinality(pairedLogged') <= MaxTokens, Cardinality(intruderWarned') <= MaxTokens
  PROVE  MatchInv'
  BY DEF MatchInv, SidInv, BucketInv, HistoryInv, CapInv, WithSid

(* Launch, ReadRoster, MapFault and Tick leave the maps alone. *)
LEMMA MatchQuiet ==
  ASSUME MatchInv,
         \/ \E i \in Ids : Launch(i)
         \/ \E r \in Requests : ReadRoster(r)
         \/ \E g \in Regs : MapFault(g[1], g[2])
         \/ Tick
         \/ UNCHANGED vars
  PROVE  MatchInv'
<1>1. UNCHANGED <<bucket, waiting, seenPKs, sids, granted, pairedLogged, intruderWarned>>
  BY DEF Launch, ReadRoster, MapFault, Tick, vars, registry
<1>2. TypeOK'
  <2>1. CASE \E i \in Ids : Launch(i)
    BY <2>1 DEF MatchInv, TypeOK, Launch, registry
  <2>2. CASE \E r \in Requests : ReadRoster(r)
    <3>1. /\ req' \in [Requests -> [at: {"parked", "found", "reading", "granting"},
                                  token: Tokens \cup {None}, id: Ids \cup {None},
                                  partner: Ids \cup {None}]]
          /\ \A r \in Requests : req'[r].at # "parked" =>
               req'[r].token # None /\ req'[r].id # None /\ req'[r].partner \notin {None, req'[r].id}
      <4>1. PICK r \in Requests : req[r].at = "reading" /\ req' = [req EXCEPT ![r].at = "granting"]
        BY Zenon, <2>2 DEF ReadRoster
      <4>2. /\ req \in [Requests -> [at: {"parked", "found", "reading", "granting"},
                                     token: Tokens \cup {None}, id: Ids \cup {None},
                                     partner: Ids \cup {None}]]
            /\ \A q \in Requests : req[q].at # "parked" =>
                 req[q].token # None /\ req[q].id # None /\ req[q].partner \notin {None, req[q].id}
        BY DEF MatchInv, TypeOK
      <4>3. QED
        BY <4>1, <4>2
    <3>2. UNCHANGED <<bucket, waiting, idle, seenPKs, intruderWarned, pairedLogged, sids, run, up,
                      granted>>
      BY <2>2 DEF ReadRoster, registry
    <3>3. QED
      BY <3>1, <3>2 DEF MatchInv, TypeOK
  <2>3. CASE \E g \in Regs : MapFault(g[1], g[2])
    <3>1. up' = FALSE /\ UNCHANGED <<bucket, waiting, idle, seenPKs, intruderWarned, pairedLogged,
                                     sids, run, req, granted>>
      BY <2>3 DEF MapFault, registry
    <3>2. QED
      BY Zenon, <3>1 DEF MatchInv, TypeOK
  <2>4. CASE Tick
    <3>1. idle' \in [Tokens -> [Ids -> 0 .. TTL + 1]]
      BY <2>4, MatchmakerAssumption DEF MatchInv, TypeOK, Tick
    <3>2. QED
      BY <2>4, <3>1 DEF MatchInv, TypeOK, Tick
  <2>5. CASE UNCHANGED vars
    BY <2>5 DEF MatchInv, TypeOK, vars, registry
  <2>6. QED
    BY <2>1, <2>2, <2>3, <2>4, <2>5
<1>3. QED
  BY <1>1, <1>2, MatchIdle DEF MatchInv, CapInv

(* A refused upsert only sets the warning latch. *)
LEMMA MatchRefused ==
  ASSUME MatchInv, NEW g \in Regs, UpsertRefused(g[1], g[2])
  PROVE  MatchInv'
<1>1. g[1] \in Tokens
  BY MatchmakerAssumption
<1>2. intruderWarned' \in SUBSET Tokens /\ Cardinality(intruderWarned') <= MaxTokens
  BY <1>1, WarnedBelowCap DEF MatchInv, TypeOK, CapInv, UpsertRefused
<1>3. TypeOK'
  BY <1>2 DEF MatchInv, TypeOK, UpsertRefused
<1>4. QED
  BY <1>2, <1>3, MatchIdle DEF MatchInv, CapInv, UpsertRefused

(* notePaired stays within its bound. *)
LEMMA MatchNote ==
  ASSUME MatchInv, NEW r \in Requests, NotePaired(r)
  PROVE  MatchInv'
<1>1. req[r].token \in Tokens
  BY DEF MatchInv, TypeOK, NotePaired
<1>2. pairedLogged' \in SUBSET Tokens /\ Cardinality(pairedLogged') <= MaxTokens
  <2>1. pairedLogged' = Warned(pairedLogged, req[r].token)
    BY DEF NotePaired, Warned
  <2>2. QED
    BY <1>1, <2>1, WarnedBelowCap DEF MatchInv, TypeOK, CapInv
<1>3. TypeOK'
  BY <1>2 DEF MatchInv, TypeOK, NotePaired
<1>4. QED
  BY <1>2, <1>3, MatchIdle DEF MatchInv, CapInv, NotePaired

(* A ticket carries the id of the token's bucket, or mints the bucket's first. *)
LEMMA MatchGrant ==
  ASSUME MatchInv, NEW r \in Requests, Grant(r)
  PROVE  MatchInv'
<1>1. PICK t \in Tokens : t = req[r].token
  BY DEF MatchInv, TypeOK, Grant
<1>2. /\ req' = [req EXCEPT ![r] = Parked]
      /\ UNCHANGED <<bucket, waiting, idle, seenPKs, intruderWarned, pairedLogged, run, up>>
  BY DEF Grant
<1>3. /\ req' \in [Requests -> [at: {"parked", "found", "reading", "granting"},
                                token: Tokens \cup {None}, id: Ids \cup {None},
                                partner: Ids \cup {None}]]
      /\ \A q \in Requests : req'[q].at # "parked" =>
           req'[q].token # None /\ req'[q].id # None /\ req'[q].partner \notin {None, req'[q].id}
  BY <1>2 DEF MatchInv, TypeOK, Parked
<1>4. CASE UNCHANGED <<sids, granted>>
  <2>1. TypeOK'
    BY <1>2, <1>3, <1>4 DEF MatchInv, TypeOK
  <2>2. QED
    BY <1>2, <1>4, <2>1, MatchIdle DEF MatchInv, CapInv
<1>5. ASSUME NEW sid \in Sids, SidFor(t, sid),
             sids' = [sids EXCEPT ![t] = sid], granted' = [granted EXCEPT ![t] = @ \cup {sid}]
      PROVE  MatchInv'
  <2>1. TypeOK'
    BY <1>2, <1>3, <1>5 DEF MatchInv, TypeOK
  <2>2. sid # None
    BY MatchmakerAssumption
  <2>3. granted[t] \cup {sid} = {sid}
    BY <1>5 DEF MatchInv, SidInv, SidFor
  <2>4. SidInv'
    BY <1>5, <2>2, <2>3 DEF MatchInv, TypeOK, SidInv
  <2>5. WithSid' = WithSid \cup {t}
    BY <1>5, <2>2 DEF MatchInv, TypeOK, WithSid
  <2>6. t \in WithSid \/ Cardinality(WithSid) < MaxTokens
    BY <1>5 DEF SidFor, WithSid
  <2>7. Cardinality(WithSid') <= MaxTokens
    <3>1. IsFiniteSet(WithSid) /\ MaxTokens \in Nat
      BY FiniteParts, MatchmakerAssumption DEF WithSid
    <3>2. QED
      BY Zenon, <2>5, <2>6, <3>1, AddBelowCap DEF MatchInv, CapInv
  <2>8. BucketInv' /\ HistoryInv'
    BY <1>2 DEF MatchInv, BucketInv, HistoryInv
  <2>9. CapInv'
    BY <1>2, <2>7 DEF MatchInv, CapInv
  <2>10. QED
    BY <2>1, <2>4, <2>8, <2>9 DEF MatchInv
<1>6. QED
  BY <1>1, <1>4, <1>5 DEF Grant

(* Deleting buckets keeps the session ids that remain within their bound. *)
LEMMA MatchRelease ==
  ASSUME MatchInv, NEW gone \in SUBSET waiting,
         sids' = Released(gone, sids, None),
         granted' = [t \in Tokens |-> IF t \in gone THEN {} ELSE granted[t]]
  PROVE  SidInv' /\ Cardinality(WithSid') <= MaxTokens
<1>1. SidInv'
  BY DEF MatchInv, TypeOK, SidInv, Released
<1>2. WithSid' \in SUBSET WithSid
  BY DEF MatchInv, TypeOK, WithSid, Released
<1>3. IsFiniteSet(WithSid) /\ MaxTokens \in Nat
  BY FiniteParts, MatchmakerAssumption DEF WithSid
<1>4. QED
  BY <1>1, <1>2, <1>3, PartBelowCap DEF MatchInv, CapInv

(* A pass of the reaper only makes the maps smaller. *)
LEMMA MatchReap ==
  ASSUME MatchInv, Reap
  PROVE  MatchInv'
<1> DEFINE left == [t \in Tokens |-> {i \in bucket[t] : ~Stale(t, i)}]
           gone == {t \in waiting : left[t] = {}}
<1>1. /\ bucket' = left /\ waiting' = waiting \ gone
      /\ seenPKs' = Released(gone, seenPKs, {})
      /\ intruderWarned' = intruderWarned \ gone /\ pairedLogged' = pairedLogged \ gone
      /\ sids' = Released(gone, sids, None)
      /\ granted' = [t \in Tokens |-> IF t \in gone THEN {} ELSE granted[t]]
      /\ UNCHANGED <<idle, run, req, up>>
  BY DEF Reap
<1>2. /\ \A t \in Tokens : left[t] \in SUBSET bucket[t]
      /\ gone \in SUBSET waiting
      /\ left \in [Tokens -> SUBSET Ids]
      /\ \A t \in waiting : t \in gone <=> left[t] = {}
  BY ZenonT(30) DEF MatchInv, TypeOK
<1> HIDE DEF left, gone
<1>3. SidInv' /\ Cardinality(WithSid') <= MaxTokens
  BY <1>1, <1>2, MatchRelease
<1>4. TypeOK'
  BY <1>1, <1>2 DEF MatchInv, TypeOK, Released
<1>5. BucketInv'
  BY <1>1, <1>2 DEF MatchInv, TypeOK, BucketInv
<1>6. HistoryInv'
  <2> SUFFICES ASSUME NEW t \in Tokens
               PROVE  /\ IsFiniteSet(seenPKs'[t])
                      /\ Cardinality(seenPKs'[t]) <= MaxIDs + 1
                      /\ t \notin waiting' => seenPKs'[t] = {}
    BY DEF HistoryInv
  <2>1. seenPKs'[t] = IF t \in gone THEN {} ELSE seenPKs[t]
    BY <1>1 DEF Released
  <2>2. IsFiniteSet({}) /\ Cardinality({}) <= MaxIDs + 1
    BY FS_EmptySet, MatchmakerAssumption
  <2>3. QED
    BY <1>1, <2>1, <2>2 DEF MatchInv, HistoryInv
<1>7. CapInv'
  <2>1. MaxTokens \in Nat /\ MaxIDs \in Nat
    BY MatchmakerAssumption
  <2>2. Cardinality(waiting') <= MaxTokens
    BY Zenon, <1>1, <2>1, FiniteParts, PartBelowCap DEF MatchInv, TypeOK, CapInv
  <2>3. Cardinality(pairedLogged') <= MaxTokens
    BY Zenon, <1>1, <2>1, FiniteParts, PartBelowCap DEF MatchInv, TypeOK, CapInv
  <2>4. Cardinality(intruderWarned') <= MaxTokens
    BY Zenon, <1>1, <2>1, FiniteParts, PartBelowCap DEF MatchInv, TypeOK, CapInv
  <2>5. \A t \in Tokens : Cardinality(bucket'[t]) <= MaxIDs
    BY Zenon, <1>1, <1>2, <2>1, FiniteParts, PartBelowCap DEF MatchInv, TypeOK, CapInv
  <2>6. QED
    BY <1>3, <2>2, <2>3, <2>4, <2>5 DEF CapInv
<1>8. QED
  BY <1>3, <1>4, <1>5, <1>6, <1>7 DEF MatchInv

(* upsert: the evicted bucket makes room for the new one. *)
LEMMA MatchUpsert ==
  ASSUME MatchInv, NEW g \in Regs, NEW r \in Requests, Upsert(r, g[1], g[2])
  PROVE  MatchInv'
<1>1. PICK t \in Tokens, i \in Ids : g[1] = t /\ g[2] = i
  BY Zenon, MatchmakerAssumption
<1> DEFINE known == seenPKs[t]
           isNew == KeyOf[i] \notin known /\ Cardinality(known) < MaxIDs + 1
           live == {j \in Others(t, i) : ~Stale(t, j)}
<1>up. Upsert(r, t, i)
  BY <1>1
<1>2. PICK gone \in SUBSET waiting :
        /\ Evicted(t, gone)
        /\ waiting' = (waiting \ gone) \cup {t}
        /\ seenPKs' = [Released(gone, seenPKs, {}) EXCEPT
                         ![t] = IF isNew THEN known \cup {KeyOf[i]} ELSE known]
        /\ intruderWarned' = IF isNew /\ Cardinality(known) >= MaxIDs
                             THEN Warned(intruderWarned \ gone, t)
                             ELSE intruderWarned \ gone
        /\ pairedLogged' = pairedLogged \ (IF live = {} THEN gone \cup {t} ELSE gone)
        /\ sids' = Released(gone, sids, None)
        /\ granted' = [u \in Tokens |-> IF u \in gone THEN {} ELSE granted[u]]
        /\ \E kept \in SUBSET Others(t, i) :
             /\ live \subseteq kept
             /\ live = {} => kept = {}
             /\ bucket' = [u \in Tokens |-> IF u \in gone THEN {}
                                            ELSE IF u = t THEN {i} \cup kept ELSE bucket[u]]
  BY <1>up, Zenon DEF Upsert
<1>kept. PICK kept \in SUBSET Others(t, i) :
         bucket' = [u \in Tokens |-> IF u \in gone THEN {}
                                     ELSE IF u = t THEN {i} \cup kept ELSE bucket[u]]
  BY ZenonT(30), <1>2
<1>3. /\ Room(t, i) /\ idle' = [idle EXCEPT ![t][i] = 0] /\ UNCHANGED <<run, up>>
      /\ IF live = {} THEN UNCHANGED req
         ELSE \E j \in live : req' = [req EXCEPT ![r] = [at |-> "found", token |-> t,
                                                        id |-> i, partner |-> j]]
  BY <1>1 DEF Upsert
<1>4. live \in SUBSET (Ids \ {i}) /\ kept \in SUBSET (bucket[t] \ {i})
  BY <1>2, <1>kept DEF MatchInv, TypeOK, Others
<1>5. t \notin gone
  BY <1>2 DEF Evicted
<1>6. KeyOf[i] \in Keys /\ MaxIDs \in Nat /\ MaxIDs + 1 \in Nat /\ MaxTokens \in Nat /\ TTL \in Nat
      /\ None \notin Ids
  BY MatchmakerAssumption
<1>none. /\ IsFiniteSet({}) /\ Cardinality({}) <= MaxIDs
         /\ Cardinality({}) <= MaxIDs + 1
  BY <1>6, FS_EmptySet
<1> HIDE DEF live
<1>7. SidInv' /\ Cardinality(WithSid') <= MaxTokens
  BY <1>2, MatchRelease
<1>8. BucketInv'
  BY Zenon, <1>2, <1>kept, <1>5 DEF MatchInv, TypeOK, BucketInv
<1>9. HistoryInv'
  <2> SUFFICES ASSUME NEW u \in Tokens
               PROVE  /\ IsFiniteSet(seenPKs'[u])
                      /\ Cardinality(seenPKs'[u]) <= MaxIDs + 1
                      /\ u \notin waiting' => seenPKs'[u] = {}
    BY DEF HistoryInv
  <2>1. seenPKs'[u] = IF u = t THEN IF isNew THEN known \cup {KeyOf[i]} ELSE known
                      ELSE IF u \in gone THEN {} ELSE seenPKs[u]
    BY Zenon, <1>2 DEF Released
  <2>2. CASE u = t /\ isNew
    <3>1. IsFiniteSet(known) /\ Cardinality(known) <= MaxIDs + 1 /\ Cardinality(known) < MaxIDs + 1
      BY <2>2 DEF MatchInv, HistoryInv
    <3>2. IsFiniteSet(known \cup {KeyOf[i]}) /\ Cardinality(known \cup {KeyOf[i]}) <= MaxIDs + 1
      BY <1>6, <3>1, AddBelowCap
    <3>3. QED
      BY ZenonT(30), <1>2, <2>1, <2>2, <3>2
  <2>3. CASE u = t /\ ~isNew
    BY <1>2, <2>1, <2>3 DEF MatchInv, HistoryInv
  <2>4. CASE u # t /\ u \in gone
    <3>1. seenPKs'[u] = {}
      BY <2>1, <2>4
    <3>2. QED
      BY <1>none, <3>1
  <2>5. CASE u # t /\ u \notin gone
    BY <1>2, <2>1, <2>5 DEF MatchInv, HistoryInv
  <2>6. QED
    BY <2>2, <2>3, <2>4, <2>5
<1>10. intruderWarned' \in SUBSET Tokens /\ Cardinality(intruderWarned') <= MaxTokens
  <2>1. /\ intruderWarned \ gone \in SUBSET Tokens
        /\ Cardinality(intruderWarned \ gone) <= MaxTokens
    BY Zenon, <1>6, FiniteParts, PartBelowCap DEF MatchInv, TypeOK, CapInv
  <2>2. QED
    BY <1>2, <2>1, WarnedBelowCap
<1>11. pairedLogged' \in SUBSET pairedLogged /\ Cardinality(pairedLogged') <= MaxTokens
  <2>1. pairedLogged' \in SUBSET pairedLogged
    BY <1>2
  <2>2. QED
    BY Zenon, <1>6, <2>1, FiniteParts, PartBelowCap DEF MatchInv, TypeOK, CapInv
<1>12. Cardinality(waiting') <= MaxTokens
  <2>1. IsFiniteSet(waiting) /\ Cardinality(waiting) <= MaxTokens /\ Cardinality(waiting) \in Nat
    BY FiniteParts DEF MatchInv, TypeOK, CapInv
  <2>2. CASE t \in waiting \/ Cardinality(waiting) < MaxTokens
    <3>1. waiting' = waiting \cup {t}
      BY <1>2, <2>2 DEF Evicted
    <3>2. QED
      BY <1>6, <2>1, <2>2, <3>1, AddBelowCap
  <2>3. CASE ~(t \in waiting \/ Cardinality(waiting) < MaxTokens)
    <3>1. PICK v \in waiting : gone = {v}
      BY <1>2, <2>3 DEF Evicted
    <3>2. QED
      BY Zenon, <1>2, <1>6, <2>1, <3>1, SwapKeepsCap
  <2>4. QED
    BY <2>2, <2>3
<1>13. ASSUME NEW u \in Tokens
       PROVE  Cardinality(bucket'[u]) <= MaxIDs
  <2>1. IsFiniteSet(bucket[u]) /\ Cardinality(bucket[u]) <= MaxIDs
    BY FiniteParts DEF MatchInv, TypeOK, CapInv
  <2>2. CASE u \in gone
    <3>1. bucket'[u] = {}
      BY <1>kept, <2>2
    <3>2. QED
      BY <1>none, <3>1
  <2>3. CASE u \notin gone /\ u # t
    BY <1>kept, <2>1, <2>3
  <2>4. CASE u = t
    <3>1. bucket'[u] \in SUBSET (bucket[t] \cup {i})
      BY <1>kept, <1>4, <1>5, <2>4
    <3>2. IsFiniteSet(bucket[t] \cup {i}) /\ Cardinality(bucket[t] \cup {i}) <= MaxIDs
      BY <1>3, <1>6, <2>1, <2>4, AddBelowCap DEF Room
    <3>3. QED
      BY <1>6, <3>1, <3>2, PartBelowCap
  <2>5. QED
    BY <2>2, <2>3, <2>4
<1>14. TypeOK'
  <2>1. bucket' \in [Tokens -> SUBSET Ids] /\ waiting' \subseteq Tokens
    BY ZenonT(30), <1>2, <1>kept, <1>4 DEF MatchInv, TypeOK
  <2>2. seenPKs' \in [Tokens -> SUBSET Keys]
    BY <1>2, <1>6 DEF MatchInv, TypeOK, Released
  <2>3. sids' \in [Tokens -> Sids \cup {None}] /\ granted' \in [Tokens -> SUBSET Sids]
    BY <1>2 DEF MatchInv, TypeOK, Released
  <2>4. idle' \in [Tokens -> [Ids -> 0 .. TTL + 1]]
    <3>1. idle' = [idle EXCEPT ![t][i] = 0]
      BY <1>3
    <3>2. idle \in [Tokens -> [Ids -> 0 .. TTL + 1]]
      BY DEF MatchInv, TypeOK
    <3>3. 0 \in 0 .. TTL + 1
      BY <1>6
    <3>4. QED
      BY <3>1, <3>2, <3>3
  <2> DEFINE Rec == [at: {"parked", "found", "reading", "granting"}, token: Tokens \cup {None},
                     id: Ids \cup {None}, partner: Ids \cup {None}]
             Busy(q) == q.at # "parked" =>
                          q.token # None /\ q.id # None /\ q.partner \notin {None, q.id}
  <2>5. req' \in [Requests -> Rec] /\ \A q \in Requests : Busy(req'[q])
    <3>1. req \in [Requests -> Rec] /\ \A q \in Requests : Busy(req[q])
      BY DEF MatchInv, TypeOK
    <3>2. CASE live = {}
      BY <1>3, <3>1, <3>2
    <3>3. ASSUME NEW j \in live,
                 req' = [req EXCEPT ![r] = [at |-> "found", token |-> t, id |-> i, partner |-> j]]
          PROVE  req' \in [Requests -> Rec] /\ \A q \in Requests : Busy(req'[q])
      <4> DEFINE new == [at |-> "found", token |-> t, id |-> i, partner |-> j]
      <4>1. new \in Rec /\ Busy(new)
        BY <1>4, <1>6, MatchmakerAssumption
      <4> HIDE DEF Rec, Busy, new
      <4>2. QED
        BY <3>1, <3>3, <4>1 DEF new
    <3>4. QED
      BY <1>3, <3>2, <3>3
  <2>6. QED
    BY <1>3, <1>10, <1>11, <2>1, <2>2, <2>3, <2>4, <2>5 DEF MatchInv, TypeOK
<1>15. CapInv'
  BY <1>7, <1>10, <1>11, <1>12, <1>13 DEF CapInv
<1>16. QED
  BY <1>7, <1>8, <1>9, <1>14, <1>15 DEF MatchInv

-----------------------------------------------------------------------------
(* The invariant holds in every reachable state of the registry. *)
THEOREM MatchmakerInvariant == Spec => []MatchInv
<1>1. ASSUME MatchInv, [Next]_vars PROVE MatchInv'
  BY <1>1, MatchQuiet, MatchRefused, MatchNote, MatchGrant, MatchReap, MatchUpsert DEF Next
<1>2. QED
  BY <1>1, MatchInit, PTL DEF Spec

(* The registry's tables stay within their caps, whatever registers. *)
THEOREM MatchmakerBounded == Spec => []Bounded
<1>1. MatchInv => Bounded
  BY DEF MatchInv, BucketInv, HistoryInv, CapInv, WithSid, Bounded
<1>2. QED
  BY <1>1, MatchmakerInvariant, PTL

(* A token without a bucket has no key history left. *)
THEOREM MatchmakerHistoryReleased == Spec => []HistoryReleased
<1>1. MatchInv => HistoryReleased
  BY DEF MatchInv, HistoryInv, HistoryReleased
<1>2. QED
  BY <1>1, MatchmakerInvariant, PTL

(* All tickets of a bucket's lifetime carry one relay session id. *)
THEOREM MatchmakerOneSid == Spec => []OneSidPerBucket
<1>1. ASSUME MatchInv, NEW t \in Tokens PROVE Cardinality(granted[t]) <= 1
  <2>1. CASE granted[t] = {}
    BY <2>1, FS_EmptySet
  <2>2. CASE granted[t] # {}
    BY <1>1, <2>2, FS_Singleton DEF MatchInv, SidInv
  <2>3. QED
    BY <2>1, <2>2
<1>2. MatchInv => OneSidPerBucket
  BY <1>1 DEF OneSidPerBucket
<1>3. QED
  BY <1>2, MatchmakerInvariant, PTL

=============================================================================
