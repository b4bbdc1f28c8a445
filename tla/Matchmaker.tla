----------------------------- MODULE Matchmaker -----------------------------
(***************************************************************************)
(* The handshake server's registry (internal/role/handshake.go): REGISTER  *)
(* requests, each in a goroutine of its own, meet in the token buckets of  *)
(* hsRegistry and are answered with the partner and a relay session id.    *)
(*                                                                         *)
(* A request is modelled from upsert on, as the critical sections of       *)
(* hsRegistry.mu it passes through, one after the other: upsert,           *)
(* notePaired, the roster read without the lock, sidFor.  What precedes    *)
(* upsert (parsing, proofs, authorization) leaves no state in the          *)
(* registry.  Time is kept as ages that saturate one past the TTL.         *)
(***************************************************************************)
EXTENDS Integers, FiniteSets

CONSTANTS
  Tokens, Keys,
  Ids,           \* the ids of buddy runs, numbered in the order a buddy uses them
  KeyOf,         \* the identity key of a run; a restarted buddy has a new id
  Regs,          \* the registrations that can arrive: <<token, id>>
  Requests,      \* goroutines of handleControlReq
  Sids,          \* relay session ids
  MaxTokens, MaxIDs, EvictSample, TTL,
  None

ASSUME MatchmakerAssumption ==
  /\ IsFiniteSet(Tokens) /\ IsFiniteSet(Ids) /\ Ids \subseteq Nat
  /\ KeyOf \in [Ids -> Keys]
  /\ Regs \subseteq Tokens \X Ids
  /\ MaxTokens \in Nat \ {0} /\ MaxIDs \in Nat \ {0}
  /\ EvictSample \in Nat \ {0} /\ TTL \in Nat
  /\ None \notin Tokens /\ None \notin Ids /\ None \notin Sids

VARIABLES
  bucket,         \* waiting: token -> the ids in its bucket
  waiting,        \* the tokens that have a bucket
  idle,           \* per token and id: time since the peer was seen
  seenPKs,        \* token -> the keys observed on it
  intruderWarned, pairedLogged,   \* the one-shot latches, as sets of tokens
  sids,           \* token -> its relay session id, or None
  run,            \* per id: "unborn", "polling" or "gone", the state of the buddy run
  req,            \* per goroutine: where it is, and for whom
  up,             \* the server process has not crashed
  granted         \* auxiliary: the session ids handed out since a bucket was formed

registry == <<bucket, waiting, idle, seenPKs, intruderWarned, pairedLogged, sids>>
vars == <<registry, run, req, up, granted>>

Parked == [at |-> "parked", token |-> None, id |-> None, partner |-> None]

TypeOK ==
  /\ bucket \in [Tokens -> SUBSET Ids]
  /\ waiting \subseteq Tokens
  /\ idle \in [Tokens -> [Ids -> 0 .. TTL + 1]]
  /\ seenPKs \in [Tokens -> SUBSET Keys]
  /\ intruderWarned \subseteq Tokens /\ pairedLogged \subseteq Tokens
  /\ sids \in [Tokens -> Sids \cup {None}]
  /\ run \in [Ids -> {"unborn", "polling", "gone"}]
  /\ req \in [Requests -> [at: {"parked", "found", "reading", "granting"},
                           token: Tokens \cup {None}, id: Ids \cup {None},
                           partner: Ids \cup {None}]]
  /\ \A r \in Requests : req[r].at # "parked" =>
       req[r].token # None /\ req[r].id # None /\ req[r].partner \notin {None, req[r].id}
  /\ up \in BOOLEAN
  /\ granted \in [Tokens -> SUBSET Sids]

Init ==
  /\ bucket = [t \in Tokens |-> {}]
  /\ waiting = {}
  /\ idle = [t \in Tokens |-> [i \in Ids |-> 0]]
  /\ seenPKs = [t \in Tokens |-> {}]
  /\ intruderWarned = {} /\ pairedLogged = {}
  /\ sids = [t \in Tokens |-> None]
  /\ run = [i \in Ids |-> "unborn"]
  /\ req = [r \in Requests |-> Parked]
  /\ up = TRUE
  /\ granted = [t \in Tokens |-> {}]

-----------------------------------------------------------------------------
(* The buddies *)

(* A buddy starts, or starts again under a new id: its earlier run is gone. *)
Launch(i) ==
  /\ run[i] = "unborn"
  /\ \A j \in Ids : KeyOf[j] = KeyOf[i] /\ j < i => run[j] # "unborn"
  /\ run' = [j \in Ids |-> IF j = i THEN "polling"
                           ELSE IF KeyOf[j] = KeyOf[i] /\ run[j] = "polling" THEN "gone"
                           ELSE run[j]]
  /\ UNCHANGED <<registry, req, up, granted>>

-----------------------------------------------------------------------------
(* The registry *)

NeverStale(t, i) == FALSE   \* mutant: entries do not expire

Stale(t, i) == idle[t][i] > TTL

(* bucketSeen of t is no later than that of u. *)
QuietTimes(t) == {n \in 0 .. TTL + 1 : \A i \in bucket[t] : n <= idle[t][i]}
Older(t, u) == QuietTimes(u) \subseteq QuietTimes(t)

(* evictStalestLocked: the stalest of a random sample of the buckets. *)
Victim(v) ==
  \E S \in SUBSET waiting :
    /\ v \in S
    /\ S = waiting \/ Cardinality(S) = EvictSample
    /\ \A u \in S : Older(v, u)

NotReleased(gone, f, empty) == f   \* mutant: a bucket leaves its entries behind

(* A per-token map after the buckets in `gone' were deleted. *)
Released(gone, f, empty) == [t \in Tokens |-> IF t \in gone THEN empty ELSE f[t]]

RoomForOneMore(t, i) == i \in bucket[t] \/ Cardinality(bucket[t]) <= MaxIDs   \* mutant: off by one

(* The id is in the bucket, or there is room for it. *)
Room(t, i) == i \in bucket[t] \/ Cardinality(bucket[t]) < MaxIDs

(* warnIntruderLocked: once per token, within the bound. *)
Warned(S, t) == IF Cardinality(S) < MaxTokens THEN S \cup {t} ELSE S

(* upsert refuses a third identity on a full token. *)
UpsertRefused(t, i) ==
  /\ up /\ run[i] = "polling"
  /\ ~Room(t, i)
  /\ intruderWarned' = Warned(intruderWarned, t)
  /\ UNCHANGED <<bucket, waiting, idle, seenPKs, pairedLogged, sids, run, req, up, granted>>

(* The bucket to evict before t gets one: none, unless the table is full. *)
Evicted(t, gone) ==
  IF t \in waiting \/ Cardinality(waiting) < MaxTokens THEN gone = {}
  ELSE \E v \in waiting : Victim(v) /\ gone = {v}

Others(t, i) == bucket[t] \ {i}

(* upsert: make the bucket, record the key, refresh this peer, and look for a
   partner among the others, expiring the stale ones met before it.  Without a
   partner the paired-once latch is released and the request is answered. *)
Upsert(r, t, i) ==
  LET known == seenPKs[t]
      isNew == KeyOf[i] \notin known /\ Cardinality(known) < MaxIDs + 1
      live == {j \in Others(t, i) : ~Stale(t, j)}
  IN  /\ up /\ run[i] = "polling"
      /\ req[r].at = "parked"
      /\ Room(t, i)
      /\ \E gone \in SUBSET waiting :
           /\ Evicted(t, gone)
           /\ waiting' = (waiting \ gone) \cup {t}
           /\ seenPKs' = [Released(gone, seenPKs, {}) EXCEPT
                            ![t] = IF isNew THEN known \cup {KeyOf[i]} ELSE known]
           /\ intruderWarned' = IF isNew /\ Cardinality(known) >= MaxIDs
                                THEN Warned(intruderWarned \ gone, t)
                                ELSE intruderWarned \ gone
           /\ pairedLogged' = pairedLogged \ (IF live = {} THEN gone \cup {t} ELSE gone)
           /\ sids' = Released(gone, sids, None)
           /\ granted' = [u \in Tokens |-> IF u \in gone THEN {} ELSE granted[u]]
           /\ \E kept \in SUBSET Others(t, i) :
                /\ live \subseteq kept
                /\ live = {} => kept = {}
                /\ bucket' = [u \in Tokens |-> IF u \in gone THEN {}
                                               ELSE IF u = t THEN {i} \cup kept ELSE bucket[u]]
      /\ IF live = {} THEN UNCHANGED req
         ELSE \E j \in live : req' = [req EXCEPT ![r] = [at |-> "found", token |-> t,
                                                        id |-> i, partner |-> j]]
      /\ idle' = [idle EXCEPT ![t][i] = 0]
      /\ UNCHANGED <<run, up>>

(* notePaired, a critical section of its own. *)
NotePaired(r) ==
  /\ up
  /\ req[r].at = "found"
  /\ pairedLogged' = IF Cardinality(pairedLogged) < MaxTokens
                     THEN pairedLogged \cup {req[r].token} ELSE pairedLogged
  /\ req' = [req EXCEPT ![r].at = "reading"]
  /\ UNCHANGED <<bucket, waiting, idle, seenPKs, intruderWarned, sids, run, up, granted>>

(* asProtocolPeer iterates over the partner's candidate map without the lock. *)
ReadRoster(r) ==
  /\ up
  /\ req[r].at = "reading"
  /\ req' = [req EXCEPT ![r].at = "granting"]
  /\ UNCHANGED <<registry, run, up, granted>>

(* Upsert writes the same map when that partner registers meanwhile; the Go
   runtime may detect it and end the process, which no recover can catch. *)
MapFault(t, i) ==
  /\ up /\ run[i] = "polling"
  /\ i \in bucket[t]
  /\ \E r \in Requests : req[r].at = "reading" /\ req[r].token = t /\ req[r].partner = i
  /\ up' = FALSE
  /\ UNCHANGED <<registry, run, req, granted>>

MintAlways(t, sid) == TRUE   \* mutant: a new id for every ticket

(* sidFor's answer: the token's id, or a new one while the map has room. *)
SidFor(t, sid) ==
  \/ sids[t] # None /\ sid = sids[t]
  \/ /\ sids[t] = None
     /\ Cardinality({u \in Tokens : sids[u] # None}) < MaxTokens
     /\ \A u \in Tokens : sids[u] # sid /\ sid \notin granted[u]

(* issueTicket and the reply: no ticket when both sides have one identity, or
   when the map is full. *)
Grant(r) ==
  LET t == req[r].token
      refused == \/ KeyOf[req[r].id] = KeyOf[req[r].partner]
                 \/ ~\E sid \in Sids : SidFor(t, sid)
  IN  /\ up
      /\ req[r].at = "granting"
      /\ IF refused THEN UNCHANGED <<sids, granted>>
         ELSE \E sid \in Sids :
                /\ SidFor(t, sid)
                /\ sids' = [sids EXCEPT ![t] = sid]
                /\ granted' = [granted EXCEPT ![t] = @ \cup {sid}]
      /\ req' = [req EXCEPT ![r] = Parked]
      /\ UNCHANGED <<bucket, waiting, idle, seenPKs, intruderWarned, pairedLogged, run, up>>

(* One pass of the reaper: stale peers go, and so do buckets left empty. *)
Reap ==
  LET left == [t \in Tokens |-> {i \in bucket[t] : ~Stale(t, i)}]
      gone == {t \in waiting : left[t] = {}}
  IN  /\ up
      /\ \E t \in waiting : left[t] # bucket[t]
      /\ bucket' = left
      /\ waiting' = waiting \ gone
      /\ seenPKs' = Released(gone, seenPKs, {})
      /\ intruderWarned' = intruderWarned \ gone
      /\ pairedLogged' = pairedLogged \ gone
      /\ sids' = Released(gone, sids, None)
      /\ granted' = [t \in Tokens |-> IF t \in gone THEN {} ELSE granted[t]]
      /\ UNCHANGED <<idle, run, req, up>>

(* Time passes for every peer. *)
Tick ==
  /\ up
  /\ \E t \in waiting : \E i \in bucket[t] : idle[t][i] <= TTL
  /\ idle' = [t \in Tokens |-> [i \in Ids |->
                IF i \in bucket[t] /\ idle[t][i] <= TTL THEN idle[t][i] + 1 ELSE idle[t][i]]]
  /\ UNCHANGED <<bucket, waiting, seenPKs, intruderWarned, pairedLogged, sids, run, req, up, granted>>

-----------------------------------------------------------------------------
Next ==
  \/ \E i \in Ids : Launch(i)
  \/ \E g \in Regs : \/ UpsertRefused(g[1], g[2]) \/ MapFault(g[1], g[2])
                     \/ \E r \in Requests : Upsert(r, g[1], g[2])
  \/ \E r \in Requests : NotePaired(r) \/ ReadRoster(r) \/ Grant(r)
  \/ Reap \/ Tick

Spec == Init /\ [][Next]_vars

(* Time passes, the reaper runs, goroutines are scheduled, and a polling buddy
   registers again and again until the registry has taken it in.  Strong
   fairness there: in the code every poll has a goroutine of its own. *)
Fairness ==
  /\ WF_vars(Tick) /\ WF_vars(Reap)
  /\ \A r \in Requests : WF_vars(NotePaired(r)) /\ WF_vars(ReadRoster(r)) /\ WF_vars(Grant(r))
  /\ \A g \in Regs : SF_vars(g[2] \notin bucket[g[1]] /\ \E r \in Requests : Upsert(r, g[1], g[2]))

FairSpec == Spec /\ Fairness

-----------------------------------------------------------------------------
(* Properties *)

(* Memory is bounded whatever arrives: tokens, identities per token, and every
   per-token map; and a bucket exists exactly while it has peers. *)
Bounded ==
  /\ Cardinality(waiting) <= MaxTokens
  /\ \A t \in Tokens : /\ Cardinality(bucket[t]) <= MaxIDs
                       /\ t \in waiting <=> bucket[t] # {}
                       /\ Cardinality(seenPKs[t]) <= MaxIDs + 1
  /\ Cardinality({t \in Tokens : sids[t] # None}) <= MaxTokens
  /\ Cardinality(pairedLogged) <= MaxTokens /\ Cardinality(intruderWarned) <= MaxTokens

(* The key history of a token goes with its bucket, on eviction and on reap. *)
HistoryReleased == \A t \in Tokens \ waiting : seenPKs[t] = {}

(* Both buddies of a token are given one relay session id for as long as its
   bucket lives, however their requests interleave. *)
OneSidPerBucket == \A t \in Tokens : Cardinality(granted[t]) <= 1

(* A buddy that keeps polling is taken into its bucket: one restarted under a
   new id waits at most until its earlier run expired. *)
PollerAdmitted ==
  \A g \in Regs : run[g[2]] = "polling" ~> (g[2] \in bucket[g[1]] \/ run[g[2]] = "gone" \/ ~up)

(* Package safe: a fault costs the one request, not the service. *)
ServerSurvives == up

=============================================================================
