------------------------------- MODULE Relay -------------------------------
(***************************************************************************)
(* The blind UDP relay (internal/relay/server.go and tickets.go): sessions *)
(* of at most two legs, the address index the data path reads without the  *)
(* lock, the per-source leg accounting, ticket-mode binds verified off the *)
(* read loop, network-mode binds, and the reaper.                          *)
(*                                                                         *)
(* Every step is one critical section of Server.mu, or one lock-free       *)
(* operation of the read loop.  Time is kept as ages: how long a leg has   *)
(* been idle and how old a session is, saturating one past the timeout, so *)
(* the state space is finite with no horizon on the run.                   *)
(*                                                                         *)
(* Checks whose failure leaves no state behind (CIDR, rate limits, cookie, *)
(* signature budget) are not steps: a bind that fails one of them is a     *)
(* stuttering step.                                                        *)
(***************************************************************************)
EXTENDS Integers, FiniteSets

CONSTANTS
  Sids,          \* session names: chosen by the server (tickets) or by the buddies (network mode)
  Addrs,         \* source addresses IP:port
  Accts,         \* accounting keys (exact IPv4, /64 for IPv6)
  AcctOf,        \* netkey.FromIP: the accounting key of an address
  Epks,          \* ephemeral keys
  Binds,         \* the ticket binds that can arrive: [sid, name, epk, src]
  NetBinds,      \* the network-mode binds that can arrive: <<sid, src>>
  MaxSessions, MaxLegsPerIP, MaxInFlight,
  TTL,           \* idle timeout of a leg, and the reaper's period
  PendingPair,   \* absolute half-open timeout
  None           \* "no value": a nil pointer, a missing map entry

Names == {"a", "b"}
Slots == Sids \X Names

ASSUME RelayAssumption ==
  /\ IsFiniteSet(Sids)
  /\ AcctOf \in [Addrs -> Accts]
  /\ Binds \subseteq [sid: Sids, name: Names, epk: Epks, src: Addrs]
  /\ NetBinds \subseteq Sids \X Addrs
  /\ MaxSessions \in Nat /\ MaxLegsPerIP \in Nat /\ MaxInFlight \in Nat
  /\ TTL \in Nat /\ PendingPair \in Nat
  /\ None \notin Addrs /\ None \notin Slots /\ None \notin Accts

VARIABLES
  sessions,      \* the keys of Server.sessions
  paired, age,   \* per session: reached two legs once; time since creation
  leg,           \* per slot: the leg bound there, or NoLeg
  byAddr,        \* the sync.Map: source address -> the leg whose fwd it finds
  legsPerIP,     \* accounting key -> number of legs charged to it
  verifying,     \* ticket binds admitted and being verified in their own goroutines
  ticketMode,    \* the relay pins server keys; fixed when it starts
  shared         \* auxiliary: the addresses two legs have been bound from at once

vars == <<sessions, paired, age, leg, byAddr, legsPerIP, verifying, ticketMode, shared>>

(***************************************************************************)
(* A leg and its fwd record.  idle stands for now - fwd.seen; peer for the *)
(* atomic pointer to the partner's address.                                *)
(***************************************************************************)
Leg == [addr: Addrs \cup {None}, acct: Accts \cup {None}, epk: Epks \cup {None},
        idle: 0 .. TTL + 1, peer: Addrs \cup {None}]

NoLeg == [addr |-> None, acct |-> None, epk |-> None, idle |-> 0, peer |-> None]

Held(f) == leg[f].addr # None
Other(f) == <<f[1], IF f[2] = "a" THEN "b" ELSE "a">>

Init ==
  /\ sessions = {}
  /\ paired = [s \in Sids |-> FALSE]
  /\ age = [s \in Sids |-> 0]
  /\ leg = [f \in Slots |-> NoLeg]
  /\ byAddr = [x \in Addrs |-> None]
  /\ legsPerIP = [k \in Accts |-> 0]
  /\ verifying = {}
  /\ ticketMode \in BOOLEAN
  /\ shared = {}

(* What every step does besides: the mode stays, and an address counts as shared
   from the moment two legs are bound from it until none is. *)
History ==
  /\ UNCHANGED ticketMode
  /\ shared' = {x \in Addrs :
       \/ \E f, g \in Slots : f # g /\ leg'[f].addr = x /\ leg'[g].addr = x
       \/ x \in shared /\ \E f \in Slots : leg'[f].addr = x}

-----------------------------------------------------------------------------
(* Helpers shared by the two bind paths *)

(* releaseIPLocked, c times over: the entry is deleted at zero, never negative. *)
Released(n, c) == IF n <= c THEN 0 ELSE n - c

(* The session is there, or there is room to create it. *)
SessionAvailable(s) == s \in sessions \/ Cardinality(sessions) < MaxSessions

(* Bind leg f at address x under ephemeral key e: create the session if it is
   new, index the address, charge the accounting key, and when this is the
   second leg publish each leg's address to the other (pairLocked). *)
AddLeg(f, x, e) ==
  LET s == f[1]
      partner == leg[Other(f)].addr
  IN  /\ sessions' = sessions \cup {s}
      /\ paired' = [paired EXCEPT ![s] = @ \/ partner # None]
      /\ UNCHANGED age
      /\ leg' = [g \in Slots |->
                   IF g = f THEN [addr |-> x, acct |-> AcctOf[x], epk |-> e,
                                  idle |-> 0, peer |-> partner]
                   ELSE IF g = Other(f) /\ Held(g) THEN [leg[g] EXCEPT !.peer = x]
                   ELSE leg[g]]
      /\ byAddr' = [byAddr EXCEPT ![x] = f]
      /\ legsPerIP' = [legsPerIP EXCEPT ![AcctOf[x]] = @ + 1]

(* A bind for a leg this source already holds: only its idle timer changes. *)
RefreshLeg(f) ==
  /\ leg' = [leg EXCEPT ![f].idle = 0]
  /\ UNCHANGED <<sessions, paired, age, byAddr, legsPerIP>>

IndexedTwice(f, x) == [byAddr EXCEPT ![x] = f]   \* mutant: the old entry is not deleted

MovedUnindexed(f, x) == [byAddr EXCEPT ![leg[f].addr] = None]   \* mutant: the new one is not stored

(* The index after leg f moved to x: the old entry deleted, the new one stored. *)
Reindexed(f, x) == [byAddr EXCEPT ![leg[f].addr] = None, ![x] = f]

ChargeLeftBehind(f, x) == legsPerIP   \* mutant: the charge does not follow the leg

(* The accounts after leg f moved to x: the charge moves with the leg. *)
Recharged(f, x) ==
  IF leg[f].acct = AcctOf[x] THEN legsPerIP
  ELSE [legsPerIP EXCEPT ![leg[f].acct] = Released(@, 1), ![AcctOf[x]] = @ + 1]

(* Address migration of leg f to x; if the partner is bound both peers are
   republished. *)
MigrateLeg(f, x) ==
  /\ leg' = [g \in Slots |->
               IF g = f
               THEN [addr |-> x, acct |-> AcctOf[x], epk |-> leg[f].epk, idle |-> 0,
                     peer |-> IF Held(Other(f)) THEN leg[Other(f)].addr ELSE leg[f].peer]
               ELSE IF g = Other(f) /\ Held(g) THEN [leg[g] EXCEPT !.peer = x]
               ELSE leg[g]]
  /\ byAddr' = Reindexed(f, x)
  /\ legsPerIP' = Recharged(f, x)
  /\ UNCHANGED <<sessions, paired, age>>

(* A refused leg: dropIfEmptyLocked takes back the session this bind created. *)
Refuse(s) == UNCHANGED <<sessions, paired, age, leg, byAddr, legsPerIP>>

-----------------------------------------------------------------------------
(* Ticket mode *)

(* admitTicketBind on the read loop: cookie and budgets passed, and a slot of
   the in-flight semaphore is free, so the verification starts in a goroutine. *)
AdmitTicketBind(b) ==
  /\ ticketMode
  /\ Cardinality(verifying) < MaxInFlight
  /\ verifying' = verifying \cup {b}
  /\ UNCHANGED <<sessions, paired, age, leg, byAddr, legsPerIP>>
  /\ History

(* verifyTicketBind fails one of its checks (encoding, signature, window,
   relay id, sid claim, proof of possession): nothing but the semaphore moves. *)
RejectTicketBind(b) ==
  /\ b \in verifying
  /\ verifying' = verifying \ {b}
  /\ UNCHANGED <<sessions, paired, age, leg, byAddr, legsPerIP>>
  /\ History

CappedOnlyWhenNew(f, x) ==   \* mutant: a migrating leg escapes the cap
  \/ ~ SessionAvailable(f[1])
  \/ ~ Held(f) /\ legsPerIP[AcctOf[x]] >= MaxLegsPerIP

(* The refusals of bindTicketed for want of room: the session table is full, or
   the source is at its leg cap (for a new leg, or one migrating to it). *)
Capped(f, x) ==
  \/ ~ SessionAvailable(f[1])
  \/ ~ Held(f) /\ legsPerIP[AcctOf[x]] >= MaxLegsPerIP
  \/ /\ Held(f) /\ leg[f].addr # x
     /\ leg[f].acct # AcctOf[x]
     /\ legsPerIP[AcctOf[x]] >= MaxLegsPerIP

AnyKeyMayMove(f, e) == FALSE   \* mutant: the leg's key is not compared

(* The leg is held under another ephemeral key. *)
TakenByOther(f, e) == Held(f) /\ leg[f].epk # e

(* bindTicketed, one critical section.  Verifications run concurrently, so any
   member of verifying may be the next to take the lock. *)
BindTicketed(b) ==
  LET f == <<b.sid, b.name>>
  IN  /\ b \in verifying
      /\ verifying' = verifying \ {b}
      /\ \/ /\ Capped(f, b.src) \/ TakenByOther(f, b.epk)
            /\ Refuse(b.sid)
         \/ /\ ~ Capped(f, b.src) /\ ~ TakenByOther(f, b.epk)
            /\ \/ ~ Held(f) /\ AddLeg(f, b.src, b.epk)
               \/ Held(f) /\ leg[f].addr = b.src /\ RefreshLeg(f)
               \/ Held(f) /\ leg[f].addr # b.src /\ MigrateLeg(f, b.src)
      /\ History

-----------------------------------------------------------------------------
(* Network mode: a leg is the source address itself *)

(* bindNetworkMode, on the read loop under the lock.  A known address refreshes
   its leg; an unknown one takes the free leg, unless the session already has
   two or the source is at its cap. *)
BindNetworkMode(s, x) ==
  /\ ~ ticketMode
  /\ SessionAvailable(s)
  /\ LET mine == {f \in Slots : f[1] = s /\ leg[f].addr = x}
         free == {f \in Slots : f[1] = s /\ ~ Held(f)}
     IN  \/ \E f \in mine : RefreshLeg(f)
         \/ /\ mine = {} /\ (free = {} \/ legsPerIP[AcctOf[x]] >= MaxLegsPerIP)
            /\ Refuse(s)
         \/ /\ mine = {} /\ legsPerIP[AcctOf[x]] < MaxLegsPerIP
            /\ \E f \in free : (Other(f) \in free => f[2] = "a") /\ AddLeg(f, x, None)
  /\ UNCHANGED verifying
  /\ History

-----------------------------------------------------------------------------
(* Data path and reaper *)

(* forward: look the source up, refresh its idle timer and send to its peer.
   The three lock-free accesses are one step: a reap that falls between them
   either drops the leg, and then the refresh hits an unreachable record and
   the step stutters, or keeps it, and then the step may as well come after. *)
Forward(x) ==
  /\ byAddr[x] # None
  /\ leg' = [leg EXCEPT ![byAddr[x]].idle = 0]
  /\ UNCHANGED <<sessions, paired, age, byAddr, legsPerIP, verifying>>
  /\ History

(* Where a datagram from x goes (None: it is dropped). *)
Destination(x) == IF byAddr[x] = None THEN None ELSE leg[byAddr[x]].peer

ExpiredByTraffic(s) == FALSE   \* mutant: only the idle timers expire a session

(* Sessions past the half-open timeout: only those that never had two legs. *)
Expired(s) == ~ paired[s] /\ age[s] > PendingPair

(* The legs one pass of the reaper drops. *)
Doomed == {f \in Slots : Held(f) /\ (Expired(f[1]) \/ leg[f].idle > TTL)}

SurvivorAsBefore(f, left) == leg[f]   \* mutant: the lone survivor keeps its peer

(* A leg that survives the pass; a lone one must stop forwarding to its partner. *)
Survivor(f, left) ==
  IF Other(f) \in left THEN leg[f] ELSE [leg[f] EXCEPT !.peer = None]

(* The index without the addresses of the legs that go. *)
Unindexed(gone) ==
  [x \in Addrs |-> IF \E f \in gone : leg[f].addr = x THEN None ELSE byAddr[x]]

(* One pass of reap over all sessions, under the lock, when there is a leg to drop. *)
Reap ==
  LET gone == Doomed
      left == {f \in Slots : Held(f)} \ gone
      live == {f[1] : f \in left}
  IN  /\ gone # {}
      /\ UNCHANGED verifying
      /\ leg' = [f \in Slots |->
                   IF f \in left THEN Survivor(f, left) ELSE NoLeg]
      /\ byAddr' = Unindexed(gone)
      /\ legsPerIP' = [k \in Accts |->
                         Released(legsPerIP[k],
                                  Cardinality({f \in gone : leg[f].acct = k}))]
      /\ sessions' = sessions \cap live
      /\ paired' = [s \in Sids |-> s \in live /\ paired[s]]
      /\ age' = [s \in Sids |-> IF s \in live THEN age[s] ELSE 0]
      /\ History

(* Time passes for every leg and every session. *)
Tick ==
  /\ UNCHANGED <<sessions, paired, byAddr, legsPerIP, verifying>>
  /\ leg' = [f \in Slots |->
               IF Held(f) /\ leg[f].idle <= TTL THEN [leg[f] EXCEPT !.idle = @ + 1]
               ELSE leg[f]]
  /\ age' = [s \in Sids |->
               IF s \in sessions /\ age[s] <= PendingPair THEN age[s] + 1 ELSE age[s]]
  /\ History

Next ==
  \/ \E b \in Binds : AdmitTicketBind(b)
  \/ \E b \in verifying : RejectTicketBind(b) \/ BindTicketed(b)
  \/ \E nb \in NetBinds : BindNetworkMode(nb[1], nb[2])
  \/ \E x \in Addrs : Forward(x)
  \/ Reap
  \/ Tick

Spec == Init /\ [][Next]_vars

(* The reaper's ticker always fires and time passes; nothing is assumed of the
   buddies, whose packets may or may not come. *)
FairSpec == Spec /\ WF_vars(Reap) /\ WF_vars(Tick)

-----------------------------------------------------------------------------
(* Properties *)

TypeOK ==
  /\ sessions \subseteq Sids
  /\ paired \in [Sids -> BOOLEAN]
  /\ age \in [Sids -> 0 .. PendingPair + 1]
  /\ leg \in [Slots -> Leg]
  /\ byAddr \in [Addrs -> Slots \cup {None}]
  /\ legsPerIP \in [Accts -> Nat]
  /\ verifying \subseteq Binds
  /\ ticketMode \in BOOLEAN /\ shared \subseteq Addrs

(* What the lock-free data path finds under an address is always a bound leg
   that sits at that very address: no bind, migration or reap, in any order,
   leaves the index pointing at a dropped leg or at a leg that has moved on. *)
IndexSound ==
  \A x \in Addrs : byAddr[x] # None => leg[byAddr[x]].addr = x

(* The published peers: with both legs bound each points at the other's current
   address, and a lone leg (partner never came, or was reaped) points nowhere,
   so no datagram follows a partner that has left or moved. *)
PeersMatch ==
  \A f \in Slots : Held(f) => leg[f].peer = leg[Other(f)].addr

(* The budget of every accounting key is exactly the number of legs charged to
   it, through binds, migrations between networks and reaps: no slot leaks, and
   none is credited twice. *)
AccountingExact ==
  \A k \in Accts : legsPerIP[k] = Cardinality({f \in Slots : leg[f].acct = k})

(* A source never holds more legs than its cap, also when legs migrate to it. *)
LegCapRespected ==
  \A k \in Accts : Cardinality({f \in Slots : leg[f].acct = k}) <= MaxLegsPerIP

(* The session table holds the sessions with a leg and nothing else: a refused
   bind costs no slot, a reaped session leaves none, and the table stays within
   its cap. *)
SessionsHaveLegs ==
  /\ sessions = {f[1] : f \in {g \in Slots : Held(g)}}
  /\ Cardinality(sessions) <= MaxSessions

(* A leg never changes hands: while it is bound its ephemeral key stays, and it
   moves only to the source address of a bind made with that key for this leg. *)
LegMovesOnlyByItsKey ==
  [][\A f \in Slots :
       Held(f) /\ leg'[f].addr \notin {None, leg[f].addr} =>
         /\ leg'[f].epk = leg[f].epk
         /\ [sid |-> f[1], name |-> f[2], epk |-> leg[f].epk, src |-> leg'[f].addr]
              \in verifying]_vars

(* A session that never got its second leg does not outlive the half-open
   timeout, whatever the lone leg sends. *)
UnpairedExpires ==
  \A s \in Sids : (s \in sessions /\ ~ paired[s]) ~> (s \notin sessions \/ paired[s])

(* docs/PROTOCOL.md:398: the relay "expires a session that holds only ONE leg
   after an absolute 60 s, whatever its traffic". *)
OneLegged(s) == s \in sessions /\ (Held(<<s, "a">>) # Held(<<s, "b">>))
OneLeggedExpires == \A s \in Sids : OneLegged(s) ~> ~ OneLegged(s)

Connected(f) == Destination(leg[f].addr) = leg[Other(f)].addr

(* docs/PROTOCOL.md:368, "Once both legs are bound, the relay forwards every
   non-bind datagram from one leg to the other": true of every leg whose address
   no other leg has been bound from while it was in use. *)
PairForwards ==
  \A f \in Slots :
    Held(f) /\ Held(Other(f)) /\ leg[f].addr \notin shared => Connected(f)

(* The same sentence where an address may serve two sessions (--listen-port): a
   pair that is connected, and whose two legs stay bound where they are, is not
   disconnected by what happens to other sessions. *)
PairStaysConnected ==
  [][\A f \in Slots :
       ( /\ Held(f) /\ Held(Other(f)) /\ Connected(f)
         /\ \A g \in {f, Other(f)} : leg'[g].addr = leg[g].addr )
       => byAddr'[leg[f].addr] # None]_vars
=============================================================================
