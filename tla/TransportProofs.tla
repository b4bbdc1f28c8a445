--------------------------- MODULE TransportProofs ---------------------------
(***************************************************************************)
(* Proofs about the two QUIC transports: the control listener of the       *)
(* handshake server and the forward of a session between buddies.  They    *)
(* share no state; each part below has its own inductive invariant.        *)
(***************************************************************************)
EXTENDS ControlPlane, DataPlane, FiniteSetTheorems, TLAPS

(* Time for the larger leaves. *)
USE SMTT(20), ZenonT(30)

-----------------------------------------------------------------------------
(* ControlPlane, for any connections, sources and caps.  Inv adds to
   SlotsExact where in its life a connection may hold a slot: it is closed
   before its serving goroutine releases it, and the AfterFunc fires only
   after it was closed and leaves it released. *)

Lifecycle ==
  \A c \in Conns :
    /\ phase[c] = "none" => ~open[c] /\ ~released[c]
    /\ open[c] => phase[c] \in {"shaking", "queued", "serving"} /\ ~fired[c] /\ ~released[c]
    /\ fired[c] => released[c]

Inv == TypeOK /\ Lifecycle /\ SlotsExact

-----------------------------------------------------------------------------
(* How the holders change *)

(* Sets of connections are finite and have a size. *)
LEMMA FiniteConns ==
  ASSUME NEW S \in SUBSET Conns
  PROVE  IsFiniteSet(S) /\ Cardinality(S) \in Nat
BY ConnsAssumption, FS_Subset, FS_CardinalityType

(* The pool counts as this module does. *)
LEMMA PoolCounts == \A S : Pool!Cardinality(S) = Cardinality(S)
BY Zenon DEF Pool!Cardinality, Cardinality

(* One more holder counts one more, in total and at its source only. *)
LEMMA HolderAdded ==
  ASSUME NEW c \in Conns, c \notin Holders, Holders' = Holders \cup {c}
  PROVE  /\ Cardinality(Holders') = Cardinality(Holders) + 1
         /\ \A s \in Sources : Cardinality(HoldersFrom(s)') =
              IF s = SourceOf[c] THEN Cardinality(HoldersFrom(s)) + 1
              ELSE Cardinality(HoldersFrom(s))
<1>1. IsFiniteSet(Holders) /\ \A s \in Sources : IsFiniteSet(HoldersFrom(s))
  BY FiniteConns DEF Holders, HoldersFrom
<1>2. Cardinality(Holders') = Cardinality(Holders) + 1
  BY Zenon, <1>1, FS_AddElement
<1>3. ASSUME NEW s \in Sources
      PROVE  Cardinality(HoldersFrom(s)') =
              IF s = SourceOf[c] THEN Cardinality(HoldersFrom(s)) + 1
              ELSE Cardinality(HoldersFrom(s))
  <2>1. CASE s = SourceOf[c]
    <3>1. HoldersFrom(s)' = HoldersFrom(s) \cup {c} /\ c \notin HoldersFrom(s)
      BY <2>1 DEF HoldersFrom
    <3>2. QED
      BY ZenonT(30), <1>1, <2>1, <3>1, FS_AddElement
  <2>2. CASE s # SourceOf[c]
    <3>1. HoldersFrom(s)' = HoldersFrom(s)
      BY <2>2 DEF HoldersFrom
    <3>2. QED
      BY <2>2, <3>1
  <2>3. QED
    BY <2>1, <2>2
<1>4. QED
  BY <1>2, <1>3

(* One holder less counts one less, in total and at its source only. *)
LEMMA HolderRemoved ==
  ASSUME NEW c \in Conns, c \in Holders, Holders' = Holders \ {c}
  PROVE  /\ Cardinality(Holders') = Cardinality(Holders) - 1
         /\ \A s \in Sources : Cardinality(HoldersFrom(s)') =
              IF s = SourceOf[c] THEN Cardinality(HoldersFrom(s)) - 1
              ELSE Cardinality(HoldersFrom(s))
<1>1. IsFiniteSet(Holders) /\ \A s \in Sources : IsFiniteSet(HoldersFrom(s))
  BY FiniteConns DEF Holders, HoldersFrom
<1>2. Cardinality(Holders') = Cardinality(Holders) - 1
  BY <1>1, FS_RemoveElement
<1>3. ASSUME NEW s \in Sources
      PROVE  Cardinality(HoldersFrom(s)') =
              IF s = SourceOf[c] THEN Cardinality(HoldersFrom(s)) - 1
              ELSE Cardinality(HoldersFrom(s))
  <2>1. CASE s = SourceOf[c]
    <3>1. HoldersFrom(s)' = HoldersFrom(s) \ {c} /\ c \in HoldersFrom(s)
      BY <2>1 DEF HoldersFrom
    <3>2. QED
      BY ZenonT(30), <1>1, <2>1, <3>1, FS_RemoveElement
  <2>2. CASE s # SourceOf[c]
    <3>1. HoldersFrom(s)' = HoldersFrom(s)
      BY <2>2 DEF HoldersFrom
    <3>2. QED
      BY <2>2, <3>1
  <2>3. QED
    BY <2>1, <2>2
<1>4. QED
  BY <1>2, <1>3

(* A step that changes neither the holders nor the counters keeps them exact. *)
LEMMA SameHolders ==
  ASSUME SlotsExact, Holders' = Holders, UNCHANGED <<conns, perIP>>
  PROVE  SlotsExact'
<1>1. \A s \in Sources : HoldersFrom(s)' = HoldersFrom(s)
  BY DEF HoldersFrom
<1>2. QED
  BY <1>1 DEF SlotsExact

-----------------------------------------------------------------------------
(* The steps that take or give back a slot *)

(* Admission takes a free slot. *)
LEMMA GateTakes ==
  ASSUME Inv, NEW c \in Conns, gateConn(c)
  PROVE  Inv' /\ Pool!Take(c)
<1> USE DEF Inv
<1>1. TypeOK'
  <2>1. SourceOf[c] \in Sources
    BY DEF Sources
  <2>2. conns' \in Int /\ perIP' \in [Sources -> Int]
    BY <2>1 DEF TypeOK, gateConn
  <2>3. QED
    BY <2>2 DEF TypeOK, gateConn
<1>2. Lifecycle'
  BY DEF TypeOK, Lifecycle, gateConn
<1>3. c \notin Holders /\ Holders' = Holders \cup {c}
  BY DEF TypeOK, Lifecycle, gateConn, Holders
<1>4. SourceOf[c] \in Sources
  BY DEF Sources
<1>5. /\ Cardinality(Holders) < MaxConns
      /\ Cardinality(HoldersFrom(SourceOf[c])) < MaxPerIP
  BY <1>4 DEF gateConn, HasSlot, SlotsExact
<1>6. /\ Cardinality(Holders) \in Nat
      /\ \A s \in Sources : Cardinality(HoldersFrom(s)) \in Nat
  BY FiniteConns DEF Holders, HoldersFrom
<1>7. SlotsExact'
  <2>1. conns' = Cardinality(Holders') /\ conns' <= MaxConns
    <3>1. conns' = conns + 1 /\ conns = Cardinality(Holders)
      BY DEF gateConn, SlotsExact
    <3>2. Cardinality(Holders') = Cardinality(Holders) + 1
      BY <1>3, HolderAdded
    <3>3. QED
      BY <1>5, <1>6, <3>1, <3>2, CapsAssumption
  <2>2. ASSUME NEW s \in Sources
        PROVE  perIP'[s] = Cardinality(HoldersFrom(s)') /\ perIP'[s] <= MaxPerIP
    <3>1. perIP'[s] = IF s = SourceOf[c] THEN perIP[s] + 1 ELSE perIP[s]
      BY DEF gateConn, TypeOK
    <3>2. perIP[s] = Cardinality(HoldersFrom(s)) /\ perIP[s] <= MaxPerIP
      BY DEF SlotsExact
    <3>3. QED
      BY <1>3, <1>5, <1>6, <3>1, <3>2, HolderAdded, CapsAssumption
  <2>3. QED
    BY <2>1, <2>2 DEF SlotsExact
<1>8. Pool!Take(c)
  <2>1. Pool!HeldFrom(SourceOf[c]) = HoldersFrom(SourceOf[c])
    BY DEF Pool!HeldFrom, HoldersFrom
  <2>2. QED
    BY <1>3, <1>5, <2>1, PoolCounts DEF Pool!Take
<1>9. QED
  BY <1>1, <1>2, <1>7, <1>8

(* The release closure keeps the counters exact and gives back at most the slot
   of its own connection. *)
LEMMA ReleaseGives ==
  ASSUME Inv, NEW c \in Conns, phase[c] # "none", release(c),
         phase' \in [Conns -> {"none", "shaking", "queued", "serving", "returned", "done"}],
         \A d \in Conns : phase'[d] = "none" <=> phase[d] = "none"
  PROVE  /\ released' = [released EXCEPT ![c] = TRUE]
         /\ conns' \in Int /\ perIP' \in [Sources -> Int]
         /\ SlotsExact'
         /\ Holders' = Holders \/ Pool!Give(c)
<1> USE DEF Inv
<1>0. released \in [Conns -> BOOLEAN] /\ conns \in Int /\ perIP \in [Sources -> Int]
  BY DEF TypeOK
<1>1. CASE released[c]
  <2>1. UNCHANGED <<conns, perIP, released>>
    BY <1>1 DEF release
  <2>2. Holders' = Holders
    BY <2>1 DEF Holders
  <2>3. QED
    BY <1>0, <1>1, <2>1, <2>2, SameHolders
<1>2. CASE ~released[c]
  <2>1. /\ conns' = conns - 1
        /\ perIP' = [perIP EXCEPT ![SourceOf[c]] = @ - 1]
        /\ released' = [released EXCEPT ![c] = TRUE]
    BY <1>2 DEF release
  <2>2. c \in Holders /\ Holders' = Holders \ {c}
    BY <1>0, <1>2, <2>1 DEF Holders
  <2>3. /\ Cardinality(Holders) \in Nat
        /\ \A s \in Sources : Cardinality(HoldersFrom(s)) \in Nat
    BY FiniteConns DEF Holders, HoldersFrom
  <2>4. conns' = Cardinality(Holders') /\ conns' <= MaxConns
    BY <2>1, <2>2, <2>3, HolderRemoved, CapsAssumption DEF SlotsExact
  <2>5. ASSUME NEW s \in Sources
        PROVE  perIP'[s] = Cardinality(HoldersFrom(s)') /\ perIP'[s] <= MaxPerIP
    <3>1. perIP'[s] = IF s = SourceOf[c] THEN perIP[s] - 1 ELSE perIP[s]
      BY <1>0, <2>1
    <3>2. perIP[s] = Cardinality(HoldersFrom(s)) /\ perIP[s] <= MaxPerIP
      BY DEF SlotsExact
    <3>3. QED
      BY <2>2, <2>3, <3>1, <3>2, HolderRemoved, CapsAssumption
  <2>6. SourceOf[c] \in Sources
    BY DEF Sources
  <2>7. conns' \in Int /\ perIP' \in [Sources -> Int]
    BY <1>0, <2>1, <2>6
  <2>8. QED
    BY <2>1, <2>2, <2>4, <2>5, <2>7 DEF SlotsExact, Pool!Give
<1>3. QED
  BY <1>1, <1>2

(* The AfterFunc gives back the slot of its own, closed connection. *)
LEMMA AfterFuncGives ==
  ASSUME Inv, NEW c \in Conns, AfterFunc(c)
  PROVE  Inv' /\ (Holders' = Holders \/ Pool!Give(c))
<1>1. /\ released' = [released EXCEPT ![c] = TRUE]
      /\ conns' \in Int /\ perIP' \in [Sources -> Int]
      /\ SlotsExact'
      /\ Holders' = Holders \/ Pool!Give(c)
  BY ReleaseGives DEF AfterFunc, Inv, TypeOK
<1>2. TypeOK'
  BY <1>1 DEF Inv, TypeOK, AfterFunc
<1>3. Lifecycle'
  BY <1>1 DEF Inv, TypeOK, Lifecycle, AfterFunc
<1>4. QED
  BY <1>1, <1>2, <1>3 DEF Inv

(* So does the goroutine that served it, after the deferred close. *)
LEMMA ServingGives ==
  ASSUME Inv, NEW c \in Conns, acceptConnsReleases(c)
  PROVE  Inv' /\ (Holders' = Holders \/ Pool!Give(c))
<1>1. /\ phase[c] # "none"
      /\ phase' = [phase EXCEPT ![c] = "done"]
      /\ phase' \in [Conns -> {"none", "shaking", "queued", "serving", "returned", "done"}]
  BY DEF acceptConnsReleases, Inv, TypeOK
<1>2. \A d \in Conns : phase'[d] = "none" <=> phase[d] = "none"
  BY <1>1 DEF Inv, TypeOK
<1>3. /\ released' = [released EXCEPT ![c] = TRUE]
      /\ conns' \in Int /\ perIP' \in [Sources -> Int]
      /\ SlotsExact'
      /\ Holders' = Holders \/ Pool!Give(c)
  BY <1>1, <1>2, ReleaseGives DEF acceptConnsReleases
<1>4. TypeOK'
  BY <1>1, <1>3 DEF Inv, TypeOK, acceptConnsReleases
<1>5. Lifecycle'
  BY <1>1, <1>3 DEF Inv, TypeOK, Lifecycle, acceptConnsReleases
<1>6. QED
  BY <1>3, <1>4, <1>5 DEF Inv

(* Forgetting a connection that is over leaves every slot as it is. *)
LEMMA ForgetKeeps ==
  ASSUME Inv, NEW c \in Conns, forget(c)
  PROVE  Inv' /\ Holders' = Holders
<1>1. TypeOK'
  BY DEF Inv, TypeOK, forget
<1>2. Lifecycle'
  BY DEF Inv, TypeOK, Lifecycle, forget
<1>3. released[c]
  BY DEF Inv, Lifecycle, forget
<1>4. Holders' = Holders
  BY <1>3 DEF Inv, TypeOK, Holders, forget
<1>5. SlotsExact'
  BY <1>4, SameHolders DEF Inv, forget
<1>6. QED
  BY <1>1, <1>2, <1>4, <1>5 DEF Inv

-----------------------------------------------------------------------------
(* The steps that leave the slots alone *)

(* A connection goes through its phases, and may be lost in any. *)
LEMMA LifeKeeps ==
  ASSUME Inv, NEW c \in Conns,
         \/ handshakeDone(c) \/ connLost(c) \/ acceptConns(c) \/ acceptStream(c)
         \/ acceptStreamsReturns(c) \/ acceptStreamsPanics(c)
  PROVE  Inv' /\ Holders' = Holders
<1> USE DEF handshakeDone, connLost, acceptConns, acceptStream, acceptStreamsReturns,
            acceptStreamsPanics, Close
<1>1. TypeOK'
  BY ZenonT(30) DEF Inv, TypeOK
<1>2. Lifecycle'
  <2> SUFFICES ASSUME NEW d \in Conns
               PROVE  /\ phase'[d] = "none" => ~open'[d] /\ ~released'[d]
                      /\ open'[d] => phase'[d] \in {"shaking", "queued", "serving"}
                                     /\ ~fired'[d] /\ ~released'[d]
                      /\ fired'[d] => released'[d]
    BY DEF Lifecycle
  <2>1. /\ phase[d] = "none" => ~open[d] /\ ~released[d]
        /\ open[d] => phase[d] \in {"shaking", "queued", "serving"} /\ ~fired[d] /\ ~released[d]
        /\ fired[d] => released[d]
    BY DEF Inv, Lifecycle
  <2>2. phase \in [Conns -> {"none", "shaking", "queued", "serving", "returned", "done"}]
        /\ open \in [Conns -> BOOLEAN]
    BY DEF Inv, TypeOK
  <2>3. QED
    BY <2>1, <2>2
<1>3. /\ UNCHANGED <<released, conns, perIP>>
      /\ \A d \in Conns : phase'[d] = "none" <=> phase[d] = "none"
  BY DEF Inv, TypeOK
<1>4. Holders' = Holders
  BY <1>3 DEF Holders
<1>5. SlotsExact'
  BY <1>3, <1>4, SameHolders DEF Inv
<1>6. QED
  BY <1>1, <1>2, <1>4, <1>5 DEF Inv

(* A request may close its connection, nothing else; so does the server. *)
LEMMA RequestKeeps ==
  ASSUME Inv, NEW c \in Conns,
         \/ readRequest(c) \/ Accept(c) \/ handleControlReq(c) \/ handlerPanics(c)
         \/ CloseServer
  PROVE  Inv' /\ Holders' = Holders
<1>1. /\ UNCHANGED <<phase, fired, released, conns, perIP, first>>
      /\ open' \in [Conns -> BOOLEAN]
      /\ \A d \in Conns : open'[d] => open[d]
      /\ stream' \in [Conns -> {"none", "reading", "offered", "handling", "stuck"}]
      /\ running' \in BOOLEAN
  <2>1. CASE readRequest(c) \/ Accept(c) \/ handlerPanics(c)
    BY <2>1 DEF Inv, TypeOK, readRequest, Accept, handlerPanics
  <2>2. CASE handleControlReq(c)
    <3>1. open' = open \/ Close(c)
      BY <2>2 DEF handleControlReq
    <3>2. open' \in [Conns -> BOOLEAN] /\ \A d \in Conns : open'[d] => open[d]
      BY Zenon, <3>1 DEF Inv, TypeOK, Close
    <3>3. QED
      BY Zenon, <2>2, <3>2 DEF Inv, TypeOK, handleControlReq
  <2>3. CASE CloseServer
    BY Zenon, <2>3 DEF Inv, TypeOK, CloseServer
  <2>4. QED
    BY <2>1, <2>2, <2>3
<1>2. TypeOK'
  BY <1>1 DEF Inv, TypeOK
<1>3. Lifecycle'
  BY <1>1 DEF Inv, Lifecycle
<1>4. Holders' = Holders
  BY <1>1 DEF Holders
<1>5. SlotsExact'
  BY <1>1, <1>4, SameHolders DEF Inv
<1>6. QED
  BY <1>2, <1>3, <1>4, <1>5 DEF Inv

-----------------------------------------------------------------------------

(* The counters start exact, over an empty pool. *)
LEMMA InitExact == Init => Inv /\ Pool!Init
<1> SUFFICES ASSUME Init PROVE Inv /\ Pool!Init
  OBVIOUS
<1>1. Holders = {} /\ \A s \in Sources : HoldersFrom(s) = {}
  BY DEF Init, Holders, HoldersFrom
<1>2. Cardinality({}) = 0
  BY FS_EmptySet
<1>3. SlotsExact
  BY <1>1, <1>2, CapsAssumption DEF Init, SlotsExact
<1>4. TypeOK /\ Lifecycle
  BY DEF Init, TypeOK, Lifecycle
<1>5. QED
  BY <1>1, <1>3, <1>4 DEF Inv, Pool!Init

(* Every step keeps the invariant and is a step of the pool, or none. *)
LEMMA StepExact ==
  ASSUME Inv, [Next]_vars
  PROVE  Inv' /\ [Pool!Next]_Holders
<1>1. CASE \E c \in Conns : gateConn(c)
  BY <1>1, GateTakes DEF Pool!Next
<1>2. CASE \E c \in Conns : AfterFunc(c)
  BY <1>2, AfterFuncGives DEF Pool!Next
<1>3. CASE \E c \in Conns : acceptConnsReleases(c)
  BY <1>3, ServingGives DEF Pool!Next
<1>4. CASE \E c \in Conns : forget(c)
  BY <1>4, ForgetKeeps
<1>5. CASE \E c \in Conns :
              \/ handshakeDone(c) \/ connLost(c) \/ acceptConns(c) \/ acceptStream(c)
              \/ acceptStreamsReturns(c) \/ acceptStreamsPanics(c)
  BY <1>5, LifeKeeps
<1>6. CASE \E c \in Conns :
              readRequest(c) \/ Accept(c) \/ handleControlReq(c) \/ handlerPanics(c)
  BY <1>6, RequestKeeps
<1>7. CASE CloseServer
  <2>1. CASE Conns = {}
    <3>1. TypeOK' /\ Lifecycle'
      BY Zenon, <1>7, <2>1 DEF Inv, TypeOK, Lifecycle, CloseServer
    <3>2. Holders' = Holders /\ UNCHANGED <<conns, perIP>>
      BY <1>7 DEF Holders, CloseServer
    <3>3. QED
      BY <3>1, <3>2, SameHolders DEF Inv
  <2>2. CASE Conns # {}
    BY <1>7, <2>2, RequestKeeps
  <2>3. QED
    BY <2>1, <2>2
<1>8. CASE UNCHANGED vars
  <2>1. TypeOK' /\ Lifecycle'
    BY <1>8 DEF Inv, TypeOK, Lifecycle, vars
  <2>2. Holders' = Holders /\ UNCHANGED <<conns, perIP>>
    BY <1>8 DEF Holders, vars
  <2>3. QED
    BY <2>1, <2>2, SameHolders DEF Inv
<1>9. QED
  BY <1>1, <1>2, <1>3, <1>4, <1>5, <1>6, <1>7, <1>8 DEF Next

(* The slot counters equal the slots held and stay within both caps, for any
   number of connections, sources and slots (gateConn, release). *)
THEOREM ControlSlotsExact == Spec => []SlotsExact
<1>1. Spec => []Inv
  BY InitExact, StepExact, PTL DEF Spec
<1>2. Inv => SlotsExact
  BY DEF Inv
<1>3. QED
  BY <1>1, <1>2, PTL

(* A connection that exists holds a slot: no slot is given back early. *)
THEOREM ControlOpenHoldsSlot == Spec => []OpenHoldsSlot
<1>1. Spec => []Inv
  BY InitExact, StepExact, PTL DEF Spec
<1>2. Inv => OpenHoldsSlot
  BY DEF Inv, Lifecycle, OpenHoldsSlot, Holders
<1>3. QED
  BY <1>1, <1>2, PTL

(* The two counters and the two goroutines that release implement SlotPool. *)
THEOREM ControlImplementsPool == Spec => SlotsImplementPool
<1>1. Spec => []Inv
  BY InitExact, StepExact, PTL DEF Spec
<1>2. Init => Pool!Init
  BY InitExact
<1>3. Inv /\ [Next]_vars => [Pool!Next]_Holders
  BY StepExact
<1>4. QED
  BY <1>1, <1>2, <1>3, PTL DEF Spec, SlotsImplementPool, Pool!Spec

-----------------------------------------------------------------------------
(* DataPlane.  The listener stays reachable because an accept loop closes its
   own listener before forward returns: whatever a goroutine of an earlier
   session closes later is closed already, and a closed unix listener unlinks
   nothing.  That needs that only the current session's listener is ever open
   and that a loop that has yet to bind, or has ended, left none. *)

(* Only the listener of the current session can be open, and the address leads
   to it; no close goroutine belongs to a later session. *)
OpenIsCurrent ==
  /\ listeners \subseteq {n}
  /\ n \in listeners => path = n
  /\ \A s \in closers : s <= n

(* An accept loop that has yet to bind, or has ended, has no listener, and a
   forward that is off has no accept loop. *)
LoopBound ==
  /\ acceptor["a"].pc \in {"none", "bind"} => listeners = {}
  /\ \A h \in Hosts : fwd[h] = "off" => acceptor[h].pc = "none"

(* While a session is served its accept loop is binding or has its listener. *)
ServedListens ==
  fwd["a"] = "serving" /\ kind # "denied" =>
    /\ acceptor["a"].pc \in {"bind", "accept", "sem"}
    /\ acceptor["a"].pc # "bind" => n \in listeners /\ (kind = "vip" => lo)

(* The connection a loop holds at its semaphore is of this session and has no
   slot yet. *)
HeldByLoop ==
  \A h \in Hosts : acceptor[h].pc = "sem" =>
    LET k == acceptor[h].conn
    IN  k \in Clients /\ conn[k].s = n /\ conn[k][h] = "held"

(* The other host knows nothing of a connection before its stream is open. *)
NotYetOpen == \A k \in Clients : conn[k].a \in {"new", "held", "go"} => conn[k].b = "none"

(* No connection is of a later session, no copy ends before its stream is open,
   and ends of file travel in order. *)
Ending ==
  /\ \A k \in Clients : conn[k].s <= n
  /\ \A k \in Clients : conn[k].a \in {"new", "held", "go"} => conn[k].done = {}
  /\ NothingCut

(* No session of a host has more than maxConcurrentStreams goroutines. *)
StreamsBounded ==
  \A h \in Hosts, s \in Sessions :
    IsFiniteSet(SlotHolders(h, s)) /\ Cardinality(SlotHolders(h, s)) <= Cap

Listening == OpenIsCurrent /\ LoopBound /\ ServedListens
Serving == HeldByLoop /\ NotYetOpen
DataInv == DataTypeOK /\ Listening /\ Serving /\ Ending /\ StreamsBounded

Connection == [s : 0..MaxSessions,
               a : {"new", "held", "go", "splice", "over"},
               b : {"none", "arrived", "held", "go", "splice", "refused", "over"},
               done : SUBSET Copies,
               gone : SUBSET Hosts]

(* Forgetting a connection that is over leaves a connection. *)
LEMMA ConnectionTyped ==
  /\ Over \in Connection
  /\ \A c \in Connection : Tidy(c) \in Connection
  /\ \A h \in Hosts : CopiesOf(h) \subseteq Copies
<1>1. Over \in Connection
  BY DataAssumption DEF Over, Connection
<1>2. \A c \in Connection : Tidy(c) \in Connection
  BY <1>1 DEF Tidy
<1>3. QED
  BY <1>1, <1>2 DEF CopiesOf

(* When a splice returns both its copies have ended: only its own end changes. *)
LEMMA SpliceEndsItself ==
  ASSUME DataTypeOK, NEW k \in Clients, NEW h \in Hosts, spliceReturns(k, h)
  PROVE  \E v \in Connection :
           /\ conn' = [conn EXCEPT ![k] = Tidy(v)]
           /\ v.s = conn[k].s /\ v.done = conn[k].done /\ v.gone = conn[k].gone
           /\ v.a = (IF h = "a" THEN "over" ELSE conn[k].a)
           /\ v.b = (IF h = "b" THEN "over" ELSE conn[k].b)
<1> DEFINE ended == [conn[k] EXCEPT !.done = @ \cup CopiesOf(h)]
<1>1. conn[k] \in Connection
  BY DEF DataTypeOK, Connection
<1>2. CopiesOf(h) \subseteq conn[k].done /\ conn' = [conn EXCEPT ![k] = Tidy([ended EXCEPT ![h] = "over"])]
  BY DEF spliceReturns, Finished
<1>3. /\ ended \in Connection
      /\ ended.s = conn[k].s /\ ended.done = conn[k].done /\ ended.gone = conn[k].gone
      /\ ended.a = conn[k].a /\ ended.b = conn[k].b
  BY <1>1, <1>2 DEF Connection
<1> HIDE DEF ended
<1>4. CASE h = "a"
  <2>1. /\ [ended EXCEPT !["a"] = "over"] \in Connection
        /\ [ended EXCEPT !["a"] = "over"].s = ended.s
        /\ [ended EXCEPT !["a"] = "over"].done = ended.done
        /\ [ended EXCEPT !["a"] = "over"].gone = ended.gone
        /\ [ended EXCEPT !["a"] = "over"].a = "over"
        /\ [ended EXCEPT !["a"] = "over"].b = ended.b
    BY <1>3 DEF Connection
  <2>2. QED
    BY Zenon, <1>2, <1>3, <1>4, <2>1
<1>5. CASE h = "b"
  <2>1. /\ [ended EXCEPT !["b"] = "over"] \in Connection
        /\ [ended EXCEPT !["b"] = "over"].s = ended.s
        /\ [ended EXCEPT !["b"] = "over"].done = ended.done
        /\ [ended EXCEPT !["b"] = "over"].gone = ended.gone
        /\ [ended EXCEPT !["b"] = "over"].b = "over"
        /\ [ended EXCEPT !["b"] = "over"].a = ended.a
    BY <1>3 DEF Connection
  <2>2. QED
    BY Zenon, <1>2, <1>3, <1>5, <2>1
<1>6. QED
  BY <1>4, <1>5 DEF Hosts

(* A program that leaves ends both copies of its host. *)
LEMMA LeavesEndsBoth ==
  ASSUME DataTypeOK, NEW k \in Clients, NEW h \in Hosts, leaves(k, h)
  PROVE  \E v \in Connection :
           /\ conn' = [conn EXCEPT ![k] = v]
           /\ v.s = conn[k].s /\ v.a = conn[k].a /\ v.b = conn[k].b
           /\ v.done = conn[k].done \cup CopiesOf(h) /\ v.gone = conn[k].gone \cup {h}
<1> DEFINE v == [conn[k] EXCEPT !.done = @ \cup CopiesOf(h), !.gone = @ \cup {h}]
<1>1. conn \in [Clients -> Connection] /\ CopiesOf(h) \subseteq Copies
  BY ConnectionTyped DEF DataTypeOK, Connection
<1>2. conn' = [conn EXCEPT ![k] = v]
  BY Zenon, <1>1 DEF leaves
<1>3. /\ v \in Connection
      /\ v.s = conn[k].s /\ v.a = conn[k].a /\ v.b = conn[k].b
      /\ v.done = conn[k].done \cup CopiesOf(h) /\ v.gone = conn[k].gone \cup {h}
  BY ZenonT(30), <1>1 DEF Connection
<1> HIDE DEF v
<1>4. QED
  BY Zenon, <1>2, <1>3

(* The steps that touch the connections keep them well typed. *)
LEMMA DataTyped ==
  ASSUME DataInv, [DataNext]_dataVars
  PROVE  DataTypeOK'
<1> USE DEF DataTypeOK, Hosts, net, Sessions
<1>1. DataTypeOK /\ MaxSessions \in Nat \ {0}
  BY DataAssumption DEF DataInv
<1>2. /\ conn \in [Clients -> Connection]
      /\ conn' \in [Clients -> Connection] /\ UNCHANGED <<n, alive, kind, fwd, acceptor, net>>
           => DataTypeOK'
  BY Zenon, <1>1 DEF Connection
<1>3. ASSUME NEW k \in Clients, NEW v \in Connection, conn' = [conn EXCEPT ![k] = v]
      PROVE  conn' \in [Clients -> Connection]
  BY <1>2, <1>3
<1>4. CASE bind
  BY <1>1, <1>4 DEF bind, Assign
<1>5. CASE serveReturns
  BY Zenon, <1>1, <1>5 DEF serveReturns, CloseListener, Release, Idle
<1>6. CASE reconnect
  BY <1>1, <1>6 DEF reconnect
<1>7. ASSUME NEW s \in Sessions, closeOnDone(s) PROVE DataTypeOK'
  BY <1>1, <1>7 DEF closeOnDone, CloseListener
<1>8. ASSUME NEW h \in Hosts, acceptFails(h) PROVE DataTypeOK'
  BY <1>1, <1>8 DEF acceptFails, Idle
<1>9. ASSUME NEW h \in Hosts, acquire(h) PROVE DataTypeOK'
  <2>1. acceptor[h].conn \in Clients
    BY <1>9 DEF acquire, DataInv, Serving, HeldByLoop
  <2>2. QED
    BY <1>1, <1>9, <2>1 DEF acquire
<1>10. ASSUME NEW h \in Hosts, forwardCancels(h) \/ forwardReturns(h) PROVE DataTypeOK'
  BY ZenonT(30), <1>1, <1>10 DEF forwardCancels, forwardReturns
<1>11. ASSUME NEW k \in Clients, AcceptStream(k) \/ acceptLocal(k) PROVE DataTypeOK'
  BY <1>1, <1>11 DEF AcceptStream, acceptLocal
<1>12. ASSUME NEW k \in Clients, openStream(k) PROVE DataTypeOK'
  <2>1. [conn[k] EXCEPT !.a = "splice", !.b = "arrived"] \in Connection
    BY ZenonT(30), <1>2 DEF Connection
  <2>2. QED
    BY <1>2, <1>3, <1>12, <2>1, ConnectionTyped DEF openStream
<1>13. ASSUME NEW k \in Clients, dialLocal(k) PROVE DataTypeOK'
  <2>1. /\ [conn[k] EXCEPT !.b = "splice"] \in Connection
        /\ [conn[k] EXCEPT !.b = "refused", !.done = @ \cup CopiesOf("b")] \in Connection
    BY ZenonT(30), <1>2, ConnectionTyped DEF Connection
  <2>2. Tidy([conn[k] EXCEPT !.b = "refused", !.done = @ \cup CopiesOf("b")]) \in Connection
    BY <2>1, ConnectionTyped
  <2>3. \/ conn' = [conn EXCEPT ![k] = [conn[k] EXCEPT !.b = "splice"]]
        \/ conn' = [conn EXCEPT ![k] = Tidy([conn[k] EXCEPT !.b = "refused", !.done = @ \cup CopiesOf("b")])]
    <3>1. CASE conn' = [conn EXCEPT ![k].b = "splice"]
      BY <1>2, <3>1
    <3>2. CASE conn' = [conn EXCEPT ![k] = Tidy([conn[k] EXCEPT !.b = "refused",
                                                                !.done = @ \cup CopiesOf("b")])]
      BY <1>2, <3>2
    <3>3. QED
      BY <1>13, <3>1, <3>2 DEF dialLocal
  <2>4. QED
    BY <1>2, <1>3, <1>13, <2>1, <2>2, <2>3 DEF dialLocal
<1>14. ASSUME NEW k \in Clients, NEW c \in Copies, copyEnds(k, c) PROVE DataTypeOK'
  BY <1>1, <1>14 DEF copyEnds
<1>15. ASSUME NEW k \in Clients, NEW h \in Hosts, spliceReturns(k, h) PROVE DataTypeOK'
  <2>1. PICK v \in Connection : conn' = [conn EXCEPT ![k] = Tidy(v)]
    BY <1>1, <1>15, SpliceEndsItself
  <2>2. UNCHANGED <<n, alive, kind, fwd, acceptor, net>>
    BY <1>15 DEF spliceReturns
  <2>3. QED
    BY <1>2, <1>3, <2>1, <2>2, ConnectionTyped
<1>16. CASE sessionEnds \/ UNCHANGED dataVars
  BY Zenon, <1>1, <1>16 DEF sessionEnds, dataVars
<1>17. CASE Kill
  <2>1. \A k \in Clients : Tidy([conn[k] EXCEPT !.a = "over"]) \in Connection
    <3>1. \A k \in Clients : [conn[k] EXCEPT !.a = "over"] \in Connection
      BY <1>2 DEF Connection
    <3>2. QED
      BY <3>1, ConnectionTyped
  <2>2. conn' \in [Clients -> Connection]
    BY <1>2, <1>17, <2>1 DEF Kill
  <2>3. QED
    BY Zenon, <1>1, <1>17, <2>2 DEF Kill, ReconcileStale, Idle, Connection
<1>18. ASSUME NEW k \in Clients, NEW h \in Hosts, leaves(k, h) PROVE DataTypeOK'
  <2>1. PICK v \in Connection : conn' = [conn EXCEPT ![k] = v]
    BY <1>1, <1>18, LeavesEndsBoth
  <2>2. UNCHANGED <<n, alive, kind, fwd, acceptor, net>>
    BY <1>18 DEF leaves
  <2>3. QED
    BY <1>2, <1>3, <2>1, <2>2
<1>19. QED
  BY Zenon, <1>4, <1>5, <1>6, <1>7, <1>8, <1>9, <1>10, <1>11, <1>12, <1>13, <1>14, <1>15, <1>16, <1>17, <1>18
     DEF DataNext, Runs, ClientEnds, ServiceEnds, Copies

(* Every step keeps the listener invariant. *)
LEMMA ListeningKept ==
  ASSUME DataInv, [DataNext]_dataVars
  PROVE  Listening'
<1> USE DEF Listening, OpenIsCurrent, LoopBound, ServedListens, net
<1>1. /\ Listening /\ n \in Int /\ "a" \in Hosts /\ "b" \in Hosts
      /\ acceptor \in [Hosts -> [pc : {"none", "bind", "accept", "sem", "return"},
                                 conn : Clients \cup {Nil}]]
      /\ fwd \in [Hosts -> {"off", "serving", "waiting"}]
      /\ listeners \subseteq Sessions /\ closers \subseteq Sessions /\ Sessions \subseteq Int
  BY DataAssumption DEF DataInv, DataTypeOK, Sessions, Hosts
<1>2. CASE bind
  <2>1. listeners = {} /\ acceptor["a"].pc = "bind" /\ (kind = "vip" => lo')
    BY Zenon, <1>1, <1>2 DEF bind, Assign
  <2>2. CASE kind # "denied"
    <3>1. /\ listeners' = listeners \cup {n} /\ path' = n /\ closers' = closers \cup {n}
          /\ acceptor' = [acceptor EXCEPT !["a"].pc = "accept"]
          /\ UNCHANGED <<n, kind, fwd>>
      BY <1>2, <2>1, <2>2 DEF bind
    <3>2. QED
      BY <1>1, <2>1, <3>1 DEF Hosts
  <2>3. CASE kind = "denied"
    <3>1. /\ UNCHANGED <<n, kind, fwd, listeners, path, closers>>
          /\ acceptor' = [acceptor EXCEPT !["a"].pc = "return"]
      BY <1>2, <2>3 DEF bind
    <3>2. QED
      BY <1>1, <2>1, <2>3, <3>1 DEF Hosts
  <2>4. QED
    BY <2>2, <2>3
<1>3. CASE serveReturns
  BY <1>1, <1>3 DEF serveReturns, CloseListener, Release, Idle, Hosts
<1>4. CASE reconnect
  BY <1>1, <1>4 DEF reconnect, Hosts
<1>5. ASSUME NEW s \in Sessions, closeOnDone(s) PROVE Listening'
  BY <1>1, <1>5 DEF closeOnDone, CloseListener, Cancelled
<1>6. ASSUME NEW h \in Hosts, acceptFails(h) PROVE Listening'
  BY <1>1, <1>6 DEF acceptFails, Idle, Hosts
<1>7. ASSUME NEW h \in Hosts, acquire(h) PROVE Listening'
  BY <1>1, <1>7 DEF acquire, Hosts
<1>8. ASSUME NEW h \in Hosts, forwardCancels(h) PROVE Listening'
  BY <1>1, <1>8 DEF forwardCancels, Hosts
<1>9. ASSUME NEW h \in Hosts, forwardReturns(h) PROVE Listening'
  BY <1>1, <1>9 DEF forwardReturns, Waited, Hosts
<1>10. ASSUME NEW k \in Clients, AcceptStream(k) \/ acceptLocal(k) PROVE Listening'
  BY <1>1, <1>10 DEF AcceptStream, acceptLocal, Hosts
<1>11. ASSUME NEW k \in Clients, NEW c \in Copies, NEW h \in Hosts,
              openStream(k) \/ dialLocal(k) \/ copyEnds(k, c) \/ leaves(k, h) \/ spliceReturns(k, h)
       PROVE  Listening'
  BY <1>1, <1>11 DEF openStream, dialLocal, copyEnds, leaves, spliceReturns
<1>12. CASE sessionEnds \/ UNCHANGED dataVars
  BY ZenonT(30), <1>1, <1>12 DEF sessionEnds, dataVars
<1>13. CASE Kill
  BY <1>1, <1>13 DEF Kill, Idle, Hosts
<1>14. QED
  <2>1. "aUp" \in Copies /\ "bUp" \in Copies /\ "aDown" \in Copies /\ "bDown" \in Copies
    BY DEF Copies
  <2>2. QED
    BY ZenonT(30), <1>1, <1>2, <1>3, <1>4, <1>5, <1>6, <1>7, <1>8, <1>9, <1>10, <1>11, <1>12, <1>13, <2>1
       DEF DataNext, Runs, ClientEnds, ServiceEnds

(* Every step keeps what ties the connections to the loops. *)
LEMMA ServingKept ==
  ASSUME DataInv, [DataNext]_dataVars
  PROVE  Serving'
<1> USE DEF Serving, HeldByLoop, NotYetOpen, net
<1>1. /\ Serving /\ conn \in [Clients -> Connection] /\ "a" \in Hosts /\ "b" \in Hosts
      /\ acceptor \in [Hosts -> [pc : {"none", "bind", "accept", "sem", "return"},
                                 conn : Clients \cup {Nil}]]
      /\ n \in Int
  BY DataAssumption DEF DataInv, DataTypeOK, Sessions, Connection, Hosts
<1>2. /\ Over.a = "over"
      /\ \A c \in Connection :
           Tidy(c) = c \/ (Tidy(c) = Over /\ c.a = "over" /\ c.b \in {"none", "arrived", "refused", "over"})
  BY DEF Over, Tidy
<1>3. ASSUME NEW k \in Clients, NEW v \in Connection, conn' = [conn EXCEPT ![k] = Tidy(v)],
              UNCHANGED <<n, acceptor>>, v.s = conn[k].s,
              v.a = conn[k].a \/ (v.a = "over" /\ conn[k].a # "held"),
              v.b = conn[k].b \/ (v.b \in {"refused", "over"} /\ conn[k].b \notin {"held", "none"})
       PROVE  Serving'
  BY <1>1, <1>2, <1>3 DEF Hosts, Connection
<1>4. CASE bind \/ serveReturns
  BY <1>1, <1>4 DEF bind, serveReturns, Idle, Hosts
<1>5. CASE reconnect
  BY <1>1, <1>5 DEF reconnect, Hosts
<1>6. ASSUME NEW s \in Sessions, closeOnDone(s) PROVE Serving'
  BY <1>1, <1>6 DEF closeOnDone
<1>7. ASSUME NEW h \in Hosts, acceptFails(h) PROVE Serving'
  BY <1>1, <1>7 DEF acceptFails, Idle, Hosts
<1>8. ASSUME NEW h \in Hosts, acquire(h) PROVE Serving'
  BY <1>1, <1>8 DEF acquire, Hosts, Connection
<1>9. ASSUME NEW h \in Hosts, forwardCancels(h) \/ forwardReturns(h) PROVE Serving'
  BY <1>1, <1>9 DEF forwardCancels, forwardReturns
<1>10. ASSUME NEW k \in Clients, AcceptStream(k) PROVE Serving'
  BY <1>1, <1>10 DEF AcceptStream, Hosts, Connection
<1>11. ASSUME NEW k \in Clients, acceptLocal(k) PROVE Serving'
  BY <1>1, <1>11 DEF acceptLocal, Hosts, Connection
<1>12. ASSUME NEW k \in Clients, openStream(k) PROVE Serving'
  BY <1>1, <1>2, <1>12 DEF openStream, Hosts, Connection
<1>13. ASSUME NEW k \in Clients, dialLocal(k) PROVE Serving'
  <2> DEFINE v == [conn[k] EXCEPT !.b = "refused", !.done = @ \cup CopiesOf("b")]
  <2>1. CASE conn' = [conn EXCEPT ![k].b = "splice"]
    BY <1>1, <1>13, <2>1 DEF dialLocal, Hosts, Connection
  <2>2. CASE conn' = [conn EXCEPT ![k] = Tidy(v)]
    <3>1. /\ v \in Connection
          /\ v.s = conn[k].s /\ v.a = conn[k].a /\ v.b = "refused"
      <4>1. conn[k] \in Connection /\ CopiesOf("b") \subseteq Copies
        BY <1>1, ConnectionTyped
      <4>2. QED
        BY Zenon, <4>1 DEF Connection
    <3> HIDE DEF v
    <3>2. QED
      BY Zenon, <1>3, <1>13, <2>2, <3>1 DEF dialLocal
  <2>3. QED
    BY <1>13, <2>1, <2>2 DEF dialLocal
<1>14. ASSUME NEW k \in Clients, NEW c \in Copies, copyEnds(k, c) PROVE Serving'
  BY <1>1, <1>14 DEF copyEnds, Hosts, Connection
<1>15. ASSUME NEW k \in Clients, NEW h \in Hosts, spliceReturns(k, h) PROVE Serving'
  <2>1. PICK v \in Connection :
          /\ conn' = [conn EXCEPT ![k] = Tidy(v)]
          /\ v.s = conn[k].s
          /\ v.a = (IF h = "a" THEN "over" ELSE conn[k].a)
          /\ v.b = (IF h = "b" THEN "over" ELSE conn[k].b)
    BY <1>15, SpliceEndsItself DEF DataInv
  <2>2. conn[k][h] = "splice" /\ UNCHANGED <<n, acceptor>>
    BY <1>1, <1>15, <2>1 DEF spliceReturns
  <2>3. QED
    BY ZenonT(30), <1>3, <2>1, <2>2 DEF Hosts
<1>16. CASE sessionEnds \/ UNCHANGED dataVars
  BY <1>1, <1>16 DEF sessionEnds, dataVars
<1>17. CASE Kill
  BY <1>1, <1>2, <1>17 DEF Kill, Idle, Hosts, Connection
<1>18. ASSUME NEW k \in Clients, NEW h \in Hosts, leaves(k, h) PROVE Serving'
  <2>1. PICK v \in Connection :
          /\ conn' = [conn EXCEPT ![k] = v]
          /\ v.s = conn[k].s /\ v.a = conn[k].a /\ v.b = conn[k].b
    BY <1>18, LeavesEndsBoth DEF DataInv
  <2>2. QED
    BY <1>1, <1>18, <2>1 DEF leaves, Hosts
<1>19. QED
  <2>1. "aUp" \in Copies /\ "bUp" \in Copies /\ "aDown" \in Copies /\ "bDown" \in Copies
    BY DEF Copies
  <2>2. QED
    BY Zenon, <1>1, <1>4, <1>5, <1>6, <1>7, <1>8, <1>9, <1>10, <1>11, <1>12, <1>13, <1>14, <1>15, <1>16,
       <1>17, <1>18, <2>1 DEF DataNext, Runs, ClientEnds, ServiceEnds

(* Every step keeps the order in which the copies of a connection end. *)
LEMMA EndingKept ==
  ASSUME DataInv, [DataNext]_dataVars
  PROVE  Ending'
<1>1. /\ conn \in [Clients -> Connection] /\ NotYetOpen
      /\ \A k \in Clients : conn[k].s <= n
      /\ \A k \in Clients : conn[k].a \in {"new", "held", "go"} => conn[k].done = {}
      /\ NothingCut
      /\ n \in Nat \ {0} /\ \A k \in Clients : conn[k].s \in Nat
  BY DataAssumption DEF DataInv, DataTypeOK, Sessions, Connection, Serving, Ending
<1>2. CASE UNCHANGED <<conn, n>> /\ alive' \in {alive, FALSE}
  <2>1. \A s : Dead(s) => Dead(s)'
    BY ZenonT(30), <1>2 DEF Dead
  <2>2. QED
    BY <1>1, <1>2, <2>1 DEF Ending, NothingCut
<1>3. /\ Over.s = 0 /\ Over.a = "over" /\ \A c \in Connection : Tidy(c) \in {c, Over}
  BY DEF Over, Tidy
<1> DEFINE InOrder(v) ==
      /\ "aDown" \in v.done => "bDown" \in v.done \/ "a" \in v.gone
      /\ "bUp" \in v.done => "aUp" \in v.done \/ "b" \in v.gone \/ v.b = "refused"
<1>4. \A k \in Clients : ~Dead(conn[k].s) => InOrder(conn[k])
  BY <1>1 DEF NothingCut
<1>5. ASSUME NEW k \in Clients, NEW v \in Connection, UNCHANGED <<n, alive>>,
             conn' = [conn EXCEPT ![k] = v] \/ conn' = [conn EXCEPT ![k] = Tidy(v)],
             v.s <= n, v.a \in {"new", "held", "go"} => v.done = {},
             ~Dead(v.s) => InOrder(v)
      PROVE  Ending'
  <2>1. \A j \in Clients \ {k} : conn'[j] = conn[j]
    BY <1>1, <1>5
  <2>2. conn'[k] = v \/ conn'[k] = Over
    BY <1>1, <1>3, <1>5
  <2>3. /\ conn'[k].s <= n
        /\ conn'[k].a \in {"new", "held", "go"} => conn'[k].done = {}
        /\ ~Dead(conn'[k].s) => InOrder(conn'[k])
    BY <1>1, <1>3, <1>5, <2>2 DEF Dead
  <2>4. \A s : Dead(s)' <=> Dead(s)
    BY <1>5 DEF Dead
  <2>5. QED
    BY <1>1, <1>4, <1>5, <2>1, <2>3, <2>4 DEF Ending, NothingCut, Dead
<1>6. ASSUME NEW h \in Hosts, acquire(h) PROVE Ending'
  <2> DEFINE k == acceptor[h].conn
             v == [conn[k] EXCEPT ![h] = "go"]
  <2>1. /\ k \in Clients /\ conn[k][h] = "held" /\ UNCHANGED <<n, alive>>
        /\ conn' = [conn EXCEPT ![k][h] = "go"]
    BY <1>6 DEF acquire, DataInv, Serving, HeldByLoop
  <2> HIDE DEF k
  <2>2. conn' = [conn EXCEPT ![k] = v]
    BY <1>1, <2>1
  <2>3. CASE h = "a"
    <3>1. /\ v \in Connection /\ v.s = conn[k].s /\ v.done = conn[k].done
          /\ v.gone = conn[k].gone /\ v.b = conn[k].b /\ v.a = "go" /\ conn[k].a = "held"
      BY <1>1, <2>1, <2>3 DEF Connection
    <3> HIDE DEF v
    <3>2. v.s <= n /\ (v.a \in {"new", "held", "go"} => v.done = {})
      BY <1>1, <2>1, <3>1
    <3>3. ~Dead(v.s) => InOrder(v)
      BY <1>4, <2>1, <3>1
    <3>4. QED
      BY Zenon, <1>5, <2>1, <2>2, <3>1, <3>2, <3>3
  <2>4. CASE h = "b"
    <3>1. /\ v \in Connection /\ v.s = conn[k].s /\ v.done = conn[k].done
          /\ v.gone = conn[k].gone /\ v.a = conn[k].a /\ conn[k].b = "held"
      BY <1>1, <2>1, <2>4 DEF Connection
    <3> HIDE DEF v
    <3>2. v.s <= n /\ (v.a \in {"new", "held", "go"} => v.done = {})
      BY <1>1, <2>1, <3>1
    <3>3. ~Dead(v.s) => InOrder(v)
      BY <1>4, <2>1, <3>1
    <3>4. QED
      BY ZenonT(30), <1>5, <2>1, <2>2, <3>1, <3>2, <3>3
  <2>5. QED
    BY <2>3, <2>4 DEF Hosts
<1>7. ASSUME NEW k \in Clients, AcceptStream(k) PROVE Ending'
  <2> DEFINE v == [conn[k] EXCEPT !.b = "held"]
  <2>1. conn' = [conn EXCEPT ![k] = v] /\ conn[k].b = "arrived" /\ UNCHANGED <<n, alive>>
    BY <1>1, <1>7 DEF AcceptStream
  <2>2. /\ v \in Connection /\ v.s = conn[k].s /\ v.done = conn[k].done
        /\ v.gone = conn[k].gone /\ v.a = conn[k].a
    BY <1>1 DEF Connection
  <2> HIDE DEF v
  <2>3. QED
    BY ZenonT(30), <1>1, <1>4, <1>5, <2>1, <2>2
<1>8. ASSUME NEW k \in Clients, acceptLocal(k) PROVE Ending'
  <2> DEFINE v == [conn[k] EXCEPT !.s = n, !.a = "held"]
  <2>1. conn' = [conn EXCEPT ![k] = v] /\ conn[k].a = "new" /\ UNCHANGED <<n, alive>>
    BY Zenon, <1>1, <1>8 DEF acceptLocal
  <2>2. n \in 0 .. MaxSessions
    BY DataAssumption DEF DataInv, DataTypeOK, Sessions
  <2>3. v \in Connection /\ v.s = n /\ v.done = conn[k].done
    BY ZenonT(30), <1>1, <2>2 DEF Connection
  <2> HIDE DEF v
  <2>4. v.done = {} /\ v.s <= n
    BY <1>1, <2>1, <2>3
  <2>5. QED
    BY Zenon, <1>5, <2>1, <2>3, <2>4
<1>9. ASSUME NEW k \in Clients, openStream(k) PROVE Ending'
  <2> DEFINE v == [conn[k] EXCEPT !.a = "splice", !.b = "arrived"]
  <2>1. conn[k].a = "go" /\ UNCHANGED <<n, alive>>
        /\ (conn' = [conn EXCEPT ![k] = Over] \/ conn' = [conn EXCEPT ![k] = v])
    BY Zenon, <1>9 DEF openStream
  <2>2. v \in Connection /\ v.s = conn[k].s /\ v.done = conn[k].done
    BY ZenonT(30), <1>1 DEF Connection
  <2> HIDE DEF v
  <2>3. Over \in Connection /\ Over.done = {}
    BY ConnectionTyped DEF Over
  <2>4. QED
    BY <1>1, <1>3, <1>5, <2>1, <2>2, <2>3
<1>10. ASSUME NEW k \in Clients, dialLocal(k) PROVE Ending'
  <2> DEFINE v == [conn[k] EXCEPT !.b = "refused", !.done = @ \cup CopiesOf("b")]
             w == [conn[k] EXCEPT !.b = "splice"]
  <2>1. /\ conn[k].b = "go" /\ UNCHANGED <<n, alive>> /\ conn[k] \in Connection
        /\ CopiesOf("b") \subseteq Copies /\ "bDown" \in CopiesOf("b")
        /\ conn[k].a \notin {"new", "held", "go"}
    BY <1>1, <1>10, ConnectionTyped DEF dialLocal, CopiesOf, Copies, Host, NotYetOpen, Hosts
  <2>2. conn' = [conn EXCEPT ![k] = w] \/ conn' = [conn EXCEPT ![k] = Tidy(v)]
    BY <1>1, <1>10 DEF dialLocal
  <2>3. /\ v \in Connection /\ v.s = conn[k].s /\ v.a = conn[k].a /\ v.b = "refused"
        /\ "bDown" \in v.done
    BY Zenon, <2>1 DEF Connection
  <2>4. /\ w \in Connection /\ w.s = conn[k].s /\ w.a = conn[k].a
        /\ w.done = conn[k].done /\ w.gone = conn[k].gone
    BY <2>1 DEF Connection
  <2> HIDE DEF v, w
  <2>5. QED
    BY <1>1, <1>4, <1>5, <2>1, <2>2, <2>3, <2>4
<1>11. ASSUME NEW k \in Clients, NEW c \in Copies, copyEnds(k, c) PROVE Ending'
  <2> DEFINE v == [conn[k] EXCEPT !.done = @ \cup {c}]
  <2>1. conn' = [conn EXCEPT ![k] = v] /\ UNCHANGED <<n, alive>>
    BY <1>1, <1>11 DEF copyEnds
  <2>2. /\ v \in Connection /\ v.s = conn[k].s /\ v.a = conn[k].a /\ v.b = conn[k].b
        /\ v.done = conn[k].done \cup {c} /\ v.gone = conn[k].gone
    BY <1>1, <1>11 DEF Connection
  <2>3. conn[k].a \notin {"new", "held", "go"}
    BY <1>1, <1>11 DEF copyEnds, Host, NotYetOpen
  <2>4. ~Dead(conn[k].s) => /\ c = "aDown" => "bDown" \in conn[k].done
                            /\ c = "bUp" => "aUp" \in conn[k].done
    BY <1>11 DEF copyEnds, Feeder
  <2> HIDE DEF v
  <2>5. ASSUME ~Dead(v.s) PROVE InOrder(v)
    <3>1. InOrder(conn[k]) /\ ~Dead(conn[k].s)
      BY <1>4, <2>2, <2>5
    <3>2. QED
      BY <2>2, <2>4, <3>1
  <2>6. QED
    BY Zenon, <1>1, <1>5, <2>1, <2>2, <2>3, <2>5
<1>12. ASSUME NEW k \in Clients, NEW h \in Hosts, spliceReturns(k, h) PROVE Ending'
  <2>1. PICK v \in Connection :
          /\ conn' = [conn EXCEPT ![k] = Tidy(v)]
          /\ v.s = conn[k].s /\ v.done = conn[k].done /\ v.gone = conn[k].gone
          /\ v.a = (IF h = "a" THEN "over" ELSE conn[k].a)
          /\ v.b = (IF h = "b" THEN "over" ELSE conn[k].b)
    BY Zenon, <1>12, SpliceEndsItself DEF DataInv
  <2>2. conn[k][h] = "splice" /\ UNCHANGED <<n, alive>>
    BY <1>12 DEF spliceReturns
  <2>3. QED
    BY ZenonT(30), <1>1, <1>4, <1>5, <2>1, <2>2 DEF Hosts
<1>13. ASSUME NEW k \in Clients, NEW h \in Hosts, leaves(k, h) PROVE Ending'
  <2>1. PICK v \in Connection :
          /\ conn' = [conn EXCEPT ![k] = v]
          /\ v.s = conn[k].s /\ v.a = conn[k].a /\ v.b = conn[k].b
          /\ v.done = conn[k].done \cup CopiesOf(h) /\ v.gone = conn[k].gone \cup {h}
    BY <1>13, LeavesEndsBoth DEF DataInv
  <2>2. conn[k][h] = "splice" /\ UNCHANGED <<n, alive>>
    BY <1>13 DEF leaves
  <2>3. /\ "aDown" \in CopiesOf(h) => h = "a"
        /\ "bUp" \in CopiesOf(h) => h = "b"
    BY DEF CopiesOf, Host
  <2>4. v.a \notin {"new", "held", "go"}
    BY <1>1, <2>1, <2>2 DEF NotYetOpen, Hosts
  <2>5. QED
    BY ZenonT(30), <1>1, <1>4, <1>5, <2>1, <2>2, <2>3, <2>4
<1>14. CASE reconnect
  <2>1. conn' = conn /\ n' = n + 1
    BY <1>14 DEF reconnect
  <2>2. \A k \in Clients : conn[k].s <= n' /\ conn[k].s # n'
    BY <1>1, <2>1
  <2>3. QED
    BY <1>1, <2>1, <2>2 DEF Ending, NothingCut, Dead
<1>15. CASE Kill
  <2>1. n' = n /\ alive' = FALSE
    BY <1>15 DEF Kill
  <2>2. ASSUME NEW k \in Clients
        PROVE  conn'[k].s <= n /\ (conn'[k].a \in {"new", "held", "go"} => conn'[k].done = {})
    <3> DEFINE v == [conn[k] EXCEPT !.a = "over"]
    <3>1. v \in Connection /\ v.a = "over" /\ v.s = conn[k].s
      BY <1>1 DEF Connection
    <3>2. conn'[k] = conn[k] \/ conn'[k] = Tidy(v)
      BY <1>15 DEF Kill
    <3> HIDE DEF v
    <3>3. QED
      BY <1>1, <1>3, <3>1, <3>2
  <2>3. QED
    BY <2>1, <2>2 DEF Ending, NothingCut, Dead
<1>16. QED
  <2>1. "aUp" \in Copies /\ "bUp" \in Copies /\ "aDown" \in Copies /\ "bDown" \in Copies
    BY DEF Copies
  <2>2. CASE UNCHANGED dataVars \/ bind \/ serveReturns \/ sessionEnds
    BY Zenon, <1>2, <2>2 DEF dataVars, bind, serveReturns, sessionEnds
  <2>3. ASSUME NEW s \in Sessions, closeOnDone(s) PROVE Ending'
    BY <1>2, <2>3 DEF closeOnDone
  <2>4. ASSUME NEW h \in Hosts, acceptFails(h) \/ forwardCancels(h) \/ forwardReturns(h)
        PROVE  Ending'
    BY ZenonT(30), <1>2, <2>4 DEF acceptFails, forwardCancels, forwardReturns
  <2>5. QED
    BY <1>6, <1>7, <1>8, <1>9, <1>10, <1>11, <1>12, <1>13, <1>14, <1>15, <2>1, <2>2, <2>3, <2>4
       DEF DataNext, Runs, ClientEnds, ServiceEnds

(* Goroutines that hold a slot stay as many as the semaphore admits. *)
LEMMA BoundedKept ==
  ASSUME DataInv, [DataNext]_dataVars
  PROVE  StreamsBounded'
<1>1. /\ StreamsBounded /\ conn \in [Clients -> Connection] /\ Cap \in Nat
      /\ MaxSessions \in Nat /\ 0 \notin Sessions /\ n \in Sessions
  BY DataAssumption DEF DataInv, DataTypeOK, Connection, Sessions
<1>2. ASSUME \A h \in Hosts, s \in Sessions : SlotHolders(h, s)' \subseteq SlotHolders(h, s)
      PROVE  StreamsBounded'
  <2> SUFFICES ASSUME NEW h \in Hosts, NEW s \in Sessions
               PROVE  IsFiniteSet(SlotHolders(h, s)') /\ Cardinality(SlotHolders(h, s)') <= Cap
    BY DEF StreamsBounded
  <2>1. IsFiniteSet(SlotHolders(h, s)) /\ Cardinality(SlotHolders(h, s)) <= Cap
    BY <1>1 DEF StreamsBounded
  <2>2. /\ IsFiniteSet(SlotHolders(h, s)')
        /\ Cardinality(SlotHolders(h, s)') <= Cardinality(SlotHolders(h, s))
    BY <1>2, <2>1, FS_Subset
  <2>3. Cardinality(SlotHolders(h, s)') \in Nat /\ Cardinality(SlotHolders(h, s)) \in Nat
    BY <2>1, <2>2, FS_CardinalityType
  <2>4. QED
    BY <1>1, <2>1, <2>2, <2>3
<1>3. CASE UNCHANGED conn
  BY <1>2, <1>3 DEF SlotHolders
<1>4. /\ Over.s = 0 /\ Over.a = "over" /\ Over.b = "over"
      /\ \A c \in Connection :
           Tidy(c) = c \/ (Tidy(c) = Over /\ c.a = "over" /\ c.b \in {"none", "arrived", "refused", "over"})
  BY DEF Over, Tidy
<1>5. ASSUME NEW k \in Clients, NEW v \in Connection,
             conn' = [conn EXCEPT ![k] = v] \/ conn' = [conn EXCEPT ![k] = Tidy(v)],
             v.s = conn[k].s \/ v.a = "held",
             v.a \in {"go", "splice"} => conn[k].a \in {"go", "splice"},
             v.b \in {"go", "splice"} => conn[k].b \in {"go", "splice"} /\ v.s = conn[k].s
      PROVE  StreamsBounded'
  <2>1. \A j \in Clients \ {k} : conn'[j] = conn[j]
    BY <1>1, <1>5
  <2>2. /\ conn'[k].a \in {"go", "splice"} => conn[k].a \in {"go", "splice"} /\ conn'[k].s = conn[k].s
        /\ conn'[k].b \in {"go", "splice"} => conn[k].b \in {"go", "splice"} /\ conn'[k].s = conn[k].s
    BY <1>1, <1>4, <1>5
  <2>3. QED
    BY <1>2, <2>1, <2>2 DEF SlotHolders, Hosts
<1>6. ASSUME NEW h \in Hosts, acquire(h) PROVE StreamsBounded'
  <2> DEFINE k == acceptor[h].conn
  <2>1. /\ k \in Clients /\ conn[k].s = n /\ conn[k][h] = "held"
        /\ conn' = [conn EXCEPT ![k][h] = "go"] /\ n' = n
        /\ Cardinality(SlotHolders(h, n)) < Cap
    BY <1>6 DEF acquire, DataInv, Serving, HeldByLoop
  <2> HIDE DEF k
  <2>2. /\ conn'[k].s = n /\ conn'[k][h] = "go"
        /\ \A g \in Hosts \ {h} : conn'[k][g] = conn[k][g]
        /\ \A j \in Clients \ {k} : conn'[j] = conn[j]
    BY <1>1, <2>1 DEF Connection, Hosts
  <2>3. SlotHolders(h, n)' = SlotHolders(h, n) \cup {k}
    BY <2>1, <2>2 DEF SlotHolders
  <2>4. \A g \in Hosts, s \in Sessions : g # h \/ s # n => SlotHolders(g, s)' \subseteq SlotHolders(g, s)
    BY <2>1, <2>2 DEF SlotHolders
  <2>5. ASSUME NEW g \in Hosts, NEW s \in Sessions
        PROVE  IsFiniteSet(SlotHolders(g, s)') /\ Cardinality(SlotHolders(g, s)') <= Cap
    <3>1. /\ IsFiniteSet(SlotHolders(g, s)) /\ Cardinality(SlotHolders(g, s)) <= Cap
          /\ Cardinality(SlotHolders(g, s)) \in Nat
      BY <1>1, FS_CardinalityType DEF StreamsBounded
    <3>2. CASE g = h /\ s = n
      <4>1. SlotHolders(g, s)' = SlotHolders(g, s) \cup {k}
        BY <2>1, <2>3, <3>2 DEF SlotHolders
      <4>2. QED
        <5>1. k \notin SlotHolders(g, s)
          BY <2>1, <3>2 DEF SlotHolders
        <5>2. /\ IsFiniteSet(SlotHolders(g, s) \cup {k})
              /\ Cardinality(SlotHolders(g, s) \cup {k}) = Cardinality(SlotHolders(g, s)) + 1
          BY <3>1, <5>1, FS_AddElement
        <5>3. QED
          BY <1>1, <2>1, <3>1, <3>2, <4>1, <5>2
    <3>3. CASE g # h \/ s # n
      <4>1. /\ IsFiniteSet(SlotHolders(g, s)')
            /\ Cardinality(SlotHolders(g, s)') <= Cardinality(SlotHolders(g, s))
        BY <2>4, <3>1, <3>3, FS_Subset
      <4>2. Cardinality(SlotHolders(g, s)') \in Nat
        BY <4>1, FS_CardinalityType
      <4>3. QED
        BY <1>1, <3>1, <4>1, <4>2
    <3>4. QED
      BY <3>2, <3>3
  <2>6. QED
    BY <2>5 DEF StreamsBounded
<1>7. ASSUME NEW k \in Clients, AcceptStream(k) PROVE StreamsBounded'
  <2> DEFINE v == [conn[k] EXCEPT !.b = "held"]
  <2>1. conn' = [conn EXCEPT ![k] = v]
    BY <1>1, <1>7 DEF AcceptStream
  <2>2. v \in Connection /\ v.s = conn[k].s /\ v.a = conn[k].a /\ v.b = "held"
    BY <1>1 DEF Connection
  <2> HIDE DEF v
  <2>3. QED
    BY Zenon, <1>5, <2>1, <2>2
<1>8. ASSUME NEW k \in Clients, acceptLocal(k) PROVE StreamsBounded'
  <2>1. conn[k].b = "none" /\ conn' = [conn EXCEPT ![k] = [conn[k] EXCEPT !.s = n, !.a = "held"]]
    BY Zenon, <1>1, <1>8 DEF acceptLocal, DataInv, Serving, NotYetOpen
  <2>2. n \in 0 .. MaxSessions
    BY <1>1 DEF Sessions
  <2>3. QED
    BY ZenonT(30), <1>1, <1>5, <2>1, <2>2 DEF Connection
<1>9. ASSUME NEW k \in Clients, openStream(k) PROVE StreamsBounded'
  <2> DEFINE v == [conn[k] EXCEPT !.a = "splice", !.b = "arrived"]
  <2>1. CASE conn' = [conn EXCEPT ![k] = Over]
    <3>1. \A j \in Clients \ {k} : conn'[j] = conn[j]
      BY <1>1, <2>1
    <3>2. conn'[k].s = 0
      BY <1>1, <1>4, <2>1
    <3>3. QED
      BY <1>1, <1>2, <3>1, <3>2 DEF SlotHolders
  <2>2. CASE conn' = [conn EXCEPT ![k] = v]
    <3>1. v \in Connection /\ v.s = conn[k].s /\ v.a = "splice" /\ v.b = "arrived"
      BY ZenonT(30), <1>1 DEF Connection
    <3>2. conn[k].a = "go"
      BY <1>9 DEF openStream
    <3> HIDE DEF v
    <3>3. QED
      BY Zenon, <1>5, <2>2, <3>1, <3>2
  <2>3. QED
    BY ZenonT(30), <1>9, <2>1, <2>2 DEF openStream
<1>10. ASSUME NEW k \in Clients, dialLocal(k) PROVE StreamsBounded'
  <2> DEFINE v == [conn[k] EXCEPT !.b = "refused", !.done = @ \cup CopiesOf("b")]
  <2>1. CASE conn' = [conn EXCEPT ![k].b = "splice"]
    <3> DEFINE w == [conn[k] EXCEPT !.b = "splice"]
    <3>1. conn' = [conn EXCEPT ![k] = w]
      BY <1>1, <2>1
    <3>2. w \in Connection /\ w.s = conn[k].s /\ w.a = conn[k].a /\ w.b = "splice"
      BY <1>1 DEF Connection
    <3>3. conn[k].b = "go"
      BY <1>10 DEF dialLocal
    <3> HIDE DEF w
    <3>4. QED
      BY Zenon, <1>5, <3>1, <3>2, <3>3
  <2>2. CASE conn' = [conn EXCEPT ![k] = Tidy(v)]
    <3>1. v \in Connection /\ v.s = conn[k].s /\ v.a = conn[k].a /\ v.b = "refused"
      <4>1. conn[k] \in Connection /\ CopiesOf("b") \subseteq Copies
        BY <1>1, ConnectionTyped DEF Hosts
      <4>2. QED
        BY Zenon, <4>1 DEF Connection
    <3> HIDE DEF v
    <3>2. QED
      BY Zenon, <1>5, <2>2, <3>1
  <2>3. QED
    BY <1>10, <2>1, <2>2 DEF dialLocal
<1>11. ASSUME NEW k \in Clients, NEW c \in Copies, copyEnds(k, c) PROVE StreamsBounded'
  <2> DEFINE v == [conn[k] EXCEPT !.done = @ \cup {c}]
  <2>1. conn' = [conn EXCEPT ![k] = v]
    BY <1>1, <1>11 DEF copyEnds
  <2>2. v \in Connection /\ v.s = conn[k].s /\ v.a = conn[k].a /\ v.b = conn[k].b
    BY <1>1, <1>11 DEF Connection
  <2> HIDE DEF v
  <2>3. QED
    BY Zenon, <1>5, <2>1, <2>2
<1>12. ASSUME NEW k \in Clients, NEW h \in Hosts, spliceReturns(k, h) PROVE StreamsBounded'
  <2>1. PICK v \in Connection :
          /\ conn' = [conn EXCEPT ![k] = Tidy(v)]
          /\ v.s = conn[k].s
          /\ v.a = (IF h = "a" THEN "over" ELSE conn[k].a)
          /\ v.b = (IF h = "b" THEN "over" ELSE conn[k].b)
    BY <1>12, SpliceEndsItself DEF DataInv
  <2>2. QED
    BY ZenonT(30), <1>5, <2>1
<1>13. CASE Kill
  <2>1. ASSUME NEW k \in Clients
        PROVE  /\ conn'[k].a \notin {"go", "splice"}
               /\ conn'[k].b \in {"go", "splice"} => conn'[k].b = conn[k].b /\ conn'[k].s = conn[k].s
    <3> DEFINE v == [conn[k] EXCEPT !.a = "over"]
    <3>1. v \in Connection /\ v.a = "over" /\ v.b = conn[k].b /\ v.s = conn[k].s
      BY <1>1 DEF Connection
    <3>2. (conn'[k] = conn[k] /\ conn[k].a = "new") \/ conn'[k] = Tidy(v)
      BY <1>13 DEF Kill
    <3> HIDE DEF v
    <3>3. QED
      BY <1>4, <3>1, <3>2
  <2>2. QED
    BY <1>2, <2>1 DEF SlotHolders, Hosts
<1>14. ASSUME NEW k \in Clients, NEW h \in Hosts, leaves(k, h) PROVE StreamsBounded'
  <2>1. PICK v \in Connection :
          /\ conn' = [conn EXCEPT ![k] = v]
          /\ v.s = conn[k].s /\ v.a = conn[k].a /\ v.b = conn[k].b
    BY <1>14, LeavesEndsBoth DEF DataInv
  <2>2. QED
    BY Zenon, <1>5, <2>1
<1>15. QED
  <2>1. "aUp" \in Copies /\ "bUp" \in Copies /\ "aDown" \in Copies /\ "bDown" \in Copies
    BY DEF Copies
  <2>2. CASE UNCHANGED dataVars \/ bind \/ serveReturns \/ reconnect \/ sessionEnds
    BY <1>3, <2>2 DEF dataVars, bind, serveReturns, reconnect, sessionEnds
  <2>3. ASSUME NEW s \in Sessions, closeOnDone(s) PROVE StreamsBounded'
    BY <1>3, <2>3 DEF closeOnDone
  <2>4. ASSUME NEW h \in Hosts, acceptFails(h) \/ forwardCancels(h) \/ forwardReturns(h)
        PROVE  StreamsBounded'
    BY <1>3, <2>4 DEF acceptFails, forwardCancels, forwardReturns
  <2>5. QED
    BY <1>6, <1>7, <1>8, <1>9, <1>10, <1>11, <1>12, <1>13, <1>14, <2>1, <2>2, <2>3, <2>4
       DEF DataNext, Runs, ClientEnds, ServiceEnds

(* The inductive invariant of the data plane: types, what the listeners and the
   accept loops agree on, and the bound on the goroutines of a session. *)
THEOREM DataInvariant == DataSpec => []DataInv
<1>1. DataInit => DataInv
  <2> SUFFICES ASSUME DataInit PROVE DataInv
    OBVIOUS
  <2>1. \A h \in Hosts, s \in Sessions : SlotHolders(h, s) = {}
    BY DEF DataInit, SlotHolders, Hosts
  <2>2. StreamsBounded
    BY <2>1, FS_EmptySet, DataAssumption DEF StreamsBounded
  <2>3. DataTypeOK
    <3>1. conn \in [Clients -> Connection]
      BY DataAssumption DEF DataInit, Connection
    <3>2. acceptor \in [Hosts -> [pc : {"none", "bind", "accept", "sem", "return"},
                                  conn : Clients \cup {Nil}]]
      BY DEF DataInit
    <3>3. n \in Sessions
      BY DataAssumption DEF DataInit, Sessions
    <3>4. alive \in BOOLEAN /\ lo \in BOOLEAN /\ kind \in Kinds
      BY ZenonT(30) DEF DataInit
    <3>5. fwd \in [Hosts -> {"off", "serving", "waiting"}]
      BY DEF DataInit
    <3>6. listeners \subseteq Sessions /\ closers \subseteq Sessions /\ path \in Sessions \cup {Nil}
      BY DEF DataInit
    <3>7. QED
      BY <3>1, <3>2, <3>3, <3>4, <3>5, <3>6 DEF DataTypeOK, Connection
  <2>4. Listening
    BY DataAssumption DEF DataInit, Listening, OpenIsCurrent, LoopBound, ServedListens, Hosts, Sessions
  <2>5. Serving
    BY DataAssumption DEF DataInit, Serving, HeldByLoop, NotYetOpen, Hosts, Sessions
  <2>6. Ending
    BY DataAssumption DEF DataInit, Ending, NothingCut
  <2>7. QED
    BY <2>2, <2>3, <2>4, <2>5, <2>6 DEF DataInv
<1>2. DataInv /\ [DataNext]_dataVars => DataInv'
  BY DataTyped, ListeningKept, ServingKept, EndingKept, BoundedKept DEF DataInv
<1>3. QED
  BY <1>1, <1>2, PTL DEF DataSpec

(* As long as a session is served its address leads to its own listener: the
   close goroutine of an earlier acceptAndForward finds its listener closed. *)
THEOREM DataListenerReachable == DataSpec => []ListenerReachable
<1>1. DataInv => ListenerReachable
  BY DEF DataInv, Listening, OpenIsCurrent, ServedListens, ListenerReachable
<1>2. QED
  BY <1>1, DataInvariant, PTL

(* splice cuts no answer and no request off while the session lives. *)
THEOREM DataNothingCut == DataSpec => []NothingCut
<1>1. DataInv => NothingCut
  BY DEF DataInv, Ending
<1>2. QED
  BY <1>1, DataInvariant, PTL

(* The semaphores of acceptAndForward and serveStreams bound the goroutines of
   every session, those of a dead session that live on included. *)
THEOREM DataStreamsBounded == DataSpec => []StreamsBounded
<1>1. DataInv => StreamsBounded
  BY DEF DataInv
<1>2. QED
  BY <1>1, DataInvariant, PTL

=============================================================================
