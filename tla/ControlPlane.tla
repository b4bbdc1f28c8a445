---------------------------- MODULE ControlPlane ----------------------------
(***************************************************************************)
(* The handshake server's QUIC control listener                            *)
(* (internal/tunnel/control.go) and the request handler behind it          *)
(* (serveControlQUIC and handleControlReq in internal/role/handshake.go).  *)
(*                                                                         *)
(* A connection takes a slot in the pre-handshake gate and gives it back   *)
(* from two goroutines that do not know of each other: the one that        *)
(* context.AfterFunc starts when the connection is gone, and the one that  *)
(* served it.  The QUIC library and the network may end a connection at    *)
(* any moment, also before it was accepted.  A connection is an element of *)
(* Conns that is used again once everything about it has ended.            *)
(***************************************************************************)
EXTENDS Integers, FiniteSets, Sequences

CONSTANTS
    Conns,          \* connections
    SourceOf,       \* a connection's accounting key (netkey)
    Allowed,        \* the sources inside --allow-cidr
    MaxConns,       \* maxCtrlConns
    MaxPerIP        \* maxCtrlConnsPerIP

ASSUME ConnsAssumption == IsFiniteSet(Conns)

ASSUME CapsAssumption == MaxConns \in Nat /\ MaxPerIP \in Nat

Sources == {SourceOf[c] : c \in Conns}

VARIABLES
    phase,      \* none, shaking, queued (in the listener), serving, returned, done
    open,       \* the QUIC connection exists; FALSE cancels its context
    fired,      \* the AfterFunc has run
    released,   \* the sync.Once inside the release closure
    conns, perIP,
    first,      \* no stream was accepted yet
    stream,     \* none, reading, offered (to s.reqs), handling, stuck
    running     \* FALSE when the server was closed

vars == <<phase, open, fired, released, conns, perIP, first, stream, running>>

Init ==
    /\ phase = [c \in Conns |-> "none"]
    /\ open = [c \in Conns |-> FALSE]
    /\ fired = [c \in Conns |-> FALSE]
    /\ released = [c \in Conns |-> FALSE]
    /\ conns = 0
    /\ perIP = [s \in Sources |-> 0]
    /\ first = [c \in Conns |-> TRUE]
    /\ stream = [c \in Conns |-> "none"]
    /\ running = TRUE

-----------------------------------------------------------------------------
(* The gate and the slot.                                                  *)

sourceAllowed(c) == SourceOf[c] \in Allowed

HasSlot(c) == conns < MaxConns /\ perIP[SourceOf[c]] < MaxPerIP

\* gateConn with admit: a refused dial leaves nothing behind.
gateConn(c) ==
    /\ running
    /\ phase[c] = "none"
    /\ sourceAllowed(c) /\ HasSlot(c)
    /\ conns' = conns + 1
    /\ perIP' = [perIP EXCEPT ![SourceOf[c]] = @ + 1]
    /\ phase' = [phase EXCEPT ![c] = "shaking"]
    /\ open' = [open EXCEPT ![c] = TRUE]
    /\ UNCHANGED <<fired, released, first, stream, running>>

\* Variant: the closure gives the slot back whenever it is called.
ReleaseEachTime(c) ==
    /\ conns' = conns - 1
    /\ perIP' = [perIP EXCEPT ![SourceOf[c]] = @ - 1]
    /\ released' = [released EXCEPT ![c] = TRUE]

\* The release closure: both counters move together, once.
release(c) ==
    IF released[c] THEN UNCHANGED <<conns, perIP, released>>
    ELSE /\ conns' = conns - 1
         /\ perIP' = [perIP EXCEPT ![SourceOf[c]] = @ - 1]
         /\ released' = [released EXCEPT ![c] = TRUE]

\* Variant: the connection's own end does not give the slot back.
AfterFuncWithoutRelease(c) ==
    /\ phase[c] # "none" /\ ~open[c] /\ ~fired[c]
    /\ fired' = [fired EXCEPT ![c] = TRUE]
    /\ UNCHANGED <<conns, perIP, released, phase, open, first, stream, running>>

AfterFunc(c) ==
    /\ phase[c] # "none" /\ ~open[c] /\ ~fired[c]
    /\ fired' = [fired EXCEPT ![c] = TRUE]
    /\ release(c)
    /\ UNCHANGED <<phase, open, first, stream, running>>

-----------------------------------------------------------------------------
(* The life of a connection.                                               *)

Close(c) == open' = [open EXCEPT ![c] = FALSE]

handshakeDone(c) ==
    /\ phase[c] = "shaking" /\ open[c]
    /\ phase' = [phase EXCEPT ![c] = "queued"]
    /\ UNCHANGED <<open, fired, released, conns, perIP, first, stream, running>>

\* The peer leaves, the TLS handshake fails, or an idle timer of the library
\* fires.
connLost(c) ==
    /\ open[c]
    /\ Close(c)
    /\ UNCHANGED <<phase, fired, released, conns, perIP, first, stream, running>>

acceptConns(c) ==
    /\ running
    /\ phase[c] = "queued"
    /\ phase' = [phase EXCEPT ![c] = "serving"]
    /\ UNCHANGED <<open, fired, released, conns, perIP, first, stream, running>>

\* acceptStreams: one more stream.
acceptStream(c) ==
    /\ phase[c] = "serving" /\ open[c]
    /\ stream[c] = "none"
    /\ stream' = [stream EXCEPT ![c] = "reading"]
    /\ first' = [first EXCEPT ![c] = FALSE]
    /\ UNCHANGED <<phase, open, fired, released, conns, perIP, running>>

\* acceptStreams returns: the connection is gone, or firstStreamTimeout passed
\* without a stream.  Its deferred close runs first.
acceptStreamsReturns(c) ==
    /\ phase[c] = "serving"
    /\ ~open[c] \/ first[c]
    /\ Close(c)
    /\ phase' = [phase EXCEPT ![c] = "returned"]
    /\ UNCHANGED <<fired, released, conns, perIP, first, stream, running>>

\* A panic in the connection's goroutine, recovered by safe.Do: the deferred
\* close still runs.
acceptStreamsPanics(c) ==
    /\ phase[c] = "serving"
    /\ Close(c)
    /\ phase' = [phase EXCEPT ![c] = "returned"]
    /\ UNCHANGED <<fired, released, conns, perIP, first, stream, running>>

\* Variant: the serving goroutine's release is called before the connection is
\* closed by the deferred call.
acceptConnsReleasesEarly(c) ==
    /\ phase[c] \in {"serving", "returned"}
    /\ release(c)
    /\ phase' = [phase EXCEPT ![c] = "done"]
    /\ UNCHANGED <<open, fired, first, stream, running>>

\* The deferred release of acceptConns's goroutine.
acceptConnsReleases(c) ==
    /\ phase[c] = "returned"
    /\ release(c)
    /\ phase' = [phase EXCEPT ![c] = "done"]
    /\ UNCHANGED <<open, fired, first, stream, running>>

\* Nothing of the connection is left; the name may stand for another one.
forget(c) ==
    /\ ~open[c] /\ fired[c]
    /\ phase[c] \in {"shaking", "done"} \/ (phase[c] = "queued" /\ ~running)
    /\ stream[c] \in {"none", "stuck"}
    /\ phase' = [phase EXCEPT ![c] = "none"]
    /\ fired' = [fired EXCEPT ![c] = FALSE]
    /\ released' = [released EXCEPT ![c] = FALSE]
    /\ first' = [first EXCEPT ![c] = TRUE]
    /\ stream' = [stream EXCEPT ![c] = "none"]
    /\ UNCHANGED <<open, conns, perIP, running>>

-----------------------------------------------------------------------------
(* One request.                                                            *)

\* readRequest: the request is offered when it is complete and not oversized;
\* the deadline, a reset or one byte too many closes the stream.
readRequest(c) ==
    /\ stream[c] = "reading"
    /\ \/ open[c] /\ stream' = [stream EXCEPT ![c] = "offered"]
       \/ stream' = [stream EXCEPT ![c] = "none"]
    /\ UNCHANGED <<phase, open, fired, released, conns, perIP, first, running>>

\* The select of readRequest against Accept: taken, or given up at shutdown.
Accept(c) ==
    /\ stream[c] = "offered"
    /\ \/ running /\ stream' = [stream EXCEPT ![c] = "handling"]
       \/ ~running /\ stream' = [stream EXCEPT ![c] = "none"]
    /\ UNCHANGED <<phase, open, fired, released, conns, perIP, first, running>>

\* The checks of handleControlReq, in order.
Checks == <<"source", "rate", "malformed", "key mismatch", "version", "no proof",
            "sealed token", "not paired">>

\* What a failed check does to the connection: a rate limit and an answer of
\* pairRegister keep it, a structural refusal drops it ("version" after a reply).
Keeps == {"rate", "not paired"}

\* A request fails at most one check, the first; only the source is a property
\* of the connection.
handleControlReq(c) ==
    /\ stream[c] = "handling"
    /\ stream' = [stream EXCEPT ![c] = "none"]
    /\ \E n \in 1..Len(Checks) + 1 :
          /\ (n = 1) = ~sourceAllowed(c)
          /\ IF n = Len(Checks) + 1 \/ Checks[n] \in Keeps THEN UNCHANGED open ELSE Close(c)
    /\ UNCHANGED <<phase, fired, released, conns, perIP, first, running>>

\* A panic recovered by safe.Go leaves the stream unanswered and open until
\* the connection ends.
handlerPanics(c) ==
    /\ stream[c] = "handling"
    /\ stream' = [stream EXCEPT ![c] = "stuck"]
    /\ UNCHANGED <<phase, open, fired, released, conns, perIP, first, running>>

\* ControlServer.Close: the transport closes every connection.
CloseServer ==
    /\ running
    /\ running' = FALSE
    /\ open' = [c \in Conns |-> FALSE]
    /\ UNCHANGED <<phase, fired, released, conns, perIP, first, stream>>

-----------------------------------------------------------------------------

Next ==
    \/ \E c \in Conns :
          \/ gateConn(c) \/ handshakeDone(c) \/ connLost(c)
          \/ AfterFunc(c) \/ acceptConns(c) \/ acceptStream(c)
          \/ acceptStreamsReturns(c) \/ acceptStreamsPanics(c)
          \/ acceptConnsReleases(c) \/ forget(c)
          \/ readRequest(c) \/ Accept(c) \/ handleControlReq(c) \/ handlerPanics(c)
    \/ CloseServer

Spec ==
    /\ Init /\ [][Next]_vars
    /\ \A c \in Conns :
          /\ WF_vars(AfterFunc(c))
          /\ WF_vars(phase[c] = "shaking" /\ (handshakeDone(c) \/ connLost(c)))
          /\ WF_vars(acceptConns(c))
          /\ WF_vars(acceptStreamsReturns(c))
          /\ WF_vars(acceptConnsReleases(c))

-----------------------------------------------------------------------------

TypeOK ==
    /\ phase \in [Conns -> {"none", "shaking", "queued", "serving", "returned", "done"}]
    /\ open \in [Conns -> BOOLEAN]
    /\ fired \in [Conns -> BOOLEAN]
    /\ released \in [Conns -> BOOLEAN]
    /\ conns \in Int
    /\ perIP \in [Sources -> Int]
    /\ first \in [Conns -> BOOLEAN]
    /\ stream \in [Conns -> {"none", "reading", "offered", "handling", "stuck"}]
    /\ running \in BOOLEAN

\* The connections that hold a slot, of one source.
Holders == {c \in Conns : phase[c] # "none" /\ ~released[c]}
HoldersFrom(s) == {c \in Holders : SourceOf[c] = s}

\* The counters are exactly the slots held, per source and in total, and within
\* both caps, although two goroutines give each slot back: the sync.Once in the
\* release closure and the pairing of both counters under connMu.
SlotsExact ==
    /\ conns = Cardinality(Holders)
    /\ conns <= MaxConns
    /\ \A s \in Sources :
          /\ perIP[s] = Cardinality(HoldersFrom(s))
          /\ perIP[s] <= MaxPerIP

\* The counters implement the promise of SlotPool: admission sees a free slot
\* exactly when there is one, a slot is taken and given back one at a time, and
\* neither a second release nor the reuse of a connection touches another's.
Pool == INSTANCE SlotPool WITH
    held <- Holders, Users <- Conns, MaxTotal <- MaxConns, MaxPerSource <- MaxPerIP
SlotsImplementPool == Pool!Spec

\* A connection that still exists holds a slot: the budget bounds connections
\* and TLS handshakes in flight, and no slot is given back early ("the
\* connection must actually be gone by then", acceptStreams).
OpenHoldsSlot ==
    \A c \in Conns : open[c] => c \in Holders

\* A connection that is gone, or that never opens a stream, does not keep its
\* slot, whatever phase it ends in and also when the server shuts down.
SlotReturned ==
    \A c \in Conns :
        (c \in Holders /\ (~open[c] \/ first[c])) ~> (c \notin Holders \/ (~first[c] /\ open[c]))
=============================================================================
