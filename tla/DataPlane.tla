------------------------------ MODULE DataPlane ------------------------------
(***************************************************************************)
(* The data plane of a QUIC tunnel (internal/role/forward.go), over a      *)
(* sequence of sessions between two hosts.  Host A runs -L or --vip-listen *)
(* (acceptAndForward), host B runs -forward (serveStreams); a local client *)
(* of A talks through a stream to a service on B.  forward() waits for its *)
(* accept loop, not for the splices, so goroutines of a dead session live  *)
(* on beside the next session: its splices, and the one that closes the    *)
(* listener when the context ends.                                         *)
(*                                                                         *)
(* A connection is followed by its four copies: up (client to service) and *)
(* down, each over host a and host b.                                      *)
(***************************************************************************)
EXTENDS Integers, FiniteSets

CONSTANTS
    Clients,        \* connections local clients make
    Nil,            \* no connection, no listener
    Kinds,          \* what A may listen on: see kind
    Cap,            \* maxConcurrentStreams
    MaxSessions,    \* sessions, one after the other
    ClientsFinish   \* every client closes its side in the end

ASSUME DataAssumption ==
    Cap \in Nat \ {0} /\ MaxSessions \in Nat \ {0} /\ ClientsFinish \in BOOLEAN

VARIABLES
    n,          \* the current session
    alive,      \* it is up
    kind,       \* what A listens on: a "tcp" port, a "unix" socket, a
                \* port of the "vip", or of one it is "denied" on lo
    fwd,        \* the forward() call of each host: "off", "serving", "waiting"
    acceptor,   \* the accept loop of each host: [pc, conn]
    listeners,  \* sessions whose listener is open on A
    path,       \* the listener the address leads to, Nil if none
    closers,    \* sessions whose <-ctx.Done() goroutine has yet to close it
    lo,         \* the partner's virtual IP is on the loopback interface
    conn        \* per connection: [s, a, b, done, gone]

net == <<listeners, path, closers, lo>>
dataVars == <<n, alive, kind, fwd, acceptor, net, conn>>

Sessions == 1..MaxSessions
Hosts == {"a", "b"}
Copies == {"aUp", "aDown", "bUp", "bDown"}
Host(c) == IF c \in {"aUp", "aDown"} THEN "a" ELSE "b"
\* The copy on the other host that feeds this one; two read from a program.
Feeder(c) == CASE c = "bUp" -> {"aUp"} [] c = "aDown" -> {"bDown"} [] OTHER -> {}
CopiesOf(h) == {c \in Copies : Host(c) = h}

Idle == [pc |-> "none", conn |-> Nil]

\* A connection nobody holds any more.
Over == [s |-> 0, a |-> "over", b |-> "over", done |-> {}, gone |-> {}]

DataInit ==
    /\ n = 1 /\ alive = TRUE
    /\ kind \in Kinds
    /\ fwd = [h \in Hosts |-> "serving"]
    /\ acceptor = [h \in Hosts |-> [pc |-> IF h = "a" THEN "bind" ELSE "accept", conn |-> Nil]]
    /\ listeners = {} /\ path = Nil /\ closers = {} /\ lo = FALSE
    /\ conn = [k \in Clients |-> [s |-> 0, a |-> "new", b |-> "none",
                                done |-> {}, gone |-> {}]]

\* Variant: the derived context is never cancelled, only the daemon's.
CancelledByDaemon(s) == FALSE

\* The context of session s is cancelled, and the session itself is over.
Cancelled(s) == s # n \/ fwd["a"] # "serving"
Dead(s) == s # n \/ ~alive

-----------------------------------------------------------------------------
(* The listener of host A.                                                 *)

\* ln.Close of session s; a unix listener unlinks its path, once, whoever is
\* there by then.
CloseListener(s) ==
    /\ listeners' = listeners \ {s}
    /\ path' = IF s \in listeners /\ (kind = "unix" \/ path = s) THEN Nil ELSE path

\* vip.Assign, and the release it returns.
Assign == lo' = (lo \/ kind = "vip")
Release == lo' = FALSE

\* serveLocal and serveVIP: the address, then the listener.  listenLocal takes a
\* unix path from whoever has it; a port that is taken fails, and so does an
\* address without NET_ADMIN.
bind ==
    /\ acceptor["a"].pc = "bind"
    /\ Assign
    /\ IF kind = "unix" \/ (kind # "denied" /\ listeners = {})
       THEN /\ listeners' = listeners \cup {n} /\ path' = n /\ closers' = closers \cup {n}
            /\ acceptor' = [acceptor EXCEPT !["a"].pc = "accept"]
       ELSE /\ UNCHANGED <<listeners, path, closers>>
            /\ acceptor' = [acceptor EXCEPT !["a"].pc = "return"]
    /\ UNCHANGED <<n, alive, kind, fwd, conn>>

\* The goroutine <-ctx.Done(); ln.Close(), at any time after.
closeOnDone(s) ==
    /\ s \in closers /\ Cancelled(s)
    /\ closers' = closers \ {s}
    /\ CloseListener(s)
    /\ UNCHANGED <<n, alive, kind, fwd, acceptor, lo, conn>>

\* The deferred ln.Close and release, when the accept loop is left.
serveReturns ==
    /\ acceptor["a"].pc = "return"
    /\ CloseListener(n)
    /\ Release
    /\ acceptor' = [acceptor EXCEPT !["a"] = Idle]
    /\ UNCHANGED <<n, alive, kind, fwd, closers, conn>>

-----------------------------------------------------------------------------
(* acceptAndForward and serveStreams: accept, wait for a slot, go.         *)

\* Goroutines of host h that hold a slot of session s.
SlotHolders(h, s) == {k \in Clients : conn[k].s = s /\ conn[k][h] \in {"go", "splice"}}

\* Accept on A: the client's connection waits in the listener's queue.
acceptLocal(k) ==
    /\ acceptor["a"].pc = "accept" /\ n \in listeners /\ path = n
    /\ conn[k].a = "new"
    /\ conn' = [conn EXCEPT ![k].s = n, ![k].a = "held"]
    /\ acceptor' = [acceptor EXCEPT !["a"] = [pc |-> "sem", conn |-> k]]
    /\ UNCHANGED <<n, alive, kind, fwd, net>>

\* AcceptStream on B.
AcceptStream(k) ==
    /\ acceptor["b"].pc = "accept" /\ alive /\ fwd["b"] = "serving"
    /\ conn[k].s = n /\ conn[k].b = "arrived"
    /\ conn' = [conn EXCEPT ![k].b = "held"]
    /\ acceptor' = [acceptor EXCEPT !["b"] = [pc |-> "sem", conn |-> k]]
    /\ UNCHANGED <<n, alive, kind, fwd, net>>

\* Accept fails: the listener is closed, the session is over.
acceptFails(h) ==
    /\ acceptor[h].pc = "accept"
    /\ IF h = "a" THEN n \notin listeners ELSE Dead(n)
    /\ acceptor' = [acceptor EXCEPT ![h] = IF h = "a" THEN [Idle EXCEPT !.pc = "return"] ELSE Idle]
    /\ UNCHANGED <<n, alive, kind, fwd, net, conn>>

\* sem <- struct{}{}, with no way out but a slot.
acquire(h) ==
    LET k == acceptor[h].conn
    IN  /\ acceptor[h].pc = "sem" /\ Cardinality(SlotHolders(h, n)) < Cap
        /\ conn' = [conn EXCEPT ![k][h] = "go"]
        /\ acceptor' = [acceptor EXCEPT ![h] = [pc |-> "accept", conn |-> Nil]]
        /\ UNCHANGED <<n, alive, kind, fwd, net>>

\* What is over on both hosts is forgotten; a client whose connection ended may
\* come back.
Tidy(c) == IF c.a = "over" /\ c.b \in {"none", "arrived", "refused", "over"} THEN Over ELSE c

\* OpenStream; on an error the local connection is closed.
openStream(k) ==
    /\ conn[k].a = "go"
    /\ conn' = [conn EXCEPT ![k] = IF Dead(@.s) \/ Cancelled(@.s) THEN Over
                                   ELSE [@ EXCEPT !.a = "splice", !.b = "arrived"]]
    /\ UNCHANGED <<n, alive, kind, fwd, acceptor, net>>

\* dialLocal; on an error the stream is closed in both directions.
dialLocal(k) ==
    /\ conn[k].b = "go"
    /\ \/ conn' = [conn EXCEPT ![k].b = "splice"]
       \/ conn' = [conn EXCEPT ![k] = Tidy([conn[k] EXCEPT !.b = "refused",
                                                           !.done = @ \cup CopiesOf("b")])]
    /\ UNCHANGED <<n, alive, kind, fwd, acceptor, net>>

-----------------------------------------------------------------------------
(* splice: two copies on each host.                                        *)

\* io.Copy returns, and its other side is half-closed.  A copy from a stream ends
\* with the end of file the other host passes on, or with the session; one from
\* a local connection when the client ends its request, the service its answer.
copyEnds(k, c) ==
    /\ conn[k][Host(c)] = "splice" /\ c \notin conn[k].done
    /\ Feeder(c) \subseteq conn[k].done \/ Dead(conn[k].s)
    /\ conn' = [conn EXCEPT ![k].done = @ \cup {c}]
    /\ UNCHANGED <<n, alive, kind, fwd, acceptor, net>>

\* The client (on a) or the service (on b) has closed its connection for good: the
\* copy from it ends, and so does the one to it, early, as its write fails.
leaves(k, h) ==
    /\ conn[k][h] = "splice" /\ ~Dead(conn[k].s)
    /\ \E c \in CopiesOf(h) \ conn[k].done : ~(Feeder(c) \subseteq conn[k].done)
    /\ conn' = [conn EXCEPT ![k].done = @ \cup CopiesOf(h), ![k].gone = @ \cup {h}]
    /\ UNCHANGED <<n, alive, kind, fwd, acceptor, net>>

\* Variant: the first copy to end closes both sides.
FinishedEarly(k, h) == CopiesOf(h) \cap conn[k].done # {}

\* wg.Wait in splice.
Finished(k, h) == CopiesOf(h) \subseteq conn[k].done

\* Both sides are closed, which would end a copy that still ran, and the slot is
\* returned.
spliceReturns(k, h) ==
    LET ended == [conn[k] EXCEPT !.done = @ \cup CopiesOf(h)]
    IN  /\ conn[k][h] = "splice" /\ Finished(k, h)
        /\ conn' = [conn EXCEPT ![k] = Tidy([ended EXCEPT ![h] = "over"])]
        /\ UNCHANGED <<n, alive, kind, fwd, acceptor, net>>

-----------------------------------------------------------------------------
(* forward, and the sessions it runs over.                                 *)

\* The session ends: peer, idle, re-authorisation, or forward's own Close.
sessionEnds ==
    /\ alive /\ alive' = FALSE
    /\ UNCHANGED <<n, kind, fwd, acceptor, net, conn>>

\* sess.Done: the context is cancelled, and the loops are waited for.
forwardCancels(h) ==
    /\ fwd[h] = "serving" /\ ~alive
    /\ fwd' = [fwd EXCEPT ![h] = "waiting"]
    /\ UNCHANGED <<n, alive, kind, acceptor, net, conn>>

\* Variant: forward does not wait for its loops.
NotWaited(h) == TRUE

\* wg.Wait: the loop's goroutine has returned.
Waited(h) == acceptor[h].pc = "none"

forwardReturns(h) ==
    /\ fwd[h] = "waiting" /\ Waited(h)
    /\ fwd' = [fwd EXCEPT ![h] = "off"]
    /\ UNCHANGED <<n, alive, kind, acceptor, net, conn>>

\* Both workers are back in their reconnect loop and agree on a new session.
reconnect ==
    /\ \A h \in Hosts : fwd[h] = "off"
    /\ n < MaxSessions /\ n' = n + 1 /\ alive' = TRUE
    /\ fwd' = [h \in Hosts |-> "serving"]
    /\ acceptor' = [h \in Hosts |-> [pc |-> IF h = "a" THEN "bind" ELSE "accept", conn |-> Nil]]
    /\ UNCHANGED <<kind, net, conn>>

\* ReconcileStale at the start: only a partner known by then keeps its address.
ReconcileStale == lo' \in {lo, FALSE}

\* Host A is killed and started again.  Its sockets are closed, a unix path and
\* the address on lo stay behind, and B's session ends by its idle timeout.
Kill ==
    /\ n < MaxSessions /\ alive /\ alive' = FALSE
    /\ fwd' = [fwd EXCEPT !["a"] = "off"]
    /\ acceptor' = [acceptor EXCEPT !["a"] = Idle]
    /\ listeners' = {} /\ closers' = {}
    /\ path' = IF kind = "unix" THEN path ELSE Nil
    /\ ReconcileStale
    /\ conn' = [k \in Clients |-> IF conn[k].a = "new" THEN conn[k]
                               ELSE Tidy([conn[k] EXCEPT !.a = "over"])]
    /\ UNCHANGED <<n, kind>>

\* A goroutine of either host runs, up to the copies that wait for a program
\* outside.
Runs ==
    \/ bind \/ serveReturns \/ reconnect
    \/ \E s \in Sessions : closeOnDone(s)
    \/ \E h \in Hosts : acceptFails(h) \/ acquire(h) \/ forwardCancels(h) \/ forwardReturns(h)
    \/ \E k \in Clients :
        \/ AcceptStream(k) \/ openStream(k) \/ dialLocal(k)
        \/ copyEnds(k, "bUp") \/ copyEnds(k, "aDown")
        \/ \E h \in Hosts : spliceReturns(k, h)

ClientEnds == \E k \in Clients : copyEnds(k, "aUp")
ServiceEnds == \E k \in Clients : copyEnds(k, "bDown")

DataNext ==
    \/ Runs \/ ClientEnds \/ ServiceEnds
    \/ sessionEnds \/ Kill
    \/ \E k \in Clients : acceptLocal(k) \/ \E h \in Hosts : leaves(k, h)

\* Some goroutine that can run does; the service ends its answers, and the
\* clients their requests where ClientsFinish says so.  Sessions need not end.
DataSpec ==
    /\ DataInit /\ [][DataNext]_dataVars
    /\ WF_dataVars(Runs \/ ServiceEnds \/ (ClientsFinish /\ ClientEnds))

-----------------------------------------------------------------------------

DataTypeOK ==
    /\ n \in Sessions /\ alive \in BOOLEAN /\ lo \in BOOLEAN
    /\ kind \in Kinds
    /\ fwd \in [Hosts -> {"off", "serving", "waiting"}]
    /\ acceptor \in [Hosts -> [pc : {"none", "bind", "accept", "sem", "return"},
                               conn : Clients \cup {Nil}]]
    /\ listeners \subseteq Sessions /\ closers \subseteq Sessions /\ path \in Sessions \cup {Nil}
    /\ conn \in [Clients -> [s : 0..MaxSessions,
                           a : {"new", "held", "go", "splice", "over"},
                           b : {"none", "arrived", "held", "go", "splice", "refused", "over"},
                           done : SUBSET Copies,
                           gone : SUBSET Hosts]]

\* As long as a session is served, the address the user was given leads to this
\* session's listener (and the virtual IP is there): neither the previous
\* session's listener nor its late close goroutine takes it away, nor what a
\* killed run left there.
ListenerReachable ==
    fwd["a"] = "serving" /\ acceptor["a"].pc # "bind" /\ kind # "denied" =>
        path = n /\ n \in listeners /\ (kind = "vip" => lo)

\* Nothing is cut off while the session lives: a client still there sees the end
\* of the answer only once the service has ended it, or could not be reached, and
\* the service the end of the request only once the client has ended that, however
\* the four copies and the two closes interleave ("so a response still in flight
\* the reverse way can finish draining").
NothingCut ==
    \A k \in Clients : ~Dead(conn[k].s) =>
        /\ "aDown" \in conn[k].done => "bDown" \in conn[k].done \/ "a" \in conn[k].gone
        /\ "bUp" \in conn[k].done => \/ "aUp" \in conn[k].done \/ "b" \in conn[k].gone
                                     \/ conn[k].b = "refused"

\* forward() returns on both hosts once the session has ended, also with all
\* slots taken and a connection waiting for one; a new session can follow.
ForwardReturns ==
    ~alive ~> (\A h \in Hosts : fwd[h] = "off")
=============================================================================
