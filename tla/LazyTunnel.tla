----------------------------- MODULE LazyTunnel -----------------------------
(***************************************************************************)
(* On-demand tunnels (--lazy): the -L acceptor's per-connection goroutines *)
(* meet the reconnect loop in lazyTunnel (internal/role/lazy.go).  The     *)
(* loop is peerLoop with buddyRun's use of the lazyTunnel.                 *)
(*                                                                         *)
(* Every step is one critical section of lazyTunnel.mu or one select.  A   *)
(* `ready' channel is a member of Chans; make(chan) takes any channel that *)
(* nobody refers to, which stands for a new one.                           *)
(***************************************************************************)
EXTENDS Integers, FiniteSets

CONSTANTS
  Clients,      \* local connections to -L
  Chans,        \* the identities of ready channels
  MaxStreams,   \* maxConcurrentStreams: goroutines of lazyForward
  HasForward    \* TRUE when --forward is set, so buddyRun also serves streams

ASSUME LazyAssumption ==
  /\ IsFiniteSet(Chans) /\ IsFiniteSet(Clients)
  /\ Cardinality(Chans) > Cardinality(Clients) + 1
  /\ MaxStreams \in Nat
  /\ HasForward \in BOOLEAN

VARIABLES
  sess, err,    \* lt.sess # nil, lt.err # nil
  waking,       \* lt.waking
  ready,        \* lt.ready
  wake,         \* tokens in the 1-buffered lt.wake
  closed,       \* the channels that are closed
  loop,         \* where the reconnect loop is
  client, chan, \* per connection: where its goroutine is; the ready channel it read
  got,          \* per connection: what get returned to it
  cancelled     \* the process context is cancelled

lazy == <<sess, err, waking, ready, wake, closed>>
lazyVars == <<lazy, loop, client, chan, got, cancelled>>

Loops == {"backoff", "asleep", "dialing", "failed", "rejected", "up", "down", "stopped"}

LazyTypeOK ==
  /\ sess \in BOOLEAN /\ err \in BOOLEAN /\ waking \in BOOLEAN
  /\ ready \in Chans /\ closed \in SUBSET Chans
  /\ wake \in 0 .. 1
  /\ loop \in Loops
  /\ client \in [Clients -> {"none", "waiting", "splicing"}]
  /\ chan \in [Clients -> Chans]
  /\ got \in [Clients -> {"none", "session", "error", "nothing"}]
  /\ cancelled \in BOOLEAN

(* newLazyTunnel, and a loop that has yet to see its first wake. *)
LazyInit ==
  /\ sess = FALSE /\ err = FALSE /\ waking = FALSE
  /\ ready \in Chans /\ closed = {} /\ wake = 0
  /\ loop = "asleep"
  /\ client = [c \in Clients |-> "none"]
  /\ chan = [c \in Clients |-> ready]
  /\ got = [c \in Clients |-> "none"]
  /\ cancelled = FALSE

-----------------------------------------------------------------------------
(* The goroutine of one local connection: lazyForward, get *)

Active == {c \in Clients : client[c] # "none"}

(* ln.Accept returned, and the stream semaphore has room. *)
Arriving(c) ==
  /\ ~cancelled /\ loop # "stopped"
  /\ client[c] = "none"
  /\ Cardinality(Active) < MaxStreams

(* get's fast path: the session is returned under the lock. *)
GetConnected(c) ==
  /\ Arriving(c)
  /\ sess
  /\ client' = [client EXCEPT ![c] = "splicing"]
  /\ got' = [got EXCEPT ![c] = "session"]
  /\ UNCHANGED <<lazy, loop, chan, cancelled>>

WakeWithoutToken == wake   \* mutant: the first waiter only sets the flag

(* The non-blocking send of the first waiter. *)
WakeSent == IF waking THEN wake ELSE 1

(* get's slow path up to the select: become WAKING, remember the channel. *)
GetSleeping(c) ==
  /\ Arriving(c)
  /\ ~sess
  /\ waking' = TRUE
  /\ wake' = WakeSent
  /\ chan' = [chan EXCEPT ![c] = ready]
  /\ client' = [client EXCEPT ![c] = "waiting"]
  /\ got' = [got EXCEPT ![c] = "none"]
  /\ UNCHANGED <<sess, err, ready, closed, loop, cancelled>>

(* <-ready fired; get locks again and returns lt.sess and lt.err as they are
   now.  An error closes the connection; a session is spliced; neither makes
   sess.OpenStream panic, which safe.Do recovers. *)
GetReturns(c) ==
  /\ client[c] = "waiting"
  /\ chan[c] \in closed
  /\ got' = [got EXCEPT ![c] = IF err THEN "error" ELSE IF sess THEN "session" ELSE "nothing"]
  /\ client' = [client EXCEPT ![c] = IF sess /\ ~err THEN "splicing" ELSE "none"]
  /\ UNCHANGED <<lazy, loop, chan, cancelled>>

(* The context ended first. *)
GetCancelled(c) ==
  /\ client[c] = "waiting"
  /\ cancelled
  /\ got' = [got EXCEPT ![c] = "error"]
  /\ client' = [client EXCEPT ![c] = "none"]
  /\ UNCHANGED <<lazy, loop, chan, cancelled>>

(* OpenStream failed, or the splice came to its end. *)
StreamEnds(c) ==
  /\ client[c] = "splicing"
  /\ client' = [client EXCEPT ![c] = "none"]
  /\ UNCHANGED <<lazy, loop, chan, got, cancelled>>

-----------------------------------------------------------------------------
(* The reconnect loop: peerLoop and buddyRun *)

(* The select of a sleeping loop takes the token; next may refuse to go on. *)
WakeUp ==
  /\ loop = "asleep"
  /\ wake = 1
  /\ wake' = 0
  /\ loop' \in {"dialing", "stopped"}
  /\ UNCHANGED <<sess, err, waking, ready, closed, client, chan, got, cancelled>>

Unannounced == UNCHANGED closed   \* mutant: the waiters are not signalled

(* close(lt.ready), which would panic on a channel already closed. *)
Announce == closed' = closed \cup {ready}

(* The dial, the SAS and the store all succeeded: setSession. *)
SetSession ==
  /\ loop = "dialing"
  /\ sess' = TRUE /\ err' = FALSE
  /\ Announce
  /\ loop' = "up"
  /\ UNCHANGED <<waking, ready, wake, client, chan, got, cancelled>>

(* buddyRun is about to return an error: setFailed, in its deferred function.
   A rejected or timed-out SAS ends the loop. *)
SetFailed ==
  /\ loop = "dialing"
  /\ sess' = FALSE /\ err' = TRUE /\ waking' = FALSE
  /\ Announce
  /\ loop' \in {"failed", "rejected"}
  /\ UNCHANGED <<ready, wake, client, chan, got, cancelled>>

(* Idle timeout, peer close or re-authentication: sess.Done() fires. *)
SessionEnds ==
  /\ loop = "up"
  /\ loop' = "down"
  /\ UNCHANGED <<lazy, client, chan, got, cancelled>>

(* With --forward, serveStreams also returns when the context ends. *)
ServeStreamsCancelled ==
  /\ HasForward /\ cancelled
  /\ loop = "up"
  /\ loop' = "down"
  /\ UNCHANGED <<lazy, client, chan, got, cancelled>>

KeepReady == UNCHANGED <<ready, closed>>   \* mutant: the closed channel is used again

(* make(chan struct{}): a channel nobody refers to, and open. *)
FreshReady ==
  \E ch \in Chans \ ({ready} \cup {chan[c] : c \in Clients}) :
    /\ ready' = ch
    /\ closed' = closed \ {ch}

(* markIdle, after setFailed or after the session ended; then peerLoop looks
   at the error and at the context. *)
MarkIdle ==
  /\ loop \in {"failed", "rejected", "down"}
  /\ sess' = FALSE /\ err' = FALSE /\ waking' = FALSE
  /\ FreshReady
  /\ loop' = IF cancelled \/ loop = "rejected" THEN "stopped" ELSE "backoff"
  /\ UNCHANGED <<wake, client, chan, got, cancelled>>

(* The jittered wait is over. *)
BackoffOver ==
  /\ loop = "backoff"
  /\ loop' = "asleep"
  /\ UNCHANGED <<lazy, client, chan, got, cancelled>>

CancelledInBackoffOnly ==   \* mutant: a sleeping loop does not listen to the context
  /\ loop = "backoff"
  /\ cancelled
  /\ loop' = "stopped"
  /\ UNCHANGED <<lazy, client, chan, got, cancelled>>

(* Both selects of the loop also listen to the context. *)
LoopCancelled ==
  /\ loop \in {"asleep", "backoff"}
  /\ cancelled
  /\ loop' = "stopped"
  /\ UNCHANGED <<lazy, client, chan, got, cancelled>>

(* SIGINT or SIGTERM. *)
Interrupt ==
  /\ ~cancelled
  /\ cancelled' = TRUE
  /\ UNCHANGED <<lazy, loop, client, chan, got>>

-----------------------------------------------------------------------------
Loop == \/ WakeUp \/ SetSession \/ SetFailed \/ SessionEnds \/ ServeStreamsCancelled
        \/ MarkIdle \/ BackoffOver \/ LoopCancelled

Conn(c) == \/ GetConnected(c) \/ GetSleeping(c) \/ GetReturns(c)
           \/ GetCancelled(c) \/ StreamEnds(c)

LazyNext == Loop \/ Interrupt \/ \E c \in Clients : Conn(c)

LazySpec == LazyInit /\ [][LazyNext]_lazyVars

(* What the code's own steps guarantee: the goroutines are scheduled, a dial
   ends (every stage of buddyRun has a timeout), the backoff timer fires.  The
   partner need never close an established session: QUIC keep-alives hold it
   up, so SessionEnds has no fairness. *)
LazyFairness ==
  /\ WF_lazyVars(WakeUp)
  /\ WF_lazyVars(SetSession \/ SetFailed)
  /\ WF_lazyVars(ServeStreamsCancelled)
  /\ WF_lazyVars(MarkIdle)
  /\ WF_lazyVars(BackoffOver)
  /\ WF_lazyVars(LoopCancelled)
  /\ \A c \in Clients : WF_lazyVars(GetReturns(c)) /\ WF_lazyVars(GetCancelled(c))

LazyFairSpec == LazySpec /\ LazyFairness

-----------------------------------------------------------------------------
(* Properties *)

(* A goroutine blocked in get is never forgotten: the channel it waits on is
   closed, or it is the current one and a wake is queued or a dial under way
   whose end will close it. *)
NoLostWake ==
  loop # "stopped" =>
    \A c \in Clients : client[c] = "waiting" =>
      \/ chan[c] \in closed
      \/ chan[c] = ready /\ (wake = 1 \/ loop = "dialing")

(* setSession and setFailed never close a channel that is closed already (Go
   would panic): while a dial is under way the current channel is open. *)
ClosedOnce == loop = "dialing" => ready \notin closed

(* Every connection waiting for the tunnel is answered, unless the loop has
   ended for good. *)
WaiterAnswered ==
  \A c \in Clients : client[c] = "waiting" ~> (client[c] # "waiting" \/ loop = "stopped")

(* A cancelled context ends the reconnect loop. *)
ShutdownCompletes == cancelled ~> loop = "stopped"

(* The comments on setSession and setFailed: after <-ready fires a waiter
   observes a session or an error. *)
WaitersObserveResult == \A c \in Clients : got[c] # "nothing"

=============================================================================
