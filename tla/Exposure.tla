------------------------------ MODULE Exposure ------------------------------
(***************************************************************************)
(* The kernel state behind WireGuard buddies: the links internal/wg        *)
(* creates and deletes over netlink (Available, Up, ConfirmHandshake), the *)
(* nftables table internal/nft rebuilds as a whole (Apply, Remove), and    *)
(* the part of runWG that orders the two (internal/role/wgpath.go), with   *)
(* the scope changes a SIGHUP makes on a live interface (reprogramScope).  *)
(*                                                                         *)
(* One worker per interface name (module Supervisor hands the names out).  *)
(* A netlink request is one step.  A request may fail, before or after the *)
(* kernel did what it asked, and the daemon may be killed between any two: *)
(* the kernel keeps links and rules, the process forgets them.             *)
(***************************************************************************)
EXTENDS Integers, Sequences, FiniteSets, SequencesExt

CONSTANTS
    Ifs,           \* interface names bnet0, bnet1, ...
    Probe,         \* bn-probe0
    Ports,         \* ports a scope may name
    All,           \* the scope "all"
    Scopes,        \* exposure scopes
    Expose,        \* the configured one (--expose)
    None,          \* no rules, no link
    MaxFaults,     \* netlink requests that fail
    MaxKills,      \* times the daemon is killed
    MaxReloads     \* scope changes by SIGHUP

ASSUME NamesAssumption == Probe \notin Ifs /\ None \notin Scopes /\ Expose \in Scopes

ASSUME ScopesAssumption == Scopes \subseteq (SUBSET Ports) \cup {All} /\ "forwarded" \notin Ports

ASSUME FaultsAssumption == {MaxFaults, MaxKills, MaxReloads} \subseteq Nat

VARIABLES
    scopes, order,     \* internal/nft: desired scope per interface, rule order
    table,             \* kernel: what inet buddynet lets pass from each interface
    link,              \* kernel: None, or [run, has, shaken, left] per name
    work,              \* per interface: [pc, scope]
    cell,              \* the supervisor's scope cell of each worker
    ctx,               \* the daemon is told to stop
    run,               \* how often the daemon was killed
    reloads,
    faults

nft == <<scopes, order, table>>
rest == <<cell, ctx, run, reloads>>
vars == <<nft, link, work, rest, faults>>

Names == Ifs \cup {Probe}

\* What Up configures on a new link, in this order.
Steps == <<"device", "address", "up", "route">>

\* A link: the run that created it, what is configured, a handshake time for its
\* peer; left behind, if the request to delete it failed.
Links == [run : Nat, has : SUBSET Range(Steps), shaken : BOOLEAN, left : BOOLEAN]

ASSUME NoLinkAssumption == None \notin Links

Waiting == [pc |-> "idle", scope |-> None]

Init ==
    /\ scopes = [i \in Ifs |-> None]
    /\ order = <<>>
    /\ table = [i \in Ifs |-> None]
    /\ link = [n \in Names |-> None]
    /\ work = [i \in Ifs |-> Waiting]
    /\ cell = [i \in Ifs |-> Expose]
    /\ ctx = FALSE
    /\ run = 0 /\ reloads = 0 /\ faults = 0

Goto(i, pc) == work' = [work EXCEPT ![i].pc = pc]
Works == UNCHANGED faults
Fault == faults < MaxFaults /\ faults' = faults + 1

-----------------------------------------------------------------------------
(* internal/nft: every change rebuilds the whole table in one batch.       *)

\* What arrives from a buddy's interface, the last of it for another host.
Traffic == {"established", "icmp", "other"} \cup Ports \cup {"forwarded"}

\* What the input rules for a scope let pass: return traffic, the exposed ports
\* and ping before the final drop; for "all" there is no rule.
ruleExprs(s) == IF s = All THEN Traffic \ {"forwarded"} ELSE {"established", "icmp"} \cup s

\* The forward rule drops everything, whatever the scope.
forwardExprs == {}

Rules == {ruleExprs(s) \cup forwardExprs : s \in Scopes}

ASSUME NoRulesAssumption == None \notin Rules

\* buildBatch: the interfaces in the order, each with its rules; none, no table.
buildBatch(sc, ord) ==
    [i \in Ifs |-> IF Contains(ord, i) /\ sc[i] # None THEN ruleExprs(sc[i]) \cup forwardExprs ELSE None]

\* What passes from an interface: the chains' policy is accept.
Passes(i) == IF table[i] = None THEN Traffic ELSE table[i]

\* sendBatch: the kernel takes all of it, or refuses; or takes it and the answer
\* does not come in time.
sendBatch(sc, ord) ==
    \/ table' = buildBatch(sc, ord) /\ Works
    \/ table' \in {table, buildBatch(sc, ord)} /\ Fault

\* The order without its entry for an interface: Apply appends one only where
\* there was no scope, so there is no second.
Without(i) == RemoveAt(order, CHOOSE k \in DOMAIN order : order[k] = i)

\* Variant: a failed Apply forgets the interface although it had a scope.
ApplyForgets(i, s) ==
    LET sc == [scopes EXCEPT ![i] = s]
        ord == IF scopes[i] = None THEN Append(order, i) ELSE order
    IN  /\ sendBatch(sc, ord)
        /\ IF faults' = faults THEN scopes' = sc /\ order' = ord
           ELSE /\ scopes' = [scopes EXCEPT ![i] = None]
                /\ order' = SelectSeq(order, LAMBDA j : j # i)

\* Apply: on an error the previous scope is put back.
Apply(i, s) ==
    LET sc == [scopes EXCEPT ![i] = s]
        ord == IF scopes[i] = None THEN Append(order, i) ELSE order
    IN  /\ sendBatch(sc, ord)
        /\ IF faults' = faults THEN scopes' = sc /\ order' = ord
           ELSE UNCHANGED <<scopes, order>>

\* Remove: the interface is forgotten whatever the kernel answers.
RemoveRules(i) ==
    LET sc == [scopes EXCEPT ![i] = None]
        ord == Without(i)
    IN  IF scopes[i] = None THEN UNCHANGED nft /\ Works
        ELSE sendBatch(sc, ord) /\ scopes' = sc /\ order' = ord

-----------------------------------------------------------------------------
(* internal/wg: links.                                                     *)

New == [run |-> run, has |-> {}, shaken |-> FALSE, left |-> FALSE]

Gone(n) == link' = [link EXCEPT ![n] = None]

\* Variant: a link of that name that is still there is taken over.
Adopt(n) ==
    link' = [link EXCEPT ![n] = IF @ = None THEN New ELSE [@ EXCEPT !.has = {}]]

\* createLink, where there is none of that name (NLM_F_EXCL).
Create(n) ==
    /\ link[n] = None
    /\ link' = [link EXCEPT ![n] = New]

\* createLink fails: the name is taken, or the request failed.
CreateFails(n) == (link[n] # None /\ Works) \/ Fault

\* Available, three requests under one name that all workers share.
probeClears(i) ==
    /\ work[i].pc = "idle" /\ ~ctx
    /\ \/ Gone(Probe) /\ Works
       \/ UNCHANGED link /\ Fault
    /\ work' = [work EXCEPT ![i] = [pc |-> "probe", scope |-> cell[i]]]
    /\ UNCHANGED <<nft, rest>>

probeCreates(i) ==
    /\ work[i].pc = "probe"
    /\ \/ Create(Probe) /\ Works /\ Goto(i, "probed")
       \/ CreateFails(Probe) /\ UNCHANGED link /\ work' = [work EXCEPT ![i] = Waiting]
    /\ UNCHANGED <<nft, rest>>

probeDeletes(i) ==
    /\ work[i].pc = "probed"
    /\ \/ Gone(Probe) /\ Works
       \/ UNCHANGED link /\ Fault
    /\ Goto(i, "primed")
    /\ UNCHANGED <<nft, rest>>

\* The path is primed and the buddy verified (module Connect), or not.
pathFails(i) ==
    /\ work[i].pc = "primed"
    /\ work' = [work EXCEPT ![i] = Waiting]
    /\ UNCHANGED <<nft, link, rest, faults>>

-----------------------------------------------------------------------------
(* runWG: rules, then link, then the handshake; taken back in reverse.     *)

applyScope(i) ==
    /\ work[i].pc = "primed"
    /\ Apply(i, work[i].scope)
    /\ work' = [work EXCEPT ![i] = [Waiting EXCEPT !.pc = IF faults' = faults THEN "scoped" ELSE "idle"]]
    /\ UNCHANGED <<link, rest>>

\* Up refuses the configuration before it touches the kernel.
UpRejects(i) ==
    /\ work[i].pc = "scoped"
    /\ Goto(i, "unscope")
    /\ UNCHANGED <<nft, link, rest, faults>>

\* Up: a link left by an earlier run is deleted; whether that works is not
\* looked at.
UpClears(i) ==
    /\ work[i].pc = "scoped"
    /\ \/ Gone(i) /\ Works
       \/ UNCHANGED link /\ Fault
    /\ Goto(i, "cleared")
    /\ UNCHANGED <<nft, rest>>

UpCreates(i) ==
    /\ work[i].pc = "cleared"
    /\ \/ Create(i) /\ Works /\ Goto(i, Steps[1])
       \/ CreateFails(i) /\ UNCHANGED link /\ Goto(i, "unscope")
    /\ UNCHANGED <<nft, rest>>

\* Variant: a failed step returns without taking the link down.
UpConfiguresLeaves(i) ==
    \E n \in DOMAIN Steps :
        LET done == [link EXCEPT ![i].has = @ \cup {Steps[n]}]
        IN  /\ work[i].pc = Steps[n]
            /\ \/ /\ link' = done /\ Works
                  /\ Goto(i, IF n = Len(Steps) THEN "confirm" ELSE Steps[n + 1])
               \/ link' \in {link, done} /\ Fault /\ Goto(i, "unscope")
            /\ UNCHANGED <<nft, rest>>

\* setDevice, addrAdd, setLinkUp, routeAdd; a failure takes the link down.
UpConfigures(i) ==
    \E n \in DOMAIN Steps :
        LET done == [link EXCEPT ![i].has = @ \cup {Steps[n]}]
        IN  /\ work[i].pc = Steps[n]
            /\ \/ /\ link' = done /\ Works
                  /\ Goto(i, IF n = Len(Steps) THEN "confirm" ELSE Steps[n + 1])
               \/ link' \in {link, done} /\ Fault /\ Goto(i, "down")
            /\ UNCHANGED <<nft, rest>>

\* The kernel completes a handshake with the holder of the peer's key.
handshake(i) ==
    /\ link[i] # None
    /\ {"device", "up"} \subseteq link[i].has /\ ~link[i].shaken
    /\ link' = [link EXCEPT ![i].shaken = TRUE]
    /\ UNCHANGED <<nft, work, rest, faults>>

\* Handshaked: the dump of the device shows a handshake time for the peer.
Handshaked(i) == link[i].shaken

\* ConfirmHandshake: there is a handshake time; or the wait times out, is
\* cancelled, or the dump fails.
ConfirmHandshake(i) ==
    /\ work[i].pc = "confirm"
    /\ \/ Handshaked(i) /\ Goto(i, "live")
       \/ Goto(i, "down")
    /\ UNCHANGED <<nft, link, rest, faults>>

\* Shutdown, --reauth-interval, or the session could not be stored.
tunnelEnds(i) ==
    /\ work[i].pc = "live"
    /\ Goto(i, "down")
    /\ UNCHANGED <<nft, link, rest, faults>>

\* teardown, by the index of the link; its error is discarded.
takeDown(i) ==
    /\ work[i].pc = "down"
    /\ \/ Gone(i) /\ Works
       \/ link' = [link EXCEPT ![i].left = TRUE] /\ Fault
    /\ Goto(i, "unscope")
    /\ UNCHANGED <<nft, rest>>

\* The deferred removeScope.
removeScope(i) ==
    /\ work[i].pc = "unscope"
    /\ RemoveRules(i)
    /\ work' = [work EXCEPT ![i] = Waiting]
    /\ UNCHANGED <<link, rest>>

-----------------------------------------------------------------------------

\* SIGHUP with a changed scope: the cell, then the live rules; a failure is
\* logged.
reprogramScope(i, s) ==
    /\ ~ctx
    /\ reloads < MaxReloads /\ reloads' = reloads + 1
    /\ cell[i] # s /\ cell' = [cell EXCEPT ![i] = s]
    /\ Apply(i, s)
    /\ UNCHANGED <<link, work, ctx, run>>

Stop ==
    /\ ~ctx /\ ctx' = TRUE
    /\ UNCHANGED <<nft, link, work, cell, run, reloads, faults>>

\* SIGKILL and a new start: the kernel's state is all that is left.
Kill ==
    /\ run < MaxKills /\ run' = run + 1
    /\ scopes' = [i \in Ifs |-> None] /\ order' = <<>>
    /\ work' = [i \in Ifs |-> Waiting]
    /\ ctx' = FALSE
    /\ UNCHANGED <<table, link, cell, reloads, faults>>

runWG(i) ==
    \/ probeClears(i) \/ probeCreates(i) \/ probeDeletes(i) \/ pathFails(i)
    \/ applyScope(i) \/ UpRejects(i) \/ UpClears(i) \/ UpCreates(i)
    \/ UpConfigures(i) \/ ConfirmHandshake(i) \/ takeDown(i) \/ removeScope(i)

Next ==
    \/ \E i \in Ifs : runWG(i) \/ tunnelEnds(i) \/ handshake(i)
    \/ \E i \in Ifs, s \in Scopes : reprogramScope(i, s)
    \/ Stop \/ Kill

\* A worker's requests return and its waits time out; a cancelled context ends
\* the tunnel.
Spec ==
    /\ Init /\ [][Next]_vars
    /\ \A i \in Ifs : WF_vars(runWG(i)) /\ WF_vars(ctx /\ tunnelEnds(i))

-----------------------------------------------------------------------------

TypeOK ==
    /\ scopes \in [Ifs -> Scopes \cup {None}]
    /\ order \in Seq(Ifs)
    /\ table \in [Ifs -> Rules \cup {None}]
    /\ link \in [Names -> Links \cup {None}]
    /\ work \in [Ifs -> [pc : {"idle", "probe", "probed", "primed", "scoped", "cleared",
                               "confirm", "live", "down", "unscope"} \cup Range(Steps),
                         scope : Scopes \cup {None}]]
    /\ cell \in [Ifs -> Scopes]
    /\ ctx \in BOOLEAN /\ run \in Nat /\ reloads \in Nat /\ faults \in Nat

\* A link of this run of the daemon that was not left behind.
Own(i) == link[i] # None /\ link[i].run = run /\ ~link[i].left

\* From a link this run of the daemon created nothing is ever forwarded, and in
\* comes exactly what one of the configured scopes admits, through failed batches
\* and lost acks, live scope changes, and the other interfaces' changes, each of
\* which rebuilds the whole table.  The rules outlive the link unless the kernel
\* refuses to delete it (down's error is discarded, the rules are removed).
OwnLinksScoped ==
    \A i \in Ifs : Own(i) =>
        "forwarded" \notin Passes(i) /\ \E s \in Scopes : Passes(i) = ruleExprs(s)

\* A tunnel counts as up only on a link that this run created and configured
\* completely, after a handshake on that very link: a timestamp on a link an
\* earlier run left behind is never taken for one.
HandshakeFresh ==
    \A i \in Ifs : work[i].pc = "live" =>
        /\ link[i] # None
        /\ link[i] = [run |-> run, has |-> Range(Steps), shaken |-> TRUE, left |-> FALSE]

\* A daemon told to stop takes down every link it created, wherever each worker
\* was in its bring-up and whatever failed, and stays without: what is left is
\* what the kernel refused to delete.
LinksTakenDown ==
    (ctx /\ run = MaxKills) ~> [](\A i \in Ifs : work[i].pc = "idle" /\ ~Own(i))

\* "there is never a window of whole-host access": every link that is up has
\* rules of its own, also one an earlier run left behind.
EveryLinkScoped ==
    \A i \in Ifs : link[i] # None /\ "up" \in link[i].has => "forwarded" \notin Passes(i)

\* Available reports whether the host can bring WireGuard up: it does not fail
\* unless a request failed.
ProbeReliable ==
    [][\A i \in Ifs : work[i].pc = "probe" /\ work'[i].pc = "idle" =>
            faults' # faults \/ run' # run]_vars
=============================================================================
