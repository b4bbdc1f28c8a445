----------------------------- MODULE Supervisor -----------------------------
(***************************************************************************)
(* The multi-peer supervisor (internal/role/supervisor.go) with WireGuard  *)
(* workers (peerLoop, runWG): one worker per buddy, started and stopped by *)
(* a SIGHUP reload, each owning the interface bnet<i> of its index and the *)
(* nftables rules that scope it.                                           *)
(*                                                                         *)
(* The supervisor's maps live in one goroutine, so each branch of its      *)
(* select is one step.  A worker is named by its generation.               *)
(***************************************************************************)
EXTENDS Integers, Sequences, FiniteSets, Functions

CONSTANTS
  Keys,        \* the buddies' public keys
  Scopes,      \* exposure scopes
  None,        \* an absent map entry, a key the manifest does not list
  MaxStarts,   \* bound on the number of workers ever started
  ExitedCap,   \* the buffer of the exited channel
  Patient      \* TRUE: the operator lists a removed buddy again only once its worker has ended

ASSUME SupervisorAssumption ==
  /\ MaxStarts \in Nat /\ ExitedCap \in Nat
  /\ Patient \in BOOLEAN
  /\ IsFiniteSet(Keys)
  /\ None \notin Keys \cup Scopes \cup 0 .. MaxStarts

Gens == 1 .. MaxStarts
Indices == 0 .. MaxStarts - 1

VARIABLES
  manifest,    \* what assemblePeers would return: key -> scope, or None
  hup,         \* a SIGHUP waits in the 1-buffered reload channel
  ctx,         \* the supervisor's context is cancelled
  sup,         \* "init", "loop", "draining", "returned"
  gen,         \* the generation counter
  running,     \* running: key -> generation of its handle, or None
  spec,        \* the scope in a handle's spec, for change detection
  ifIndexOf,   \* key -> interface index, or None
  exited,      \* the exited channel
  worker,      \* generation -> its worker
  nft,         \* index -> the scope programmed for bnet<i>, or None
  iface        \* index -> the worker whose link bnet<i> exists, or None

maps == <<gen, running, spec, ifIndexOf>>
kernel == <<nft, iface>>
vars == <<manifest, hup, ctx, sup, maps, exited, worker, kernel>>

(* A worker: its place, its own cancellation, its scope cell, and the scope
   that the attempt in progress was built with. *)
Worker == [key: Keys \cup {None}, idx: Indices \cup {None},
           at: {"unborn", "ready", "dialing", "scoped", "up", "downed", "backoff",
                "returned", "done"},
           cancelled: BOOLEAN, cell: Scopes \cup {None}, att: Scopes \cup {None}]

Unborn == [key |-> None, idx |-> None, at |-> "unborn", cancelled |-> FALSE,
           cell |-> None, att |-> None]

Started == {g \in Gens : worker[g].at # "unborn"}

TypeOK ==
  /\ manifest \in [Keys -> Scopes \cup {None}]
  /\ hup \in BOOLEAN /\ ctx \in BOOLEAN
  /\ sup \in {"init", "loop", "draining", "returned"}
  /\ gen \in 0 .. MaxStarts
  /\ running \in [Keys -> Gens \cup {None}]
  /\ spec \in [Keys -> Scopes \cup {None}]
  /\ ifIndexOf \in [Keys -> Indices \cup {None}]
  /\ exited \in Seq(Gens) /\ Len(exited) <= ExitedCap
  /\ worker \in [Gens -> Worker]
  /\ nft \in [Indices -> Scopes \cup {None}]
  /\ iface \in [Indices -> Gens \cup {None}]

Init ==
  /\ manifest \in [Keys -> Scopes \cup {None}]
  /\ hup = FALSE /\ ctx = FALSE /\ sup = "init"
  /\ gen = 0
  /\ running = [k \in Keys |-> None]
  /\ spec = [k \in Keys |-> None]
  /\ ifIndexOf = [k \in Keys |-> None]
  /\ exited = <<>>
  /\ worker = [g \in Gens |-> Unborn]
  /\ nft = [i \in Indices |-> None]
  /\ iface = [i \in Indices |-> None]

-----------------------------------------------------------------------------
(* The operator *)

EditManifest(k, s) ==
  /\ s # manifest[k]
  /\ Patient /\ manifest[k] = None =>
       \A g \in Started : worker[g].key = k /\ worker[g].cancelled => worker[g].at = "done"
  /\ manifest' = [manifest EXCEPT ![k] = s]
  /\ UNCHANGED <<hup, ctx, sup, maps, exited, worker, kernel>>

SendHup ==
  /\ ~hup
  /\ hup' = TRUE
  /\ UNCHANGED <<manifest, ctx, sup, maps, exited, worker, kernel>>

Cancel ==
  /\ ~ctx
  /\ ctx' = TRUE
  /\ UNCHANGED <<manifest, hup, sup, maps, exited, worker, kernel>>

-----------------------------------------------------------------------------
(* The supervisor *)

IndicesFromZero(n) == 0 .. n - 1   \* mutant: indices in use are not skipped

(* The n lowest indices no key holds: what n calls of allocIf hand out. *)
LowestFree(n) ==
  LET free == Indices \ Range(ifIndexOf)
  IN  {i \in free : Cardinality({j \in free : j < i}) < n}

(* start, called for each key of `new' in the order of a map iteration: a new
   generation, an index (the one the key still holds, or the lowest free), a
   cell with its scope. *)
StartAll(new, stop) ==
  LET unplaced == {k \in new : ifIndexOf[k] = None}
      born == gen + 1 .. gen + Cardinality(new)
  IN  \E g \in Bijection(new, born), ix \in Bijection(unplaced, LowestFree(Cardinality(unplaced))) :
        LET idx(k) == IF k \in unplaced THEN ix[k] ELSE ifIndexOf[k]
        IN  /\ gen' = gen + Cardinality(new)
            /\ running' = [k \in Keys |-> IF k \in new THEN g[k]
                                          ELSE IF k \in stop THEN None ELSE running[k]]
            /\ spec' = [k \in Keys |-> IF running'[k] # None THEN manifest[k] ELSE None]
            /\ ifIndexOf' = [k \in Keys |-> IF k \in new THEN idx(k) ELSE ifIndexOf[k]]
            /\ worker' = [w \in Gens |->
                 IF w \in born
                 THEN LET k == CHOOSE j \in new : g[j] = w
                      IN  [key |-> k, idx |-> idx(k), at |-> "ready", cancelled |-> FALSE,
                           cell |-> manifest[k], att |-> None]
                 ELSE IF \E k \in stop : running[k] = w THEN [worker[w] EXCEPT !.cancelled = TRUE]
                 ELSE IF \E k \in Keys \ stop : running[k] = w
                      THEN [worker[w] EXCEPT !.cell = manifest[worker[w].key]]
                 ELSE worker[w]]

(* supervise starts one worker per spec and enters its loop. *)
SuperviseStart ==
  LET new == {k \in Keys : manifest[k] # None}
  IN  /\ sup = "init"
      /\ Cardinality(new) <= MaxStarts
      /\ sup' = "loop"
      /\ StartAll(new, {})
      /\ UNCHANGED <<manifest, hup, ctx, exited, kernel>>

(* case <-reload: stop the workers no longer wanted, reprogram in place those
   whose scope changed (which may fail for some), start the missing ones. *)
Reload ==
  LET stop == {k \in Keys : running[k] # None /\ manifest[k] = None}
      new == {k \in Keys : running[k] = None /\ manifest[k] # None}
      changed == {k \in Keys : running[k] # None /\ manifest[k] # None /\ spec[k] # manifest[k]}
  IN  /\ sup = "loop" /\ hup
      /\ gen + Cardinality(new) <= MaxStarts
      /\ hup' = FALSE
      /\ StartAll(new, stop)
      /\ \E programmed \in SUBSET changed :
           nft' = [i \in Indices |->
                     IF \E k \in programmed : ifIndexOf[k] = i
                     THEN manifest[CHOOSE k \in programmed : ifIndexOf[k] = i]
                     ELSE nft[i]]
      /\ UNCHANGED <<manifest, ctx, sup, exited, iface>>

(* A manifest that does not load changes nothing. *)
ReloadFails ==
  /\ sup = "loop" /\ hup
  /\ hup' = FALSE
  /\ UNCHANGED <<manifest, ctx, sup, maps, exited, worker, kernel>>

AnyExitIsCurrent(g) == running[worker[g].key] # None   \* mutant: no generation check

(* The exit is from the instance the map holds, not from one already replaced. *)
ExitIsCurrent(g) == running[worker[g].key] = g

(* The interface is torn down, so its index is free again. *)
IndexFreed(k) == [ifIndexOf EXCEPT ![k] = None]

(* case e := <-exited. *)
HandleExit ==
  /\ sup = "loop"
  /\ exited # <<>>
  /\ exited' = Tail(exited)
  /\ LET g == Head(exited)
         k == worker[g].key
     IN  IF ExitIsCurrent(g)
         THEN /\ running' = [running EXCEPT ![k] = None]
              /\ spec' = [spec EXCEPT ![k] = None]
              /\ ifIndexOf' = IndexFreed(k)
         ELSE UNCHANGED <<running, spec, ifIndexOf>>
  /\ UNCHANGED <<manifest, hup, ctx, sup, gen, worker, kernel>>

(* case <-ctx.Done(): wait for the workers, receiving nothing any more. *)
BeginDrain ==
  /\ sup = "loop" /\ ctx
  /\ sup' = "draining"
  /\ UNCHANGED <<manifest, hup, ctx, maps, exited, worker, kernel>>

Drained ==
  /\ sup = "draining"
  /\ \A g \in Started : worker[g].at = "done"
  /\ sup' = "returned"
  /\ UNCHANGED <<manifest, hup, ctx, maps, exited, worker, kernel>>

-----------------------------------------------------------------------------
(* Worker g: peerLoop around runWG *)

Stopped(g) == worker[g].cancelled \/ ctx
idle == <<manifest, hup, ctx, sup, maps>>

Go(g, from, to) ==
  /\ worker[g].at = from
  /\ worker' = [worker EXCEPT ![g].at = to]

(* The attempt source reads the cell once; the attempt carries that scope. *)
Attempt(g) ==
  /\ worker[g].at = "ready"
  /\ worker' = [worker EXCEPT ![g].at = "dialing", ![g].att = worker[g].cell]
  /\ UNCHANGED <<idle, exited, kernel>>

(* The attempt source refuses: revoked, or no session and no token. *)
SourceRefuses(g) == Go(g, "ready", "returned") /\ UNCHANGED <<idle, exited, kernel>>

(* Registration, the chain or the rules failed. *)
DialFails(g) == Go(g, "dialing", "backoff") /\ UNCHANGED <<idle, exited, kernel>>

(* applyScope, before the interface exists. *)
ApplyScope(g) ==
  /\ Go(g, "dialing", "scoped")
  /\ nft' = [nft EXCEPT ![worker[g].idx] = worker[g].att]
  /\ UNCHANGED <<idle, exited, iface>>

(* wg.Up deletes any link of that name and creates its own. *)
BringUp(g) ==
  /\ Go(g, "scoped", "up")
  /\ iface' = [iface EXCEPT ![worker[g].idx] = g]
  /\ UNCHANGED <<idle, exited, nft>>

(* wg.Up failed. *)
BringUpFails(g) == Go(g, "scoped", "downed") /\ UNCHANGED <<idle, exited, kernel>>

(* The context ended, the handshake was not confirmed, or re-authentication is
   due: the deferred down deletes the link this worker created. *)
TakeDown(g) ==
  /\ Go(g, "up", "downed")
  /\ iface' = [iface EXCEPT ![worker[g].idx] = IF @ = g THEN None ELSE @]
  /\ UNCHANGED <<idle, exited, nft>>

(* The deferred removeScope, by interface name. *)
RemoveScope(g) ==
  /\ Go(g, "downed", "backoff")
  /\ nft' = [nft EXCEPT ![worker[g].idx] = None]
  /\ UNCHANGED <<idle, exited, iface>>

RetriesForever(g) == Go(g, "backoff", "ready") /\ UNCHANGED <<idle, exited, kernel>>   \* mutant

(* After a run peerLoop returns if the context ended, else waits and retries. *)
BackoffEnds(g) ==
  /\ Go(g, "backoff", IF Stopped(g) THEN "returned" ELSE "ready")
  /\ UNCHANGED <<idle, exited, kernel>>

(* exited <- exit{key, g}, which blocks on a full channel; then wg.Done. *)
SendExit(g) ==
  /\ Len(exited) < ExitedCap
  /\ Go(g, "returned", "done")
  /\ exited' = Append(exited, g)
  /\ UNCHANGED <<idle, kernel>>

WorkerStep(g) ==
  \/ Attempt(g) \/ SourceRefuses(g) \/ DialFails(g) \/ ApplyScope(g) \/ BringUp(g)
  \/ BringUpFails(g) \/ TakeDown(g) \/ RemoveScope(g) \/ BackoffEnds(g) \/ SendExit(g)

-----------------------------------------------------------------------------
Operator == (\E k \in Keys, s \in Scopes \cup {None} : EditManifest(k, s)) \/ SendHup \/ Cancel

Supervise == SuperviseStart \/ Reload \/ ReloadFails \/ HandleExit \/ BeginDrain \/ Drained

Next == Operator \/ Supervise \/ \E g \in Gens : WorkerStep(g)

Spec == Init /\ [][Next]_vars

(* Goroutines are scheduled and every blocking call of a worker returns: dials
   have timeouts, and a link that is up comes down once the context ended. *)
Fairness ==
  /\ WF_vars(HandleExit) /\ WF_vars(BeginDrain) /\ WF_vars(Drained)
  /\ \A g \in Gens :
       /\ WF_vars(Attempt(g) \/ SourceRefuses(g))
       /\ WF_vars(DialFails(g) \/ ApplyScope(g))
       /\ WF_vars(BringUp(g) \/ BringUpFails(g))
       /\ WF_vars(Stopped(g) /\ TakeDown(g))
       /\ WF_vars(RemoveScope(g)) /\ WF_vars(BackoffEnds(g)) /\ WF_vars(SendExit(g))

FairSpec == Spec /\ Fairness

-----------------------------------------------------------------------------
(* Properties *)

(* The worker still has an exit to deliver, or lies in the channel. *)
Pending(g) == worker[g].at # "done" \/ \E i \in DOMAIN exited : exited[i] = g

(* The map never loses a worker: one that a reload did not stop, and whose
   exit was not yet handled, is the one `running' holds for its key.  So no
   stale exit displaces a newer instance, and a key has one live worker. *)
NoOrphan ==
  \A g \in Started : ~worker[g].cancelled /\ Pending(g) => running[worker[g].key] = g

(* Running buddies have distinct interface indices, each the index its worker
   was started with. *)
IndicesDistinct ==
  \A k \in Keys : running[k] # None =>
    /\ worker[running[k]].idx = ifIndexOf[k]
    /\ \A j \in Keys \ {k} : ifIndexOf[j] # ifIndexOf[k]

(* Workers that hold kernel state under their interface name. *)
Holding(g) == worker[g].at \in {"scoped", "up", "downed"}

(* The comment on ifIndexOf: a reused index never collides with an interface
   still being removed. *)
InterfaceExclusive ==
  \A g, h \in Started : g # h /\ worker[g].idx = worker[h].idx => ~(Holding(g) /\ Holding(h))

(* runWG scopes an interface before it exists and unscopes it after it is
   gone: a link is never up without rules. *)
NeverUnscoped == \A i \in Indices : iface[i] # None => nft[i] # None

(* A worker a reload stopped comes to its end. *)
StoppedWorkersEnd ==
  \A g \in Gens : worker[g].cancelled ~> worker[g].at = "done"

(* supervise returns once the context is cancelled and every worker drained. *)
ShutdownDrains == (ctx /\ sup # "init") ~> sup = "returned"

(* The comment on reprogramScope: rules programmed while the interface is down
   do not matter, because the next bring-up applies the worker's cell.  So a
   link comes up with the scope that its cell holds. *)
BroughtUpWithCell ==
  [][\A g \in Gens : worker[g].at = "scoped" /\ worker'[g].at = "up" /\ ~worker[g].cancelled
       => worker[g].att = worker[g].cell]_vars

=============================================================================
