-------------------------- MODULE SupervisorProofs --------------------------
(***************************************************************************)
(* Proofs for Supervisor, for any buddies, scopes, reloads and starts.     *)
(* NoOrphan is inductive only with what ties the maps to the workers:      *)
(* generations are handed out in order, a handle names a worker of its key *)
(* that no reload stopped, and an exit lies in the channel once, sent by a *)
(* worker that is done.  Two workers share no interface because a key      *)
(* keeps its index while a worker of it is alive, and has one live worker. *)
(***************************************************************************)
EXTENDS Supervisor, FiniteSetTheorems, TLAPS

(* Time for the larger leaves. *)
USE SMTT(20), ZenonT(30)

(* Generation g has been handed out exactly when g is at most gen. *)
BornInOrder == \A g \in Gens : worker[g].at = "unborn" <=> g > gen

(* A worker was started for a listed buddy, with an index and a scope. *)
WellBorn ==
  \A g \in Started : /\ worker[g].key \in Keys /\ worker[g].idx \in Indices
                     /\ worker[g].cell \in Scopes
                     /\ worker[g].at \in {"dialing", "scoped"} => worker[g].att \in Scopes

(* Before its first spec the supervisor has no handle and no worker. *)
NothingYet ==
  sup = "init" => gen = 0 /\ \A k \in Keys : running[k] = None /\ ifIndexOf[k] = None

(* A handle is of a worker for its key that no reload stopped, and the key
   holds that worker's index. *)
HandleSound ==
  \A k \in Keys : running[k] # None =>
    LET g == running[k]
    IN  /\ g \in Started
        /\ worker[g].key = k /\ ~worker[g].cancelled
        /\ ifIndexOf[k] = worker[g].idx

(* An exit is sent once, by a worker that is done. *)
ExitsSound ==
  \A i \in DOMAIN exited :
    /\ worker[exited[i]].at = "done"
    /\ \A j \in DOMAIN exited : exited[i] = exited[j] => i = j

(* No two keys hold the same index. *)
IndexedApart ==
  \A j, k \in Keys : ifIndexOf[j] # None /\ ifIndexOf[j] = ifIndexOf[k] => j = k

SupInv ==
  /\ TypeOK /\ BornInOrder /\ WellBorn /\ NothingYet /\ HandleSound /\ ExitsSound
  /\ IndexedApart /\ NoOrphan

Alive(g) == worker[g].at \notin {"unborn", "done"}

(* A buddy whose stopped worker is still alive stays unlisted, and is not
   started again. *)
StoppedStaysOut ==
  \A g \in Gens : Alive(g) /\ worker[g].cancelled =>
    manifest[worker[g].key] = None /\ running[worker[g].key] = None

(* A key has one live worker, and keeps that worker's index. *)
OneLivePerKey ==
  \A g \in Gens : Alive(g) =>
    /\ ifIndexOf[worker[g].key] = worker[g].idx
    /\ \A h \in Gens : Alive(h) /\ worker[h].key = worker[g].key => h = g

(* A link is there exactly while its worker is up, and from the rules to their
   removal the interface is scoped. *)
LinksSound ==
  /\ \A i \in Indices : iface[i] # None =>
       worker[iface[i]].at = "up" /\ worker[iface[i]].idx = i
  /\ \A g \in Gens : worker[g].at \in {"scoped", "up"} => nft[worker[g].idx] # None

PatientInv == SupInv /\ StoppedStaysOut /\ OneLivePerKey /\ LinksSound

(* What start, called for a set of keys, leaves behind: each key has a handle
   on a generation of its own, an index that was its own or free, and a worker
   that is ready; the other workers are stopped, refreshed or left alone. *)
LEMMA StartFacts ==
  ASSUME TypeOK, NEW new \in SUBSET Keys, NEW stop \in SUBSET Keys,
         gen + Cardinality(new) <= MaxStarts, StartAll(new, stop)
  PROVE  /\ gen' \in Nat /\ gen <= gen' /\ gen' <= MaxStarts
         /\ running' \in [Keys -> Gens \cup {None}]
         /\ spec' \in [Keys -> Scopes \cup {None}]
         /\ ifIndexOf' \in [Keys -> Indices \cup {None}]
         /\ \A k \in Keys \ new :
              /\ running'[k] = IF k \in stop THEN None ELSE running[k]
              /\ ifIndexOf'[k] = ifIndexOf[k]
         /\ \A k \in new :
              /\ running'[k] \in gen + 1 .. gen'
              /\ ifIndexOf'[k] \in Indices
              /\ worker'[running'[k]] =
                   [key |-> k, idx |-> ifIndexOf'[k], at |-> "ready", cancelled |-> FALSE,
                    cell |-> manifest[k], att |-> None]
              /\ ifIndexOf[k] # None => ifIndexOf'[k] = ifIndexOf[k]
              /\ ifIndexOf[k] = None => \A j \in Keys : ifIndexOf[j] # ifIndexOf'[k]
         /\ \A j, k \in new :
              ifIndexOf[j] = None /\ ifIndexOf[k] = None /\ ifIndexOf'[j] = ifIndexOf'[k] => j = k
         /\ \A w \in gen + 1 .. gen' : \E k \in new : running'[k] = w
         /\ DOMAIN worker' = Gens
         /\ \A w \in Gens : w \notin gen + 1 .. gen' =>
              /\ (\E k \in stop : running[k] = w) =>
                   worker'[w] = [worker[w] EXCEPT !.cancelled = TRUE]
              /\ ~(\E k \in stop : running[k] = w) =>
                   \/ worker'[w] = worker[w]
                   \/ /\ \E k \in Keys \ stop : running[k] = w
                      /\ worker'[w] = [worker[w] EXCEPT !.cell = manifest[worker[w].key]]
<1> DEFINE unplaced == {k \in new : ifIndexOf[k] = None}
           born == gen + 1 .. gen + Cardinality(new)
           free == Indices \ Range(ifIndexOf)
<1>1. PICK g \in Bijection(new, born),
           ix \in Bijection(unplaced, LowestFree(Cardinality(unplaced))) :
        LET idx(k) == IF k \in unplaced THEN ix[k] ELSE ifIndexOf[k]
        IN  /\ gen' = gen + Cardinality(new)
            /\ running' = [k \in Keys |-> IF k \in new THEN g[k]
                                          ELSE IF k \in stop THEN None ELSE running[k]]
            /\ spec' = [k \in Keys |-> IF running'[k] # None THEN manifest[k] ELSE None]
            /\ ifIndexOf' = [k \in Keys |-> IF k \in new THEN idx(k) ELSE ifIndexOf[k]]
            /\ worker' = [w \in Gens |->
                 IF w \in born
                 THEN LET k == CHOOSE j \in new : g[j] = w
                      IN  [key |-> k, idx |-> idx(k), at |-> "ready", cancelled |-> FALSE,
                           cell |-> manifest[k], att |-> None]
                 ELSE IF \E k \in stop : running[k] = w THEN [worker[w] EXCEPT !.cancelled = TRUE]
                 ELSE IF \E k \in Keys \ stop : running[k] = w
                      THEN [worker[w] EXCEPT !.cell = manifest[worker[w].key]]
                 ELSE worker[w]]
  BY Zenon DEF StartAll
<1>2. gen \in Nat /\ Cardinality(new) \in Nat /\ MaxStarts \in Nat
  BY SupervisorAssumption, FS_Subset, FS_CardinalityType DEF TypeOK
<1>3. /\ g \in [new -> born]
      /\ \A j, k \in new : g[j] = g[k] => j = k
      /\ \A w \in born : \E k \in new : g[k] = w
  BY DEF Bijection, Injection, Surjection, IsInjective
<1>4. LowestFree(Cardinality(unplaced)) \subseteq free
  BY DEF LowestFree
<1>5. /\ ix \in [unplaced -> free]
      /\ \A j, k \in unplaced : ix[j] = ix[k] => j = k
  BY <1>4 DEF Bijection, Injection, IsInjective
<1>6. free \subseteq Indices /\ \A j \in Keys : ifIndexOf[j] \notin free
  BY DEF Range, TypeOK
<1>7. gen' \in Nat /\ gen <= gen' /\ gen' <= MaxStarts /\ born = gen + 1 .. gen' /\ born \subseteq Gens
  BY <1>1, <1>2 DEF Gens
<1> HIDE DEF born, free
<1>8. /\ running' \in [Keys -> Gens \cup {None}]
      /\ \A k \in new : running'[k] = g[k] /\ g[k] \in born
      /\ \A k \in Keys \ new : running'[k] = IF k \in stop THEN None ELSE running[k]
  BY <1>1, <1>3, <1>7 DEF TypeOK
<1>9. spec' \in [Keys -> Scopes \cup {None}]
  BY <1>1 DEF TypeOK
<1>10. /\ ifIndexOf' \in [Keys -> Indices \cup {None}]
       /\ \A k \in Keys \ new : ifIndexOf'[k] = ifIndexOf[k]
       /\ \A k \in new : ifIndexOf'[k] = IF k \in unplaced THEN ix[k] ELSE ifIndexOf[k]
  BY <1>1, <1>5, <1>6 DEF TypeOK
<1>11. \A k \in new : /\ ifIndexOf'[k] \in Indices
                      /\ ifIndexOf[k] # None => ifIndexOf'[k] = ifIndexOf[k]
                      /\ ifIndexOf[k] = None => \A j \in Keys : ifIndexOf[j] # ifIndexOf'[k]
  BY <1>5, <1>6, <1>10 DEF TypeOK
<1>12. \A j, k \in new :
         ifIndexOf[j] = None /\ ifIndexOf[k] = None /\ ifIndexOf'[j] = ifIndexOf'[k] => j = k
  BY <1>5, <1>10
<1>13. \A w \in born : \E k \in new : running'[k] = w
  BY <1>3, <1>8
<1>14. ASSUME NEW k \in new
       PROVE  worker'[running'[k]] =
                [key |-> k, idx |-> ifIndexOf'[k], at |-> "ready", cancelled |-> FALSE,
                 cell |-> manifest[k], att |-> None]
  <2>1. g[k] \in born /\ g[k] \in Gens /\ running'[k] = g[k]
    BY <1>7, <1>8
  <2>2. (CHOOSE j \in new : g[j] = g[k]) = k
    BY <1>3
  <2>3. QED
    BY ZenonT(30), <1>1, <1>10, <2>1, <2>2
<1>15. /\ DOMAIN worker' = Gens
       /\ \A w \in Gens : w \notin born =>
              /\ (\E k \in stop : running[k] = w) =>
                   worker'[w] = [worker[w] EXCEPT !.cancelled = TRUE]
              /\ ~(\E k \in stop : running[k] = w) =>
                   \/ worker'[w] = worker[w]
                   \/ /\ \E k \in Keys \ stop : running[k] = w
                      /\ worker'[w] = [worker[w] EXCEPT !.cell = manifest[worker[w].key]]
  BY <1>1
<1>16. QED
  BY <1>7, <1>8, <1>9, <1>10, <1>11, <1>12, <1>13, <1>14, <1>15

(* A step of worker g moves g alone: its key, index, cell and cancellation stay,
   an attempt starts with the cell's scope, and only its last step sends. *)
LEMMA WorkerMoves ==
  ASSUME TypeOK, NEW g \in Gens, WorkerStep(g)
  PROVE  /\ worker' \in [Gens -> Worker]
         /\ \A h \in Gens \ {g} : worker'[h] = worker[h]
         /\ worker'[g].key = worker[g].key /\ worker'[g].idx = worker[g].idx
         /\ worker'[g].cell = worker[g].cell /\ worker'[g].cancelled = worker[g].cancelled
         /\ worker[g].at \notin {"unborn", "done"} /\ worker'[g].at # "unborn"
         /\ worker'[g].at = "dialing" => worker'[g].att = worker[g].cell
         /\ worker'[g].at = "scoped" =>
              worker[g].at = "dialing" /\ worker'[g].att = worker[g].att
         /\ UNCHANGED <<manifest, hup, ctx, sup, gen, running, spec, ifIndexOf>>
         /\ worker'[g].at = "done" =>
              exited' = Append(exited, g) /\ Len(exited) < ExitedCap
         /\ worker'[g].at # "done" => exited' = exited
         /\ nft' \in [Indices -> Scopes \cup {None}]
         /\ iface' \in [Indices -> Gens \cup {None}]
<1> USE DEF TypeOK, Worker, Go, idle, maps, kernel
<1>1. CASE Attempt(g)
  BY ZenonT(30), <1>1 DEF Attempt
<1>2. CASE SourceRefuses(g)
  BY ZenonT(30), <1>2 DEF SourceRefuses
<1>3. CASE DialFails(g)
  BY ZenonT(30), <1>3 DEF DialFails
<1>4. CASE ApplyScope(g)
  BY Zenon, <1>4 DEF ApplyScope
<1>5. CASE BringUp(g)
  BY ZenonT(30), <1>5 DEF BringUp
<1>6. CASE BringUpFails(g)
  BY ZenonT(30), <1>6 DEF BringUpFails
<1>7. CASE TakeDown(g)
  BY ZenonT(30), <1>7 DEF TakeDown
<1>8. CASE RemoveScope(g)
  BY ZenonT(30), <1>8 DEF RemoveScope
<1>9. CASE BackoffEnds(g)
  <2> DEFINE next == IF Stopped(g) THEN "returned" ELSE "ready"
  <2>1. next \in {"returned", "ready"}
    OBVIOUS
  <2>2. /\ worker[g].at = "backoff" /\ worker' = [worker EXCEPT ![g].at = next]
        /\ UNCHANGED <<idle, exited, kernel>>
    BY <1>9 DEF BackoffEnds
  <2> HIDE DEF next
  <2>3. QED
    BY <2>1, <2>2
<1>10. CASE SendExit(g)
  BY ZenonT(30), <1>10 DEF SendExit
<1>11. QED
  BY ZenonT(30), <1>1, <1>2, <1>3, <1>4, <1>5, <1>6, <1>7, <1>8, <1>9, <1>10 DEF WorkerStep

(* The steps of a worker keep the supervisor's invariant. *)
LEMMA WorkerKeeps ==
  ASSUME SupInv, NEW g \in Gens, WorkerStep(g)
  PROVE  SupInv'
<1> USE DEF SupInv
<1>1. /\ worker' \in [Gens -> Worker]
      /\ \A h \in Gens \ {g} : worker'[h] = worker[h]
      /\ worker'[g].key = worker[g].key /\ worker'[g].idx = worker[g].idx
      /\ worker'[g].cell = worker[g].cell /\ worker'[g].cancelled = worker[g].cancelled
      /\ worker[g].at \notin {"unborn", "done"} /\ worker'[g].at # "unborn"
      /\ worker'[g].at = "dialing" => worker'[g].att = worker[g].cell
      /\ worker'[g].at = "scoped" =>
           worker[g].at = "dialing" /\ worker'[g].att = worker[g].att
      /\ UNCHANGED <<manifest, hup, ctx, sup, gen, running, spec, ifIndexOf>>
      /\ worker'[g].at = "done" => exited' = Append(exited, g) /\ Len(exited) < ExitedCap
      /\ worker'[g].at # "done" => exited' = exited
      /\ nft' \in [Indices -> Scopes \cup {None}]
      /\ iface' \in [Indices -> Gens \cup {None}]
  BY WorkerMoves
<1>2. exited \in Seq(Gens) /\ Len(exited) <= ExitedCap /\ ExitedCap \in Nat
  BY SupervisorAssumption DEF TypeOK
<1>3. exited' \in Seq(Gens) /\ Len(exited') <= ExitedCap
  BY <1>1, <1>2
<1>4. TypeOK'
  BY <1>1, <1>3 DEF TypeOK
<1>5. BornInOrder' /\ Started' = Started
  BY <1>1 DEF BornInOrder, Started
<1>6. WellBorn'
  BY <1>1, <1>5 DEF WellBorn, Started
<1>7. NothingYet' /\ IndexedApart'
  BY <1>1 DEF NothingYet, IndexedApart
<1>8. HandleSound'
  BY <1>1, <1>5 DEF HandleSound, Started
<1>9. \A i \in DOMAIN exited : exited[i] # g /\ exited[i] \in Gens
  BY <1>1, <1>2 DEF ExitsSound
<1>10. ExitsSound'
  <2>1. CASE worker'[g].at = "done"
    <3>1. /\ DOMAIN exited' = DOMAIN exited \cup {Len(exited) + 1}
          /\ Len(exited) + 1 \notin DOMAIN exited
          /\ exited'[Len(exited) + 1] = g
          /\ \A i \in DOMAIN exited : exited'[i] = exited[i]
      BY <1>1, <1>2, <2>1
    <3>2. QED
      BY <1>1, <1>9, <2>1, <3>1 DEF ExitsSound
  <2>2. CASE worker'[g].at # "done"
    BY <1>1, <1>9, <2>2 DEF ExitsSound
  <2>3. QED
    BY <2>1, <2>2
<1>11. \A h \in Gens : Pending(h)' => Pending(h)
  <2>1. Pending(g)
    BY <1>1 DEF Pending
  <2>2. ASSUME NEW h \in Gens \ {g}, Pending(h)'
        PROVE  Pending(h)
    <3>1. CASE exited' = exited
      BY <1>1, <2>2, <3>1 DEF Pending
    <3>2. CASE exited' = Append(exited, g)
      <4>1. /\ DOMAIN exited' = DOMAIN exited \cup {Len(exited) + 1}
            /\ exited'[Len(exited) + 1] = g
            /\ \A i \in DOMAIN exited : exited'[i] = exited[i]
        BY <1>2, <3>2
      <4>2. QED
        BY <1>1, <2>2, <4>1 DEF Pending
    <3>3. QED
      BY <1>1, <3>1, <3>2
  <2>3. QED
    BY <2>1, <2>2
<1>12. NoOrphan'
  BY <1>1, <1>5, <1>11 DEF NoOrphan, Started
<1>13. QED
  BY <1>4, <1>5, <1>6, <1>7, <1>8, <1>10, <1>12

Missing == {k \in Keys : running[k] = None /\ manifest[k] # None}
Unwanted == {k \in Keys : running[k] # None /\ manifest[k] = None}

(* The workers after a start: those of a new generation are ready, each under
   its own handle; an older one has at most been stopped, if it was unwanted, or
   given the listed scope. *)
LEMMA StartWorkers ==
  ASSUME SupInv, gen + Cardinality(Missing) <= MaxStarts, StartAll(Missing, Unwanted)
  PROVE  LET born == gen + 1 .. gen'
         IN  /\ \A w \in born :
                  /\ worker'[w] \in Worker
                  /\ worker'[w].key \in Missing /\ running'[worker'[w].key] = w
                  /\ worker'[w].idx = ifIndexOf'[worker'[w].key]
                  /\ worker'[w].idx \in Indices /\ worker'[w].cell \in Scopes
                  /\ worker'[w].at = "ready" /\ ~worker'[w].cancelled
             /\ \A k \in Missing :
                  /\ running'[k] \in born
                  /\ worker'[running'[k]].key = k /\ ~worker'[running'[k]].cancelled
                  /\ worker'[running'[k]].idx = ifIndexOf'[k]
             /\ \A w \in Gens : w \notin born =>
                  /\ worker'[w] \in Worker
                  /\ worker'[w].key = worker[w].key /\ worker'[w].idx = worker[w].idx
                  /\ worker'[w].at = worker[w].at /\ worker'[w].att = worker[w].att
                  /\ worker'[w].cell = worker[w].cell \/ worker'[w].cell \in Scopes
                  /\ worker'[w].cancelled <=>
                       worker[w].cancelled \/ \E k \in Unwanted : running[k] = w
             /\ born \subseteq Gens /\ born \cap Started = {}
<1> DEFINE born == gen + 1 .. gen'
<1>1. Missing \in SUBSET Keys /\ Unwanted \in SUBSET Keys /\ TypeOK
  BY DEF Missing, Unwanted, SupInv
<1>2. /\ gen' \in Nat /\ gen <= gen' /\ gen' <= MaxStarts
      /\ running' \in [Keys -> Gens \cup {None}]
      /\ spec' \in [Keys -> Scopes \cup {None}]
      /\ ifIndexOf' \in [Keys -> Indices \cup {None}]
      /\ \A k \in Keys \ Missing :
           /\ running'[k] = IF k \in Unwanted THEN None ELSE running[k]
           /\ ifIndexOf'[k] = ifIndexOf[k]
  BY <1>1, StartFacts
<1>3. \A k \in Missing :
        /\ running'[k] \in born
        /\ ifIndexOf'[k] \in Indices
        /\ ifIndexOf[k] # None => ifIndexOf'[k] = ifIndexOf[k]
        /\ ifIndexOf[k] = None => \A j \in Keys : ifIndexOf[j] # ifIndexOf'[k]
  BY ZenonT(30), <1>1, StartFacts
<1>4. \A k \in Missing :
         worker'[running'[k]] =
           [key |-> k, idx |-> ifIndexOf'[k], at |-> "ready", cancelled |-> FALSE,
            cell |-> manifest[k], att |-> None]
  BY <1>1, StartFacts
<1>5. \A w \in born : \E k \in Missing : running'[k] = w
  BY <1>1, StartFacts
<1>6. /\ DOMAIN worker' = Gens
      /\ \A w \in Gens : w \notin born =>
           /\ (\E k \in Unwanted : running[k] = w) =>
                worker'[w] = [worker[w] EXCEPT !.cancelled = TRUE]
           /\ ~(\E k \in Unwanted : running[k] = w) =>
                \/ worker'[w] = worker[w]
                \/ /\ \E k \in Keys \ Unwanted : running[k] = w
                   /\ worker'[w] = [worker[w] EXCEPT !.cell = manifest[worker[w].key]]
  BY <1>1, StartFacts
<1>7. gen \in Nat /\ born \subseteq Gens /\ gen' \in 0 .. MaxStarts
  BY <1>2, <1>1, SupervisorAssumption DEF TypeOK, Gens
<1>8. None \notin Gens /\ None \notin Indices /\ None \notin Keys /\ None \notin Scopes
  BY SupervisorAssumption DEF Gens, Indices
<1> HIDE DEF born
<1>9. ASSUME NEW k \in Missing
       PROVE  LET r == worker'[running'[k]]
              IN  /\ r \in Worker
                  /\ r.key = k /\ r.idx = ifIndexOf'[k] /\ r.at = "ready" /\ ~r.cancelled
                  /\ r.cell \in Scopes /\ r.idx \in Indices
  <2>1. manifest[k] \in Scopes /\ k \in Keys /\ ifIndexOf'[k] \in Indices
    BY <1>1, <1>3 DEF Missing, TypeOK
  <2> DEFINE r == [key |-> k, idx |-> ifIndexOf'[k], at |-> "ready", cancelled |-> FALSE,
                   cell |-> manifest[k], att |-> None]
  <2>2. r \in Worker
    BY <2>1 DEF Worker
  <2>3. /\ r.key = k /\ r.idx = ifIndexOf'[k] /\ r.at = "ready" /\ ~r.cancelled
        /\ r.cell \in Scopes /\ r.idx \in Indices
    BY <2>1
  <2>4. worker'[running'[k]] = r
    BY <1>4
  <2> HIDE DEF r
  <2>5. QED
    BY <2>2, <2>3, <2>4
<1>10. ASSUME NEW w \in born
      PROVE  /\ worker'[w] \in Worker
             /\ worker'[w].key \in Missing /\ running'[worker'[w].key] = w
             /\ worker'[w].idx = ifIndexOf'[worker'[w].key]
             /\ worker'[w].idx \in Indices /\ worker'[w].cell \in Scopes
             /\ worker'[w].at = "ready" /\ ~worker'[w].cancelled
  <2>1. PICK k \in Missing : running'[k] = w
    BY <1>5
  <2>2. QED
    BY <1>9, <2>1
<1>11. ASSUME NEW w \in Gens, w \notin born
       PROVE  /\ worker'[w] \in Worker
              /\ worker'[w].key = worker[w].key /\ worker'[w].idx = worker[w].idx
              /\ worker'[w].at = worker[w].at /\ worker'[w].att = worker[w].att
              /\ worker'[w].cell = worker[w].cell \/ worker'[w].cell \in Scopes
              /\ worker'[w].cancelled <=> worker[w].cancelled \/ \E k \in Unwanted : running[k] = w
  <2>1. worker[w] \in Worker
    BY <1>1 DEF TypeOK
  <2>2. CASE \E k \in Unwanted : running[k] = w
    <3>1. worker'[w] = [worker[w] EXCEPT !.cancelled = TRUE]
      BY <1>6, <1>11, <2>2
    <3>2. QED
      BY ZenonT(30), <2>1, <2>2, <3>1 DEF Worker
  <2>3. ASSUME NEW k \in Keys \ Unwanted, running[k] = w
        PROVE  manifest[worker[w].key] \in Scopes
    <3>1. worker[w].key = k
      BY <1>8, <2>3 DEF SupInv, HandleSound
    <3>2. manifest[k] \in Scopes
      BY <1>1, <1>8, <2>3 DEF Unwanted, TypeOK
    <3>3. QED
      BY <3>1, <3>2
  <2>4. CASE /\ ~ \E k \in Unwanted : running[k] = w
             /\ worker'[w] = worker[w]
    BY <2>1, <2>4
  <2>5. CASE /\ ~ \E k \in Unwanted : running[k] = w
             /\ \E k \in Keys \ Unwanted : running[k] = w
             /\ worker'[w] = [worker[w] EXCEPT !.cell = manifest[worker[w].key]]
    BY <2>1, <2>3, <2>5 DEF Worker
  <2>6. QED
    BY <1>6, <1>11, <2>2, <2>4, <2>5
<1>12. \A w \in born : w \notin Started
  BY <1>2, <1>7 DEF SupInv, BornInOrder, Started, born, Gens
<1>13. QED
  BY <1>3, <1>7, <1>9, <1>10, <1>11, <1>12 DEF born

(* Starting the missing workers and stopping the unwanted ones keeps the
   supervisor's invariant: a missing key has no live worker that a reload has
   not stopped. *)
LEMMA StartKeeps ==
  ASSUME SupInv, gen + Cardinality(Missing) <= MaxStarts, StartAll(Missing, Unwanted),
         UNCHANGED <<manifest, ctx, exited, iface>>, hup' \in BOOLEAN, sup' = "loop",
         nft' \in [Indices -> Scopes \cup {None}]
  PROVE  SupInv'
<1> DEFINE born == gen + 1 .. gen'
<1>1. Missing \in SUBSET Keys /\ Unwanted \in SUBSET Keys /\ TypeOK
  BY DEF Missing, Unwanted, SupInv
<1>2. /\ gen' \in Nat /\ gen <= gen' /\ gen' <= MaxStarts
      /\ running' \in [Keys -> Gens \cup {None}]
      /\ spec' \in [Keys -> Scopes \cup {None}]
      /\ ifIndexOf' \in [Keys -> Indices \cup {None}]
      /\ \A k \in Keys \ Missing :
           /\ running'[k] = IF k \in Unwanted THEN None ELSE running[k]
           /\ ifIndexOf'[k] = ifIndexOf[k]
  BY <1>1, StartFacts
<1>3. \A k \in Missing :
        /\ ifIndexOf[k] # None => ifIndexOf'[k] = ifIndexOf[k]
        /\ ifIndexOf[k] = None => \A j \in Keys : ifIndexOf[j] # ifIndexOf'[k]
  BY ZenonT(30), <1>1, StartFacts
<1>4. \A j, k \in Missing :
        ifIndexOf[j] = None /\ ifIndexOf[k] = None /\ ifIndexOf'[j] = ifIndexOf'[k] => j = k
  BY <1>1, StartFacts
<1>5. gen \in Nat /\ gen' \in 0 .. MaxStarts /\ None \notin Gens
  BY <1>1, <1>2, SupervisorAssumption DEF TypeOK, Gens
<1>6. born \subseteq Gens /\ \A w \in Gens : w \in born <=> w > gen /\ w <= gen'
  BY <1>2, <1>5, SupervisorAssumption DEF Gens
<1>7. \A w \in born : w \notin Started
  BY ZenonT(30), StartWorkers
<1>8. \A k \in Missing :
        /\ running'[k] \in born
        /\ worker'[running'[k]].key = k /\ ~worker'[running'[k]].cancelled
        /\ worker'[running'[k]].idx = ifIndexOf'[k]
  BY StartWorkers
<1>9. \A w \in born :
        /\ worker'[w] \in Worker
        /\ worker'[w].key \in Missing /\ running'[worker'[w].key] = w
        /\ worker'[w].idx \in Indices /\ worker'[w].cell \in Scopes
        /\ worker'[w].at = "ready" /\ ~worker'[w].cancelled
  BY StartWorkers
<1>10. \A w \in Gens : w \notin born =>
         /\ worker'[w] \in Worker
         /\ worker'[w].key = worker[w].key /\ worker'[w].idx = worker[w].idx
         /\ worker'[w].at = worker[w].at /\ worker'[w].att = worker[w].att
         /\ worker'[w].cell = worker[w].cell \/ worker'[w].cell \in Scopes
         /\ worker'[w].cancelled <=> worker[w].cancelled \/ \E k \in Unwanted : running[k] = w
  BY StartWorkers
<1> HIDE DEF born
<1>11. worker' \in [Gens -> Worker]
  <2>1. \A w \in Gens : worker'[w] \in Worker
    BY <1>9, <1>10
  <2>2. worker' = [w \in Gens |-> worker'[w]]
    BY <1>1 DEF StartAll
  <2>3. QED
    BY <2>1, <2>2
<1>12. TypeOK'
  BY <1>1, <1>2, <1>5, <1>11 DEF TypeOK
<1>13. BornInOrder'
  <2>1. \A w \in born : worker'[w].at = "ready"
    BY <1>9
  <2>2. \A w \in Gens \ born : worker'[w].at = worker[w].at
    BY <1>10
  <2>3. \A w \in Gens : w \in Int
    BY DEF Gens
  <2>4. QED
    BY <1>2, <1>5, <1>6, <2>1, <2>2, <2>3 DEF BornInOrder, SupInv
<1>14. \A w \in Gens : w \in Started' <=> w \in Started \/ w \in born
  BY <1>6, <1>9, <1>10 DEF Started
<1>15. WellBorn'
  BY <1>1, <1>9, <1>10, <1>14 DEF WellBorn, SupInv, Started
<1>16. NothingYet'
  BY DEF NothingYet
<1>17. HandleSound'
  <2> SUFFICES ASSUME NEW k \in Keys, running'[k] # None
               PROVE  /\ running'[k] \in Started'
                      /\ worker'[running'[k]].key = k /\ ~worker'[running'[k]].cancelled
                      /\ ifIndexOf'[k] = worker'[running'[k]].idx
    BY DEF HandleSound
  <2>1. CASE k \in Missing
    BY <1>6, <1>8, <1>14, <2>1
  <2>2. CASE k \notin Missing
    <3>1. running'[k] = running[k] /\ running[k] # None /\ k \notin Unwanted
      BY <1>2, <2>2
    <3>2. /\ running[k] \in Started /\ worker[running[k]].key = k
          /\ ~worker[running[k]].cancelled /\ ifIndexOf[k] = worker[running[k]].idx
      BY Zenon, <3>1 DEF SupInv, HandleSound
    <3>3. running[k] \in Gens /\ running[k] \notin born
      BY <1>7, <3>2 DEF Started
    <3>4. ~ \E j \in Unwanted : running[j] = running[k]
      BY <1>1, <3>1, <3>2 DEF SupInv, HandleSound
    <3>5. QED
      BY <1>2, <1>10, <1>14, <2>2, <3>1, <3>2, <3>3, <3>4
  <2>3. QED
    BY <2>1, <2>2
<1>18. \A i \in DOMAIN exited : exited[i] \in Started
  BY <1>1 DEF SupInv, ExitsSound, Started, TypeOK
<1>19. ExitsSound'
  BY <1>10, <1>7, <1>18 DEF SupInv, ExitsSound, Started
<1>20. IndexedApart'
  <2> SUFFICES ASSUME NEW j \in Keys, NEW k \in Keys, ifIndexOf'[j] # None,
                      ifIndexOf'[j] = ifIndexOf'[k]
               PROVE  j = k
    BY DEF IndexedApart
  <2>1. ASSUME NEW i \in Keys
        PROVE  ifIndexOf[i] # None => ifIndexOf'[i] = ifIndexOf[i]
    BY <1>2, <1>3
  <2>2. CASE ifIndexOf[j] # None /\ ifIndexOf[k] # None
    BY <2>1, <2>2 DEF SupInv, IndexedApart
  <2>3. CASE ifIndexOf[j] = None /\ ifIndexOf[k] = None
    BY <1>2, <1>4, <2>3
  <2>4. CASE ifIndexOf[j] = None /\ ifIndexOf[k] # None
    BY <1>2, <1>3, <2>1, <2>4
  <2>5. CASE ifIndexOf[j] # None /\ ifIndexOf[k] = None
    BY <1>2, <1>3, <2>1, <2>5
  <2>6. QED
    BY <2>2, <2>3, <2>4, <2>5
<1>21. NoOrphan'
  <2> SUFFICES ASSUME NEW w \in Started', ~worker'[w].cancelled, Pending(w)'
               PROVE  running'[worker'[w].key] = w
    BY DEF NoOrphan
  <2>1. w \in Gens
    BY DEF Started
  <2>2. CASE w \in born
    BY <1>9, <2>2
  <2>3. CASE w \notin born
    <3>1. w \in Started /\ ~worker[w].cancelled /\ Pending(w)
      BY <1>10, <1>14, <2>1, <2>3 DEF Pending
    <3>2. worker[w].key \in Keys /\ running[worker[w].key] = w
      BY ZenonT(30), <3>1 DEF SupInv, NoOrphan, WellBorn
    <3>3. worker[w].key \notin Unwanted /\ worker[w].key \notin Missing
      BY ZenonT(30), <1>5, <1>10, <2>1, <2>3, <3>2 DEF Missing
    <3>4. QED
      BY <1>2, <1>10, <2>1, <2>3, <3>2, <3>3
  <2>4. QED
    BY <2>2, <2>3
<1>22. QED
  BY <1>12, <1>13, <1>15, <1>16, <1>17, <1>19, <1>20, <1>21 DEF SupInv

(* Receiving an exit keeps the supervisor's invariant: it is the only one of its
   sender, and only the sender's own handle and index are given up. *)
LEMMA ExitKeeps ==
  ASSUME SupInv, HandleExit
  PROVE  SupInv'
<1> DEFINE e == Head(exited)
           k == worker[e].key
<1>1. /\ exited \in Seq(Gens) /\ exited # <<>> /\ exited' = Tail(exited)
      /\ UNCHANGED <<manifest, hup, ctx, sup, gen, worker, nft, iface>>
      /\ sup = "loop"
  BY DEF HandleExit, SupInv, TypeOK, kernel
<1>2. /\ e \in Gens /\ e = exited[1] /\ 1 \in DOMAIN exited
      /\ exited' \in Seq(Gens) /\ Len(exited') = Len(exited) - 1 /\ Len(exited) \in Nat
      /\ \A i \in DOMAIN exited' : i + 1 \in DOMAIN exited /\ i + 1 # 1
                                   /\ i \in Int /\ exited'[i] = exited[i + 1]
  BY <1>1
<1>3. worker[e].at = "done" /\ e \in Started /\ k \in Keys
  BY <1>2 DEF SupInv, ExitsSound, WellBorn, Started
<1>4. \/ /\ running[k] = e
         /\ running' = [running EXCEPT ![k] = None]
         /\ spec' = [spec EXCEPT ![k] = None]
         /\ ifIndexOf' = [ifIndexOf EXCEPT ![k] = None]
      \/ running[k] # e /\ UNCHANGED <<running, spec, ifIndexOf>>
  BY DEF HandleExit, ExitIsCurrent, IndexFreed
<1>5. /\ running' \in [Keys -> Gens \cup {None}]
      /\ spec' \in [Keys -> Scopes \cup {None}]
      /\ ifIndexOf' \in [Keys -> Indices \cup {None}]
      /\ \A j \in Keys \ {k} : running'[j] = running[j] /\ ifIndexOf'[j] = ifIndexOf[j]
      /\ running[k] = e => running'[k] = None /\ ifIndexOf'[k] = None
      /\ running[k] # e => running'[k] = running[k] /\ ifIndexOf'[k] = ifIndexOf[k]
  BY <1>3, <1>4 DEF SupInv, TypeOK
<1> HIDE DEF e, k
<1>6. Len(exited') <= ExitedCap
  BY <1>1, <1>2, SupervisorAssumption DEF SupInv, TypeOK
<1>7. TypeOK'
  BY <1>1, <1>2, <1>5, <1>6 DEF SupInv, TypeOK
<1>8. Started' = Started /\ BornInOrder' /\ WellBorn' /\ NothingYet'
  BY <1>1 DEF SupInv, Started, BornInOrder, WellBorn, NothingYet
<1>9. HandleSound' /\ IndexedApart'
  BY <1>1, <1>3, <1>5, <1>8 DEF SupInv, HandleSound, IndexedApart
<1>10. ExitsSound'
  <2>1. \A i \in DOMAIN exited' : worker'[exited'[i]].at = "done"
    BY <1>1, <1>2 DEF SupInv, ExitsSound
  <2>2. ASSUME NEW i \in DOMAIN exited', NEW j \in DOMAIN exited', exited'[i] = exited'[j]
        PROVE  i = j
    <3>1. i + 1 = j + 1
      BY <1>2, <2>2 DEF SupInv, ExitsSound
    <3>2. QED
      BY <1>2, <3>1
  <2>3. QED
    BY <2>1, <2>2 DEF ExitsSound
<1>11. \A i \in DOMAIN exited' : exited'[i] # e
  BY <1>2 DEF SupInv, ExitsSound
<1>12. NoOrphan'
  <2> SUFFICES ASSUME NEW g \in Started, ~worker[g].cancelled, Pending(g)'
               PROVE  running'[worker[g].key] = g
    BY <1>1, <1>8 DEF NoOrphan
  <2>1. Pending(g) /\ g # e
    BY <1>1, <1>2, <1>3, <1>11 DEF Pending
  <2>2. running[worker[g].key] = g /\ worker[g].key \in Keys
    BY <2>1 DEF SupInv, NoOrphan, WellBorn
  <2>3. QED
    BY <1>5, <2>1, <2>2
<1>13. QED
  BY <1>7, <1>8, <1>9, <1>10, <1>12 DEF SupInv

(* An empty supervisor satisfies the invariant. *)
LEMMA SupInitInv == Init => SupInv
<1> SUFFICES ASSUME Init PROVE SupInv
  OBVIOUS
<1>1. MaxStarts \in Nat /\ ExitedCap \in Nat /\ exited = <<>> /\ Len(exited) = 0
  BY SupervisorAssumption DEF Init
<1>2. Unborn \in Worker
  BY DEF Unborn, Worker
<1>3. TypeOK
  <2>1. /\ worker \in [Gens -> Worker]
        /\ running \in [Keys -> Gens \cup {None}] /\ spec \in [Keys -> Scopes \cup {None}]
        /\ ifIndexOf \in [Keys -> Indices \cup {None}]
        /\ nft \in [Indices -> Scopes \cup {None}] /\ iface \in [Indices -> Gens \cup {None}]
    BY <1>2 DEF Init
  <2>2. exited \in Seq(Gens) /\ Len(exited) <= ExitedCap /\ gen \in 0 .. MaxStarts
    BY <1>1 DEF Init
  <2>3. QED
    BY Zenon, <2>1, <2>2 DEF Init, TypeOK
<1>4. \A g \in Gens : worker[g].at = "unborn" /\ g > gen
  BY <1>1 DEF Init, Unborn, Gens
<1>5. QED
  BY <1>1, <1>3, <1>4 DEF SupInv, Init, Started, BornInOrder, WellBorn, NothingYet,
     HandleSound, ExitsSound, IndexedApart, NoOrphan

(* The supervisor's invariant holds in every reachable state, whatever the
   operator does. *)
THEOREM SupervisorInvariant == Spec => []SupInv
<1>1. Init => SupInv
  BY SupInitInv
<1>2. ASSUME SupInv, [Next]_vars
      PROVE  SupInv'
  <2> USE <1>2
  <2>1. CASE Operator \/ ReloadFails \/ BeginDrain \/ Drained \/ UNCHANGED vars
    <3>1. /\ UNCHANGED <<maps, exited, worker, kernel>>
          /\ manifest' \in [Keys -> Scopes \cup {None}]
          /\ hup' \in BOOLEAN /\ ctx' \in BOOLEAN
          /\ sup' \in {"init", "loop", "draining", "returned"}
          /\ sup' = "init" => sup = "init"
      BY ZenonT(30), <2>1 DEF Operator, EditManifest, SendHup, Cancel, ReloadFails, BeginDrain, Drained,
         vars, SupInv, TypeOK
    <3>2. QED
      BY <3>1 DEF maps, kernel, SupInv, TypeOK, BornInOrder, WellBorn, NothingYet, HandleSound,
         ExitsSound, IndexedApart, NoOrphan, Started, Pending
  <2>2. CASE SuperviseStart
    <3>1. Missing = {k \in Keys : manifest[k] # None} /\ Unwanted = {} /\ gen = 0
      BY ZenonT(30), <2>2 DEF SuperviseStart, Missing, Unwanted, SupInv, NothingYet
    <3>2. Cardinality(Missing) \in Nat
      BY SupervisorAssumption, FS_Subset, FS_CardinalityType DEF Missing
    <3>3. QED
      BY <2>2, <3>1, <3>2, StartKeeps DEF SuperviseStart, SupInv, TypeOK, kernel
  <2>3. CASE Reload
    <3>1. nft' \in [Indices -> Scopes \cup {None}]
      BY <2>3 DEF Reload, SupInv, TypeOK
    <3>2. QED
      BY ZenonT(30), <2>3, <3>1, StartKeeps DEF Reload, Missing, Unwanted
  <2>4. CASE HandleExit
    BY <2>4, ExitKeeps
  <2>5. CASE \E g \in Gens : WorkerStep(g)
    BY <2>5, WorkerKeeps
  <2>6. QED
    BY <2>1, <2>2, <2>3, <2>4, <2>5 DEF Next, Supervise
<1>3. QED
  BY <1>1, <1>2, PTL DEF Spec

(* `running' never loses a worker to a stale exit, for any number of buddies,
   reloads and restarts and any buffer of the exited channel. *)
THEOREM SupervisorNoOrphan == Spec => []NoOrphan
<1>1. SupInv => NoOrphan
  BY DEF SupInv
<1>2. QED
  BY <1>1, SupervisorInvariant, PTL

(* The interface indices of running buddies are distinct and are those of their
   workers, also when a removed buddy is listed again at once. *)
THEOREM SupervisorIndicesDistinct == Spec => []IndicesDistinct
<1>1. SupInv => IndicesDistinct
  <2> SUFFICES ASSUME SupInv, NEW k \in Keys, running[k] # None
               PROVE  /\ worker[running[k]].idx = ifIndexOf[k]
                      /\ \A j \in Keys \ {k} : ifIndexOf[j] # ifIndexOf[k]
    BY DEF IndicesDistinct
  <2>1. running[k] \in Started /\ ifIndexOf[k] = worker[running[k]].idx
    BY DEF SupInv, HandleSound
  <2>2. ifIndexOf[k] # None
    BY <2>1, SupervisorAssumption DEF SupInv, WellBorn, Indices
  <2>3. QED
    BY <2>1, <2>2 DEF SupInv, IndexedApart
<1>2. QED
  BY <1>1, SupervisorInvariant, PTL

(* Two live workers never have the same interface index. *)
LEMMA LiveApart ==
  ASSUME SupInv, OneLivePerKey, NEW g \in Gens, NEW h \in Gens,
         Alive(g), Alive(h), worker[g].idx = worker[h].idx
  PROVE  g = h
<1>1. g \in Started /\ h \in Started
  BY DEF Alive, Started
<1>2. /\ worker[g].key \in Keys /\ worker[h].key \in Keys /\ worker[g].idx \in Indices
      /\ ifIndexOf[worker[g].key] = worker[g].idx /\ ifIndexOf[worker[h].key] = worker[h].idx
  BY <1>1 DEF SupInv, WellBorn, OneLivePerKey
<1>3. worker[g].idx # None
  BY <1>2, SupervisorAssumption DEF Indices
<1>4. worker[g].key = worker[h].key
  BY <1>2, <1>3 DEF SupInv, IndexedApart
<1>5. QED
  BY <1>4 DEF OneLivePerKey

(* The steps of a worker keep the links and rules sound: what one takes down is
   under a name that no other live worker has. *)
LEMMA WorkerLinks ==
  ASSUME PatientInv, NEW g \in Gens, WorkerStep(g)
  PROVE  LinksSound'
<1>1. /\ TypeOK /\ worker \in [Gens -> Worker] /\ SupInv /\ OneLivePerKey
      /\ nft \in [Indices -> Scopes \cup {None}] /\ iface \in [Indices -> Gens \cup {None}]
  BY DEF PatientInv, SupInv, TypeOK
<1>2. /\ worker' \in [Gens -> Worker]
      /\ \A h \in Gens \ {g} : worker'[h] = worker[h]
      /\ worker'[g].idx = worker[g].idx
      /\ worker[g].at \notin {"unborn", "done"}
  BY ZenonT(30), <1>1, WorkerMoves
<1>3. /\ worker[g].idx \in Indices
      /\ worker[g].at = "dialing" => worker[g].att \in Scopes
      /\ None \notin Scopes /\ None \notin Gens
  BY <1>1, <1>2, SupervisorAssumption DEF SupInv, WellBorn, Started, Gens
<1>4. \A h \in Gens \ {g} :
        worker[h].at \in {"scoped", "up", "downed"} => worker[h].idx # worker[g].idx
  BY <1>1, <1>2, LiveApart DEF Alive
<1>5. CASE ApplyScope(g)
  BY <1>1, <1>2, <1>3, <1>5 DEF ApplyScope, Go, PatientInv, LinksSound
<1>6. CASE BringUp(g)
  BY <1>1, <1>2, <1>3, <1>6 DEF BringUp, Go, PatientInv, LinksSound
<1>7. CASE TakeDown(g)
  BY <1>1, <1>2, <1>3, <1>7 DEF TakeDown, Go, PatientInv, LinksSound
<1>8. CASE RemoveScope(g)
  BY <1>1, <1>2, <1>3, <1>4, <1>8 DEF RemoveScope, Go, PatientInv, LinksSound
<1>9. CASE \/ Attempt(g) \/ SourceRefuses(g) \/ DialFails(g) \/ BringUpFails(g)
           \/ BackoffEnds(g) \/ SendExit(g)
  <2>1. /\ UNCHANGED kernel /\ worker[g].at # "up"
        /\ worker'[g].at \notin {"scoped", "up"}
    BY <1>1, <1>9 DEF Attempt, SourceRefuses, DialFails, BringUpFails, BackoffEnds, SendExit, Go,
       Worker
  <2>2. QED
    BY <1>1, <1>2, <2>1 DEF PatientInv, LinksSound, kernel
<1>10. QED
  BY <1>5, <1>6, <1>7, <1>8, <1>9 DEF WorkerStep

(* A start keeps what a patient operator guarantees: a missing buddy is listed,
   so it has no live worker at all. *)
LEMMA StartPatient ==
  ASSUME PatientInv, gen + Cardinality(Missing) <= MaxStarts, StartAll(Missing, Unwanted),
         UNCHANGED <<manifest, iface>>,
         \A i \in Indices : nft[i] # None => nft'[i] # None
  PROVE  StoppedStaysOut' /\ OneLivePerKey' /\ LinksSound'
<1> DEFINE born == gen + 1 .. gen'
<1>1. /\ SupInv /\ TypeOK /\ StoppedStaysOut /\ OneLivePerKey /\ LinksSound
      /\ Missing \in SUBSET Keys /\ Unwanted \in SUBSET Keys
  BY Zenon DEF PatientInv, SupInv, Missing, Unwanted
<1>2. \A k \in Keys \ Missing :
        /\ running'[k] = IF k \in Unwanted THEN None ELSE running[k]
        /\ ifIndexOf'[k] = ifIndexOf[k]
  BY <1>1, StartFacts
<1>3. \A w \in born :
        /\ worker'[w].key \in Missing /\ running'[worker'[w].key] = w
        /\ worker'[w].idx = ifIndexOf'[worker'[w].key]
        /\ worker'[w].at = "ready" /\ ~worker'[w].cancelled
        /\ w \notin Started
  BY ZenonT(30), <1>1, StartWorkers
<1>4. \A w \in Gens : w \notin born =>
        /\ worker'[w].key = worker[w].key /\ worker'[w].idx = worker[w].idx
        /\ worker'[w].at = worker[w].at
        /\ worker'[w].cancelled <=> worker[w].cancelled \/ \E k \in Unwanted : running[k] = w
  BY ZenonT(30), <1>1, StartWorkers
<1> HIDE DEF born
<1>5. ASSUME NEW w \in Gens, w \notin born, Alive(w)'
      PROVE  Alive(w) /\ worker[w].key \in Keys \ Missing
  <2>1. Alive(w) /\ w \in Started
    BY ZenonT(30), <1>4, <1>5 DEF Alive, Started
  <2>2. worker[w].key \in Keys /\ (~worker[w].cancelled => running[worker[w].key] = w)
    BY <1>1, <2>1 DEF SupInv, WellBorn, NoOrphan, Pending, Alive
  <2>3. worker[w].cancelled => manifest[worker[w].key] = None
    BY <1>1, <2>1 DEF StoppedStaysOut
  <2>4. None \notin Gens
    BY SupervisorAssumption DEF Gens
  <2>5. QED
    BY ZenonT(30), <2>1, <2>2, <2>3, <2>4 DEF Missing
<1>6. StoppedStaysOut'
  <2> SUFFICES ASSUME NEW w \in Gens, Alive(w)', worker'[w].cancelled
               PROVE  manifest'[worker'[w].key] = None /\ running'[worker'[w].key] = None
    BY Zenon DEF StoppedStaysOut
  <2>1. w \notin born
    BY ZenonT(30), <1>3
  <2>2. Alive(w) /\ worker[w].key \in Keys \ Missing /\ worker'[w].key = worker[w].key
    BY <1>4, <1>5, <2>1
  <2>3. CASE worker[w].cancelled
    BY ZenonT(30), <1>1, <1>2, <2>2, <2>3 DEF StoppedStaysOut
  <2>4. ASSUME NEW k \in Unwanted, running[k] = w
        PROVE  worker[w].key = k /\ manifest[k] = None
    BY <1>1, <2>4 DEF SupInv, HandleSound, Unwanted
  <2>5. QED
    BY <1>2, <1>4, <2>1, <2>2, <2>3, <2>4
<1>7. OneLivePerKey'
  <2> SUFFICES ASSUME NEW g \in Gens, Alive(g)'
               PROVE  /\ ifIndexOf'[worker'[g].key] = worker'[g].idx
                      /\ \A h \in Gens : Alive(h)' /\ worker'[h].key = worker'[g].key => h = g
    BY DEF OneLivePerKey
  <2>1. CASE g \in born
    BY <1>3, <1>4, <1>5, <2>1
  <2>2. CASE g \notin born
    <3>1. Alive(g) /\ worker[g].key \in Keys \ Missing /\ worker'[g].key = worker[g].key
          /\ worker'[g].idx = worker[g].idx
      BY ZenonT(30), <1>4, <1>5, <2>2
    <3>2. ASSUME NEW h \in Gens, Alive(h)', worker'[h].key = worker'[g].key
          PROVE  h = g
      <4>1. h \notin born
        BY <1>3, <3>1, <3>2
      <4>2. Alive(h) /\ worker'[h].key = worker[h].key
        BY <1>4, <1>5, <3>2, <4>1
      <4>3. QED
        BY ZenonT(30), <1>1, <3>1, <3>2, <4>2 DEF OneLivePerKey
    <3>3. QED
      BY ZenonT(30), <1>1, <1>2, <3>1, <3>2 DEF OneLivePerKey
  <2>3. QED
    BY ZenonT(30), <2>1, <2>2
<1>8. LinksSound'
  <2>1. \A g \in Gens : worker'[g].at \in {"scoped", "up"} => g \notin born /\ worker[g].at = worker'[g].at
    BY <1>3, <1>4
  <2>2. \A g \in Gens : worker[g].at = "up" => g \notin born
    BY <1>3 DEF Started
  <2>3. \A i \in Indices : iface[i] # None => iface[i] \in Gens
    BY ZenonT(30), <1>1 DEF TypeOK
  <2>4. \A g \in Gens : worker[g].at \in {"scoped", "up"} => worker[g].idx \in Indices
    BY <1>1 DEF SupInv, WellBorn, Started
  <2>5. ASSUME NEW i \in Indices, iface'[i] # None
        PROVE  worker'[iface'[i]].at = "up" /\ worker'[iface'[i]].idx = i
    BY <1>1, <1>4, <2>2, <2>3, <2>5 DEF LinksSound
  <2>6. ASSUME NEW g \in Gens, worker'[g].at \in {"scoped", "up"}
        PROVE  nft'[worker'[g].idx] # None
    BY <1>1, <1>4, <2>1, <2>4, <2>6 DEF LinksSound
  <2>7. QED
    BY <2>5, <2>6 DEF LinksSound
<1>9. QED
  BY <1>6, <1>7, <1>8

(* With a patient operator, the full invariant holds in every reachable state. *)
THEOREM SupervisorPatient ==
  ASSUME Patient
  PROVE  Spec => []PatientInv
<1>1. Init => PatientInv
  <2>1. Init => SupInv
    BY SupInitInv
  <2>2. Init => StoppedStaysOut /\ OneLivePerKey /\ LinksSound
    BY DEF Init, Unborn, Alive, StoppedStaysOut, OneLivePerKey, LinksSound
  <2>3. QED
    BY <2>1, <2>2 DEF PatientInv
<1>2. ASSUME PatientInv, SupInv', [Next]_vars
      PROVE  PatientInv'
  <2> USE <1>2
  <2>1. CASE \E k \in Keys, s \in Scopes \cup {None} : EditManifest(k, s)
    <3>1. PICK k \in Keys, s \in Scopes \cup {None} : EditManifest(k, s)
      BY <2>1
    <3>2. \A g \in Gens : Alive(g) /\ worker[g].cancelled => worker[g].key # k
      BY <3>1 DEF EditManifest, PatientInv, SupInv, TypeOK, StoppedStaysOut, Alive, Started
    <3>3. UNCHANGED <<maps, worker, kernel>> /\ \A j \in Keys \ {k} : manifest'[j] = manifest[j]
      BY <3>1 DEF EditManifest, PatientInv, SupInv, TypeOK
    <3>4. \A g \in Gens : Alive(g) => worker[g].key \in Keys
      BY ZenonT(30) DEF PatientInv, SupInv, WellBorn, Alive, Started
    <3>5. StoppedStaysOut'
      BY ZenonT(30), <3>2, <3>3, <3>4 DEF PatientInv, StoppedStaysOut, Alive, maps
    <3>6. OneLivePerKey' /\ LinksSound'
      BY ZenonT(30), <3>3 DEF PatientInv, OneLivePerKey, LinksSound, Alive, maps, kernel
    <3>7. QED
      BY <3>5, <3>6 DEF PatientInv
  <2>2. CASE SendHup \/ Cancel \/ ReloadFails \/ BeginDrain \/ Drained \/ UNCHANGED vars
    <3>1. UNCHANGED <<manifest, maps, worker, kernel>>
      BY <2>2 DEF SendHup, Cancel, ReloadFails, BeginDrain, Drained, vars
    <3>2. QED
      BY <3>1 DEF PatientInv, StoppedStaysOut, OneLivePerKey, LinksSound, Alive, maps, kernel
  <2>3. CASE SuperviseStart
    <3>1. Missing = {k \in Keys : manifest[k] # None} /\ Unwanted = {} /\ gen = 0
      BY <2>3 DEF SuperviseStart, Missing, Unwanted, PatientInv, SupInv, NothingYet
    <3>2. Cardinality(Missing) \in Nat
      BY SupervisorAssumption, FS_Subset, FS_CardinalityType DEF Missing
    <3>3. /\ gen + Cardinality(Missing) <= MaxStarts
          /\ StartAll(Missing, Unwanted) /\ UNCHANGED <<manifest, nft, iface>>
      BY <2>3, <3>1, <3>2 DEF SuperviseStart, kernel
    <3>4. StoppedStaysOut' /\ OneLivePerKey' /\ LinksSound'
      BY <3>3, StartPatient
    <3>5. QED
      BY <3>4 DEF PatientInv
  <2>4. CASE Reload
    <3>1. /\ \A i \in Indices : nft[i] # None => nft'[i] # None
          /\ gen + Cardinality(Missing) <= MaxStarts
          /\ StartAll(Missing, Unwanted) /\ UNCHANGED <<manifest, iface>>
      BY <2>4 DEF Reload, Missing, Unwanted
    <3>2. StoppedStaysOut' /\ OneLivePerKey' /\ LinksSound'
      BY <3>1, StartPatient
    <3>3. QED
      BY <3>2 DEF PatientInv
  <2>5. CASE HandleExit
    <3> DEFINE e == Head(exited)
               k == worker[e].key
    <3>1. /\ UNCHANGED <<manifest, worker, nft, iface>>
          /\ e \in Gens /\ worker[e].at = "done" /\ k \in Keys
      <4>1. exited \in Seq(Gens) /\ exited # <<>> /\ UNCHANGED <<manifest, worker, nft, iface>>
        BY <2>5 DEF HandleExit, PatientInv, SupInv, TypeOK, kernel
      <4>2. e \in Gens /\ e = exited[1] /\ 1 \in DOMAIN exited
        BY <4>1
      <4>3. QED
        BY <4>1, <4>2 DEF PatientInv, SupInv, ExitsSound, WellBorn, Started
    <3>2. /\ \A j \in Keys : running'[j] \in {running[j], None}
          /\ \A j \in Keys : ifIndexOf'[j] = ifIndexOf[j] \/ (j = k /\ running[k] = e)
      BY <2>5, <3>1 DEF HandleExit, ExitIsCurrent, IndexFreed, PatientInv, SupInv, TypeOK
    <3> HIDE DEF e, k
    <3>3. ASSUME NEW g \in Gens, Alive(g)
          PROVE  worker[g].key \in Keys /\ ifIndexOf'[worker[g].key] = ifIndexOf[worker[g].key]
      <4>1. g \in Started /\ worker[g].key \in Keys /\ g # e
        BY <3>1, <3>3 DEF PatientInv, SupInv, WellBorn, Alive, Started
      <4>2. running[worker[g].key] \in {None, g}
        BY <3>3, <4>1 DEF PatientInv, SupInv, NoOrphan, StoppedStaysOut, Pending, Alive
      <4>3. e # None
        BY <3>1, SupervisorAssumption DEF Gens
      <4>4. QED
        BY <3>2, <4>1, <4>2, <4>3
    <3>4. /\ UNCHANGED <<manifest, worker, nft, iface>>
          /\ StoppedStaysOut /\ OneLivePerKey /\ LinksSound
      BY <3>1 DEF PatientInv
    <3>5. StoppedStaysOut'
      BY <3>2, <3>3, <3>4 DEF StoppedStaysOut, Alive
    <3>6. OneLivePerKey'
      BY <3>3, <3>4 DEF OneLivePerKey, Alive
    <3>7. LinksSound'
      BY <3>4 DEF LinksSound
    <3>8. QED
      BY <3>5, <3>6, <3>7 DEF PatientInv
  <2>6. ASSUME NEW g \in Gens, WorkerStep(g)
        PROVE  PatientInv'
    <3>1. /\ \A h \in Gens \ {g} : worker'[h] = worker[h]
          /\ worker'[g].key = worker[g].key /\ worker'[g].idx = worker[g].idx
          /\ worker'[g].cancelled = worker[g].cancelled
          /\ worker[g].at \notin {"unborn", "done"}
          /\ UNCHANGED <<manifest, running, ifIndexOf>>
      BY Zenon, <2>6, WorkerMoves DEF PatientInv, SupInv
    <3>2. StoppedStaysOut /\ OneLivePerKey
      BY DEF PatientInv
    <3>3. \A h \in Gens :
            /\ worker'[h].key = worker[h].key /\ worker'[h].idx = worker[h].idx
            /\ worker'[h].cancelled = worker[h].cancelled
            /\ Alive(h)' => Alive(h)
      BY <3>1 DEF Alive
    <3>4. StoppedStaysOut'
      BY <3>1, <3>2, <3>3 DEF StoppedStaysOut
    <3>5. OneLivePerKey'
      BY <3>1, <3>2, <3>3 DEF OneLivePerKey
    <3>6. QED
      BY <2>6, <3>4, <3>5, WorkerLinks DEF PatientInv
  <2>7. QED
    BY <2>1, <2>2, <2>3, <2>4, <2>5, <2>6 DEF Next, Operator, Supervise
<1>3. QED
  BY <1>1, <1>2, SupervisorInvariant, PTL DEF Spec

(* With a patient operator no interface name is ever in the hands of two
   workers, for any number of buddies and restarts. *)
THEOREM SupervisorInterfaceExclusive ==
  ASSUME Patient
  PROVE  Spec => []InterfaceExclusive
<1>1. PatientInv => InterfaceExclusive
  BY LiveApart DEF PatientInv, InterfaceExclusive, Holding, Alive, Started
<1>2. QED
  BY <1>1, SupervisorPatient, PTL

(* With a patient operator a link is never up without rules: runWG scopes it
   before it exists, reloads only replace rules, and no other worker removes
   them. *)
THEOREM SupervisorNeverUnscoped ==
  ASSUME Patient
  PROVE  Spec => []NeverUnscoped
<1>1. PatientInv => NeverUnscoped
  BY DEF PatientInv, SupInv, TypeOK, LinksSound, NeverUnscoped
<1>2. QED
  BY <1>1, SupervisorPatient, PTL
=============================================================================
