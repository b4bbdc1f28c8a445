---------------------------- MODULE BuddyProofs ----------------------------
(***************************************************************************)
(* Proofs about a buddy's own process: the tunnel it dials on demand       *)
(* (LazyTunnel), and the trust state its workers share with the commands   *)
(* (TrustState).  The two share no state; each part below has its own      *)
(* inductive invariant.                                                    *)
(***************************************************************************)
EXTENDS LazyTunnel, TrustState, TLAPS

(* Time for the larger leaves. *)
USE SMTT(20), ZenonT(30)

-----------------------------------------------------------------------------
(* TrustState, for any buddies, any number of commands and workers and any
   limits.  Inv says what the lock gives: a writer between its read and its
   write holds the lock, what it read is what is on disk, and the buddy it is
   about to store is not revoked; a removal past its tombstone still finds it
   there.  MigrateInv adds what the manifest needs, for at most one migration:
   PeersMigrate reads before it has the lock. *)

Writing == {"confirming", "saving"}
Inside == {"first", "second", "third"}

WorkerHolds(k) ==
  worker[k].pc \in Writing =>
    /\ lock = k /\ k \notin revoked
    /\ worker[k].snap.s = sessions /\ worker[k].snap.f = firstUse

CommandHolds(c) ==
  /\ cmd[c].pc \in Inside => lock = c
  /\ cmd[c].pc # "idle" /\ cmd[c].op # "migrate" => cmd[c].key \in Keys
  /\ cmd[c].op = "remove" /\ cmd[c].pc \in {"second", "third"} => cmd[c].key \in revoked

Inv ==
  /\ TypeOK
  /\ \A k \in Keys : WorkerHolds(k)
  /\ \A c \in Commands : CommandHolds(c)

MigrateInv ==
  /\ legacy => \A c \in Commands : cmd[c].op # "add"
  /\ \A c \in Commands : cmd[c].op = "migrate" =>
        legacy /\ cmd[c].snap = manifest /\ migrations >= 1
  /\ \A c, d \in Commands : cmd[c].op = "migrate" /\ cmd[d].op = "migrate" => c = d

Works == [pc : {"off", "idle", "attempt", "confirm", "save", "confirming", "saving", "up"},
          first : BOOLEAN, snap : [s : SUBSET Keys, f : SUBSET Keys]]

Cmds == [pc : {"idle", "start", "first", "second", "third"},
         op : Operations \cup {"none"}, key : Keys \cup {NoOne}, snap : SUBSET Keys]

-----------------------------------------------------------------------------
(* Steps of one process *)

(* A worker that goes on without a snapshot. *)
LEMMA StepKeeps ==
  ASSUME TypeOK, NEW k \in Keys,
         NEW pc \in {"off", "idle", "attempt", "confirm", "save", "up"}, Step(k, pc)
  PROVE  /\ worker' \in [Keys -> Works] /\ worker'[k].pc = pc
         /\ \A j \in Keys \ {k} : worker'[j] = worker[j]
<1> DEFINE e == [s |-> {}, f |-> {}]
           w == [Asleep EXCEPT !.pc = pc]
<1>1. e \in [s : SUBSET Keys, f : SUBSET Keys]
  OBVIOUS
<1>2. w \in Works /\ w.pc = pc
  <2>1. Asleep = [pc |-> "off", first |-> FALSE, snap |-> e]
    BY DEF Asleep
  <2> HIDE DEF e
  <2>2. Asleep \in Works
    BY <1>1, <2>1 DEF Works
  <2>3. QED
    BY <2>2 DEF Works
<1>3. worker \in [Keys -> Works]
  BY DEF TypeOK, Works
<1>4. QED
  BY <1>2, <1>3 DEF Step

(* A worker that starts an attempt. *)
LEMMA AttemptKeeps ==
  ASSUME TypeOK, NEW k \in Keys, NEW b \in BOOLEAN,
         worker' = [worker EXCEPT ![k].pc = "attempt", ![k].first = b]
  PROVE  /\ worker' \in [Keys -> Works] /\ worker'[k].pc = "attempt"
         /\ \A j \in Keys \ {k} : worker'[j] = worker[j]
<1>1. worker \in [Keys -> Works] /\ worker[k] \in Works
  BY DEF TypeOK, Works
<1>2. worker' = [worker EXCEPT ![k] = [worker[k] EXCEPT !.pc = "attempt", !.first = b]]
  BY Zenon, <1>1 DEF Works
<1>3. /\ [worker[k] EXCEPT !.pc = "attempt", !.first = b] \in Works
      /\ [worker[k] EXCEPT !.pc = "attempt", !.first = b].pc = "attempt"
  BY Zenon, <1>1 DEF Works
<1>4. QED
  BY <1>1, <1>2, <1>3

(* A worker that read the file under the lock. *)
LEMMA ReadKeeps ==
  ASSUME TypeOK, NEW k \in Keys, worker[k].pc \in {"confirm", "save"},
         worker' = [worker EXCEPT ![k].pc = Locked(worker[k].pc),
                                  ![k].snap = [s |-> sessions, f |-> firstUse]]
  PROVE  /\ worker' \in [Keys -> Works] /\ worker'[k].pc \in Writing
         /\ worker'[k].snap.s = sessions /\ worker'[k].snap.f = firstUse
         /\ \A j \in Keys \ {k} : worker'[j] = worker[j]
<1> DEFINE p == Locked(worker[k].pc)
           q == [s |-> sessions, f |-> firstUse]
           w == [worker[k] EXCEPT !.pc = p, !.snap = q]
<1>1. worker \in [Keys -> Works] /\ worker[k] \in Works
  BY DEF TypeOK, Works
<1>2. p \in Writing
  BY DEF Locked, Writing
<1>3. q \in [s : SUBSET Keys, f : SUBSET Keys] /\ q.s = sessions /\ q.f = firstUse
  BY DEF TypeOK
<1> HIDE DEF p, q
<1>4. w \in Works /\ w.pc = p /\ w.snap = q
  BY Zenon, <1>1, <1>2, <1>3 DEF Works, Writing
<1>5. worker' = [worker EXCEPT ![k] = w]
  BY Zenon, <1>1 DEF Works, p, q
<1> HIDE DEF w
<1>6. worker' \in [Keys -> Works] /\ worker'[k] = w /\ \A j \in Keys \ {k} : worker'[j] = worker[j]
  BY Zenon, <1>1, <1>4, <1>5
<1>7. QED
  BY Zenon, <1>2, <1>3, <1>4, <1>6

(* A command that goes on to its next write. *)
LEMMA GoKeeps ==
  ASSUME TypeOK, NEW c \in Commands, NEW pc \in {"idle", "start", "first", "second", "third"},
         Go(c, pc)
  PROVE  /\ cmd' \in [Commands -> Cmds] /\ cmd'[c].pc = pc
         /\ cmd'[c].op = cmd[c].op /\ cmd'[c].key = cmd[c].key /\ cmd'[c].snap = cmd[c].snap
         /\ \A d \in Commands \ {c} : cmd'[d] = cmd[d]
<1>1. cmd \in [Commands -> Cmds]
  BY DEF TypeOK, Cmds
<1>2. QED
  BY <1>1 DEF Go, Cmds

(* A command that ends. *)
LEMMA ExitKeeps ==
  ASSUME TypeOK, NEW c \in Commands, cmd' = [cmd EXCEPT ![c] = Shell]
  PROVE  /\ cmd' \in [Commands -> Cmds] /\ cmd'[c] = Shell /\ cmd'[c].pc = "idle"
         /\ \A d \in Commands \ {c} : cmd'[d] = cmd[d]
<1>1. cmd \in [Commands -> Cmds]
  BY DEF TypeOK, Cmds
<1>2. Shell \in Cmds /\ Shell.pc = "idle"
  BY DEF Shell, Cmds
<1>3. QED
  BY <1>1, <1>2

(* The types, part by part. *)
LEMMA TypeParts ==
  ASSUME revoked' \subseteq Keys, sessions' \subseteq Keys, firstUse' \subseteq Keys,
         manifest' \subseteq Keys, legacy' \in BOOLEAN,
         lock' \in Keys \cup Commands \cup {NoOne},
         worker' \in [Keys -> Works], cmd' \in [Commands -> Cmds],
         ops' \in Nat, migrations' \in Nat
  PROVE  TypeOK'
BY DEF TypeOK, Works, Cmds

(* The files and the lock are left alone by a worker that is not writing. *)
LEMMA WorkerQuiet ==
  ASSUME Inv, NEW k \in Keys, UNCHANGED <<files, lock, cmd, ops, migrations>>,
         worker' \in [Keys -> Works], worker'[k].pc \notin Writing,
         \A j \in Keys \ {k} : worker'[j] = worker[j]
  PROVE  Inv'
<1>1. /\ revoked' = revoked /\ sessions' = sessions /\ firstUse' = firstUse
      /\ manifest' = manifest /\ legacy' = legacy /\ lock' = lock /\ cmd' = cmd
      /\ ops' = ops /\ migrations' = migrations
  BY DEF files, known
<1>2. TypeOK'
  BY <1>1, TypeParts DEF Inv, TypeOK, Works, Cmds
<1>3. \A j \in Keys : WorkerHolds(j)'
  BY <1>1 DEF Inv, WorkerHolds
<1>4. \A c \in Commands : CommandHolds(c)'
  BY <1>1 DEF Inv, CommandHolds
<1>5. QED
  BY <1>2, <1>3, <1>4 DEF Inv

(* A worker that writes lets go of the lock; nobody else was inside. *)
LEMMA WorkerWrites ==
  ASSUME Inv, NEW k \in Keys, worker[k].pc \in Writing, lock' = NoOne,
         UNCHANGED <<revoked, manifest, legacy, cmd, ops, migrations>>,
         sessions' \subseteq Keys, firstUse' \subseteq Keys,
         worker' \in [Keys -> Works], worker'[k].pc \notin Writing,
         \A j \in Keys \ {k} : worker'[j] = worker[j]
  PROVE  Inv'
<1>1. lock = k /\ \A j \in Keys \ {k} : worker[j].pc \notin Writing
  BY DEF Inv, WorkerHolds
<1>2. \A c \in Commands : cmd[c].pc \notin Inside
  BY <1>1, KeysAssumption DEF Inv, CommandHolds
<1>3. TypeOK'
  BY TypeParts DEF Inv, TypeOK, Works, Cmds
<1>4. \A j \in Keys : WorkerHolds(j)'
  BY <1>1 DEF WorkerHolds
<1>5. \A c \in Commands : CommandHolds(c)'
  BY <1>2 DEF Inv, CommandHolds
<1>6. QED
  BY <1>3, <1>4, <1>5 DEF Inv

(* A command inside the lock writes alone. *)
LEMMA CommandWrites ==
  ASSUME Inv, NEW c \in Commands, cmd[c].pc \in Inside, worker' = worker,
         lock' \in {c, NoOne}, revoked' \subseteq Keys, sessions' \subseteq Keys,
         firstUse' \subseteq Keys, manifest' \subseteq Keys, legacy' \in BOOLEAN,
         UNCHANGED <<ops, migrations>>, cmd' \in [Commands -> Cmds],
         \A d \in Commands \ {c} : cmd'[d] = cmd[d], CommandHolds(c)'
  PROVE  Inv'
<1>1. lock = c /\ \A d \in Commands \ {c} : cmd[d].pc \notin Inside
  BY DEF Inv, CommandHolds
<1>2. \A k \in Keys : worker[k].pc \notin Writing
  BY <1>1, KeysAssumption DEF Inv, WorkerHolds
<1>3. TypeOK'
  BY TypeParts DEF Inv, TypeOK, Works, Cmds
<1>4. \A k \in Keys : WorkerHolds(k)'
  BY <1>2 DEF WorkerHolds
<1>5. \A d \in Commands : CommandHolds(d)'
  <2>1. ASSUME NEW d \in Commands \ {c} PROVE CommandHolds(d)'
    <3>1. cmd'[d] = cmd[d] /\ cmd[d].pc \notin {"first", "second", "third"}
      BY <1>1 DEF Inside
    <3>2. cmd[d].pc # "idle" /\ cmd[d].op # "migrate" => cmd[d].key \in Keys
      BY DEF Inv, CommandHolds
    <3>3. QED
      BY <3>1, <3>2 DEF CommandHolds, Inside
  <2>2. QED
    BY <2>1
<1>6. QED
  BY <1>3, <1>4, <1>5 DEF Inv

-----------------------------------------------------------------------------
(* The steps of the workers *)

(* Every step of a worker keeps the invariant. *)
LEMMA WorkerSteps ==
  ASSUME Inv, NEW k \in Keys, assemblePeers(k) \/ Worker(k)
  PROVE  Inv'
<1>0. TypeOK /\ WorkerHolds(k)
  BY DEF Inv
<1>1. CASE assemblePeers(k)
  <2>1. Step(k, "idle") /\ UNCHANGED <<files, lock, cmd, ops, migrations>>
    BY <1>1 DEF assemblePeers
  <2>2. QED
    BY <1>0, <2>1, StepKeeps, WorkerQuiet DEF Writing
<1>2. CASE peerSource(k)
  <2>1. UNCHANGED <<files, lock, cmd, ops, migrations>>
    BY <1>2 DEF peerSource
  <2>2. \/ Step(k, "off")
        \/ \E b \in BOOLEAN : worker' = [worker EXCEPT ![k].pc = "attempt", ![k].first = b]
    BY Zenon, <1>2 DEF peerSource
  <2>3. /\ worker' \in [Keys -> Works] /\ worker'[k].pc \in {"off", "attempt"}
        /\ \A j \in Keys \ {k} : worker'[j] = worker[j]
    BY <1>0, <2>2, StepKeeps, AttemptKeeps
  <2>4. QED
    BY <2>1, <2>3, WorkerQuiet DEF Writing
<1>3. CASE buddyRun(k)
  <2>1. UNCHANGED <<files, lock, cmd, ops, migrations>>
    BY <1>3 DEF buddyRun
  <2>2. Step(k, "idle") \/ Step(k, "up") \/ Step(k, "confirm") \/ Step(k, "save")
    BY <1>3 DEF buddyRun
  <2>3. /\ worker' \in [Keys -> Works] /\ worker'[k].pc \notin Writing
        /\ \A j \in Keys \ {k} : worker'[j] = worker[j]
    BY <1>0, <2>2, StepKeeps DEF Writing
  <2>4. QED
    BY <2>1, <2>3, WorkerQuiet
<1>4. CASE readLocked(k)
  <2>0. /\ worker[k].pc \in {"confirm", "save"} /\ lock = NoOne
        /\ UNCHANGED <<files, cmd, ops, migrations>>
    BY <1>4 DEF readLocked
  <2>1. CASE k \in revoked
    <3>1. Step(k, "idle") /\ lock' = lock
      BY <1>4, <2>1 DEF readLocked
    <3>2. UNCHANGED <<files, lock, cmd, ops, migrations>>
      BY <2>0, <3>1
    <3>3. QED
      BY <1>0, <3>1, <3>2, StepKeeps, WorkerQuiet DEF Writing
  <2>2. CASE k \notin revoked
    <3>1. /\ lock' = k
          /\ worker' = [worker EXCEPT ![k].pc = Locked(worker[k].pc),
                                      ![k].snap = [s |-> sessions, f |-> firstUse]]
      BY <1>4, <2>2 DEF readLocked, Acquire
    <3>2. /\ worker' \in [Keys -> Works] /\ worker'[k].pc \in Writing
          /\ worker'[k].snap.s = sessions /\ worker'[k].snap.f = firstUse
          /\ \A j \in Keys \ {k} : worker'[j] = worker[j]
      BY Zenon, <1>0, <2>0, <3>1, ReadKeeps
    <3>3. /\ revoked' = revoked /\ sessions' = sessions /\ firstUse' = firstUse
          /\ manifest' = manifest /\ legacy' = legacy /\ cmd' = cmd
          /\ ops' = ops /\ migrations' = migrations
      BY <2>0 DEF files, known
    <3>4. TypeOK'
      BY <1>0, <3>1, <3>2, <3>3, TypeParts DEF TypeOK, Works, Cmds
    <3>5. \A j \in Keys \ {k} : worker[j].pc \notin Writing
      BY <2>0, KeysAssumption DEF Inv, WorkerHolds
    <3>6. \A j \in Keys : WorkerHolds(j)'
      BY <2>2, <3>1, <3>2, <3>3, <3>5 DEF WorkerHolds
    <3>7. \A c \in Commands : cmd[c].pc \notin Inside
      BY <2>0, KeysAssumption DEF Inv, CommandHolds
    <3>8. \A c \in Commands : CommandHolds(c)'
      BY <3>3, <3>7 DEF Inv, CommandHolds
    <3>9. QED
      BY <3>4, <3>6, <3>8 DEF Inv
  <2>3. QED
    BY <2>1, <2>2
<1>5. CASE learnPeer(k)
  <2>1. /\ worker[k].pc \in Writing /\ lock' = NoOne /\ Step(k, "save")
        /\ UNCHANGED <<revoked, manifest, legacy, cmd, ops, migrations>>
    BY <1>5 DEF learnPeer, Release, Writing
  <2>2. sessions' \subseteq Keys /\ firstUse' \subseteq Keys
    BY <1>0, <1>5, <2>1 DEF learnPeer, WorkerHolds, TypeOK
  <2>3. QED
    BY <1>0, <2>1, <2>2, StepKeeps, WorkerWrites DEF Writing
<1>6. CASE saveSession(k)
  <2>1. /\ worker[k].pc \in Writing /\ lock' = NoOne /\ Step(k, "up")
        /\ UNCHANGED <<revoked, manifest, legacy, cmd, ops, migrations>>
    BY <1>6 DEF saveSession, Release, Writing
  <2>2. sessions' \subseteq Keys /\ firstUse' \subseteq Keys
    BY <1>0, <1>6, <2>1 DEF saveSession, WorkerHolds, TypeOK
  <2>3. QED
    BY <1>0, <2>1, <2>2, StepKeeps, WorkerWrites DEF Writing
<1>7. CASE writeFails(k)
  <2>1. /\ worker[k].pc \in Writing /\ lock' = NoOne /\ Step(k, "idle")
        /\ UNCHANGED <<files, cmd, ops, migrations>>
    BY <1>7 DEF writeFails, Release, Writing
  <2>2. sessions' \subseteq Keys /\ firstUse' \subseteq Keys
        /\ UNCHANGED <<revoked, manifest, legacy, cmd, ops, migrations>>
    BY <1>0, <2>1 DEF TypeOK, files, known
  <2>3. QED
    BY <1>0, <2>1, <2>2, StepKeeps, WorkerWrites DEF Writing
<1>8. CASE tunnelEnds(k)
  <2>1. Step(k, "idle") /\ UNCHANGED <<files, lock, cmd, ops, migrations>>
    BY <1>8 DEF tunnelEnds
  <2>2. QED
    BY <1>0, <2>1, StepKeeps, WorkerQuiet DEF Writing
<1>9. QED
  BY <1>1, <1>2, <1>3, <1>4, <1>5, <1>6, <1>7, <1>8 DEF Worker

-----------------------------------------------------------------------------
(* The steps of the commands *)

(* A command that is started, gets the lock, or dies. *)
LEMMA CommandOutside ==
  ASSUME Inv, NEW c \in Commands,
         \/ \E op \in Operations, k \in Keys \cup {NoOne} : Invoke(c, op, k)
         \/ Lock(c) \/ CommandDies(c)
  PROVE  Inv'
<1>0. TypeOK /\ CommandHolds(c)
  BY DEF Inv
<1>1. ASSUME NEW op \in Operations, NEW k \in Keys \cup {NoOne}, Invoke(c, op, k)
      PROVE  Inv'
  <2> DEFINE m == IF op = "migrate" THEN manifest ELSE {}
             r == [pc |-> "start", op |-> op, key |-> k, snap |-> m]
  <2>1. /\ cmd' = [cmd EXCEPT ![c] = r] /\ cmd[c].pc = "idle"
        /\ UNCHANGED <<files, lock, worker>> /\ ops' = ops + 1
        /\ migrations' \in {migrations, migrations + 1}
        /\ (op = "migrate") = (k = NoOne)
    BY <1>1 DEF Invoke
  <2>2. m \subseteq Keys
    BY <1>0 DEF TypeOK
  <2> HIDE DEF m
  <2>3. r \in Cmds /\ r.pc = "start" /\ r.op = op /\ r.key = k
    BY <2>2 DEF Cmds
  <2> HIDE DEF r
  <2>4. cmd' \in [Commands -> Cmds] /\ cmd'[c] = r /\ \A d \in Commands \ {c} : cmd'[d] = cmd[d]
    BY <1>0, <2>1, <2>3 DEF TypeOK, Cmds
  <2>5. /\ revoked' = revoked /\ sessions' = sessions /\ firstUse' = firstUse
        /\ manifest' = manifest /\ legacy' = legacy /\ lock' = lock /\ worker' = worker
    BY <2>1 DEF files, known
  <2>6. TypeOK'
    BY <1>0, <2>1, <2>4, <2>5, TypeParts DEF TypeOK, Works
  <2>7. \A j \in Keys : WorkerHolds(j)'
    BY <2>5 DEF Inv, WorkerHolds
  <2>8. CommandHolds(c)'
    BY <2>1, <2>3, <2>4 DEF CommandHolds, Inside
  <2>9. \A d \in Commands : CommandHolds(d)'
    BY <2>4, <2>5, <2>8 DEF Inv, CommandHolds
  <2>10. QED
    BY <2>6, <2>7, <2>9 DEF Inv
<1>2. CASE Lock(c)
  <2>1. /\ lock = NoOne /\ lock' = c /\ cmd[c].pc = "start" /\ Go(c, "first")
        /\ UNCHANGED <<files, worker, ops, migrations>>
    BY <1>2 DEF Lock, Acquire
  <2>2. /\ cmd' \in [Commands -> Cmds] /\ cmd'[c].pc = "first"
        /\ cmd'[c].op = cmd[c].op /\ cmd'[c].key = cmd[c].key
        /\ \A d \in Commands \ {c} : cmd'[d] = cmd[d]
    BY <1>0, <2>1, GoKeeps
  <2>3. /\ revoked' = revoked /\ sessions' = sessions /\ firstUse' = firstUse
        /\ manifest' = manifest /\ legacy' = legacy /\ worker' = worker
        /\ ops' = ops /\ migrations' = migrations
    BY <2>1 DEF files, known
  <2>4. TypeOK'
    BY <1>0, <2>1, <2>2, <2>3, TypeParts DEF TypeOK, Works
  <2>5. \A j \in Keys : worker[j].pc \notin Writing
    BY <2>1, KeysAssumption DEF Inv, WorkerHolds
  <2>6. \A d \in Commands : cmd[d].pc \notin Inside
    BY <2>1, KeysAssumption DEF Inv, CommandHolds
  <2>7. \A j \in Keys : WorkerHolds(j)'
    BY <2>3, <2>5 DEF WorkerHolds
  <2>8. CommandHolds(c)'
    BY <1>0, <2>1, <2>2 DEF CommandHolds
  <2>9. \A d \in Commands : CommandHolds(d)'
    BY <2>2, <2>3, <2>6, <2>8 DEF Inv, CommandHolds
  <2>10. QED
    BY <2>4, <2>7, <2>9 DEF Inv
<1>3. CASE CommandDies(c)
  <2>1. /\ cmd' = [cmd EXCEPT ![c] = Shell] /\ UNCHANGED <<files, worker, ops, migrations>>
        /\ lock' = IF lock = c THEN NoOne ELSE lock
    BY <1>3 DEF CommandDies
  <2>2. cmd' \in [Commands -> Cmds] /\ cmd'[c].pc = "idle"
        /\ \A d \in Commands \ {c} : cmd'[d] = cmd[d]
    BY Zenon, <1>0, <2>1, ExitKeeps
  <2>3. /\ revoked' = revoked /\ sessions' = sessions /\ firstUse' = firstUse
        /\ manifest' = manifest /\ legacy' = legacy /\ worker' = worker
        /\ ops' = ops /\ migrations' = migrations
    BY <2>1 DEF files, known
  <2>4. TypeOK'
    BY <1>0, <2>1, <2>2, <2>3, TypeParts DEF TypeOK, Works
  <2>5. \A j \in Keys : WorkerHolds(j)'
    BY <2>1, <2>3, KeysAssumption DEF Inv, WorkerHolds
  <2>6. CommandHolds(c)'
    BY <2>2, Zenon DEF CommandHolds, Inside, Shell
  <2>7. \A d \in Commands : CommandHolds(d)'
    BY <2>1, <2>2, <2>3, <2>6 DEF Inv, CommandHolds
  <2>8. QED
    BY <2>4, <2>5, <2>7 DEF Inv
<1>4. QED
  BY <1>1, <1>2, <1>3

(* The daemon's death frees its lock and no other. *)
LEMMA DaemonDeath ==
  ASSUME Inv, DaemonDies
  PROVE  Inv'
<1>1. /\ worker' = [k \in Keys |-> Asleep] /\ UNCHANGED <<files, cmd, ops, migrations>>
      /\ lock' = IF lock \in Keys THEN NoOne ELSE lock
  BY DEF DaemonDies
<1>2. Asleep.pc = "off" /\ Asleep \in Works
  BY DEF Asleep, Works
<1>3. worker' \in [Keys -> Works] /\ \A k \in Keys : worker'[k].pc = "off"
  BY <1>1, <1>2
<1>4. /\ revoked' = revoked /\ sessions' = sessions /\ firstUse' = firstUse
      /\ manifest' = manifest /\ legacy' = legacy /\ cmd' = cmd
      /\ ops' = ops /\ migrations' = migrations
  BY <1>1 DEF files, known
<1>5. TypeOK'
  BY <1>1, <1>3, <1>4, TypeParts DEF Inv, TypeOK, Cmds
<1>6. \A k \in Keys : WorkerHolds(k)'
  BY <1>3 DEF WorkerHolds, Writing
<1>7. \A c \in Commands : CommandHolds(c)'
  BY <1>1, <1>4, KeysAssumption DEF Inv, CommandHolds
<1>8. QED
  BY <1>5, <1>6, <1>7 DEF Inv

(* A command's writes, each under the lock. *)
LEMMA CommandInside ==
  ASSUME Inv, NEW c \in Commands,
         PeersRemove(c) \/ PeersAdd(c) \/ PeersAllow(c) \/ PeersMigrate(c)
  PROVE  Inv'
<1>0. /\ TypeOK /\ CommandHolds(c) /\ cmd[c] \in Cmds /\ legacy \in BOOLEAN
      /\ revoked \subseteq Keys /\ sessions \subseteq Keys /\ firstUse \subseteq Keys
      /\ manifest \subseteq Keys
  BY DEF Inv, TypeOK, Cmds
<1>1. CASE RemoveTombstone(c)
  <2>1. /\ cmd[c].op = "remove" /\ cmd[c].pc = "first" /\ Go(c, "second")
        /\ revoked' = revoked \cup {cmd[c].key}
        /\ UNCHANGED <<known, manifest, legacy, lock, worker, ops, migrations>>
    BY <1>1 DEF RemoveTombstone, At
  <2>2. cmd[c].key \in Keys /\ lock = c
    BY <1>0, <2>1 DEF CommandHolds, Inside
  <2>3. /\ cmd' \in [Commands -> Cmds] /\ cmd'[c].pc = "second" /\ cmd'[c].op = "remove"
        /\ cmd'[c].key = cmd[c].key /\ \A d \in Commands \ {c} : cmd'[d] = cmd[d]
    BY <1>0, <2>1, GoKeeps
  <2>4. CommandHolds(c)'
    BY <2>1, <2>2, <2>3 DEF CommandHolds
  <2>5. revoked' \subseteq Keys /\ sessions' \subseteq Keys /\ firstUse' \subseteq Keys
        /\ manifest' \subseteq Keys /\ legacy' \in BOOLEAN /\ worker' = worker
        /\ lock' \in {c, NoOne} /\ cmd[c].pc \in Inside /\ UNCHANGED <<ops, migrations>>
    BY <1>0, <2>1, <2>2 DEF known, Inside
  <2>6. QED
    BY <2>3, <2>4, <2>5, CommandWrites
<1>2. CASE RemoveSession(c)
  <2>1. /\ cmd[c].op = "remove" /\ cmd[c].pc = "second" /\ Go(c, "third")
        /\ sessions' = sessions \ {cmd[c].key}
        /\ UNCHANGED <<revoked, firstUse, manifest, legacy, lock, worker, ops, migrations>>
    BY <1>2 DEF RemoveSession, At
  <2>2. cmd[c].key \in revoked /\ cmd[c].key \in Keys /\ lock = c
    BY <1>0, <2>1 DEF CommandHolds, Inside
  <2>3. /\ cmd' \in [Commands -> Cmds] /\ cmd'[c].pc = "third" /\ cmd'[c].op = "remove"
        /\ cmd'[c].key = cmd[c].key /\ \A d \in Commands \ {c} : cmd'[d] = cmd[d]
    BY <1>0, <2>1, GoKeeps
  <2>4. CommandHolds(c)'
    BY <2>1, <2>2, <2>3 DEF CommandHolds
  <2>5. revoked' \subseteq Keys /\ sessions' \subseteq Keys /\ firstUse' \subseteq Keys
        /\ manifest' \subseteq Keys /\ legacy' \in BOOLEAN /\ worker' = worker
        /\ lock' \in {c, NoOne} /\ cmd[c].pc \in Inside /\ UNCHANGED <<ops, migrations>>
    BY <1>0, <2>1, <2>2 DEF Inside
  <2>6. QED
    BY <2>3, <2>4, <2>5, CommandWrites
<1>3. ASSUME cmd[c].pc \in Inside, Exit(c), worker' = worker, UNCHANGED <<ops, migrations>>,
             revoked' \subseteq Keys, sessions' \subseteq Keys, firstUse' \subseteq Keys,
             manifest' \subseteq Keys, legacy' \in BOOLEAN
      PROVE  Inv'
  <2>1. /\ cmd' \in [Commands -> Cmds] /\ cmd'[c].pc = "idle" /\ lock' = NoOne
        /\ cmd'[c] = Shell /\ \A d \in Commands \ {c} : cmd'[d] = cmd[d]
    BY Zenon, <1>0, <1>3, ExitKeeps DEF Exit, Release
  <2>2. CommandHolds(c)'
    BY <2>1, Zenon DEF CommandHolds, Inside, Shell
  <2>3. QED
    BY <1>3, <2>1, <2>2, CommandWrites
<1>4. CASE RemoveManifestEntry(c)
  BY <1>0, <1>3, <1>4 DEF RemoveManifestEntry, At, Inside, known
<1>5. CASE AddEntry(c)
  <2>1. /\ cmd[c].op = "add" /\ cmd[c].pc = "first"
        /\ UNCHANGED <<revoked, known, legacy, worker, ops, migrations>>
    BY <1>5 DEF AddEntry, At
  <2>2. cmd[c].key \in Keys /\ lock = c
    BY <1>0, <2>1 DEF CommandHolds, Inside
  <2>3. manifest' \subseteq Keys
    BY <1>0, <1>5, <2>2 DEF AddEntry
  <2>4. CASE Exit(c)
    BY <1>0, <1>3, <2>1, <2>3, <2>4 DEF known, Inside
  <2>5. CASE Go(c, "second") /\ UNCHANGED lock
    <3>1. /\ cmd' \in [Commands -> Cmds] /\ cmd'[c].pc = "second" /\ cmd'[c].op = "add"
          /\ cmd'[c].key = cmd[c].key /\ \A d \in Commands \ {c} : cmd'[d] = cmd[d]
      BY ZenonT(30), <1>0, <2>1, <2>5, GoKeeps
    <3>2. CommandHolds(c)'
      BY <2>2, <2>5, <3>1 DEF CommandHolds
    <3>3. revoked' \subseteq Keys /\ sessions' \subseteq Keys /\ firstUse' \subseteq Keys
          /\ legacy' \in BOOLEAN /\ worker' = worker
          /\ lock' \in {c, NoOne} /\ cmd[c].pc \in Inside /\ UNCHANGED <<ops, migrations>>
      BY ZenonT(30), <1>0, <2>1, <2>2, <2>5 DEF known, Inside
    <3>4. QED
      BY <2>3, <3>1, <3>2, <3>3, CommandWrites
  <2>6. QED
    BY <1>5, <2>4, <2>5 DEF AddEntry
<1>6. CASE AddLift(c)
  BY <1>0, <1>3, <1>6 DEF AddLift, At, Inside, known
<1>7. CASE PeersAllow(c)
  BY <1>0, <1>3, <1>7 DEF PeersAllow, At, Inside, known
<1>8. CASE PeersMigrate(c)
  <2>1. cmd[c].snap \subseteq Keys
    BY <1>0 DEF Cmds
  <2>2. QED
    BY Zenon, <1>0, <1>3, <1>8, <2>1 DEF PeersMigrate, At, Inside, known
<1>9. QED
  BY <1>1, <1>2, <1>4, <1>5, <1>6, <1>7, <1>8 DEF PeersRemove, PeersAdd

-----------------------------------------------------------------------------
(* The invariant *)

(* The invariant holds at the start. *)
LEMMA InitInv == Init => Inv
<1> SUFFICES ASSUME Init PROVE Inv
  OBVIOUS
<1>1. Asleep.pc = "off" /\ Asleep \in Works
  BY DEF Asleep, Works
<1>2. Shell.pc = "idle" /\ Shell.op = "none" /\ Shell \in Cmds
  BY DEF Shell, Cmds
<1>3. worker \in [Keys -> Works] /\ \A k \in Keys : worker[k].pc = "off"
  BY <1>1 DEF Init
<1>4. cmd \in [Commands -> Cmds] /\ \A c \in Commands : cmd[c].pc = "idle" /\ cmd[c].op = "none"
  BY <1>2 DEF Init
<1>5. TypeOK
  BY <1>3, <1>4 DEF Init, TypeOK, Works, Cmds
<1>6. QED
  BY <1>3, <1>4, <1>5 DEF Inv, WorkerHolds, CommandHolds, Writing, Inside

(* Every step keeps it. *)
LEMMA NextInv == Inv /\ [Next]_vars => Inv'
<1> SUFFICES ASSUME Inv, [Next]_vars PROVE Inv'
  OBVIOUS
<1>1. ASSUME NEW k \in Keys, assemblePeers(k) \/ Worker(k)
      PROVE  Inv'
  BY <1>1, WorkerSteps
<1>2. CASE DaemonDies
  BY <1>2, DaemonDeath
<1>3. ASSUME NEW c \in Commands,
             \/ \E op \in Operations, k \in Keys \cup {NoOne} : Invoke(c, op, k)
             \/ Command(c) \/ CommandDies(c)
      PROVE  Inv'
  BY <1>3, CommandOutside, CommandInside DEF Command
<1>4. CASE UNCHANGED vars
  <2>1. /\ revoked' = revoked /\ sessions' = sessions /\ firstUse' = firstUse
        /\ manifest' = manifest /\ legacy' = legacy /\ lock' = lock /\ worker' = worker
        /\ cmd' = cmd /\ ops' = ops /\ migrations' = migrations
    BY <1>4 DEF vars, files, known
  <2>2. TypeOK'
    BY <2>1, TypeParts DEF Inv, TypeOK, Works, Cmds
  <2>3. QED
    BY <2>1, <2>2 DEF Inv, WorkerHolds, CommandHolds
<1>5. QED
  BY <1>1, <1>2, <1>3, <1>4 DEF Next

(* The invariant holds throughout. *)
LEMMA TrustInv == Spec => []Inv
BY InitInv, NextInv, PTL DEF Spec

-----------------------------------------------------------------------------
(* What a step does to known_peers *)

(* One line is added for a buddy that is not revoked, or a session goes that is,
   or nothing changes: no rewrite brings back or drops what another wrote. *)
KnownStep ==
  \/ sessions' = sessions /\ firstUse' = firstUse
  \/ \E k \in Keys \ revoked : sessions' = sessions /\ firstUse' = firstUse \cup {k}
  \/ \E k \in Keys \ revoked : sessions' = sessions \cup {k} /\ firstUse' = firstUse
  \/ \E k \in revoked : sessions' = sessions \ {k} /\ firstUse' = firstUse

(* Every step is of that kind. *)
LEMMA KnownSteps == Inv /\ [Next]_vars => KnownStep
<1> SUFFICES ASSUME Inv, [Next]_vars PROVE KnownStep
  OBVIOUS
<1>1. ASSUME NEW k \in Keys, assemblePeers(k) \/ Worker(k)
      PROVE  KnownStep
  <2>1. CASE learnPeer(k)
    <3>1. /\ k \notin revoked /\ sessions' = worker[k].snap.s
          /\ firstUse' = worker[k].snap.f \cup {k}
          /\ worker[k].snap.s = sessions /\ worker[k].snap.f = firstUse
      BY <2>1 DEF learnPeer, Inv, WorkerHolds, Writing
    <3>2. QED
      BY <3>1 DEF KnownStep
  <2>2. CASE saveSession(k)
    <3>1. /\ k \notin revoked /\ sessions' = worker[k].snap.s \cup {k}
          /\ firstUse' = worker[k].snap.f
          /\ worker[k].snap.s = sessions /\ worker[k].snap.f = firstUse
      BY <2>2 DEF saveSession, Inv, WorkerHolds, Writing
    <3>2. QED
      BY <3>1 DEF KnownStep
  <2>3. CASE \/ assemblePeers(k) \/ peerSource(k) \/ buddyRun(k) \/ readLocked(k)
             \/ writeFails(k) \/ tunnelEnds(k)
    BY <2>3 DEF assemblePeers, peerSource, buddyRun, readLocked, writeFails, tunnelEnds,
       files, known, KnownStep
  <2>4. QED
    BY <1>1, <2>1, <2>2, <2>3 DEF Worker
<1>2. CASE DaemonDies
  BY <1>2 DEF DaemonDies, files, known, KnownStep
<1>3. ASSUME NEW c \in Commands,
             \/ \E op \in Operations, k \in Keys \cup {NoOne} : Invoke(c, op, k)
             \/ Command(c) \/ CommandDies(c)
      PROVE  KnownStep
  <2>1. CASE RemoveSession(c)
    <3>1. cmd[c].key \in revoked /\ sessions' = sessions \ {cmd[c].key} /\ firstUse' = firstUse
      BY <2>1 DEF RemoveSession, At, Inv, CommandHolds
    <3>2. QED
      BY <3>1 DEF KnownStep
  <2>2. CASE \/ \E op \in Operations, k \in Keys \cup {NoOne} : Invoke(c, op, k)
             \/ Lock(c) \/ CommandDies(c)
    BY <2>2 DEF Invoke, Lock, CommandDies, files, known, KnownStep
  <2>3. CASE \/ RemoveTombstone(c) \/ RemoveManifestEntry(c) \/ AddEntry(c) \/ AddLift(c)
             \/ PeersAllow(c) \/ PeersMigrate(c)
    BY <2>3 DEF RemoveTombstone, RemoveManifestEntry, AddEntry, AddLift, PeersAllow,
       PeersMigrate, known, KnownStep
  <2>4. QED
    BY <1>3, <2>1, <2>2, <2>3 DEF Command, PeersRemove, PeersAdd
<1>4. CASE UNCHANGED vars
  BY <1>4 DEF vars, files, known, KnownStep
<1>5. QED
  BY <1>1, <1>2, <1>3, <1>4 DEF Next

-----------------------------------------------------------------------------
(* The manifest, with at most one migration *)

(* The migration's copy is current at the start: there is none. *)
LEMMA InitMigrate == Init => MigrateInv
<1> SUFFICES ASSUME Init PROVE MigrateInv
  OBVIOUS
<1>1. \A c \in Commands : cmd[c].op = "none"
  BY DEF Init, Shell
<1>2. QED
  BY <1>1 DEF MigrateInv

(* And it stays current: while the manifest is in the line format no command
   changes it, and nobody else migrates it. *)
LEMMA NextMigrate ==
  ASSUME MaxMigrations <= 1
  PROVE  Inv /\ MigrateInv /\ [Next]_vars => MigrateInv'
<1> SUFFICES ASSUME Inv, MigrateInv, [Next]_vars PROVE MigrateInv'
  OBVIOUS
<1>0. TypeOK /\ migrations \in Nat /\ MaxMigrations \in Nat
  BY BoundsAssumption DEF Inv, TypeOK
<1>1. ASSUME cmd' = cmd, manifest' = manifest, legacy' = legacy, migrations' = migrations
      PROVE  MigrateInv'
  BY <1>1 DEF MigrateInv
<1>2. ASSUME NEW k \in Keys, assemblePeers(k) \/ Worker(k)
      PROVE  MigrateInv'
  BY <1>1, <1>2 DEF assemblePeers, Worker, peerSource, buddyRun, readLocked, learnPeer,
     saveSession, writeFails, tunnelEnds, files
<1>3. CASE DaemonDies
  BY <1>1, <1>3 DEF DaemonDies, files
<1>4. ASSUME NEW c \in Commands, NEW op \in Operations, NEW k \in Keys \cup {NoOne},
             Invoke(c, op, k)
      PROVE  MigrateInv'
  <2> DEFINE m == IF op = "migrate" THEN manifest ELSE {}
             r == [pc |-> "start", op |-> op, key |-> k, snap |-> m]
  <2>1. /\ cmd' = [cmd EXCEPT ![c] = r] /\ manifest' = manifest /\ legacy' = legacy
        /\ migrations' = IF op = "migrate" THEN migrations + 1 ELSE migrations
        /\ op = "migrate" => migrations < MaxMigrations /\ legacy
        /\ op = "add" => ~legacy
    BY <1>4 DEF Invoke, files
  <2>2. r.op = op /\ r.snap = m
    OBVIOUS
  <2> HIDE DEF r
  <2>3. cmd'[c] = r /\ \A d \in Commands \ {c} : cmd'[d] = cmd[d]
    BY <1>0, <2>1 DEF TypeOK
  <2>4. CASE op = "migrate"
    <3>1. migrations = 0 /\ migrations' >= 1
      BY <1>0, <2>1, <2>4
    <3>2. \A d \in Commands : cmd[d].op # "migrate"
      BY <1>0, <3>1 DEF MigrateInv
    <3>3. QED
      BY <2>1, <2>2, <2>3, <2>4, <3>1, <3>2 DEF MigrateInv
  <2>5. CASE op # "migrate"
    BY <2>1, <2>2, <2>3, <2>5 DEF MigrateInv
  <2>6. QED
    BY <2>4, <2>5
<1>5. ASSUME NEW c \in Commands, \E pc \in {"first", "second", "third"} : Go(c, pc),
             legacy' = legacy, migrations' = migrations,
             manifest' = manifest \/ ~legacy
      PROVE  MigrateInv'
  <2>1. \A d \in Commands : cmd'[d].op = cmd[d].op /\ cmd'[d].snap = cmd[d].snap
    BY <1>0, <1>5, GoKeeps
  <2>2. QED
    BY <1>5, <2>1 DEF MigrateInv
<1>6. ASSUME NEW c \in Commands, cmd' = [cmd EXCEPT ![c] = Shell], migrations' = migrations,
             \/ legacy' = legacy /\ (manifest' = manifest \/ ~legacy)
             \/ ~legacy' /\ cmd[c].op = "migrate"
      PROVE  MigrateInv'
  <2>1. cmd'[c].op = "none" /\ \A d \in Commands \ {c} : cmd'[d] = cmd[d]
    BY Zenon, <1>0, <1>6, ExitKeeps DEF Shell
  <2>2. CASE legacy' = legacy /\ (manifest' = manifest \/ ~legacy)
    BY <1>6, <2>1, <2>2 DEF MigrateInv
  <2>3. CASE ~legacy' /\ cmd[c].op = "migrate"
    <3>1. \A d \in Commands : cmd'[d].op # "migrate"
      BY <2>1, <2>3 DEF MigrateInv
    <3>2. QED
      BY <2>3, <3>1 DEF MigrateInv
  <2>4. QED
    BY <1>6, <2>2, <2>3
<1>7. ASSUME NEW c \in Commands, Lock(c) \/ CommandDies(c)
      PROVE  MigrateInv'
  BY <1>5, <1>6, <1>7 DEF Lock, CommandDies, files
<1>8. ASSUME NEW c \in Commands, RemoveTombstone(c) \/ RemoveSession(c)
      PROVE  MigrateInv'
  BY <1>5, <1>8 DEF RemoveTombstone, RemoveSession
<1>9. ASSUME NEW c \in Commands, RemoveManifestEntry(c) \/ AddLift(c) \/ PeersAllow(c)
      PROVE  MigrateInv'
  BY <1>6, <1>9 DEF RemoveManifestEntry, AddLift, PeersAllow, Exit
<1>10. ASSUME NEW c \in Commands, AddEntry(c)
       PROVE  MigrateInv'
  <2>1. cmd[c].op = "add" /\ legacy' = legacy /\ migrations' = migrations
    BY ZenonT(30), <1>10 DEF AddEntry, At
  <2>2. ~legacy
    BY <2>1 DEF MigrateInv
  <2>3. Go(c, "second") \/ cmd' = [cmd EXCEPT ![c] = Shell]
    BY <1>10 DEF AddEntry, Exit
  <2>4. QED
    BY <1>5, <1>6, <2>1, <2>2, <2>3
<1>11. ASSUME NEW c \in Commands, PeersMigrate(c)
       PROVE  MigrateInv'
  BY Zenon, <1>6, <1>11 DEF PeersMigrate, At, Exit
<1>12. CASE UNCHANGED vars
  BY <1>1, <1>12 DEF vars, files
<1>13. QED
  BY <1>2, <1>3, <1>4, <1>7, <1>8, <1>9, <1>10, <1>11, <1>12
     DEF Next, Command, PeersRemove, PeersAdd

(* A manifest entry goes only by a removal that wrote its tombstone. *)
LEMMA ManifestSteps == Inv /\ MigrateInv /\ [Next]_vars => manifest \ manifest' \subseteq revoked
<1> SUFFICES ASSUME Inv, MigrateInv, [Next]_vars
             PROVE  manifest \ manifest' \subseteq revoked
  OBVIOUS
<1>1. ASSUME manifest' = manifest PROVE manifest \ manifest' \subseteq revoked
  BY <1>1
<1>2. ASSUME NEW k \in Keys, assemblePeers(k) \/ Worker(k)
      PROVE  manifest' = manifest
  BY <1>2 DEF assemblePeers, Worker, peerSource, buddyRun, readLocked, learnPeer,
     saveSession, writeFails, tunnelEnds, files
<1>3. CASE DaemonDies
  BY <1>1, <1>3 DEF DaemonDies, files
<1>4. ASSUME NEW c \in Commands,
             \/ \E op \in Operations, k \in Keys \cup {NoOne} : Invoke(c, op, k)
             \/ Command(c) \/ CommandDies(c)
      PROVE  manifest \ manifest' \subseteq revoked
  <2>1. CASE RemoveManifestEntry(c)
    <3>1. cmd[c].key \in revoked /\ manifest' \in {manifest, manifest \ {cmd[c].key}}
      BY <2>1 DEF RemoveManifestEntry, At, Inv, CommandHolds
    <3>2. QED
      BY <3>1
  <2>2. CASE AddEntry(c)
    BY <2>2 DEF AddEntry
  <2>3. CASE PeersMigrate(c)
    BY <2>3 DEF PeersMigrate, At, MigrateInv
  <2>4. CASE \/ \E op \in Operations, k \in Keys \cup {NoOne} : Invoke(c, op, k)
             \/ Lock(c) \/ CommandDies(c)
    BY <1>1, <2>4 DEF Invoke, Lock, CommandDies, files
  <2>5. CASE RemoveTombstone(c) \/ RemoveSession(c) \/ AddLift(c) \/ PeersAllow(c)
    BY <1>1, <2>5 DEF RemoveTombstone, RemoveSession, AddLift, PeersAllow
  <2>6. QED
    BY <1>4, <2>1, <2>2, <2>3, <2>4, <2>5 DEF Command, PeersRemove, PeersAdd
<1>5. CASE UNCHANGED vars
  BY <1>1, <1>5 DEF vars, files
<1>6. QED
  BY <1>1, <1>2, <1>3, <1>4, <1>5 DEF Next

-----------------------------------------------------------------------------

(* The trust state on disk and in the processes is well typed throughout. *)
THEOREM TrustTyped == Spec => []TypeOK
<1>1. Inv => TypeOK
  BY DEF Inv
<1>2. QED
  BY <1>1, TrustInv, PTL

(* saveSession and learnPeer never write a line for a buddy that is revoked at
   that moment, and no rewrite of known_peers resurrects one: whatever peers
   commands and workers run, and whichever of them die. *)
THEOREM TrustRevokedNeverStored == Spec => RevokedNeverStored
<1>1. KnownStep => \A k \in revoked : /\ k \in sessions' => k \in sessions
                                      /\ k \in firstUse' => k \in firstUse
  BY DEF KnownStep
<1>2. Inv /\ [Next]_vars =>
        [\A k \in revoked : /\ k \in sessions' => k \in sessions
                            /\ k \in firstUse' => k \in firstUse]_vars
  BY <1>1, KnownSteps
<1>3. QED
  BY <1>2, TrustInv, PTL DEF Spec, RevokedNeverStored

(* With at most one PeersMigrate, a session line or a manifest entry goes only
   for a buddy whose tombstone is on disk, and a first-use line never: no
   saveSession, learnPeer or peers command drops what another process wrote,
   and a PeersRemove that dies half-way has revoked before it deletes. *)
THEOREM TrustLostOnlyIfRevoked ==
  ASSUME MaxMigrations <= 1
  PROVE  Spec => LostOnlyIfRevoked
<1>1. KnownStep => sessions \ sessions' \subseteq revoked /\ firstUse \subseteq firstUse'
  BY DEF KnownStep
<1>2. Inv /\ MigrateInv /\ [Next]_vars =>
        [/\ (sessions \ sessions') \cup (manifest \ manifest') \subseteq revoked
         /\ firstUse \subseteq firstUse']_vars
  BY <1>1, KnownSteps, ManifestSteps
<1>3. Inv /\ MigrateInv /\ [Next]_vars => MigrateInv'
  BY NextMigrate
<1>4. QED
  BY <1>2, <1>3, TrustInv, InitMigrate, PTL DEF Spec, LostOnlyIfRevoked

-----------------------------------------------------------------------------
(* LazyTunnel.  The inductive invariant ties the fields of the lazyTunnel
   to the place the reconnect loop has reached; NoLostWake and ClosedOnce
   follow from it for any number of connections. *)

(* While the loop sleeps or backs off the tunnel is SLEEPING or WAKING, its
   channel is open, and WAKING means that a token is queued. *)
Resting ==
  loop \in {"asleep", "backoff"} =>
    /\ ~sess
    /\ ready \notin closed
    /\ waking => wake = 1

(* During a dial nobody has a session yet and the channel is open. *)
Dialling == loop = "dialing" => ~sess /\ ready \notin closed

(* Once the outcome is announced the channel stays closed until markIdle. *)
Announced == loop \in {"failed", "rejected", "up", "down"} => ready \in closed

LazyInv == LazyTypeOK /\ Resting /\ Dialling /\ Announced /\ NoLostWake

(* newLazyTunnel establishes the invariant. *)
LEMMA LazyInitInv == LazyInit => LazyInv
<1> SUFFICES ASSUME LazyInit PROVE LazyInv
  OBVIOUS
<1>1. LazyTypeOK
  <2>1. closed \in SUBSET Chans /\ wake \in 0 .. 1 /\ loop \in Loops
    BY DEF LazyInit, Loops
  <2>2. /\ client \in [Clients -> {"none", "waiting", "splicing"}]
        /\ chan \in [Clients -> Chans]
        /\ got \in [Clients -> {"none", "session", "error", "nothing"}]
    BY DEF LazyInit
  <2>3. /\ sess \in BOOLEAN /\ err \in BOOLEAN /\ waking \in BOOLEAN
        /\ ready \in Chans /\ cancelled \in BOOLEAN
    BY Zenon DEF LazyInit
  <2>4. QED
    BY <2>1, <2>2, <2>3 DEF LazyTypeOK
<1>2. Resting /\ Dialling /\ Announced /\ NoLostWake
  BY DEF LazyInit, Resting, Dialling, Announced, NoLostWake
<1>3. QED
  BY <1>1, <1>2 DEF LazyInv

(* The steps of a connection's goroutine keep the invariant. *)
LEMMA ConnInv ==
  ASSUME LazyInv, NEW c \in Clients, Conn(c)
  PROVE  LazyInv'
<1> USE DEF LazyInv, LazyTypeOK, Loops, Resting, Dialling, Announced, NoLostWake, lazy
<1>1. CASE GetConnected(c)
  BY <1>1 DEF GetConnected
<1>2. CASE GetSleeping(c)
  BY <1>2 DEF GetSleeping, WakeSent
<1>3. CASE GetReturns(c)
  BY <1>3 DEF GetReturns
<1>4. CASE GetCancelled(c)
  BY <1>4 DEF GetCancelled
<1>5. CASE StreamEnds(c)
  BY <1>5 DEF StreamEnds
<1>6. QED
  BY Zenon, <1>1, <1>2, <1>3, <1>4, <1>5 DEF Conn

(* The steps of the reconnect loop keep the invariant. *)
LEMMA LoopInv ==
  ASSUME LazyInv, Loop
  PROVE  LazyInv'
<1> USE DEF LazyInv, LazyTypeOK, Loops, Resting, Dialling, Announced, NoLostWake, lazy
<1>1. CASE WakeUp
  BY <1>1 DEF WakeUp
<1>2. CASE SetSession
  BY Zenon, <1>2 DEF SetSession, Announce
<1>3. CASE SetFailed
  BY Zenon, <1>3 DEF SetFailed, Announce
<1>4. CASE SessionEnds
  BY <1>4 DEF SessionEnds
<1>5. CASE ServeStreamsCancelled
  BY <1>5 DEF ServeStreamsCancelled
<1>6. CASE MarkIdle
  BY Zenon, <1>6 DEF MarkIdle, FreshReady
<1>7. CASE BackoffOver
  BY <1>7 DEF BackoffOver
<1>8. CASE LoopCancelled
  BY <1>8 DEF LoopCancelled
<1>9. QED
  BY Zenon, <1>1, <1>2, <1>3, <1>4, <1>5, <1>6, <1>7, <1>8 DEF Loop

(* The invariant of the lazy tunnel holds in every reachable state. *)
THEOREM LazyInvariant == LazySpec => []LazyInv
<1>1. ASSUME LazyInv, [LazyNext]_lazyVars
      PROVE  LazyInv'
  <2>1. CASE Loop
    BY <1>1, <2>1, LoopInv
  <2>2. CASE Interrupt
    BY <1>1, <2>2 DEF Interrupt, LazyInv, LazyTypeOK, Resting, Dialling, Announced, NoLostWake, lazy
  <2>3. ASSUME NEW c \in Clients, Conn(c)
        PROVE  LazyInv'
    BY <1>1, <2>3, ConnInv
  <2>4. CASE UNCHANGED lazyVars
    BY <1>1, <2>4 DEF lazyVars, lazy, LazyInv, LazyTypeOK, Resting, Dialling, Announced, NoLostWake
  <2>5. QED
    BY <1>1, <2>1, <2>2, <2>3, <2>4 DEF LazyNext
<1>2. QED
  BY <1>1, LazyInitInv, PTL DEF LazySpec

(* No goroutine blocked in get is ever forgotten by the reconnect loop. *)
THEOREM LazyNoLostWake == LazySpec => []NoLostWake
<1>1. LazyInv => NoLostWake
  BY DEF LazyInv
<1>2. QED
  BY <1>1, LazyInvariant, PTL

(* setSession and setFailed never close a closed channel. *)
THEOREM LazyClosedOnce == LazySpec => []ClosedOnce
<1>1. LazyInv => ClosedOnce
  BY DEF LazyInv, Dialling, ClosedOnce
<1>2. QED
  BY <1>1, LazyInvariant, PTL
=============================================================================
