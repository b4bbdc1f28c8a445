----------------------------- MODULE TrustState -----------------------------
(***************************************************************************)
(* The trust state a buddy keeps on disk and everything that writes it:    *)
(* the revocation file and the lock (internal/role/trustlock.go), the      *)
(* session and first-use lines of known_peers (session.go, trust.go), the  *)
(* manifest (peersfile.go), the peers commands (peerscmd.go) and the       *)
(* workers of a running daemon (peerSource in supervisor.go, the end of    *)
(* buddyRun in connect.go).                                                *)
(*                                                                         *)
(* Commands are processes of their own; a worker is a goroutine of the     *)
(* daemon.  A writer holds one lock from its first read to its last write, *)
(* every write replaces a whole file atomically, readers take no lock, and *)
(* a process may die between any two writes.                               *)
(***************************************************************************)
EXTENDS Integers, FiniteSets

CONSTANTS
    Keys,          \* buddies; the daemon runs at most one worker for each
    Tokened,       \* those whose manifest entry carries a bootstrap token
    Unpinned,      \* those first trusted by SAS and a first-use line
    Commands,      \* processes that run peers commands
    NoOne,         \* the lock is free
    MaxBuddies,
    MaxMigrations, \* how many migrate commands are run
    MaxOps         \* how many commands are run in all

ASSUME KeysAssumption ==
    /\ IsFiniteSet(Keys)
    /\ Keys \cap Commands = {}
    /\ NoOne \notin Keys \cup Commands

ASSUME BoundsAssumption ==
    MaxBuddies \in Nat /\ MaxMigrations \in Nat /\ MaxOps \in Nat

VARIABLES
    revoked,       \* the revocation file
    sessions,      \* known_peers: keys with a session line
    firstUse,      \* known_peers: keys with a trust-on-first-use line
    manifest,      \* the manifest's keys
    legacy,        \* it is still in the line format
    lock,          \* who holds the trust-state lock
    worker,        \* [pc, first, snap] per key
    cmd,           \* [pc, op, key, snap] per command
    ops, migrations

known == <<sessions, firstUse>>
files == <<revoked, known, manifest, legacy>>
vars == <<files, lock, worker, cmd, ops, migrations>>

Asleep == [pc |-> "off", first |-> FALSE, snap |-> [s |-> {}, f |-> {}]]
Shell == [pc |-> "idle", op |-> "none", key |-> NoOne, snap |-> {}]

Init ==
    /\ revoked = {} /\ sessions = {} /\ firstUse = {}
    /\ manifest \in SUBSET Keys
    /\ legacy \in BOOLEAN
    /\ lock = NoOne
    /\ worker = [k \in Keys |-> Asleep]
    /\ cmd = [c \in Commands |-> Shell]
    /\ ops = 0 /\ migrations = 0

\* withTrustStateLock: taken only when free, by worker or command p.
Acquire(p) == lock = NoOne /\ lock' = p
Release == lock' = NoOne

-----------------------------------------------------------------------------
(* The daemon's workers.                                                   *)

Step(k, pc) == worker' = [worker EXCEPT ![k] = [Asleep EXCEPT !.pc = pc]]

\* assemblePeers, at start or on SIGHUP: manifest and sessions without the
\* revoked.
assemblePeers(k) ==
    /\ worker[k].pc = "off"
    /\ k \in (manifest \cup sessions) \ revoked
    /\ Step(k, "idle")
    /\ UNCHANGED <<files, lock, cmd, ops, migrations>>

\* Variant: the revocation file is not consulted on every round.
peerSourceUnchecked(k) ==
    /\ worker[k].pc = "idle"
    /\ k \in sessions \cup (manifest \cap Tokened)
    /\ worker' = [worker EXCEPT ![k].pc = "attempt", ![k].first = k \notin sessions]
    /\ UNCHANGED <<files, lock, cmd, ops, migrations>>

\* peerSource: revoked stops the worker; a session is used, or after repeated
\* failures the token if there is one; without a session the token.
peerSource(k) ==
    LET token == k \in manifest \cap Tokened
    IN  /\ worker[k].pc = "idle"
        /\ \/ k \in revoked /\ Step(k, "off")
           \/ k \notin revoked /\ k \notin sessions /\ ~token /\ Step(k, "off")
           \/ /\ k \notin revoked /\ k \in sessions
              /\ worker' = [worker EXCEPT ![k].pc = "attempt", ![k].first = FALSE]
           \/ /\ k \notin revoked /\ token
              /\ worker' = [worker EXCEPT ![k].pc = "attempt", ![k].first = TRUE]
        /\ UNCHANGED <<files, lock, cmd, ops, migrations>>

\* The attempt fails, or the tunnel is up; a first pairing has state to save.
buddyRun(k) ==
    /\ worker[k].pc = "attempt"
    /\ \/ Step(k, "idle")
       \/ ~worker[k].first /\ Step(k, "up")
       \/ worker[k].first /\ Step(k, IF k \in Unpinned THEN "confirm" ELSE "save")
    /\ UNCHANGED <<files, lock, cmd, ops, migrations>>

Locked(pc) == IF pc = "confirm" THEN "confirming" ELSE "saving"

\* Variant: the revocation is checked and the file read before the lock is
\* taken.
readUnlocked(k) ==
    /\ worker[k].pc \in {"confirm", "save"}
    /\ IF k \in revoked THEN Step(k, "idle")
       ELSE worker' = [worker EXCEPT ![k].pc = Locked(worker[k].pc),
                                     ![k].snap = [s |-> sessions, f |-> firstUse]]
    /\ UNCHANGED <<files, lock, cmd, ops, migrations>>

\* learnPeer and saveSession: lock, refuse a revoked key, read the file ...
readLocked(k) ==
    /\ worker[k].pc \in {"confirm", "save"}
    /\ lock = NoOne
    /\ IF k \in revoked
       THEN Step(k, "idle") /\ UNCHANGED lock
       ELSE /\ Acquire(k)
            /\ worker' = [worker EXCEPT ![k].pc = Locked(worker[k].pc),
                                        ![k].snap = [s |-> sessions, f |-> firstUse]]
    /\ UNCHANGED <<files, cmd, ops, migrations>>

\* ... add this buddy's line to what was read, and replace the file.
learnPeer(k) ==
    /\ worker[k].pc = "confirming"
    /\ sessions' = worker[k].snap.s
    /\ firstUse' = worker[k].snap.f \cup {k}
    /\ Release
    /\ Step(k, "save")
    /\ UNCHANGED <<revoked, manifest, legacy, cmd, ops, migrations>>

saveSession(k) ==
    /\ worker[k].pc = "saving"
    /\ sessions' = worker[k].snap.s \cup {k}
    /\ firstUse' = worker[k].snap.f
    /\ Release
    /\ Step(k, "up")
    /\ UNCHANGED <<revoked, manifest, legacy, cmd, ops, migrations>>

\* The write fails: the attempt ends with its error.
writeFails(k) ==
    /\ worker[k].pc \in {"confirming", "saving"}
    /\ Release
    /\ Step(k, "idle")
    /\ UNCHANGED <<files, cmd, ops, migrations>>

\* The tunnel drops, or --reauth-interval ends it.
tunnelEnds(k) ==
    /\ worker[k].pc = "up"
    /\ Step(k, "idle")
    /\ UNCHANGED <<files, lock, cmd, ops, migrations>>

\* The daemon dies; its lock dies with it.
DaemonDies ==
    /\ \E k \in Keys : worker[k].pc # "off"
    /\ worker' = [k \in Keys |-> Asleep]
    /\ lock' = IF lock \in Keys THEN NoOne ELSE lock
    /\ UNCHANGED <<files, cmd, ops, migrations>>

-----------------------------------------------------------------------------
(* The peers commands.                                                     *)

Go(c, pc) == cmd' = [cmd EXCEPT ![c].pc = pc]
Exit(c) == cmd' = [cmd EXCEPT ![c] = Shell] /\ Release
At(c, op, pc) == cmd[c].op = op /\ cmd[c].pc = pc

Invoke(c, op, k) ==
    /\ cmd[c].pc = "idle"
    /\ ops < MaxOps /\ ops' = ops + 1
    /\ op = "migrate" => migrations < MaxMigrations
    /\ migrations' = IF op = "migrate" THEN migrations + 1 ELSE migrations
    /\ (op = "migrate") = (k = NoOne)
    /\ op = "add" => ~legacy            \* its check before the lock
    /\ op = "migrate" => legacy
    /\ cmd' = [cmd EXCEPT ![c] =
            [pc |-> "start", op |-> op, key |-> k,
             snap |-> IF op = "migrate" THEN manifest ELSE {}]]
    /\ UNCHANGED <<files, lock, worker>>

\* Every command but migrate reads under the lock; migrate read the manifest
\* and wrote its backup before.
Lock(c) ==
    /\ cmd[c].pc = "start"
    /\ Acquire(c)
    /\ Go(c, "first")
    /\ UNCHANGED <<files, worker, ops, migrations>>

\* Variant: session first, tombstone last.
RemoveSessionFirst(c) ==
    /\ At(c, "remove", "first")
    /\ sessions' = sessions \ {cmd[c].key}
    /\ Go(c, "second")
    /\ UNCHANGED <<revoked, firstUse, manifest, legacy, lock, worker, ops, migrations>>

\* PeersRemove: tombstone, then session, then manifest entry.
RemoveTombstone(c) ==
    /\ At(c, "remove", "first")
    /\ revoked' = revoked \cup {cmd[c].key}
    /\ Go(c, "second")
    /\ UNCHANGED <<known, manifest, legacy, lock, worker, ops, migrations>>

RemoveSession(c) ==
    /\ At(c, "remove", "second")
    /\ sessions' = sessions \ {cmd[c].key}
    /\ Go(c, "third")
    /\ UNCHANGED <<revoked, firstUse, manifest, legacy, lock, worker, ops, migrations>>

\* A manifest in the line format is left alone and reported.
RemoveManifestEntry(c) ==
    /\ At(c, "remove", "third")
    /\ manifest' = IF legacy THEN manifest ELSE manifest \ {cmd[c].key}
    /\ Exit(c)
    /\ UNCHANGED <<revoked, known, legacy, worker, ops, migrations>>

\* PeersRemove as a whole, one action per durable write.
PeersRemove(c) == RemoveTombstone(c) \/ RemoveSession(c) \/ RemoveManifestEntry(c)

\* PeersAdd: already listed and not revoked is nothing to do; otherwise the
\* manifest entry first (refused over the limit), then the tombstone is lifted.
AddEntry(c) ==
    LET k == cmd[c].key
    IN  /\ At(c, "add", "first")
        /\ \/ k \in manifest \ revoked /\ Exit(c) /\ UNCHANGED manifest
           \/ k \notin manifest /\ Cardinality(manifest) >= MaxBuddies
              /\ Exit(c) /\ UNCHANGED manifest
           \/ k \notin manifest /\ Cardinality(manifest) < MaxBuddies
              /\ manifest' = manifest \cup {k} /\ Go(c, "second") /\ UNCHANGED lock
           \/ k \in manifest \cap revoked /\ Go(c, "second") /\ UNCHANGED <<manifest, lock>>
        /\ UNCHANGED <<revoked, known, legacy, worker, ops, migrations>>

AddLift(c) ==
    /\ At(c, "add", "second")
    /\ revoked' = revoked \ {cmd[c].key}
    /\ Exit(c)
    /\ UNCHANGED <<known, manifest, legacy, worker, ops, migrations>>

PeersAdd(c) == AddEntry(c) \/ AddLift(c)

PeersAllow(c) ==
    /\ At(c, "allow", "first")
    /\ revoked' = revoked \ {cmd[c].key}
    /\ Exit(c)
    /\ UNCHANGED <<known, manifest, legacy, worker, ops, migrations>>

\* PeersMigrate writes what it read before it had the lock.
PeersMigrate(c) ==
    /\ At(c, "migrate", "first")
    /\ manifest' = cmd[c].snap
    /\ legacy' = FALSE
    /\ Exit(c)
    /\ UNCHANGED <<revoked, known, worker, ops, migrations>>

\* The process is killed, or a write fails and the command gives up: what it
\* wrote so far stays.
CommandDies(c) ==
    /\ cmd[c].pc # "idle"
    /\ cmd' = [cmd EXCEPT ![c] = Shell]
    /\ lock' = IF lock = c THEN NoOne ELSE lock
    /\ UNCHANGED <<files, worker, ops, migrations>>

-----------------------------------------------------------------------------

Worker(k) ==
    \/ peerSource(k) \/ buddyRun(k) \/ readLocked(k) \/ learnPeer(k)
    \/ saveSession(k) \/ writeFails(k) \/ tunnelEnds(k)

Command(c) ==
    \/ Lock(c) \/ PeersRemove(c) \/ PeersAdd(c) \/ PeersAllow(c) \/ PeersMigrate(c)

Operations == {"remove", "add", "allow", "migrate"}

Next ==
    \/ \E k \in Keys : assemblePeers(k) \/ Worker(k)
    \/ DaemonDies
    \/ \E c \in Commands :
          \/ \E op \in Operations, k \in Keys \cup {NoOne} : Invoke(c, op, k)
          \/ Command(c)
          \/ CommandDies(c)

\* A worker keeps going, its attempts time out, its tunnels end (with
\* --reauth-interval), and it gets the lock if that keeps coming free (Go's
\* mutex does not starve a waiter); a command that was started finishes or dies.
Spec ==
    /\ Init /\ [][Next]_vars
    /\ \A k \in Keys : WF_vars(Worker(k)) /\ SF_vars(readLocked(k))
    /\ \A c \in Commands : WF_vars(Command(c) \/ CommandDies(c))

-----------------------------------------------------------------------------

TypeOK ==
    /\ revoked \subseteq Keys /\ sessions \subseteq Keys /\ firstUse \subseteq Keys
    /\ manifest \subseteq Keys /\ legacy \in BOOLEAN
    /\ lock \in Keys \cup Commands \cup {NoOne}
    /\ worker \in [Keys -> [pc : {"off", "idle", "attempt", "confirm", "save",
                                  "confirming", "saving", "up"},
                            first : BOOLEAN,
                            snap : [s : SUBSET Keys, f : SUBSET Keys]]]
    /\ cmd \in [Commands -> [pc : {"idle", "start", "first", "second", "third"},
                             op : Operations \cup {"none"},
                             key : Keys \cup {NoOne}, snap : SUBSET Keys]]
    /\ ops \in Nat /\ migrations \in Nat

\* No step writes a session or first-use line for a buddy that is revoked at
\* that moment: neither a pairing that was under way when the tombstone was
\* written, nor another worker's rewrite of the file from what it read before
\* (the check and the read of saveSession and learnPeer are under the lock).
RevokedNeverStored ==
    [][\A k \in revoked : /\ k \in sessions' => k \in sessions
                          /\ k \in firstUse' => k \in firstUse]_vars

\* A session or a manifest entry disappears only for a buddy that is revoked by
\* then, and a first-use line never: no writer drops another's line, and a
\* removal that dies half-way has written its tombstone first.
LostOnlyIfRevoked ==
    [][/\ (sessions \ sessions') \cup (manifest \ manifest') \subseteq revoked
       /\ firstUse \subseteq firstUse']_vars

\* Once a buddy stays revoked, its worker ends: whatever attempt was under way,
\* whether or not the removal that wrote the tombstone finished, and across
\* restarts of the daemon.
RevocationPrevails ==
    \A k \in Keys : <>[](k \in revoked) => <>[](worker[k].pc = "off")
=============================================================================
