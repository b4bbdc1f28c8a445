---------------------------- MODULE ConnectProofs ----------------------------
(***************************************************************************)
(* Proofs for Connect, for any workers and configurations, any answers of  *)
(* the server, any reachability and any number of outages and restarts.    *)
(* Inv follows an attempt: a partner that passed the pins stays the one    *)
(* that passed them; beyond the SAS it is trusted, beyond the handshake it *)
(* has answered; whoever writes the cache holds writeMu and writes what is *)
(* in memory; and memory only ever adds to the file.                       *)
(***************************************************************************)
EXTENDS Connect, TLAPS

(* Time for the larger leaves. *)
USE SMTT(20), ZenonT(30)

Live == {"remember", "write", "save", "up"}
Trusting == {"handshake"} \cup Live
Chosen == {"walk", "sas"} \cup Trusting

Open(w) == setup[w].pins = {} /\ ~setup[w].lab

WorkerOK(w) ==
  /\ ~setup[w].on => st[w].pc = "stopped"
  /\ known[w] \in Friends \cup {NoKey}
  /\ st[w].pc \in Chosen =>
        /\ st[w].key \in Keys \ {Me}
        /\ setup[w].pins \subseteq {st[w].key}
        /\ Open(w) => known[w] \in {NoKey, st[w].key}
  /\ st[w].pc = "walk" => st[w].chain # <<>> /\ (Open(w) /\ known[w] = NoKey => st[w].sas)
  /\ st[w].pc \in Trusting => (Open(w) => known[w] = st[w].key)
  /\ st[w].pc \in Live \/ (st[w].pc = "sas" /\ ~setup[w].wg) => reach[st[w].key] # {}
  /\ st[w].pc \in {"walk", "sas", "handshake", "remember"} => st[w].entry \in Entries
  /\ st[w].pc = "write" => writeMu = w /\ st[w].snap = peers

Confirmed(cache) ==
  \A k \in Keys :
    cache[k] # Absent /\ ~cache[k].earlier =>
      /\ k # Me /\ reach[k] # {}
      /\ \E w \in Workers :
            /\ setup[w].on
            /\ k \in setup[w].pins \cup Friends \/ setup[w].lab

Grown(old, new) ==
  \A k \in Keys : old[k] # Absent =>
    new[k] # Absent /\ (old[k].name # NoName => new[k].name = old[k].name)

CacheOK ==
  /\ peers[Me] = Absent /\ disk[Me] = Absent
  /\ Confirmed(peers) /\ Confirmed(disk)
  /\ OneKeyPerName(peers) /\ OneKeyPerName(disk)
  /\ Grown(disk, peers)

Inv == TypeOK /\ CacheOK /\ \A w \in Workers : WorkerOK(w)

Pcs == {"idle", "stopped", "register", "offline", "walk", "sas", "handshake",
        "remember", "write", "save", "up"}
Cache == [Keys -> Entries \cup {Absent}]
States == [pc : Pcs, key : Keys \cup {NoKey}, entry : Entries \cup {Absent}, sas : BOOLEAN,
           chain : Seq(Paths), used : Paths \cup {NoPath}, snap : Cache \cup {Absent}]

-----------------------------------------------------------------------------
(* Steps of one worker *)

(* The resting state is a state. *)
LEMMA RestState ==
  /\ Rest \in States /\ Rest.pc = "idle" /\ Rest.key = NoKey
  /\ \A pc \in Pcs : [Rest EXCEPT !.pc = pc] \in States /\ [Rest EXCEPT !.pc = pc].pc = pc
<1>1. <<>> \in Seq(Paths)
  OBVIOUS
<1> DEFINE e == <<>>
<1>2. Rest = [pc |-> "idle", key |-> NoKey, entry |-> Absent, sas |-> FALSE,
              chain |-> e, used |-> NoPath, snap |-> Absent]
  BY DEF Rest
<1> HIDE DEF e
<1>3. e \in Seq(Paths)
  BY <1>1 DEF e
<1>4. Rest \in States /\ Rest.pc = "idle" /\ Rest.key = NoKey
  BY <1>2, <1>3 DEF States, Pcs
<1>5. QED
  BY <1>4 DEF States

(* An attempt that ends, or a worker that stops, is one worker's step. *)
LEMMA EndKeeps ==
  ASSUME TypeOK, NEW w \in Workers, Fail(w) \/ Stop(w)
  PROVE  /\ st' \in [Workers -> States] /\ st'[w].pc \in {"idle", "stopped"}
         /\ \A j \in Workers \ {w} : st'[j] = st[j]
<1>1. st \in [Workers -> States]
  BY DEF TypeOK, States, Pcs, Cache
<1>2. CASE Fail(w)
  BY <1>1, <1>2, RestState DEF Fail
<1>3. CASE Stop(w)
  <2> DEFINE r == [Rest EXCEPT !.pc = "stopped"]
  <2>1. r \in States /\ r.pc = "stopped"
    BY RestState DEF Pcs
  <2>2. st' = [st EXCEPT ![w] = r]
    BY <1>3 DEF Stop
  <2> HIDE DEF r
  <2>3. QED
    BY <1>1, <2>1, <2>2
<1>4. QED
  BY <1>2, <1>3

(* A worker that goes on keeps what it has. *)
LEMMA GotoKeeps ==
  ASSUME TypeOK, NEW w \in Workers, NEW pc \in Pcs, Goto(w, pc)
  PROVE  /\ st' \in [Workers -> States] /\ st'[w].pc = pc
         /\ st'[w].key = st[w].key /\ st'[w].entry = st[w].entry
         /\ \A j \in Workers \ {w} : st'[j] = st[j]
<1>1. st \in [Workers -> States]
  BY DEF TypeOK, States, Pcs, Cache
<1>2. QED
  BY <1>1 DEF Goto, States

(* So does one that got through on a path. *)
LEMMA ThroughKeeps ==
  ASSUME TypeOK, NEW w \in Workers, NEW pc \in Pcs, NEW p \in Paths, Through(w, pc, p)
  PROVE  /\ st' \in [Workers -> States] /\ st'[w].pc = pc
         /\ st'[w].key = st[w].key /\ st'[w].entry = st[w].entry
         /\ \A j \in Workers \ {w} : st'[j] = st[j]
<1> DEFINE e == <<>>
           r == [st[w] EXCEPT !.pc = pc, !.used = p, !.chain = e]
<1>1. st \in [Workers -> States] /\ st[w] \in States
  BY DEF TypeOK, States, Pcs, Cache
<1>2. e \in Seq(Paths)
  OBVIOUS
<1> HIDE DEF e
<1>3. r \in States /\ r.pc = pc /\ r.key = st[w].key /\ r.entry = st[w].entry
  BY Zenon, <1>1, <1>2 DEF States
<1>4. st' = [st EXCEPT ![w] = r]
  BY Zenon, <1>1 DEF Through, States, e
<1> HIDE DEF r
<1>5. QED
  BY <1>1, <1>3, <1>4

(* The next path of the chain, if there is one. *)
LEMMA NextPathKeeps ==
  ASSUME TypeOK, NEW w \in Workers, st[w].chain # <<>>, nextPath(w)
  PROVE  /\ st' \in [Workers -> States]
         /\ \/ st'[w].pc \in {"idle", "stopped"}
            \/ /\ st'[w].pc = st[w].pc /\ st'[w].chain # <<>> /\ st'[w].sas = st[w].sas
               /\ st'[w].key = st[w].key /\ st'[w].entry = st[w].entry
               /\ st'[w].snap = st[w].snap
         /\ \A j \in Workers \ {w} : st'[j] = st[j]
<1>1. st \in [Workers -> States] /\ st[w] \in States /\ st[w].chain \in Seq(Paths)
  BY DEF TypeOK, States, Pcs, Cache
<1>2. CASE Len(st[w].chain) = 1
  BY <1>2, EndKeeps DEF nextPath
<1>3. CASE Len(st[w].chain) # 1
  <2> DEFINE t == Tail(st[w].chain)
             r == [st[w] EXCEPT !.chain = t]
  <2>1. t \in Seq(Paths) /\ t # <<>>
    <3> DEFINE q == st[w].chain
    <3>1. q \in Seq(Paths) /\ q # <<>> /\ Len(q) # 1
      BY <1>1, <1>3
    <3>2. t = Tail(q)
      OBVIOUS
    <3> HIDE DEF q, t
    <3>3. Tail(q) \in Seq(Paths) /\ Len(Tail(q)) = Len(q) - 1 /\ Len(q) \in Nat /\ Len(q) # 0
      BY <3>1
    <3>4. Len(t) # 0
      BY <3>1, <3>2, <3>3
    <3>5. QED
      BY Zenon, <3>2, <3>3, <3>4
  <2> HIDE DEF t
  <2>2. /\ r \in States /\ r.pc = st[w].pc /\ r.chain = t /\ r.sas = st[w].sas
        /\ r.key = st[w].key /\ r.entry = st[w].entry /\ r.snap = st[w].snap
    BY Zenon, <1>1, <2>1 DEF States
  <2>3. st' = [st EXCEPT ![w] = r]
    BY <1>1, <1>3 DEF nextPath, t, States
  <2> HIDE DEF r
  <2>4. QED
    BY <1>1, <2>1, <2>2, <2>3
<1>4. QED
  BY <1>2, <1>3

(* A chain that is walked is not empty. *)
LEMMA WalkKeeps ==
  ASSUME TypeOK, NEW w \in Workers, NEW k \in Keys, NEW entry \in Entries,
         NEW chain \in Seq(Paths), Walk(w, k, entry, chain)
  PROVE  /\ st' \in [Workers -> States]
         /\ \/ st'[w].pc \in {"idle", "stopped"}
            \/ /\ st'[w].pc = "walk" /\ st'[w].key = k /\ st'[w].entry = entry
               /\ st'[w].chain # <<>> /\ st'[w].sas = needSAS(w)
         /\ \A j \in Workers \ {w} : st'[j] = st[j]
<1>1. st \in [Workers -> States]
  BY DEF TypeOK, States, Pcs, Cache
<1>2. CASE chain = <<>>
  BY <1>2, EndKeeps DEF Walk
<1>3. CASE chain # <<>>
  <2> DEFINE b == needSAS(w)
             r == [Rest EXCEPT !.pc = "walk", !.key = k, !.entry = entry,
                               !.sas = b, !.chain = chain]
  <2>1. b \in BOOLEAN
    BY DEF needSAS
  <2> HIDE DEF b
  <2>2. /\ r \in States /\ r.pc = "walk" /\ r.key = k /\ r.entry = entry
        /\ r.chain = chain /\ r.sas = b
    <3>1. Rest \in States
      BY RestState
    <3>2. "walk" \in Pcs
      BY DEF Pcs
    <3>3. QED
      BY Zenon, <2>1, <3>1, <3>2 DEF States
  <2>3. st' = [st EXCEPT ![w] = r]
    BY <1>3 DEF Walk, b
  <2>4. b = needSAS(w)
    BY DEF b
  <2> HIDE DEF r
  <2>5. QED
    BY <1>1, <1>3, <2>2, <2>3, <2>4
<1>4. QED
  BY <1>2, <1>3

(* The chains are sequences of paths. *)
LEMMA ChainsTyped ==
  ASSUME NEW w, NEW entry, NEW last
  PROVE  Chain(w, entry, last) \in Seq(Paths) /\ DirectChain(w) \in Seq(Paths)
<1>3. \A b : \A p \in Paths : If(b, p) \in Seq(Paths)
  BY DEF If
<1>4. "punch" \in Paths /\ "relay" \in Paths /\ "cached" \in Paths /\ "configured" \in Paths
  BY DEF Paths
<1> DEFINE x == If(entry.cands, "punch")
           y == If(trustedRelay(w, entry), "relay")
           z == If(~entry.cands /\ last.cands, "cached")
           u == If(setup[w].relay, "relay")
           v == <<"configured">>
<1>5. x \in Seq(Paths) /\ y \in Seq(Paths) /\ z \in Seq(Paths) /\ u \in Seq(Paths)
      /\ v \in Seq(Paths)
  BY <1>3, <1>4
<1>6. Chain(w, entry, last) = (x \o y) \o z /\ DirectChain(w) = v \o u
  BY DEF Chain, DirectChain
<1> HIDE DEF x, y, z, u, v
<1>7. (x \o y) \o z \in Seq(Paths) /\ v \o u \in Seq(Paths)
  BY <1>5
<1>8. QED
  BY <1>6, <1>7

(* The types, part by part. *)
LEMMA TypeParts ==
  ASSUME setup' \in Setups, reach' \in [Keys \ {Me} -> SUBSET {"direct", "relay"}],
         server' \in BOOLEAN, st' \in [Workers -> States],
         known' \in [Workers -> Keys \cup {NoKey}], peers' \in Cache, disk' \in Cache,
         writeMu' \in Workers \cup {NoKey}, outages' \in Nat, restarts' \in Nat
  PROVE  TypeOK'
BY DEF TypeOK, States, Pcs, Cache

(* A step of one worker that leaves the cache alone. *)
LEMMA QuietStep ==
  ASSUME Inv, NEW w \in Workers,
         UNCHANGED <<env, server, peers, disk, writeMu, bounds>>,
         st' \in [Workers -> States], known' \in [Workers -> Keys \cup {NoKey}],
         \A j \in Workers \ {w} : st'[j] = st[j] /\ known'[j] = known[j],
         WorkerOK(w)'
  PROVE  Inv'
<1>1. /\ setup' = setup /\ reach' = reach /\ server' = server /\ peers' = peers
      /\ disk' = disk /\ writeMu' = writeMu /\ outages' = outages /\ restarts' = restarts
  BY DEF env, bounds
<1>2. TypeOK'
  BY <1>1, TypeParts DEF Inv, TypeOK, Cache
<1>3. CacheOK'
  BY <1>1 DEF Inv, CacheOK, Confirmed, OneKeyPerName, Grown
<1>4. \A j \in Workers : WorkerOK(j)'
  <2>1. ASSUME NEW j \in Workers \ {w} PROVE WorkerOK(j)'
    <3>1. WorkerOK(j)
      BY DEF Inv
    <3>2. st'[j] = st[j] /\ known'[j] = known[j]
      OBVIOUS
    <3>3. QED
      BY <1>1, <3>1, <3>2 DEF WorkerOK, Open
  <2>2. QED
    BY <2>1
<1>5. QED
  BY <1>2, <1>3, <1>4 DEF Inv

(* A worker that is back before the choice of a partner. *)
LEMMA EndOK ==
  ASSUME Inv, NEW w \in Workers, st[w].pc # "stopped", known' = known,
         UNCHANGED <<env, server, peers, disk, writeMu, bounds>>,
         st' \in [Workers -> States],
         st'[w].pc \in {"idle", "stopped", "register", "offline"},
         \A j \in Workers \ {w} : st'[j] = st[j]
  PROVE  Inv'
<1>1. setup' = setup
  BY DEF env
<1>2. setup[w].on /\ known[w] \in Friends \cup {NoKey}
  BY DEF Inv, WorkerOK
<1>3. WorkerOK(w)'
  BY <1>1, <1>2 DEF WorkerOK, Chosen, Trusting, Live
<1>4. known' \in [Workers -> Keys \cup {NoKey}]
  BY DEF Inv, TypeOK
<1>5. QED
  BY <1>3, <1>4, QuietStep

(* A worker that starts to walk has a partner the pins let through. *)
LEMMA WalkOK ==
  ASSUME Inv, NEW w \in Workers, st[w].pc # "stopped", known' = known,
         UNCHANGED <<env, server, peers, disk, writeMu, bounds>>,
         NEW k \in Keys \ {Me}, setup[w].pins \subseteq {k},
         Open(w) => known[w] \in {NoKey, k},
         NEW entry \in Entries, NEW chain \in Seq(Paths), Walk(w, k, entry, chain)
  PROVE  Inv'
<1>0. TypeOK
  BY DEF Inv
<1>1. /\ st' \in [Workers -> States]
      /\ \/ st'[w].pc \in {"idle", "stopped"}
         \/ /\ st'[w].pc = "walk" /\ st'[w].key = k /\ st'[w].entry = entry
            /\ st'[w].chain # <<>> /\ st'[w].sas = needSAS(w)
      /\ \A j \in Workers \ {w} : st'[j] = st[j]
  BY <1>0, WalkKeeps
<1>2. CASE st'[w].pc \in {"idle", "stopped"}
  BY <1>1, <1>2, EndOK
<1>3. CASE st'[w].pc = "walk"
  <2>1. setup' = setup /\ st'[w].key = k /\ st'[w].entry = entry
        /\ st'[w].chain # <<>> /\ st'[w].sas = needSAS(w)
    BY <1>1, <1>3 DEF env
  <2>2. setup[w].on /\ known[w] \in Friends \cup {NoKey}
    BY DEF Inv, WorkerOK
  <2>3. Open(w) /\ known[w] = NoKey => needSAS(w)
    BY DEF Open, needSAS
  <2>4. Open(w)' <=> Open(w)
    BY <2>1 DEF Open
  <2>5. WorkerOK(w)'
    BY <1>3, <2>1, <2>2, <2>3, <2>4 DEF WorkerOK, Chosen, Trusting, Live
  <2>6. known' \in [Workers -> Keys \cup {NoKey}]
    BY <1>0 DEF TypeOK
  <2>7. QED
    BY <1>1, <2>5, <2>6, QuietStep
<1>4. QED
  BY <1>1, <1>2, <1>3

(* What the checks on a partner mean. *)
LEMMA PinsPass ==
  ASSUME TypeOK, NEW w \in Workers, NEW k \in Keys, ~Refused(w, k)
  PROVE  setup[w].pins \subseteq {k} /\ (Open(w) => known[w] \in {NoKey, k})
BY DEF Refused, Open

(* The configuration is typed. *)
LEMMA SetupTyped ==
  ASSUME TypeOK, NEW w \in Workers
  PROVE  /\ setup[w].pins \subseteq Keys
         /\ setup[w].direct => \E k \in Keys : setup[w].pins = {k}
BY SetupsAssumption DEF TypeOK, Settings

(* Finding the partner keeps the invariant. *)
LEMMA FindSteps ==
  ASSUME Inv, NEW w \in Workers, begin(w) \/ registered(w) \/ useCached(w)
  PROVE  Inv'
<1>0. TypeOK /\ WorkerOK(w) /\ CacheOK
  BY DEF Inv
<1>1. CASE begin(w)
  <2>1. /\ st[w].pc # "stopped" /\ known' = known
        /\ UNCHANGED <<env, server, peers, disk, writeMu, bounds>>
    BY <1>1 DEF begin
  <2>2. CASE Fail(w)
    BY <1>0, <2>1, <2>2, EndKeeps, EndOK
  <2>3. CASE Goto(w, "register") \/ Goto(w, "offline")
    <3>1. "register" \in Pcs /\ "offline" \in Pcs
      BY DEF Pcs
    <3>2. QED
      BY <1>0, <2>1, <2>3, <3>1, GotoKeeps, EndOK
  <2>4. ASSUME setup[w].direct, NEW k \in setup[w].pins, k # Me,
               Walk(w, k, NoEntry, DirectChain(w))
        PROVE  Inv'
    <3>1. setup[w].pins = {k} /\ k \in Keys \ {Me}
      BY <1>0, <2>4, SetupTyped
    <3>2. NoEntry \in Entries
      BY DEF NoEntry, Entries
    <3>3. DirectChain(w) \in Seq(Paths)
      BY ChainsTyped
    <3>4. ~Open(w)
      BY <3>1 DEF Open
    <3>5. QED
      BY <2>1, <2>4, <3>1, <3>2, <3>3, <3>4, WalkOK
  <2>5. QED
    BY <1>1, <2>2, <2>3, <2>4 DEF begin
<1>2. CASE registered(w)
  <2>1. /\ st[w].pc # "stopped" /\ known' = known
        /\ UNCHANGED <<env, server, peers, disk, writeMu, bounds>>
    BY <1>2 DEF registered
  <2>2. CASE Fail(w)
    BY <1>0, <2>1, <2>2, EndKeeps, EndOK
  <2>3. ASSUME NEW r \in Rosters, r.key # Me, ~Refused(w, r.key),
               Walk(w, r.key, r.entry, Chain(w, r.entry, NoEntry))
        PROVE  Inv'
    <3>1. r.key \in Keys \ {Me} /\ r.entry \in Entries
      BY <2>3, RostersAssumption
    <3>2. setup[w].pins \subseteq {r.key} /\ (Open(w) => known[w] \in {NoKey, r.key})
      BY <1>0, <2>3, <3>1, PinsPass
    <3>3. Chain(w, r.entry, NoEntry) \in Seq(Paths)
      BY ChainsTyped
    <3>4. QED
      BY <2>1, <2>3, <3>1, <3>2, <3>3, WalkOK
  <2>4. QED
    BY <1>2, <2>2, <2>3 DEF registered
<1>3. CASE useCached(w)
  <2>1. /\ st[w].pc # "stopped" /\ known' = known
        /\ UNCHANGED <<env, server, peers, disk, writeMu, bounds>>
    BY <1>3 DEF useCached
  <2>2. CASE Fail(w)
    BY <1>0, <2>1, <2>2, EndKeeps, EndOK
  <2>3. ASSUME NEW k \in Keys, Usable(k), ~Refused(w, k),
               Walk(w, k, peers[k], Chain(w, peers[k], peers[k]))
        PROVE  Inv'
    <3>1. k \in Keys \ {Me} /\ peers[k] \in Entries
      BY <1>0, <2>3 DEF CacheOK, Usable, TypeOK
    <3>2. setup[w].pins \subseteq {k} /\ (Open(w) => known[w] \in {NoKey, k})
      BY <1>0, <2>3, PinsPass
    <3>3. Chain(w, peers[k], peers[k]) \in Seq(Paths)
      BY ChainsTyped
    <3>4. QED
      BY <2>1, <2>3, <3>1, <3>2, <3>3, WalkOK
  <2>4. QED
    BY <1>3, <2>2, <2>3 DEF useCached
<1>4. QED
  BY <1>1, <1>2, <1>3

(* Getting through on a path: without a SAS the partner is trusted already, and
   without WireGuard it has answered. *)
LEMMA ThroughOK ==
  ASSUME Inv, NEW w \in Workers, st[w].pc = "walk", known' = known,
         UNCHANGED <<env, server, peers, disk, writeMu, bounds>>,
         NEW p \in Paths, ~setup[w].wg => Answers(w, p), Through(w, OnPath(w), p)
  PROVE  Inv'
<1>0. TypeOK /\ WorkerOK(w) /\ setup' = setup /\ reach' = reach
  BY DEF Inv, env
<1>1. OnPath(w) \in {"sas", "handshake", "remember"} /\ OnPath(w) \in Pcs
  BY DEF OnPath, Verified, Pcs
<1>2. /\ st' \in [Workers -> States] /\ st'[w].pc = OnPath(w)
      /\ st'[w].key = st[w].key /\ st'[w].entry = st[w].entry
      /\ \A j \in Workers \ {w} : st'[j] = st[j]
  BY <1>0, <1>1, ThroughKeeps
<1>3. ~setup[w].wg => reach[st[w].key] # {}
  BY DEF Answers
<1>4. OnPath(w) # "sas" => (Open(w) => known[w] = st[w].key)
  BY <1>0 DEF OnPath, WorkerOK, Chosen
<1>5. OnPath(w) = "remember" => ~setup[w].wg
  BY DEF OnPath, Verified
<1>6. Open(w)' <=> Open(w)
  BY <1>0 DEF Open
<1>7. /\ setup[w].on /\ known[w] \in Friends \cup {NoKey} /\ st[w].key \in Keys \ {Me}
      /\ setup[w].pins \subseteq {st[w].key} /\ st[w].entry \in Entries
      /\ Open(w) => known[w] \in {NoKey, st[w].key}
  BY <1>0 DEF WorkerOK, Chosen
<1>8. WorkerOK(w)'
  BY ZenonT(30), <1>0, <1>1, <1>2, <1>3, <1>4, <1>5, <1>6, <1>7 DEF WorkerOK, Chosen, Trusting, Live
<1>9. known' \in [Workers -> Keys \cup {NoKey}]
  BY <1>0 DEF TypeOK
<1>10. QED
  BY <1>2, <1>8, <1>9, QuietStep

(* Going on with the next path. *)
LEMMA NextOK ==
  ASSUME Inv, NEW w \in Workers, st[w].pc = "walk", known' = known, nextPath(w),
         UNCHANGED <<env, server, peers, disk, writeMu, bounds>>
  PROVE  Inv'
<1>0. TypeOK /\ WorkerOK(w) /\ setup' = setup /\ reach' = reach /\ st[w].chain # <<>>
  BY DEF Inv, env, WorkerOK
<1>1. /\ st' \in [Workers -> States] /\ \A j \in Workers \ {w} : st'[j] = st[j]
      /\ \/ st'[w].pc \in {"idle", "stopped"}
         \/ /\ st'[w].pc = "walk" /\ st'[w].chain # <<>> /\ st'[w].sas = st[w].sas
            /\ st'[w].key = st[w].key /\ st'[w].entry = st[w].entry
  BY <1>0, NextPathKeeps
<1>2. CASE st'[w].pc \in {"idle", "stopped"}
  BY <1>1, <1>2, EndOK
<1>3. CASE st'[w].pc = "walk"
  <2>1. WorkerOK(w)'
    BY <1>0, <1>1, <1>3 DEF WorkerOK, Chosen, Trusting, Live, Open
  <2>2. known' \in [Workers -> Keys \cup {NoKey}]
    BY <1>0 DEF TypeOK
  <2>3. QED
    BY <1>1, <2>1, <2>2, QuietStep
<1>4. QED
  BY <1>1, <1>2, <1>3

(* Walking the chain keeps the invariant. *)
LEMMA WalkSteps ==
  ASSUME Inv, NEW w \in Workers,
         dialPath(w) \/ listenAllPaths(w) \/ primeWGPath(w) \/ armWGPaths(w)
  PROVE  Inv'
<1>0. /\ TypeOK /\ WorkerOK(w) /\ st[w].pc = "walk" /\ known' = known
      /\ UNCHANGED <<env, server, peers, disk, writeMu, bounds>>
  BY DEF Inv, dialPath, listenAllPaths, primeWGPath, armWGPaths
<1>1. st[w].chain \in Seq(Paths) /\ st[w].chain # <<>>
  BY <1>0 DEF TypeOK, WorkerOK
<1>2. Head(st[w].chain) \in Paths /\ paths(w) \subseteq Paths
  <2> DEFINE q == st[w].chain
  <2> HIDE DEF q
  <2>1. q \in Seq(Paths) /\ q # <<>>
    BY <1>1 DEF q
  <2>2. Head(q) \in Paths /\ \A n \in DOMAIN q : q[n] \in Paths
    BY <2>1
  <2>3. QED
    BY <2>2 DEF paths, q
<1>3. CASE Fail(w)
  BY <1>0, <1>3, EndKeeps, EndOK
<1>4. CASE nextPath(w)
  BY <1>0, <1>4, NextOK
<1>5. CASE \E p \in Paths : (~setup[w].wg => Answers(w, p)) /\ Through(w, OnPath(w), p)
  BY <1>0, <1>5, ThroughOK
<1>6. CASE dialPath(w)
  BY <1>2, <1>4, <1>5, <1>6 DEF dialPath
<1>7. CASE listenAllPaths(w)
  BY <1>2, <1>3, <1>5, <1>7 DEF listenAllPaths
<1>8. CASE primeWGPath(w)
  BY <1>2, <1>4, <1>5, <1>8 DEF primeWGPath
<1>9. CASE armWGPaths(w)
  BY <1>2, <1>5, <1>9 DEF armWGPaths
<1>10. QED
  BY <1>6, <1>7, <1>8, <1>9

(* The verification, the handshake and the end of the tunnel. *)
LEMMA TrustSteps ==
  ASSUME Inv, NEW w \in Workers,
         sas(w) \/ confirmHandshake(w) \/ save(w) \/ tunnelEnds(w)
  PROVE  Inv'
<1>0. /\ TypeOK /\ WorkerOK(w) /\ st[w].pc # "stopped" /\ setup' = setup /\ reach' = reach
      /\ UNCHANGED <<env, server, peers, disk, writeMu, bounds>>
      /\ known \in [Workers -> Keys \cup {NoKey}]
  BY DEF Inv, TypeOK, sas, confirmHandshake, save, tunnelEnds, env
<1>1. CASE (Fail(w) \/ Stop(w)) /\ known' = known
  BY <1>0, <1>1, EndKeeps, EndOK
<1>2. CASE /\ st[w].pc = "sas" /\ st[w].key \in Friends /\ Goto(w, Verified(w))
           /\ known' = [known EXCEPT ![w] = st[w].key]
  <2>1. Verified(w) \in {"handshake", "remember"} /\ Verified(w) \in Pcs
        /\ (Verified(w) = "remember" => ~setup[w].wg)
    BY DEF Verified, Pcs
  <2>2. /\ st' \in [Workers -> States] /\ st'[w].pc = Verified(w)
        /\ st'[w].key = st[w].key /\ st'[w].entry = st[w].entry
        /\ \A j \in Workers \ {w} : st'[j] = st[j]
    BY <1>0, <1>2, <2>1, GotoKeeps
  <2>3. /\ setup[w].on /\ st[w].key \in Keys \ {Me} /\ st[w].entry \in Entries
        /\ setup[w].pins \subseteq {st[w].key}
        /\ ~setup[w].wg => reach[st[w].key] # {}
    BY <1>0, <1>2 DEF WorkerOK, Chosen
  <2>4. /\ known' \in [Workers -> Keys \cup {NoKey}] /\ known'[w] = st[w].key
        /\ \A j \in Workers \ {w} : known'[j] = known[j]
    BY <1>0, <1>2, <2>3
  <2>5. WorkerOK(w)'
    BY ZenonT(30), <1>0, <1>2, <2>1, <2>2, <2>3, <2>4 DEF WorkerOK, Chosen, Trusting, Live
  <2>6. QED
    BY <1>0, <2>2, <2>4, <2>5, QuietStep
<1>3. CASE sas(w)
  BY ZenonT(30), <1>1, <1>2, <1>3 DEF sas
<1>4. ASSUME NEW pc \in {"remember", "up"}, Goto(w, pc), known' = known,
             \/ st[w].pc = "handshake" /\ pc = "remember" /\ Answers(w, st[w].used)
             \/ st[w].pc = "save" /\ pc = "up"
      PROVE  Inv'
  <2>1. /\ st' \in [Workers -> States] /\ st'[w].pc = pc
        /\ st'[w].key = st[w].key /\ st'[w].entry = st[w].entry
        /\ \A j \in Workers \ {w} : st'[j] = st[j]
    <3>1. pc \in Pcs
      BY <1>4 DEF Pcs
    <3>2. QED
      BY <1>0, <1>4, <3>1, GotoKeeps
  <2>2. reach[st[w].key] # {}
    BY <1>0, <1>4 DEF WorkerOK, Live, Answers
  <2>3. /\ setup[w].on /\ st[w].key \in Keys \ {Me} /\ setup[w].pins \subseteq {st[w].key}
        /\ known[w] \in Friends \cup {NoKey} /\ Open(w) => known[w] = st[w].key
        /\ pc = "remember" => st[w].entry \in Entries
    BY <1>0, <1>4 DEF WorkerOK, Chosen, Trusting, Live
  <2>4. Open(w)' <=> Open(w)
    BY <1>0 DEF Open
  <2>5. WorkerOK(w)'
    BY ZenonT(30), <1>0, <1>4, <2>1, <2>2, <2>3, <2>4 DEF WorkerOK, Chosen, Trusting, Live
  <2>6. QED
    BY <1>0, <1>4, <2>1, <2>5, QuietStep
<1>5. CASE confirmHandshake(w)
  BY Zenon, <1>1, <1>4, <1>5 DEF confirmHandshake
<1>6. CASE save(w)
  BY <1>1, <1>4, <1>6 DEF save
<1>7. CASE tunnelEnds(w)
  BY <1>1, <1>7 DEF tunnelEnds
<1>8. QED
  BY <1>3, <1>5, <1>6, <1>7

-----------------------------------------------------------------------------
(* The cache *)

(* Merging a sighting keeps every entry and every name, and a name stays with
   one key. *)
LEMMA MergeGrows ==
  ASSUME NEW k \in Keys, NEW entry \in Entries, peers \in Cache, OneKeyPerName(peers),
         NEW new, new = [peers EXCEPT ![k] = [entry EXCEPT !.name = pinName(k, @)]]
  PROVE  /\ new \in Cache /\ OneKeyPerName(new) /\ Grown(peers, new)
         /\ new[k] # Absent /\ new[k].earlier = entry.earlier
         /\ \A j \in Keys \ {k} : new[j] = peers[j]
<1> DEFINE n == pinName(k, entry.name)
           e == [entry EXCEPT !.name = n]
<1>1. /\ n \in Names \cup {NoName}
      /\ peers[k] # Absent /\ peers[k].name # NoName => n = peers[k].name
      /\ n # NoName => \A j \in Keys \ {k} : peers[j] # Absent => peers[j].name # n
  <2>1. peers[k] # Absent => peers[k].name \in Names \cup {NoName}
    BY Zenon DEF Cache, Entries
  <2>2. entry.name \in Names \cup {NoName}
    BY Zenon DEF Entries
  <2>3. CASE peers[k] # Absent /\ peers[k].name # NoName
    <3>1. n = peers[k].name
      BY <2>3 DEF pinName
    <3>2. QED
      BY <2>1, <2>3, <3>1 DEF OneKeyPerName
  <2>4. CASE ~(peers[k] # Absent /\ peers[k].name # NoName)
    BY <2>2, <2>4 DEF pinName
  <2>5. QED
    BY <2>3, <2>4
<1>2. new = [peers EXCEPT ![k] = e]
  OBVIOUS
<1> HIDE DEF n
<1>3. e \in Entries /\ e.name = n /\ e.earlier = entry.earlier
  BY Zenon, <1>1 DEF Entries
<1> HIDE DEF e
<1>4. e # Absent
  BY <1>3, CachesAssumption
<1>5. new \in Cache /\ new[k] = e /\ \A j \in Keys \ {k} : new[j] = peers[j]
  BY <1>2, <1>3 DEF Cache
<1>6. Grown(peers, new)
  BY Zenon, <1>1, <1>3, <1>4, <1>5 DEF Grown
<1>7. OneKeyPerName(new)
  <2> SUFFICES ASSUME NEW i \in Keys, NEW j \in Keys, new[i] # Absent, new[j] # Absent,
                      new[i].name = new[j].name, new[j].name # NoName
               PROVE  i = j
    BY DEF OneKeyPerName
  <2>1. CASE i # k /\ j # k
    BY <2>1, <1>5 DEF OneKeyPerName
  <2>2. CASE i = k \/ j = k
    BY ZenonT(30), <2>2, <1>1, <1>3, <1>5
  <2>3. QED
    BY <2>1, <2>2
<1>8. QED
  BY <1>3, <1>4, <1>5, <1>6, <1>7

(* The sighting goes into memory under writeMu. *)
LEMMA RememberStep ==
  ASSUME Inv, NEW w \in Workers, remember(w)
  PROVE  Inv'
<1> DEFINE k == st[w].key
           new == [peers EXCEPT ![k] = [st[w].entry EXCEPT !.name = pinName(k, @)]]
<1>0. /\ TypeOK /\ WorkerOK(w) /\ CacheOK /\ peers \in Cache /\ disk \in Cache
      /\ st \in [Workers -> States] /\ st[w] \in States
      /\ known \in [Workers -> Keys \cup {NoKey}]
  BY DEF Inv, TypeOK, Cache, States, Pcs
<1>1. /\ st[w].pc = "remember" /\ writeMu = NoKey /\ writeMu' = w /\ peers' = new
      /\ st' = [st EXCEPT ![w].pc = "write", ![w].snap = new]
      /\ setup' = setup /\ reach' = reach /\ server' = server /\ known' = known
      /\ disk' = disk /\ outages' = outages /\ restarts' = restarts
  BY DEF remember, env, bounds
<1>2. /\ k \in Keys \ {Me} /\ st[w].entry \in Entries /\ setup[w].on
      /\ setup[w].pins \subseteq {k} /\ reach[k] # {} /\ known[w] \in Friends \cup {NoKey}
      /\ Open(w) => known[w] = k
  BY <1>0, <1>1 DEF WorkerOK, Chosen, Trusting, Live
<1>3. /\ new \in Cache /\ OneKeyPerName(new) /\ Grown(peers, new)
      /\ \A j \in Keys \ {k} : new[j] = peers[j]
  BY <1>0, <1>2, MergeGrows DEF CacheOK
<1> HIDE DEF new
<1>4. /\ st' \in [Workers -> States] /\ st'[w].pc = "write" /\ st'[w].key = k
      /\ st'[w].snap = new /\ \A j \in Workers \ {w} : st'[j] = st[j]
  <2> DEFINE r == [st[w] EXCEPT !.pc = "write", !.snap = new]
  <2>1. r \in States /\ r.pc = "write" /\ r.key = k /\ r.snap = new
    BY Zenon, <1>0, <1>3 DEF States, Pcs
  <2>2. st' = [st EXCEPT ![w] = r]
    BY Zenon, <1>0, <1>1 DEF States
  <2> HIDE DEF r
  <2>3. QED
    BY <1>0, <2>1, <2>2
<1>5. TypeOK'
  BY <1>0, <1>1, <1>3, <1>4, TypeParts DEF TypeOK
<1>6. Confirmed(new)
  <2>1. \/ k \in setup[w].pins \cup Friends \/ setup[w].lab
    <3>1. CASE Open(w)
      BY <1>0, <1>2, <3>1, IdentityAssumption
    <3>2. CASE setup[w].pins # {}
      BY <1>2, <3>2
    <3>3. QED
      BY <3>1, <3>2 DEF Open
  <2>2. ASSUME NEW j \in Keys, new[j] # Absent, ~new[j].earlier
        PROVE  /\ j # Me /\ reach[j] # {}
               /\ \E v \in Workers :
                     /\ setup[v].on
                     /\ j \in setup[v].pins \cup Friends \/ setup[v].lab
    <3>1. CASE j = k
      BY <1>2, <2>1, <3>1
    <3>2. CASE j # k
      <4>1. new[j] = peers[j] /\ Confirmed(peers)
        BY <1>0, <1>3, <3>2 DEF CacheOK
      <4>2. QED
        BY <2>2, <4>1 DEF Confirmed
    <3>3. QED
      BY <3>1, <3>2
  <2>3. QED
    BY <2>2 DEF Confirmed
<1>7. Grown(disk, new)
  BY <1>0, <1>3 DEF CacheOK, Grown
<1>8. CacheOK'
  BY <1>0, <1>1, <1>2, <1>3, <1>6, <1>7, IdentityAssumption
     DEF CacheOK, Confirmed, Grown, OneKeyPerName
<1>9. WorkerOK(w)'
  BY <1>1, <1>2, <1>4 DEF WorkerOK, Chosen, Trusting, Live, Open
<1>10. ASSUME NEW j \in Workers \ {w} PROVE WorkerOK(j)'
  <2>1. WorkerOK(j) /\ st'[j] = st[j] /\ st[j].pc # "write"
    BY <1>1, <1>4, IdentityAssumption DEF Inv, WorkerOK
  <2>2. QED
    BY Zenon, <1>1, <2>1 DEF WorkerOK, Open
<1>11. QED
  BY <1>5, <1>8, <1>9, <1>10 DEF Inv

(* What is written is what is in memory. *)
LEMMA WriteStep ==
  ASSUME Inv, NEW w \in Workers, writeCache(w)
  PROVE  Inv' /\ disk' \in {disk, peers}
<1>0. /\ TypeOK /\ WorkerOK(w) /\ CacheOK /\ peers \in Cache /\ disk \in Cache
      /\ st \in [Workers -> States] /\ st[w] \in States
  BY DEF Inv, TypeOK, Cache, States, Pcs
<1>1. /\ st[w].pc = "write" /\ writeMu' = NoKey /\ disk' \in {disk, st[w].snap}
      /\ st' = [st EXCEPT ![w].pc = "save", ![w].snap = Absent, ![w].entry = Absent]
      /\ setup' = setup /\ reach' = reach /\ server' = server /\ known' = known
      /\ peers' = peers /\ outages' = outages /\ restarts' = restarts
  BY DEF writeCache, env, bounds
<1>2. writeMu = w /\ disk' \in {disk, peers}
  BY <1>0, <1>1 DEF WorkerOK
<1>3. /\ st' \in [Workers -> States] /\ st'[w].pc = "save" /\ st'[w].key = st[w].key
      /\ \A j \in Workers \ {w} : st'[j] = st[j]
  <2> DEFINE r == [st[w] EXCEPT !.pc = "save", !.snap = Absent, !.entry = Absent]
  <2>1. r \in States /\ r.pc = "save" /\ r.key = st[w].key
    BY Zenon, <1>0 DEF States, Pcs
  <2>2. st' = [st EXCEPT ![w] = r]
    BY Zenon, <1>0, <1>1 DEF States
  <2> HIDE DEF r
  <2>3. QED
    BY <1>0, <2>1, <2>2
<1>4. TypeOK'
  BY <1>0, <1>1, <1>2, <1>3, TypeParts DEF TypeOK
<1>5. CacheOK'
  <2>1. Grown(peers, peers)
    BY DEF Grown
  <2>2. QED
    BY <1>0, <1>1, <1>2, <2>1 DEF CacheOK, Confirmed, Grown, OneKeyPerName
<1>6. WorkerOK(w)'
  BY <1>0, <1>1, <1>3 DEF WorkerOK, Chosen, Trusting, Live, Open
<1>7. ASSUME NEW j \in Workers \ {w} PROVE WorkerOK(j)'
  <2>1. WorkerOK(j) /\ st'[j] = st[j] /\ st[j].pc # "write"
    BY Zenon, <1>2, <1>3 DEF Inv, WorkerOK
  <2>2. QED
    BY ZenonT(30), <1>1, <2>1 DEF WorkerOK, Open
<1>8. QED
  BY <1>2, <1>4, <1>5, <1>6, <1>7 DEF Inv

(* A restart finds the file, and nobody in an attempt. *)
LEMMA RestartStep ==
  ASSUME Inv, Restart
  PROVE  Inv'
<1>0. /\ TypeOK /\ CacheOK /\ peers \in Cache /\ disk \in Cache
      /\ st \in [Workers -> States] /\ restarts \in Nat
  BY DEF Inv, TypeOK, Cache, States, Pcs
<1>1. /\ st' = [w \in Workers |-> IF setup[w].on THEN Rest ELSE st[w]]
      /\ peers' = disk /\ disk' = disk /\ writeMu' = NoKey /\ restarts' = restarts + 1
      /\ setup' = setup /\ reach' = reach /\ server' = server /\ known' = known
      /\ outages' = outages
  BY DEF Restart, env
<1>2. st' \in [Workers -> States]
  BY <1>0, <1>1, RestState
<1>3. TypeOK'
  <2>1. /\ setup' \in Setups /\ reach' \in [Keys \ {Me} -> SUBSET {"direct", "relay"}]
        /\ server' \in BOOLEAN /\ known' \in [Workers -> Keys \cup {NoKey}]
        /\ outages' \in Nat
    BY <1>0, <1>1 DEF TypeOK
  <2>2. /\ peers' \in Cache /\ disk' \in Cache /\ writeMu' \in Workers \cup {NoKey}
        /\ restarts' \in Nat
    BY <1>0, <1>1
  <2>3. QED
    BY <1>2, <2>1, <2>2, TypeParts
<1>4. CacheOK'
  BY <1>0, <1>1 DEF CacheOK, Confirmed, Grown, OneKeyPerName
<1>5. ASSUME NEW w \in Workers PROVE WorkerOK(w)'
  <2>1. WorkerOK(w)
    BY DEF Inv
  <2>2. CASE setup[w].on
    <3>1. st'[w].pc = "idle"
      BY <1>1, <2>2, RestState
    <3>2. QED
      BY Zenon, <1>1, <2>1, <2>2, <3>1 DEF WorkerOK, Chosen, Trusting, Live
  <2>3. CASE ~setup[w].on
    <3>1. st'[w].pc = "stopped"
      BY Zenon, <1>1, <2>1, <2>3 DEF WorkerOK
    <3>2. QED
      BY Zenon, <1>1, <2>1, <3>1 DEF WorkerOK, Chosen, Trusting, Live
  <2>4. QED
    BY <2>2, <2>3
<1>6. QED
  BY <1>3, <1>4, <1>5 DEF Inv

-----------------------------------------------------------------------------
(* The invariant *)

(* The invariant holds at the start. *)
LEMMA InitInv == Init => Inv
<1> SUFFICES ASSUME Init PROVE Inv
  OBVIOUS
<1>1. disk \in Cache /\ peers = disk /\ disk[Me] = Absent /\ OneKeyPerName(disk)
      /\ \A k \in Keys : disk[k] # Absent => disk[k].earlier
  BY CachesAssumption DEF Init, Cache
<1>2. /\ st = [w \in Workers |-> IF setup[w].on THEN Rest ELSE [Rest EXCEPT !.pc = "stopped"]]
      /\ known = [w \in Workers |-> NoKey]
  BY DEF Init
<1>3. /\ Rest \in States /\ Rest.pc = "idle"
      /\ [Rest EXCEPT !.pc = "stopped"] \in States
      /\ [Rest EXCEPT !.pc = "stopped"].pc = "stopped"
  BY RestState DEF Pcs
<1>4. /\ st \in [Workers -> States]
      /\ \A w \in Workers : st[w].pc = IF setup[w].on THEN "idle" ELSE "stopped"
  BY <1>2, <1>3
<1>5. TypeOK
  <2>1. /\ setup \in Setups /\ reach \in [Keys \ {Me} -> SUBSET {"direct", "relay"}]
        /\ server \in BOOLEAN /\ writeMu \in Workers \cup {NoKey}
        /\ outages \in Nat /\ restarts \in Nat
    BY DEF Init
  <2>2. known \in [Workers -> Keys \cup {NoKey}]
    BY <1>2
  <2>3. QED
    BY <1>1, <1>4, <2>1, <2>2 DEF TypeOK, States, Pcs, Cache
<1>6. CacheOK
  BY ZenonT(30), <1>1 DEF CacheOK, Confirmed, Grown
<1>7. ASSUME NEW w \in Workers PROVE WorkerOK(w)
  <2>1. known[w] = NoKey /\ st[w].pc \in {"idle", "stopped"}
        /\ (~setup[w].on => st[w].pc = "stopped")
    BY <1>2, <1>4
  <2>2. QED
    BY <2>1 DEF WorkerOK, Chosen, Trusting, Live
<1>8. QED
  BY <1>5, <1>6, <1>7 DEF Inv

(* Every step keeps it. *)
LEMMA NextInv == Inv /\ [Next]_vars => Inv'
<1> SUFFICES ASSUME Inv, [Next]_vars PROVE Inv'
  OBVIOUS
<1>1. ASSUME NEW w \in Workers, Attempt(w) \/ tunnelEnds(w)
      PROVE  Inv'
  BY <1>1, FindSteps, WalkSteps, TrustSteps, RememberStep, WriteStep DEF Attempt
<1>2. ASSUME setup' = setup, reach' = reach, st' = st, known' = known, peers' = peers,
             disk' = disk, writeMu' = writeMu, server' \in BOOLEAN, outages' \in Nat,
             restarts' = restarts
      PROVE  Inv'
  <2>1. TypeOK'
    BY ZenonT(30), <1>2, TypeParts DEF Inv, TypeOK, States, Pcs, Cache
  <2>2. CacheOK'
    BY <1>2 DEF Inv, CacheOK, Confirmed, Grown, OneKeyPerName
  <2>3. \A w \in Workers : WorkerOK(w)'
    BY ZenonT(30), <1>2 DEF Inv, WorkerOK, Open
  <2>4. QED
    BY <2>1, <2>2, <2>3 DEF Inv
<1>3. CASE ServerComesOrGoes
  <2>1. server' \in BOOLEAN /\ outages' \in Nat
    BY <1>3 DEF ServerComesOrGoes, Inv, TypeOK
  <2>2. QED
    BY <1>2, <1>3, <2>1 DEF ServerComesOrGoes, env
<1>4. CASE Restart
  BY <1>4, RestartStep
<1>5. CASE UNCHANGED vars
  BY Zenon, <1>2, <1>5 DEF vars, Inv, TypeOK
<1>6. QED
  BY <1>1, <1>3, <1>4, <1>5 DEF Next

(* The invariant holds throughout. *)
LEMMA ConnectInv == Spec => []Inv
BY InitInv, NextInv, PTL DEF Spec

(* The file is what it was or what is in memory. *)
LEMMA DiskSteps == Inv /\ [Next]_vars => disk' \in {disk, peers}
<1> SUFFICES ASSUME Inv, [Next]_vars PROVE disk' \in {disk, peers}
  OBVIOUS
<1>1. ASSUME NEW w \in Workers, Attempt(w) \/ tunnelEnds(w)
      PROVE  disk' \in {disk, peers}
  <2>1. CASE writeCache(w)
    BY <2>1, WriteStep
  <2>2. CASE ~writeCache(w)
    BY <1>1, <2>2 DEF Attempt, begin, registered, useCached, dialPath, listenAllPaths,
       primeWGPath, armWGPaths, sas, confirmHandshake, remember, save, tunnelEnds
  <2>3. QED
    BY <2>1, <2>2
<1>2. CASE ServerComesOrGoes \/ Restart \/ UNCHANGED vars
  BY <1>2 DEF ServerComesOrGoes, Restart, vars
<1>3. QED
  BY <1>1, <1>2 DEF Next

-----------------------------------------------------------------------------

(* The process's and the cache's state are well typed throughout. *)
THEOREM ConnectTyped == Spec => []TypeOK
<1>1. Inv => TypeOK
  BY DEF Inv
<1>2. QED
  BY <1>1, ConnectInv, PTL

(* rememberPeer is reached only with a partner that is not this node, that
   answered with its key, and that a pin, a human or --lab vouches for: nothing
   else this process learned is ever in its cache, also after a restart. *)
THEOREM ConnectOnlyConfirmedCached == Spec => []OnlyConfirmedCached
<1>1. Inv => OnlyConfirmedCached
  BY DEF Inv, CacheOK, Confirmed, OnlyConfirmedCached
<1>2. QED
  BY <1>1, ConnectInv, PTL

(* A tunnel that forwards has the partner every pin names (enforcePins), or the
   first-use key where there is no pin (decide, confirm), and that partner
   answered, whichever of the paths and data planes carries it. *)
THEOREM ConnectTunnelsAuthenticated == Spec => []TunnelsAuthenticated
<1>1. ASSUME Inv, NEW w \in Workers, st[w].pc = "up"
      PROVE  /\ st[w].key # Me /\ reach[st[w].key] # {}
             /\ setup[w].pins \subseteq {st[w].key}
             /\ setup[w].pins = {} /\ ~setup[w].lab => known[w] = st[w].key
  BY <1>1 DEF Inv, WorkerOK, Chosen, Trusting, Live, Open
<1>2. Inv => TunnelsAuthenticated
  BY <1>1 DEF TunnelsAuthenticated
<1>3. QED
  BY <1>2, ConnectInv, PTL

(* A .buddy name (BuildTable, Resolve) leads to one key at most, for any number of
   workers that pin names concurrently (pinNameLocked). *)
THEOREM ConnectNamesUnambiguous == Spec => []NamesUnambiguous
<1>1. ASSUME Inv, NEW w \in Workers, NEW name \in Names,
             NEW j \in Resolve(w, name), NEW k \in Resolve(w, name)
      PROVE  j = k
  <2>1. name # NoName
    BY IdentityAssumption
  <2>2. CASE name = setup[w].self
    BY <1>1, <2>2 DEF Resolve
  <2>3. CASE name # setup[w].self
    <3>1. /\ j \in Keys /\ k \in Keys /\ peers[j] # Absent /\ peers[k] # Absent
          /\ peers[j].name = name /\ peers[k].name = name
      BY <1>1, <2>3 DEF Resolve
    <3>2. OneKeyPerName(peers)
      BY <1>1 DEF Inv, CacheOK
    <3>3. QED
      BY <3>1, <3>2, <2>1 DEF OneKeyPerName
  <2>4. QED
    BY <2>2, <2>3
<1>2. Inv => NamesUnambiguous
  BY <1>1 DEF NamesUnambiguous
<1>3. QED
  BY <1>2, ConnectInv, PTL

(* A write of peers.json (Upsert, save) never drops an entry or a name that was
   saved, and never gives a saved name to another key. *)
THEOREM ConnectCacheOnlyGrows == Spec => CacheOnlyGrows
<1> DEFINE Grows ==
      \A k \in Keys : disk[k] # Absent =>
        /\ disk'[k] # Absent
        /\ disk[k].name # NoName =>
              /\ disk'[k].name = disk[k].name
              /\ \A j \in Keys \ {k} : disk'[j] # Absent => disk'[j].name # disk[k].name
<1>1. Inv /\ [Next]_vars => Grows
  <2> SUFFICES ASSUME Inv, [Next]_vars PROVE Grows
    OBVIOUS
  <2>1. CASE disk' = disk
    BY <2>1 DEF Inv, CacheOK, OneKeyPerName
  <2>2. CASE disk' = peers
    BY <2>2 DEF Inv, CacheOK, OneKeyPerName, Grown
  <2>3. QED
    BY <2>1, <2>2, DiskSteps
<1>2. Inv /\ [Next]_vars => [Grows]_vars
  BY <1>1
<1>3. QED
  BY <1>2, ConnectInv, PTL DEF Spec, CacheOnlyGrows
=============================================================================
