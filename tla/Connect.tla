------------------------------- MODULE Connect -------------------------------
(***************************************************************************)
(* One buddy process making its connections: buddyRun and the fallback     *)
(* chain (internal/role/connect.go, direct.go, internal/relay/fallback.go, *)
(* relaytrust.go), the trust decision (trust.go), the WireGuard variant    *)
(* (runWG in wgpath.go), first-contact verification (sas.go), and the peer *)
(* cache every worker writes and BuddyDNS reads (internal/peer,            *)
(* internal/dns).                                                          *)
(*                                                                         *)
(* What a handshake server answers, whether its name resolves, which       *)
(* channels carry packets to which key holder and what the human types are *)
(* the environment's.  Sessions and revocation are in TrustState.          *)
(***************************************************************************)
EXTENDS Integers, Sequences, FiniteSets

CONSTANTS
    Keys,          \* identities a server may name
    Me,            \* this node's own
    NoKey,
    Names, NoName,
    Workers,
    Setups,        \* configurations: functions from Workers to worker settings
    Friends,       \* keys a human would confirm: the buddy really meant
    Rosters,       \* entries a server may answer with
    Caches,        \* contents peers.json may start with
    Rank,          \* the order of the ids the cached entries carry
    Absent,        \* no cache entry
    MaxOutages, MaxRestarts

ASSUME IdentityAssumption ==
    Me \in Keys /\ NoKey \notin Keys \cup Workers /\ NoName \notin Names

\* What a worker is configured with.
Settings ==
    [on : BOOLEAN, pins : SUBSET Keys, lab : BOOLEAN, direct : BOOLEAN, listens : BOOLEAN,
     wg : BOOLEAN, relay : BOOLEAN, human : BOOLEAN, self : Names \cup {NoName}]

\* What is known of a peer: earlier, if a former run saved it.
Entries ==
    [name : Names \cup {NoName}, cands : BOOLEAN, relay : {"none", "same host", "elsewhere"},
     fresh : BOOLEAN, sane : BOOLEAN, earlier : BOOLEAN]

OneKeyPerName(cache) ==
    \A j, k \in Keys :
        cache[j] # Absent /\ cache[k] # Absent /\ cache[j].name = cache[k].name
            /\ cache[k].name # NoName => j = k

\* Direct mode takes one key (--peer-key).
ASSUME SetupsAssumption ==
    Setups \subseteq {s \in [Workers -> Settings] :
        \A w \in Workers : s[w].direct => \E k \in Keys : s[w].pins = {k}}

ASSUME RostersAssumption ==
    Rosters \subseteq [key : Keys, vip : BOOLEAN, entry : {e \in Entries : ~e.earlier}]

\* The cache a process finds was written by former runs.
ASSUME CachesAssumption ==
    /\ Absent \notin Entries
    /\ \A c \in Caches :
          /\ c \in [Keys -> Entries \cup {Absent}]
          /\ c[Me] = Absent /\ OneKeyPerName(c)
          /\ \A k \in Keys : c[k] # Absent => c[k].earlier

VARIABLES
    setup,         \* the configuration of this run
    reach,         \* the channels on which each key's holder answers
    server,        \* its name resolves
    st,            \* per worker: [pc, key, entry, sas, chain, used, snap]
    known,         \* per worker: the first-use key recorded for its token
    peers,         \* Registry.peers
    disk,          \* peers.json
    writeMu,       \* worker that holds Registry.writeMu
    outages, restarts

vars == <<setup, reach, server, st, known, peers, disk, writeMu, outages, restarts>>
env == <<setup, reach>>
bounds == <<outages, restarts>>

NoPath == "none"
Rest == [pc |-> "idle", key |-> NoKey, entry |-> Absent, sas |-> FALSE,
         chain |-> <<>>, used |-> NoPath, snap |-> Absent]

Init ==
    /\ setup \in Setups
    /\ reach \in [Keys \ {Me} -> SUBSET {"direct", "relay"}]
    /\ server = TRUE
    /\ st = [w \in Workers |-> IF setup[w].on THEN Rest ELSE [Rest EXCEPT !.pc = "stopped"]]
    /\ known = [w \in Workers |-> NoKey]
    /\ disk \in Caches
    /\ peers = disk
    /\ writeMu = NoKey
    /\ outages = 0 /\ restarts = 0

Fail(w) == st' = [st EXCEPT ![w] = Rest]
Stop(w) == st' = [st EXCEPT ![w] = [Rest EXCEPT !.pc = "stopped"]]
Goto(w, pc) == st' = [st EXCEPT ![w].pc = pc]

-----------------------------------------------------------------------------
(* Finding the partner.                                                    *)

\* trustedRelay: the operator's relay, else an offer on the server's own host.
trustedRelay(w, entry) == setup[w].relay \/ entry.relay = "same host"

NoEntry == [name |-> NoName, cands |-> FALSE, relay |-> "none", fresh |-> TRUE,
            sane |-> TRUE, earlier |-> FALSE]

If(c, p) == IF c THEN <<p>> ELSE <<>>

\* Chain: live candidates, the relay, the candidates of the cached entry if the
\* live one has none (offline, live and cached are the same entry).
Chain(w, entry, last) ==
    If(entry.cands, "punch") \o If(trustedRelay(w, entry), "relay")
        \o If(~entry.cands /\ last.cands, "cached")

DirectChain(w) == <<"configured">> \o If(setup[w].relay, "relay")

\* Variant: only the first-use key is compared, the pins are not.
RefusedByFirstUse(w, k) == known[w] \notin {NoKey, k}

\* enforcePins, decide: every local pin must match; without a pin the first-use
\* key for the token, and without that the SAS decides.
Refused(w, k) ==
    \/ \E p \in setup[w].pins : p # k
    \/ setup[w].pins = {} /\ ~setup[w].lab /\ known[w] \notin {NoKey, k}

needSAS(w) == setup[w].pins = {} /\ ~setup[w].lab /\ known[w] = NoKey

Walk(w, k, entry, chain) ==
    IF chain = <<>> THEN Fail(w)
    ELSE st' = [st EXCEPT ![w] = [Rest EXCEPT !.pc = "walk", !.key = k, !.entry = entry,
                                              !.sas = needSAS(w), !.chain = chain]]

\* The attempt starts; direct mode takes the partner from the configuration.
begin(w) ==
    /\ st[w].pc = "idle"
    /\ IF setup[w].direct
       THEN \E k \in setup[w].pins :
                IF k = Me THEN Fail(w) ELSE Walk(w, k, NoEntry, DirectChain(w))
       ELSE Goto(w, IF server THEN "register" ELSE "offline")
    /\ UNCHANGED <<env, server, known, peers, disk, writeMu, bounds>>

\* buddyRegister fails, or returns a roster entry to be checked.
registered(w) ==
    /\ st[w].pc = "register"
    /\ \/ Fail(w)
       \/ \E r \in Rosters :
             IF r.key = Me \/ Refused(w, r.key) \/ ~r.vip
             THEN Fail(w)
             ELSE Walk(w, r.key, r.entry, Chain(w, r.entry, NoEntry))
    /\ UNCHANGED <<env, server, known, peers, disk, writeMu, bounds>>

Usable(k) == peers[k] # Absent /\ peers[k].fresh /\ peers[k].sane

\* The first fresh cached entry, in the order of the ids, and no other.
useCached(w) ==
    /\ st[w].pc = "offline"
    /\ \/ (\A k \in Keys : ~Usable(k)) /\ Fail(w)
       \/ \E k \in Keys :
             /\ Usable(k) /\ \A j \in Keys : Usable(j) => Rank[k] <= Rank[j]
             /\ IF Refused(w, k) THEN Fail(w)
                ELSE Walk(w, k, peers[k], Chain(w, peers[k], peers[k]))
    /\ UNCHANGED <<env, server, known, peers, disk, writeMu, bounds>>

-----------------------------------------------------------------------------
(* Walking the chain.                                                      *)

channel(p) == IF p = "relay" THEN "relay" ELSE "direct"
Answers(w, p) == channel(p) \in reach[st[w].key]
paths(w) == {st[w].chain[i] : i \in DOMAIN st[w].chain}

\* Variant: the first path that fails ends the attempt.
nextPathGivesUp(w) == Fail(w)

\* This path failed: continue with the next, or give the attempt up.
nextPath(w) ==
    IF Len(st[w].chain) = 1 THEN Fail(w)
    ELSE st' = [st EXCEPT ![w].chain = Tail(@)]

Through(w, pc, p) ==
    st' = [st EXCEPT ![w].pc = pc, ![w].used = p, ![w].chain = <<>>]

\* Variant: the peer is cached although its identity is still to be verified.
VerifiedTooEarly(w) == "remember"

\* What follows once the partner proved its key (QUIC) or the path is primed
\* (WireGuard, whose handshake comes after the verification).
Verified(w) == IF setup[w].wg THEN "handshake" ELSE "remember"
OnPath(w) == IF st[w].sas THEN "sas" ELSE Verified(w)

listens(w) == setup[w].direct /\ setup[w].listens

\* dialChain: prime the path, then the QUIC handshake with the pinned key.
dialPath(w) ==
    /\ st[w].pc = "walk" /\ ~setup[w].wg /\ ~listens(w)
    /\ IF Answers(w, Head(st[w].chain))
       THEN Through(w, OnPath(w), Head(st[w].chain))
       ELSE nextPath(w)
    /\ UNCHANGED <<env, server, known, peers, disk, writeMu, bounds>>

\* listenAllPaths: every path armed, one listener.
listenAllPaths(w) ==
    /\ st[w].pc = "walk" /\ ~setup[w].wg /\ listens(w)
    /\ IF \E p \in paths(w) : Answers(w, p)
       THEN \E p \in paths(w) : Answers(w, p) /\ Through(w, OnPath(w), p)
       ELSE Fail(w)
    /\ UNCHANGED <<env, server, known, peers, disk, writeMu, bounds>>

\* primeWGPath: the first path that can be primed.  A punch needs the partner's
\* answer, a relay leg is bound whether or not the partner is there, and a
\* configured endpoint only has to resolve.
primeWGPath(w) ==
    LET p == Head(st[w].chain)
    IN  /\ st[w].pc = "walk" /\ setup[w].wg /\ ~listens(w)
        /\ \/ /\ p \in {"punch", "cached"} => Answers(w, p)
              /\ Through(w, OnPath(w), p)
           \/ ~Answers(w, p) /\ nextPath(w)
        /\ UNCHANGED <<env, server, known, peers, disk, writeMu, bounds>>

\* armWGPaths: no endpoint; the peer adopts the path the partner uses.
armWGPaths(w) ==
    /\ st[w].pc = "walk" /\ setup[w].wg /\ listens(w)
    /\ \E p \in paths(w) :
          /\ (\E q \in paths(w) : Answers(w, q)) => Answers(w, p)
          /\ Through(w, OnPath(w), p)
    /\ UNCHANGED <<env, server, known, peers, disk, writeMu, bounds>>

\* promptSAS and confirm: nobody to ask, refused or timed out, or confirmed
\* (by a human only if it really is the buddy) and recorded.
sas(w) ==
    /\ st[w].pc = "sas"
    /\ \/ ~setup[w].human /\ Fail(w) /\ UNCHANGED known
       \/ setup[w].human /\ Stop(w) /\ UNCHANGED known
       \/ /\ setup[w].human /\ st[w].key \in Friends
          /\ \/ Fail(w) /\ UNCHANGED known
             \/ Goto(w, Verified(w)) /\ known' = [known EXCEPT ![w] = st[w].key]
    /\ UNCHANGED <<env, server, peers, disk, writeMu, bounds>>

\* bringUpWGDirect and ConfirmHandshake: the interface comes up against anyone,
\* the handshake only against the holder of the key.
confirmHandshake(w) ==
    /\ st[w].pc = "handshake"
    /\ IF Answers(w, st[w].used) THEN Goto(w, "remember") ELSE Fail(w)
    /\ UNCHANGED <<env, server, known, peers, disk, writeMu, bounds>>

-----------------------------------------------------------------------------
(* The peer cache.                                                         *)

\* pinNameLocked: the first name of a key stays; a name has one key.
pinName(k, name) ==
    LET old == IF peers[k] = Absent THEN NoName ELSE peers[k].name
    IN  IF name = NoName \/ old # NoName THEN old
        ELSE IF \E j \in Keys \ {k} : peers[j] # Absent /\ peers[j].name = name
        THEN NoName ELSE name

\* Variant: the snapshot is taken without writeMu, which the write then takes.
rememberUnordered(w) ==
    LET k == st[w].key
        now == [peers EXCEPT ![k] = [st[w].entry EXCEPT !.name = pinName(k, @)]]
    IN  /\ st[w].pc = "remember"
        /\ peers' = now
        /\ st' = [st EXCEPT ![w].pc = "write", ![w].snap = now]
        /\ UNCHANGED <<env, server, known, disk, writeMu, bounds>>

\* rememberPeer, Upsert: lock, merge, snapshot ...
remember(w) ==
    LET k == st[w].key
        now == [peers EXCEPT ![k] = [st[w].entry EXCEPT !.name = pinName(k, @)]]
    IN  /\ st[w].pc = "remember"
        /\ writeMu = NoKey /\ writeMu' = w
        /\ peers' = now
        /\ st' = [st EXCEPT ![w].pc = "write", ![w].snap = now]
        /\ UNCHANGED <<env, server, known, disk, bounds>>

\* ... and replace the file; a failed write is only logged.
writeCache(w) ==
    /\ st[w].pc = "write"
    /\ disk' \in {disk, st[w].snap}
    /\ writeMu' = NoKey
    /\ st' = [st EXCEPT ![w].pc = "save", ![w].snap = Absent, ![w].entry = Absent]
    /\ UNCHANGED <<env, server, known, peers, bounds>>

\* A first pairing stores its session or fails; then the tunnel forwards.
save(w) ==
    /\ st[w].pc = "save"
    /\ Fail(w) \/ Goto(w, "up")
    /\ UNCHANGED <<env, server, known, peers, disk, writeMu, bounds>>

tunnelEnds(w) ==
    /\ st[w].pc = "up"
    /\ Fail(w)
    /\ UNCHANGED <<env, server, known, peers, disk, writeMu, bounds>>

\* The keys behind a .buddy name, over a snapshot (BuildTable, Resolve): this
\* node's own name first; aliases by fingerprint are left out.
Resolve(w, name) ==
    IF name = setup[w].self THEN {Me}
    ELSE {k \in Keys : peers[k] # Absent /\ peers[k].name = name}

-----------------------------------------------------------------------------

ServerComesOrGoes ==
    /\ server => outages < MaxOutages
    /\ outages' = IF server THEN outages + 1 ELSE outages
    /\ server' = ~server
    /\ UNCHANGED <<env, st, known, peers, disk, writeMu, restarts>>

\* The process dies and is started again: Open reads peers.json.
Restart ==
    /\ restarts < MaxRestarts /\ restarts' = restarts + 1
    /\ st' = [w \in Workers |-> IF setup[w].on THEN Rest ELSE st[w]]
    /\ peers' = disk
    /\ writeMu' = NoKey
    /\ UNCHANGED <<env, server, known, disk, outages>>

Attempt(w) ==
    \/ begin(w) \/ registered(w) \/ useCached(w)
    \/ dialPath(w) \/ listenAllPaths(w) \/ primeWGPath(w) \/ armWGPaths(w)
    \/ sas(w) \/ confirmHandshake(w) \/ remember(w) \/ writeCache(w) \/ save(w)

Next ==
    \/ \E w \in Workers : Attempt(w) \/ tunnelEnds(w)
    \/ ServerComesOrGoes \/ Restart

\* Every wait of an attempt has a timeout, so attempts go on; a worker that waits
\* for writeMu gets it in the end.
Spec == Init /\ [][Next]_vars /\ \A w \in Workers : SF_vars(Attempt(w))

-----------------------------------------------------------------------------

Paths == {"punch", "relay", "cached", "configured"}

TypeOK ==
    /\ setup \in Setups /\ reach \in [Keys \ {Me} -> SUBSET {"direct", "relay"}]
    /\ server \in BOOLEAN
    /\ st \in [Workers ->
            [pc : {"idle", "stopped", "register", "offline", "walk", "sas", "handshake",
                   "remember", "write", "save", "up"},
             key : Keys \cup {NoKey}, entry : Entries \cup {Absent}, sas : BOOLEAN,
             chain : Seq(Paths), used : Paths \cup {NoPath},
             snap : [Keys -> Entries \cup {Absent}] \cup {Absent}]]
    /\ known \in [Workers -> Keys \cup {NoKey}]
    /\ {peers, disk} \subseteq [Keys -> Entries \cup {Absent}]
    /\ writeMu \in Workers \cup {NoKey}
    /\ outages \in Nat /\ restarts \in Nat

\* Only a peer whose identity was confirmed in a completed tunnel gets into the
\* cache and the name table: somebody answered with that key, and the key is
\* pinned here, or a human confirmed it, or verification is switched off
\* (--lab).  A server's word, a failed SAS or a WireGuard interface that came up
\* against nobody leaves nothing behind.
OnlyConfirmedCached ==
    \A k \in Keys :
        peers[k] # Absent /\ ~peers[k].earlier =>
            /\ k # Me /\ reach[k] # {}
            /\ \E w \in Workers :
                  /\ setup[w].on
                  /\ k \in setup[w].pins \cup Friends \/ setup[w].lab

\* A tunnel forwards only with a partner that every local pin names and that is
\* not this node itself, however the partner was found (server, cache or
\* configuration) and whichever data plane carries it.
TunnelsAuthenticated ==
    \A w \in Workers : st[w].pc = "up" =>
        /\ st[w].key # Me /\ reach[st[w].key] # {}
        /\ setup[w].pins \subseteq {st[w].key}
        /\ setup[w].pins = {} /\ ~setup[w].lab => known[w] = st[w].key

\* peers.json only grows: no write drops an entry another worker had saved, and a
\* name once saved stays with its key and is nobody else's, also across crashes
\* and failed writes (Upsert and its writeMu).
CacheOnlyGrows ==
    [][\A k \in Keys : disk[k] # Absent =>
          /\ disk'[k] # Absent
          /\ disk[k].name # NoName =>
                /\ disk'[k].name = disk[k].name
                /\ \A j \in Keys \ {k} : disk'[j] # Absent => disk'[j].name # disk[k].name]_vars

\* A .buddy name resolves to one key at most, whatever names the peers claim for
\* themselves and in whichever order the workers learn them.
NamesUnambiguous ==
    \A w \in Workers, name \in Names : \A j, k \in Resolve(w, name) : j = k

\* Falling back works: when the chain of an attempt holds a path that carries
\* packets to the partner, the attempt gets through on one that does (unless the
\* process dies, hence from the last restart on).
FallsBack ==
    \A w \in Workers :
        (restarts = MaxRestarts /\ st[w].pc = "walk" /\ \E p \in paths(w) : Answers(w, p))
            ~> (st[w].used # NoPath /\ Answers(w, st[w].used))

\* While the server's name does not resolve and a fresh entry for a worker's
\* buddy is in the cache, that entry is tried.
CachedBuddyTried ==
    \A w \in Workers, k \in Keys :
        <>[](~server /\ setup[w].pins = {k} /\ ~setup[w].direct /\ Usable(k))
            => []<>(st[w].key = k)
=============================================================================
