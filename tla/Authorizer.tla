----------------------------- MODULE Authorizer -----------------------------
(***************************************************************************)
(* The allowlist of a handshake server in approval mode                    *)
(* (internal/role/authz.go) and the part of pairRegister that consults it  *)
(* (internal/role/handshake.go): the file the operator edits, the polling  *)
(* goroutine that reloads it, the request goroutines that check a REGISTER *)
(* against it, the two replay caches and the pending enrollments.          *)
(*                                                                         *)
(* Every section the code runs under authorizer.mu is one action; a        *)
(* request and a poll are sequences of such actions, so the file, the      *)
(* allowlist and the clock may change between any two of them.  A          *)
(* registration is its (key, nonce, timestamp) signed together; the same   *)
(* one may be presented any number of times.                               *)
(***************************************************************************)
EXTENDS Integers, FiniteSets

CONSTANTS
    Keys,              \* client public keys
    Regs,              \* signed registrations, one nonce each
    Codes,             \* enrollment codes (by hash)
    KeyOf, TsOf,       \* a registration's key and timestamp
    CodeOf,            \* the code it seals, or NoCode
    NoCode, NoReg,
    StartLists,        \* the key sets the file may hold when the server starts
    Workers,           \* request goroutines
    Skew,              \* regSkew
    Slack,             \* the second freshSinceApproval forgives
    MaxReplayRegs, MaxPreAuthRegs, MaxPending, MaxAuthorizedKeys,
    PendingTTL,
    DistinctMtimes,    \* TRUE: two writes never leave the same mtime
    MaxNow, MaxEdits   \* bounds on the clock and on the operator's edits

ASSUME RegsAssumption ==
    /\ IsFiniteSet(Regs) /\ IsFiniteSet(Codes)
    /\ KeyOf \in [Regs -> Keys]
    /\ TsOf \in [Regs -> Int]
    /\ CodeOf \in [Regs -> Codes \cup {NoCode}]
    /\ StartLists \subseteq SUBSET Keys

ASSUME LimitsAssumption ==
    /\ Skew \in Nat /\ Slack \in Nat /\ PendingTTL \in Nat
    /\ MaxReplayRegs \in Nat \ {0} /\ MaxPreAuthRegs \in Nat \ {0}
    /\ MaxPending \in Nat \ {0} /\ MaxAuthorizedKeys \in Nat \ {0}
    /\ MaxNow \in Nat /\ MaxEdits \in Nat

Never == -1            \* no entry in a map from registrations to times
Unknown == -2          \* no entry in approvedAt
AtStartup == -1        \* the zero time: loaded when the process started
NoTime == 0            \* the zero mtime

RegReplayWindow == 2 * Skew

NoOne == [key |-> NoCode, seen |-> Never]

VARIABLES
    now,
    file,          \* the allowlist on disk; its content survives a mv aside
    edits,         \* operator edits so far
    fault,         \* why the file cannot be read: "none", "stat", "open"
    keys, mtime, approvedAt,      \* authorizer.mu: the loaded list
    recentRegs, preAuthRegs,               \* ... the two replay caches
    pend,                                  \* ... pending enrollments
    poll,          \* the watch goroutine
    work,          \* the request goroutines
    acceptedAt,    \* history: when a registration was last accepted
    recordedAt     \* history: when it entered the pre-auth cache

disk == <<file, edits, fault>>
list == <<keys, mtime, approvedAt>>
caches == <<recentRegs, preAuthRegs>>
history == <<acceptedAt, recordedAt>>
vars == <<now, disk, list, caches, pend, poll, work, history>>

-----------------------------------------------------------------------------
(* The file.                                                               *)

\* The key sets a read of the file may build: reading stops at the limit.
Readable(ks) ==
    {S \in SUBSET ks : \/ S = ks /\ Cardinality(ks) <= MaxAuthorizedKeys
                       \/ Cardinality(S) = MaxAuthorizedKeys}

\* The mtimes a write may leave: later than every earlier one, or, on a file
\* system with coarse times, equal to the file's own.
NewMtime == {edits + 2} \cup (IF DistinctMtimes THEN {} ELSE {file.mtime} \ {NoTime})

\* One operator command completed: it holds the file lock throughout.
Write(ks) ==
    /\ edits < MaxEdits
    /\ edits' = edits + 1
    /\ \E m \in NewMtime : file' = [there |-> TRUE, keys |-> ks, mtime |-> m]
    /\ UNCHANGED <<now, fault, list, caches, pend, poll, work, history>>

ApproveKey(k) ==
    LET old == IF file.there THEN file.keys ELSE {}
    IN  k \notin old /\ Write(old \cup {k})

RevokeKey(k) ==
    file.there /\ k \in file.keys /\ Write(file.keys \ {k})

\* The operator moves the file away, or puts the same file back.
MoveFile ==
    /\ edits < MaxEdits
    /\ edits' = edits + 1
    /\ file.mtime # NoTime
    /\ file' = [file EXCEPT !.there = ~file.there]
    /\ UNCHANGED <<now, fault, list, caches, pend, poll, work, history>>

\* A permission or mount problem appears, or is repaired.
ChangeFault ==
    /\ edits < MaxEdits
    /\ edits' = edits + 1
    /\ \E f \in {"none", "stat", "open"} \ {fault} : fault' = f
    /\ UNCHANGED <<now, file, list, caches, pend, poll, work, history>>

-----------------------------------------------------------------------------
(* The watch goroutine: stat, then read, then install.                     *)

Idle == [pc |-> "idle", keys |-> {}, mtime |-> NoTime]

\* Variant: the remembered mtime survives the disappearance.
MissingKeepsMtime ==
    /\ keys' = {}
    /\ UNCHANGED <<approvedAt, mtime>>

noteMissing ==
    /\ keys' = {}
    /\ mtime' = NoTime
    /\ UNCHANGED approvedAt

pollOnce ==
    /\ poll.pc = "idle"
    /\ \/ fault = "stat" /\ UNCHANGED <<list, poll>>
       \/ fault # "stat" /\ ~file.there /\ noteMissing /\ UNCHANGED poll
       \/ /\ fault # "stat" /\ file.there
          /\ poll' = IF file.mtime # mtime THEN [poll EXCEPT !.pc = "read"] ELSE poll
          /\ UNCHANGED list
    /\ UNCHANGED <<now, disk, caches, pend, work, history>>

readAuthorized ==
    /\ poll.pc = "read"
    /\ \/ ~file.there
          /\ keys' = {} /\ approvedAt' = [k \in Keys |-> Unknown]
          /\ mtime' = NoTime
          /\ poll' = Idle
       \/ file.there /\ fault # "none" /\ poll' = Idle /\ UNCHANGED list
       \/ /\ file.there /\ fault = "none"
          /\ \E ks \in Readable(file.keys) :
                poll' = [pc |-> "install", keys |-> ks, mtime |-> file.mtime]
          /\ UNCHANGED list
    /\ UNCHANGED <<now, disk, caches, pend, work, history>>

load ==
    /\ poll.pc = "install"
    /\ keys' = poll.keys
    /\ mtime' = poll.mtime
    /\ approvedAt' = [k \in Keys |->
            IF k \notin poll.keys THEN Unknown
            ELSE IF approvedAt[k] # Unknown THEN approvedAt[k] ELSE now]
    /\ poll' = Idle
    /\ UNCHANGED <<now, disk, caches, pend, work, history>>

-----------------------------------------------------------------------------
(* The replay caches.                                                      *)

Entries(cache) == {r \in Regs : cache[r] # Never}

\* Variant: a window of one skew instead of two.
WithinSkewOnly(cache, r) == cache[r] # Never /\ now - cache[r] < Skew

\* A look-up matches an entry younger than the window.
Within(cache, r) == cache[r] # Never /\ now - cache[r] < RegReplayWindow

pruneRegs(cache) ==
    [r \in Regs |-> IF Within(cache, r) THEN cache[r] ELSE Never]

evictOldest(cache) ==
    {[cache EXCEPT ![o] = Never] :
        o \in {r \in Entries(cache) : \A s \in Entries(cache) : cache[r] <= cache[s]}}

Full(cache, max) == Cardinality(Entries(cache)) >= max

\* Variant: nothing is evicted while no entry has expired.
PruneOnly(cache, max) ==
    IF ~Full(cache, max) THEN {cache} ELSE {pruneRegs(cache)}

\* What is left of a cache when one more entry must fit.
MakeRoom(cache, max) ==
    IF ~Full(cache, max) THEN {cache}
    ELSE IF ~Full(pruneRegs(cache), max) THEN {pruneRegs(cache)}
    ELSE evictOldest(pruneRegs(cache))

-----------------------------------------------------------------------------
(* pairRegister, one action per lock section.                              *)

At(w, pc) == work[w].pc = pc
Reg(w) == work[w].reg
Goto(w, pc) == work' = [work EXCEPT ![w].pc = pc]
Free == [pc |-> "idle", reg |-> NoReg]
Done(w) == work' = [work EXCEPT ![w] = Free]

\* verifyRegistration: the timestamp is within Skew of now, both ends included.
verifyRegistration(w, r) ==
    /\ At(w, "idle")
    /\ now - TsOf[r] <= Skew /\ TsOf[r] - now <= Skew
    /\ work' = [work EXCEPT ![w] = [pc |-> "verified", reg |-> r]]
    /\ UNCHANGED <<now, disk, list, caches, pend, poll, history>>

allowed(w) ==
    /\ At(w, "verified")
    /\ Goto(w, IF KeyOf[Reg(w)] \in keys THEN "approved" ELSE "enroll")
    /\ UNCHANGED <<now, disk, list, caches, pend, poll, history>>

\* The enrollment limiter may refuse: nothing is recorded.
allowEnroll(w) ==
    /\ At(w, "enroll")
    /\ Done(w) \/ Goto(w, "preauth")
    /\ UNCHANGED <<now, disk, list, caches, pend, poll, history>>

recordPreAuth(w) ==
    LET r == Reg(w)
    IN  /\ At(w, "preauth")
        /\ Goto(w, "pending")
        /\ IF preAuthRegs[r] # Never
           THEN UNCHANGED <<preAuthRegs, recordedAt>>
           ELSE /\ \E room \in MakeRoom(preAuthRegs, MaxPreAuthRegs) :
                      preAuthRegs' = [room EXCEPT ![r] = now]
                /\ recordedAt' = [recordedAt EXCEPT ![r] = now]
        /\ UNCHANGED <<now, disk, list, recentRegs, pend, poll, acceptedAt>>

Pending == {c \in Codes : pend[c] # NoOne}

prunePending ==
    [c \in Codes |-> IF pend[c] # NoOne /\ now - pend[c].seen > PendingTTL
                     THEN NoOne ELSE pend[c]]

\* A code already held by another key stays with that key until it is
\* approved; a new code needs room.
recordPending(w) ==
    LET r == Reg(w)
        c == CodeOf[r]
        entry == [key |-> KeyOf[r], seen |-> now]
    IN  /\ At(w, "pending")
        /\ Done(w)
        /\ \/ c = NoCode /\ UNCHANGED pend
           \/ /\ c # NoCode
              /\ pend[c] # NoOne
              /\ pend' = IF pend[c].key # KeyOf[r] /\ pend[c].key \notin keys
                         THEN pend ELSE [pend EXCEPT ![c] = entry]
           \/ /\ c # NoCode /\ pend[c] = NoOne
              /\ LET room == IF Cardinality(Pending) >= MaxPending THEN prunePending ELSE pend
                 IN  pend' = IF Cardinality({x \in Codes : room[x] # NoOne}) >= MaxPending
                             THEN room ELSE [room EXCEPT ![c] = entry]
        /\ UNCHANGED <<now, disk, list, caches, poll, history>>

freshSinceApproval(w) ==
    LET at == approvedAt[KeyOf[Reg(w)]]
    IN  /\ At(w, "approved")
        /\ IF at \in {Unknown, AtStartup} \/ TsOf[Reg(w)] >= at - Slack
           THEN Goto(w, "fresh") ELSE Done(w)
        /\ UNCHANGED <<now, disk, list, caches, pend, poll, history>>

\* Variant: the pre-auth cache is not consulted.
replayedOneCache(w) ==
    LET r == Reg(w)
    IN  /\ At(w, "fresh")
        /\ IF Within(recentRegs, r)
           THEN Done(w) /\ UNCHANGED <<caches, acceptedAt>>
           ELSE /\ Goto(w, "accepted")
                /\ \E room \in MakeRoom(recentRegs, MaxReplayRegs) :
                      recentRegs' = [room EXCEPT ![r] = now]
                /\ acceptedAt' = [acceptedAt EXCEPT ![r] = now]
                /\ UNCHANGED preAuthRegs
        /\ UNCHANGED <<now, disk, list, pend, poll, recordedAt>>

replayed(w) ==
    LET r == Reg(w)
    IN  /\ At(w, "fresh")
        /\ IF Within(recentRegs, r) \/ Within(preAuthRegs, r)
           THEN Done(w) /\ UNCHANGED <<caches, acceptedAt>>
           ELSE /\ Goto(w, "accepted")
                /\ preAuthRegs' = IF Full(recentRegs, MaxReplayRegs)
                                  THEN pruneRegs(preAuthRegs) ELSE preAuthRegs
                /\ \E room \in MakeRoom(recentRegs, MaxReplayRegs) :
                      recentRegs' = [room EXCEPT ![r] = now]
                /\ acceptedAt' = [acceptedAt EXCEPT ![r] = now]
        /\ UNCHANGED <<now, disk, list, pend, poll, recordedAt>>

\* The registration goes on to be paired and answered (module Matchmaker).
answered(w) ==
    /\ At(w, "accepted")
    /\ Done(w)
    /\ UNCHANGED <<now, disk, list, caches, pend, poll, history>>

-----------------------------------------------------------------------------

Tick ==
    /\ now < MaxNow
    /\ now' = now + 1
    /\ UNCHANGED <<disk, list, caches, pend, poll, work, history>>

\* newAuthorizer: the list is loaded once, with no approval time.
Init ==
    /\ now = 0
    /\ edits = 0
    /\ fault = "none"
    /\ file \in {[there |-> FALSE, keys |-> {}, mtime |-> NoTime]}
                \cup {[there |-> TRUE, keys |-> ks, mtime |-> 1] : ks \in StartLists}
    /\ keys \in Readable(file.keys)
    /\ mtime = file.mtime
    /\ approvedAt = [k \in Keys |-> IF k \in keys THEN AtStartup ELSE Unknown]
    /\ recentRegs = [r \in Regs |-> Never]
    /\ preAuthRegs = [r \in Regs |-> Never]
    /\ pend = [c \in Codes |-> NoOne]
    /\ poll = Idle
    /\ work = [w \in Workers |-> Free]
    /\ acceptedAt = [r \in Regs |-> Never]
    /\ recordedAt = [r \in Regs |-> Never]

Operator ==
    \/ \E k \in Keys : ApproveKey(k) \/ RevokeKey(k)
    \/ MoveFile
    \/ ChangeFault

Request(w) ==
    \/ \E r \in Regs : verifyRegistration(w, r)
    \/ allowed(w) \/ allowEnroll(w) \/ recordPreAuth(w) \/ recordPending(w)
    \/ freshSinceApproval(w) \/ replayed(w) \/ answered(w)

Watch == pollOnce \/ readAuthorized \/ load

Next ==
    \/ Operator
    \/ Watch
    \/ \E w \in Workers : Request(w)
    \/ Tick

\* The watch goroutine's ticker keeps firing and its reads return.
Spec == Init /\ [][Next]_vars /\ WF_vars(Watch)

-----------------------------------------------------------------------------

TypeOK ==
    /\ now \in 0..MaxNow
    /\ edits \in 0..MaxEdits
    /\ fault \in {"none", "stat", "open"}
    /\ file \in [there : BOOLEAN, keys : SUBSET Keys, mtime : Nat]
    /\ keys \in SUBSET Keys /\ mtime \in Nat
    /\ approvedAt \in [Keys -> {Unknown, AtStartup} \cup Nat]
    /\ recentRegs \in [Regs -> {Never} \cup 0..now]
    /\ preAuthRegs \in [Regs -> {Never} \cup 0..now]
    /\ acceptedAt \in [Regs -> {Never} \cup 0..now]
    /\ recordedAt \in [Regs -> {Never} \cup 0..now]
    /\ pend \in [Codes -> [key : Keys, seen : 0..now] \cup {NoOne}]
    /\ poll \in [pc : {"idle", "read", "install"}, keys : SUBSET Keys, mtime : Nat]
    /\ work \in [Workers -> {Free} \cup
            [pc : {"verified", "enroll", "preauth", "pending", "approved", "fresh", "accepted"},
             reg : Regs]]

\* Neither replay cache nor the pending enrollments ever outgrow their limit,
\* whatever unapproved keys send: replayed, recordPreAuth and recordPending
\* prune, evict or refuse before they insert.
CachesBounded ==
    /\ Cardinality(Entries(recentRegs)) <= MaxReplayRegs
    /\ Cardinality(Entries(preAuthRegs)) <= MaxPreAuthRegs
    /\ Cardinality(Pending) <= MaxPending

Accepts(w) == At(w, "fresh") /\ work'[w].pc = "accepted"

\* Is a time r was noted at too old to match, or have max others been noted
\* since?
Forgotten(notedAt, r, max) ==
    \/ notedAt[r] = Never
    \/ now - notedAt[r] >= RegReplayWindow
    \/ Cardinality({x \in Regs \ {r} : notedAt[x] >= notedAt[r]}) >= max

\* A registration accepted once is accepted again only when a whole replay
\* window has passed, or maxReplayRegs other registrations OF APPROVED KEYS
\* were accepted since: nothing that an unapproved key sends shortens the
\* memory replayed keeps of an approved one, and no interleaving of two
\* requests, of a reload or of a revoke and re-approve does.
ReplayRefused ==
    [][\A w \in Workers : Accepts(w) => Forgotten(acceptedAt, Reg(w), MaxReplayRegs)]_vars

\* A registration noted while its key was not approved is not accepted after
\* the operator approves the key, until a replay window has passed or
\* maxPreAuthRegs others were noted since (recordPreAuth, replayed's second
\* look-up).
PreAuthRefused ==
    [][\A w \in Workers : Accepts(w) => Forgotten(recordedAt, Reg(w), MaxPreAuthRegs)]_vars

\* When the operator stops editing and the file can be read, the loaded list
\* becomes what the file says and stays so, through deletions, restores of an
\* older copy, failed reads and edits made between pollOnce's stat and load's
\* install.
AllowlistConverges ==
    <>[](fault = "none" =>
            IF file.there THEN keys \in Readable(file.keys) ELSE keys = {})

\* No registration is ever accepted a second time by a cache that is large
\* enough: "the replay cache must outlive that window to catch it".
NeverAcceptedTwice ==
    [][\A w \in Workers : Accepts(w) => acceptedAt[Reg(w)] = Never]_vars
=============================================================================
