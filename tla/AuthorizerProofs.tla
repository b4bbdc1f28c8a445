------------------------- MODULE AuthorizerProofs -------------------------
(***************************************************************************)
(* Proofs about module Authorizer, for any number of request goroutines,   *)
(* keys and registrations and any size of the caches.                      *)
(*                                                                         *)
(* That a replay is refused rests on what an absent cache entry means: the *)
(* registration was never noted, or a whole window has passed since, or at *)
(* least as many others as the cache holds were noted since (Kept).        *)
(* Pruning drops only the expired, and eviction the oldest of a full       *)
(* cache, so each keeps it.                                                *)
(***************************************************************************)
EXTENDS Authorizer, FiniteSetTheorems, TLAPS

(* Time for the larger leaves. *)
USE SMTT(20), ZenonT(30)

Times(t) == {Never} \cup 0..t

\* The other registrations noted no earlier than r was.
Since(notedAt, r) == {x \in Regs \ {r} : notedAt[x] >= notedAt[r]}

\* At time t, a registration missing from the cache is not noted, expired, or
\* displaced by max others.
Kept(t, cache, notedAt, max) ==
  \A r \in Regs :
    /\ cache[r] # Never => cache[r] = notedAt[r]
    /\ notedAt[r] # Never /\ cache[r] = Never =>
          \/ t - notedAt[r] >= RegReplayWindow
          \/ Cardinality(Since(notedAt, r)) >= max

Remembers ==
  /\ Kept(now, recentRegs, acceptedAt, MaxReplayRegs)
  /\ Kept(now, preAuthRegs, recordedAt, MaxPreAuthRegs)

Inv == TypeOK /\ CachesBounded /\ Remembers

Busy ==
  [pc : {"verified", "enroll", "preauth", "pending", "approved", "fresh", "accepted"},
   reg : Regs]

Held(t) == [key : Keys, seen : 0..t] \cup {NoOne}

Polls == [pc : {"idle", "read", "install"}, keys : SUBSET Keys, mtime : Nat]

-----------------------------------------------------------------------------
(* The replay caches *)

(* Subsets of the registrations are finite, and no larger than what holds them. *)
LEMMA RegSets ==
  ASSUME NEW A \in SUBSET Regs, NEW B \in SUBSET A
  PROVE  /\ IsFiniteSet(A) /\ IsFiniteSet(B)
         /\ Cardinality(A) \in Nat /\ Cardinality(B) \in Nat
         /\ Cardinality(B) <= Cardinality(A)
<1>1. IsFiniteSet(A) /\ IsFiniteSet(B)
  BY RegsAssumption, FS_Subset
<1>2. QED
  BY <1>1, FS_Subset, FS_CardinalityType

(* One more registration makes a set at most one larger, exactly one if it is
   new, and taking out a member makes it exactly one smaller. *)
LEMMA RegAdd ==
  ASSUME NEW A \in SUBSET Regs, NEW r \in Regs
  PROVE  /\ Cardinality(A \cup {r}) <= Cardinality(A) + 1
         /\ r \notin A => Cardinality(A \cup {r}) = Cardinality(A) + 1
         /\ r \in A => Cardinality(A \ {r}) = Cardinality(A) - 1
<1>1. IsFiniteSet(A) /\ Cardinality(A) \in Nat
  BY RegSets
<1> DEFINE a == Cardinality(A)  more == Cardinality(A \cup {r})  less == Cardinality(A \ {r})
<1>2. r \in A => more = a /\ less = a - 1
  <2>1. r \in A => A \cup {r} = A
    OBVIOUS
  <2>2. r \in A => less = a - 1
    BY Zenon, <1>1, FS_RemoveElement
  <2>3. QED
    BY <2>1, <2>2
<1>3. r \notin A => more = a + 1
  BY Zenon, <1>1, FS_AddElement
<1>4. a \in Nat
  BY <1>1
<1> HIDE DEF a, more, less
<1>5. more <= a + 1 /\ (r \notin A => more = a + 1) /\ (r \in A => less = a - 1)
  BY <1>2, <1>3, <1>4
<1>6. QED
  BY <1>5 DEF a, more, less

(* Pruning drops entries, all of them expired. *)
LEMMA PruneKeeps ==
  ASSUME now \in Nat, NEW cache \in [Regs -> Times(now)], NEW notedAt, NEW max,
         Kept(now, cache, notedAt, max)
  PROVE  /\ pruneRegs(cache) \in [Regs -> Times(now)]
         /\ Kept(now, pruneRegs(cache), notedAt, max)
         /\ Entries(pruneRegs(cache)) \in SUBSET Entries(cache)
         /\ \A r \in Regs : ~Within(cache, r) => pruneRegs(cache)[r] = Never
         /\ \A r \in Regs : pruneRegs(cache)[r] \in {cache[r], Never}
<1> DEFINE new == pruneRegs(cache)
<1>1. /\ new \in [Regs -> Times(now)]
      /\ \A r \in Regs : new[r] = IF Within(cache, r) THEN cache[r] ELSE Never
  BY DEF pruneRegs, Times
<1>2. RegReplayWindow \in Nat
  BY LimitsAssumption DEF RegReplayWindow
<1>3. ASSUME NEW r \in Regs, notedAt[r] # Never, new[r] = Never
      PROVE  \/ now - notedAt[r] >= RegReplayWindow
             \/ Cardinality(Since(notedAt, r)) >= max
  <2>1. CASE cache[r] = Never
    BY <1>3, <2>1 DEF Kept
  <2>2. CASE cache[r] # Never
    <3>1. ~Within(cache, r) /\ cache[r] = notedAt[r] /\ cache[r] \in 0..now
      BY <1>1, <1>3, <2>2 DEF Kept, Times
    <3>2. now - cache[r] >= RegReplayWindow
      BY <1>2, <2>2, <3>1 DEF Within
    <3>3. QED
      BY <3>1, <3>2
  <2>3. QED
    BY <2>1, <2>2
<1>4. \A r \in Regs : new[r] # Never => new[r] = cache[r]
  BY <1>1
<1>5. Kept(now, new, notedAt, max)
  BY <1>3, <1>4 DEF Kept
<1>6. Entries(new) \in SUBSET Entries(cache)
  BY <1>4 DEF Entries
<1>7. QED
  BY <1>1, <1>5, <1>6

(* A later note of one registration displaces no other less. *)
LEMMA SinceGrows ==
  ASSUME now \in Nat, NEW notedAt \in [Regs -> Times(now)], NEW r0 \in Regs,
         NEW r \in Regs \ {r0}
  PROVE  LET new == [notedAt EXCEPT ![r0] = now]
         IN  /\ Since(new, r) = Since(notedAt, r) \cup {r0}
             /\ Cardinality(Since(new, r)) >= Cardinality(Since(notedAt, r))
             /\ Cardinality(Since(new, r)) \in Nat /\ Cardinality(Since(notedAt, r)) \in Nat
             /\ Since(new, r) \in SUBSET Regs
<1> DEFINE new == [notedAt EXCEPT ![r0] = now]
<1>1. /\ new[r0] = now /\ new[r] = notedAt[r]
      /\ \A x \in Regs \ {r0} : new[x] = notedAt[x]
      /\ notedAt[r] \in Int /\ now >= notedAt[r]
  BY DEF Times, Never
<1> HIDE DEF new
<1>2. Since(new, r) = Since(notedAt, r) \cup {r0}
  BY <1>1 DEF Since
<1>3. /\ Since(new, r) \in SUBSET Regs
      /\ Since(notedAt, r) \in SUBSET Since(new, r)
  BY <1>2 DEF Since
<1>4. /\ Cardinality(Since(new, r)) \in Nat /\ Cardinality(Since(notedAt, r)) \in Nat
      /\ Cardinality(Since(notedAt, r)) <= Cardinality(Since(new, r))
  BY <1>3, RegSets
<1>5. QED
  BY Zenon, <1>2, <1>3, <1>4 DEF new

(* An entry that does not fit in a full cache takes the place of its oldest. *)
LEMMA EvictKeeps ==
  ASSUME now \in Nat, NEW max \in Nat \ {0},
         NEW cache \in [Regs -> Times(now)], NEW notedAt \in [Regs -> Times(now)],
         Kept(now, cache, notedAt, max), Full(cache, max),
         Cardinality(Entries(cache)) <= max,
         NEW r0 \in Regs, cache[r0] = Never, NEW room \in evictOldest(cache)
  PROVE  /\ room \in [Regs -> Times(now)]
         /\ Kept(now, [room EXCEPT ![r0] = now], [notedAt EXCEPT ![r0] = now], max)
         /\ Cardinality(Entries(room)) < max
<1> DEFINE full == Entries(cache)
           noted == [notedAt EXCEPT ![r0] = now]
           new == [room EXCEPT ![r0] = now]
<1>1. PICK o \in full :
        /\ room = [cache EXCEPT ![o] = Never]
        /\ \A s \in full : cache[o] <= cache[s]
  BY DEF evictOldest
<1>2. /\ full \in SUBSET Regs /\ o \in Regs /\ o # r0 /\ r0 \notin full
      /\ \A x \in full : cache[x] # Never /\ cache[x] = notedAt[x]
  BY <1>1 DEF Entries, Kept
<1>3. /\ room \in [Regs -> Times(now)] /\ room[o] = Never
      /\ \A x \in Regs \ {o} : room[x] = cache[x]
  BY <1>1, <1>2 DEF Times
<1>4. Cardinality(full) = max
  <2>1. Cardinality(full) >= max /\ Cardinality(full) \in Nat
    BY <1>2, RegSets DEF Full
  <2>2. QED
    BY <2>1
<1>5. Entries(room) = full \ {o} /\ Cardinality(full \ {o}) = max - 1
  <2>1. Entries(room) = full \ {o}
    BY <1>1, <1>3 DEF Entries
  <2>2. Cardinality(full \ {o}) = Cardinality(full) - 1
    BY <1>1, <1>2, RegAdd
  <2>3. QED
    BY <1>4, <2>1, <2>2
<1>6. /\ new[r0] = now /\ noted[r0] = now /\ now # Never
      /\ \A x \in Regs \ {r0} : new[x] = room[x] /\ noted[x] = notedAt[x]
  BY <1>3 DEF Never
<1>7. Cardinality(Since(noted, o)) >= max
  <2>1. Since(noted, o) = Since(notedAt, o) \cup {r0} /\ Since(noted, o) \in SUBSET Regs
    BY Zenon, <1>2, SinceGrows
  <2>2. full \ {o} \in SUBSET Since(notedAt, o)
    <3>1. ASSUME NEW x \in full \ {o} PROVE notedAt[x] >= notedAt[o]
      <4>1. cache[x] \in Int /\ cache[o] \in Int /\ cache[o] <= cache[x]
        BY <1>1, <1>2 DEF Times, Never
      <4>2. QED
        BY <1>1, <1>2, <4>1
    <3>2. QED
      BY <1>2, <3>1 DEF Since
  <2>3. (full \ {o}) \cup {r0} \in SUBSET Since(noted, o)
    BY Zenon, <2>1, <2>2
  <2>4. Cardinality((full \ {o}) \cup {r0}) = Cardinality(full \ {o}) + 1
    BY <1>2, RegAdd
  <2>5. /\ Cardinality((full \ {o}) \cup {r0}) <= Cardinality(Since(noted, o))
        /\ Cardinality(Since(noted, o)) \in Nat
    BY Zenon, <2>1, <2>3, RegSets
  <2>6. QED
    BY <1>5, <2>4, <2>5
<1> HIDE DEF noted, new, full
<1>8. ASSUME NEW r \in Regs
      PROVE  /\ new[r] # Never => new[r] = noted[r]
             /\ noted[r] # Never /\ new[r] = Never =>
                  \/ now - noted[r] >= RegReplayWindow
                  \/ Cardinality(Since(noted, r)) >= max
  <2>1. CASE r = r0
    BY <1>6, <2>1
  <2>2. CASE r = o
    BY <1>2, <1>3, <1>6, <1>7, <2>2
  <2>3. CASE r # r0 /\ r # o
    <3>1. new[r] = cache[r] /\ noted[r] = notedAt[r]
      BY <1>3, <1>6, <2>3
    <3>2. /\ Cardinality(Since(noted, r)) >= Cardinality(Since(notedAt, r))
          /\ Cardinality(Since(noted, r)) \in Nat /\ Cardinality(Since(notedAt, r)) \in Nat
      BY Zenon, <2>3, SinceGrows DEF noted
    <3>3. QED
      BY <3>1, <3>2 DEF Kept
  <2>4. QED
    BY <2>1, <2>2, <2>3
<1>9. Kept(now, new, noted, max)
  BY <1>8 DEF Kept
<1>10. QED
  BY <1>3, <1>5, <1>9 DEF new, noted

(* Room is made, the entry goes in: the cache still remembers what it must, and
   does not outgrow its limit. *)
LEMMA InsertKeeps ==
  ASSUME now \in Nat, NEW max \in Nat \ {0},
         NEW cache \in [Regs -> Times(now)], NEW notedAt \in [Regs -> Times(now)],
         Kept(now, cache, notedAt, max), Cardinality(Entries(cache)) <= max,
         NEW r0 \in Regs, ~Within(cache, r0), NEW room \in MakeRoom(cache, max)
  PROVE  /\ [room EXCEPT ![r0] = now] \in [Regs -> Times(now)]
         /\ [notedAt EXCEPT ![r0] = now] \in [Regs -> Times(now)]
         /\ Kept(now, [room EXCEPT ![r0] = now], [notedAt EXCEPT ![r0] = now], max)
         /\ Cardinality(Entries([room EXCEPT ![r0] = now])) <= max
<1> DEFINE noted == [notedAt EXCEPT ![r0] = now]
           new == [room EXCEPT ![r0] = now]
           pruned == pruneRegs(cache)
<1>1. noted \in [Regs -> Times(now)]
  BY DEF Times
<1>2. /\ pruned \in [Regs -> Times(now)] /\ Kept(now, pruned, notedAt, max)
      /\ Entries(pruned) \in SUBSET Entries(cache) /\ pruned[r0] = Never
  BY PruneKeeps
<1>3. ASSUME NEW c \in [Regs -> Times(now)], Kept(now, c, notedAt, max)
      PROVE  Kept(now, [c EXCEPT ![r0] = now], noted, max)
  <2> DEFINE d == [c EXCEPT ![r0] = now]
  <2>1. /\ d[r0] = now /\ noted[r0] = now /\ now # Never
        /\ \A x \in Regs \ {r0} : d[x] = c[x] /\ noted[x] = notedAt[x]
    BY DEF Never
  <2> HIDE DEF d, noted
  <2>2. ASSUME NEW r \in Regs
        PROVE  /\ d[r] # Never => d[r] = noted[r]
               /\ noted[r] # Never /\ d[r] = Never =>
                    \/ now - noted[r] >= RegReplayWindow
                    \/ Cardinality(Since(noted, r)) >= max
    <3>1. CASE r = r0
      BY <2>1, <3>1
    <3>2. CASE r # r0
      <4>1. d[r] = c[r] /\ noted[r] = notedAt[r]
        BY <2>1, <3>2
      <4>2. /\ Cardinality(Since(noted, r)) >= Cardinality(Since(notedAt, r))
            /\ Cardinality(Since(noted, r)) \in Nat /\ Cardinality(Since(notedAt, r)) \in Nat
        BY Zenon, <3>2, SinceGrows DEF noted
      <4>3. QED
        BY <1>3, <4>1, <4>2 DEF Kept
    <3>3. QED
      BY <3>1, <3>2
  <2>3. Kept(now, d, noted, max)
    BY <2>2 DEF Kept
  <2>4. QED
    BY <2>3 DEF d
<1>4. /\ Cardinality(Entries(cache)) \in Nat /\ Cardinality(Entries(pruned)) \in Nat
      /\ Cardinality(Entries(pruned)) <= Cardinality(Entries(cache))
  BY <1>2, RegSets DEF Entries
<1>5. Cardinality(Entries(pruned)) <= max
  BY <1>4
<1>6. /\ room \in [Regs -> Times(now)] /\ Kept(now, new, noted, max)
      /\ Cardinality(Entries(room)) < max
  <2>1. CASE room = cache /\ ~Full(cache, max)
    <3>1. Cardinality(Entries(cache)) < max
      BY <1>4, <2>1 DEF Full
    <3>2. QED
      BY Zenon, <1>3, <2>1, <3>1
  <2>2. CASE room = pruned /\ ~Full(pruned, max)
    <3>1. Cardinality(Entries(pruned)) < max
      BY <1>4, <2>2 DEF Full
    <3>2. QED
      BY Zenon, <1>2, <1>3, <2>2, <3>1
  <2>3. CASE Full(pruned, max) /\ room \in evictOldest(pruned)
    BY Zenon, <1>2, <1>5, <2>3, EvictKeeps
  <2>4. QED
    BY <2>1, <2>2, <2>3 DEF MakeRoom
<1>7. new \in [Regs -> Times(now)]
  BY <1>6 DEF Times
<1>8. Cardinality(Entries(new)) <= max
  <2>1. /\ Entries(room) \in SUBSET Regs /\ Entries(new) \in SUBSET (Entries(room) \cup {r0})
        /\ Entries(room) \cup {r0} \in SUBSET Regs
    BY <1>6 DEF Entries
  <2>2. /\ Cardinality(Entries(new)) <= Cardinality(Entries(room) \cup {r0})
        /\ Cardinality(Entries(new)) \in Nat
        /\ Cardinality(Entries(room) \cup {r0}) \in Nat
    BY Zenon, <2>1, RegSets
  <2>3. Cardinality(Entries(room) \cup {r0}) <= Cardinality(Entries(room)) + 1
    BY Zenon, <2>1, RegAdd
  <2>4. Cardinality(Entries(room)) \in Nat
    BY <2>1, RegSets
  <2>5. QED
    BY <1>6, <2>2, <2>3, <2>4
<1>9. QED
  BY <1>1, <1>6, <1>7, <1>8

-----------------------------------------------------------------------------
(* The steps *)

FileTyped ==
  /\ edits \in 0..MaxEdits
  /\ fault \in {"none", "stat", "open"}
  /\ file \in [there : BOOLEAN, keys : SUBSET Keys, mtime : Nat]

ListTyped ==
  /\ keys \in SUBSET Keys /\ mtime \in Nat
  /\ approvedAt \in [Keys -> {Unknown, AtStartup} \cup Nat]
  /\ poll \in Polls

WorkTyped == work \in [Workers -> {Free} \cup Busy]

CachesTyped ==
  /\ now \in 0..MaxNow
  /\ recentRegs \in [Regs -> Times(now)] /\ preAuthRegs \in [Regs -> Times(now)]
  /\ acceptedAt \in [Regs -> Times(now)] /\ recordedAt \in [Regs -> Times(now)]
  /\ pend \in [Codes -> Held(now)]

(* The type invariant, by part. *)
LEMMA TypeParts ==
  /\ TypeOK <=> FileTyped /\ ListTyped /\ WorkTyped /\ CachesTyped
  /\ TypeOK' <=> FileTyped' /\ ListTyped' /\ WorkTyped' /\ CachesTyped'
BY DEF TypeOK, FileTyped, ListTyped, WorkTyped, CachesTyped, Polls, Busy, Times, Held

(* A step that leaves the clock, the caches and the pending codes alone. *)
LEMMA QuietStep ==
  ASSUME Inv, UNCHANGED <<now, caches, pend, history>>,
         FileTyped', ListTyped', WorkTyped'
  PROVE  Inv'
<1>1. CachesTyped'
  BY TypeParts DEF Inv, CachesTyped, caches, history
<1>2. CachesBounded' /\ Remembers'
  BY DEF Inv, CachesBounded, Remembers, Entries, Pending, Kept, Since, caches, history
<1>3. QED
  BY <1>1, <1>2, TypeParts DEF Inv

(* The operator's commands and the file's troubles. *)
LEMMA OperatorStep ==
  ASSUME Inv, Operator
  PROVE  Inv'
<1>0. FileTyped /\ ListTyped /\ WorkTyped /\ MaxEdits \in Nat
  BY TypeParts, LimitsAssumption DEF Inv
<1>1. UNCHANGED <<now, caches, pend, history, list, poll, work>>
  BY DEF Operator, ApproveKey, RevokeKey, Write, MoveFile, ChangeFault
<1>2. ListTyped' /\ WorkTyped'
  BY <1>0, <1>1 DEF ListTyped, WorkTyped, list
<1>3. ASSUME NEW ks \in SUBSET Keys, NEW m \in NewMtime, edits < MaxEdits,
             edits' = edits + 1, fault' = fault,
             file' = [there |-> TRUE, keys |-> ks, mtime |-> m]
      PROVE  FileTyped'
  <2>1. edits' \in 0..MaxEdits /\ edits + 2 \in Nat
    BY <1>0, <1>3 DEF FileTyped
  <2>2. NewMtime \subseteq Nat
    BY <1>0, <2>1 DEF NewMtime, FileTyped
  <2>3. QED
    BY <1>0, <1>3, <2>1, <2>2 DEF FileTyped
<1>4. ASSUME NEW k \in Keys, ApproveKey(k) \/ RevokeKey(k) PROVE FileTyped'
  <2>1. file.keys \in SUBSET Keys
    BY <1>0 DEF FileTyped
  <2>2. \E ks \in SUBSET Keys : Write(ks)
    BY <1>4, <2>1 DEF ApproveKey, RevokeKey
  <2>3. QED
    BY <1>3, <2>2 DEF Write
<1>5. ASSUME MoveFile PROVE FileTyped'
  <2> DEFINE there == ~file.there
  <2>1. edits' \in 0..MaxEdits /\ fault' = fault
    BY <1>0, <1>5 DEF MoveFile, FileTyped
  <2>2. there \in BOOLEAN /\ file' = [file EXCEPT !.there = there]
    BY <1>5 DEF MoveFile
  <2> HIDE DEF there
  <2>3. QED
    BY <1>0, <2>1, <2>2 DEF FileTyped
<1>6. ASSUME ChangeFault PROVE FileTyped'
  BY <1>0, <1>6 DEF ChangeFault, FileTyped
<1>7. FileTyped'
  BY <1>4, <1>5, <1>6 DEF Operator
<1>8. QED
  BY <1>1, <1>2, <1>7, QuietStep

(* The watch goroutine. *)
LEMMA WatchStep ==
  ASSUME Inv, Watch
  PROVE  Inv'
<1>0. FileTyped /\ ListTyped /\ WorkTyped /\ now \in Nat
  BY TypeParts DEF Inv, CachesTyped
<1>1. UNCHANGED <<now, caches, pend, history, disk, work>>
  BY DEF Watch, pollOnce, readAuthorized, load
<1>2. FileTyped' /\ WorkTyped'
  BY <1>0, <1>1 DEF FileTyped, WorkTyped, disk
<1>3. Idle \in Polls
  BY DEF Idle, Polls, NoTime
<1>4. ASSUME pollOnce PROVE ListTyped'
  BY <1>0, <1>4 DEF pollOnce, noteMissing, ListTyped, Polls, list, NoTime
<1>5. ASSUME readAuthorized PROVE ListTyped'
  <2>1. Readable(file.keys) \subseteq SUBSET Keys /\ file.mtime \in Nat
    BY <1>0 DEF Readable, FileTyped
  <2>2. QED
    BY <1>0, <1>3, <1>5, <2>1 DEF readAuthorized, ListTyped, Polls, list, NoTime
<1>6. ASSUME load PROVE ListTyped'
  <2>1. poll.keys \in SUBSET Keys /\ poll.mtime \in Nat
    BY <1>0 DEF ListTyped, Polls
  <2>2. approvedAt' \in [Keys -> {Unknown, AtStartup} \cup Nat]
    BY <1>0, <1>6 DEF load, ListTyped
  <2>3. QED
    BY <1>3, <1>6, <2>1, <2>2 DEF load, ListTyped
<1>7. ListTyped'
  BY <1>4, <1>5, <1>6 DEF Watch
<1>8. QED
  BY <1>1, <1>2, <1>7, QuietStep

(* A request moves on, or ends. *)
LEMMA WorkMoves ==
  ASSUME WorkTyped, NEW w \in Workers
  PROVE  /\ work' = [work EXCEPT ![w] = Free] => WorkTyped'
         /\ \A pc \in {"verified", "enroll", "preauth", "pending", "approved", "fresh",
                       "accepted"} :
              work[w].pc # "idle" /\ work' = [work EXCEPT ![w].pc = pc] => WorkTyped'
         /\ work[w].pc # "idle" => work[w].reg \in Regs
BY DEF WorkTyped, Free, Busy

(* The sections of a request that note nothing. *)
LEMMA RequestSteps ==
  ASSUME Inv, NEW w \in Workers,
         \/ \E r \in Regs : verifyRegistration(w, r)
         \/ allowed(w) \/ allowEnroll(w) \/ freshSinceApproval(w) \/ answered(w)
  PROVE  Inv'
<1>0. FileTyped /\ ListTyped /\ WorkTyped
  BY TypeParts DEF Inv
<1>1. UNCHANGED <<now, caches, pend, history, disk, list, poll>>
  BY DEF verifyRegistration, allowed, allowEnroll, freshSinceApproval, answered
<1>2. FileTyped' /\ ListTyped'
  BY <1>0, <1>1 DEF FileTyped, ListTyped, disk, list
<1>3. ASSUME NEW r \in Regs, verifyRegistration(w, r) PROVE WorkTyped'
  BY <1>0, <1>3 DEF verifyRegistration, WorkTyped, Busy
<1>4. ASSUME allowed(w) PROVE WorkTyped'
  BY Zenon, <1>0, <1>4, WorkMoves DEF allowed, At, Goto, Done
<1>5. ASSUME allowEnroll(w) PROVE WorkTyped'
  BY <1>0, <1>5, WorkMoves DEF allowEnroll, At, Goto, Done
<1>6. ASSUME freshSinceApproval(w) PROVE WorkTyped'
  BY <1>0, <1>6, WorkMoves DEF freshSinceApproval, At, Goto, Done
<1>7. ASSUME answered(w) PROVE WorkTyped'
  BY Zenon, <1>0, <1>7, WorkMoves DEF answered, At, Goto, Done
<1>8. WorkTyped'
  BY <1>3, <1>4, <1>5, <1>6, <1>7
<1>9. QED
  BY <1>1, <1>2, <1>8, QuietStep

(* A request of a key that is not approved is noted in the pre-auth cache. *)
LEMMA PreAuthStep ==
  ASSUME Inv, NEW w \in Workers, recordPreAuth(w)
  PROVE  Inv'
<1> DEFINE r == work[w].reg
<1>0. /\ FileTyped /\ ListTyped /\ WorkTyped /\ CachesTyped /\ CachesBounded /\ Remembers
      /\ now \in Nat /\ work[w].pc = "preauth" /\ r \in Regs
  BY TypeParts, WorkMoves DEF Inv, CachesTyped, recordPreAuth, At
<1>1. UNCHANGED <<now, disk, list, recentRegs, pend, poll, acceptedAt>>
  BY DEF recordPreAuth
<1>2. FileTyped' /\ ListTyped' /\ WorkTyped'
  BY Zenon, <1>0, <1>1, WorkMoves DEF recordPreAuth, Goto, FileTyped, ListTyped, disk, list
<1>3. CASE preAuthRegs[r] # Never
  BY <1>0, <1>1, <1>2, <1>3, QuietStep DEF recordPreAuth, Reg, caches, history
<1>4. CASE preAuthRegs[r] = Never
  <2>1. PICK room \in MakeRoom(preAuthRegs, MaxPreAuthRegs) :
          /\ preAuthRegs' = [room EXCEPT ![r] = now]
          /\ recordedAt' = [recordedAt EXCEPT ![r] = now]
    BY <1>4 DEF recordPreAuth, Reg
  <2>2. ~Within(preAuthRegs, r) /\ MaxPreAuthRegs \in Nat \ {0}
    BY <1>4, LimitsAssumption DEF Within
  <2>3. /\ preAuthRegs' \in [Regs -> Times(now)] /\ recordedAt' \in [Regs -> Times(now)]
        /\ Kept(now, preAuthRegs', recordedAt', MaxPreAuthRegs)
        /\ Cardinality(Entries(preAuthRegs')) <= MaxPreAuthRegs
    <3>1. /\ preAuthRegs \in [Regs -> Times(now)] /\ recordedAt \in [Regs -> Times(now)]
          /\ Kept(now, preAuthRegs, recordedAt, MaxPreAuthRegs)
          /\ Cardinality(Entries(preAuthRegs)) <= MaxPreAuthRegs
      BY <1>0 DEF CachesTyped, Remembers, CachesBounded
    <3>2. QED
      BY Zenon, <1>0, <2>1, <2>2, <3>1, InsertKeeps
  <2>4. CachesTyped'
    BY Zenon, <1>0, <1>1, <2>3 DEF CachesTyped
  <2>5. CachesBounded'
    BY <1>0, <1>1, <2>3 DEF CachesBounded, Entries, Pending
  <2>6. Remembers'
    BY ZenonT(30), <1>0, <1>1, <2>3 DEF Remembers, Kept, Since
  <2>7. QED
    BY <1>2, <2>4, <2>5, <2>6, TypeParts DEF Inv
<1>5. QED
  BY <1>3, <1>4

(* The pending enrollments: a code goes in only where there is room. *)
LEMMA PendingStep ==
  ASSUME Inv, NEW w \in Workers, recordPending(w)
  PROVE  Inv'
<1> DEFINE r == work[w].reg
           c == CodeOf[r]
           entry == [key |-> KeyOf[r], seen |-> now]
           Size(p) == Cardinality({x \in Codes : p[x] # NoOne})
<1>0. /\ FileTyped /\ ListTyped /\ WorkTyped /\ CachesTyped /\ CachesBounded /\ Remembers
      /\ now \in Nat /\ work[w].pc = "pending" /\ r \in Regs /\ MaxPending \in Nat \ {0}
  BY TypeParts, WorkMoves, LimitsAssumption DEF Inv, CachesTyped, recordPending, At
<1>1. UNCHANGED <<now, disk, list, caches, poll, history>>
  BY DEF recordPending
<1>2. FileTyped' /\ ListTyped' /\ WorkTyped'
  BY Zenon, <1>0, <1>1, WorkMoves DEF recordPending, Done, FileTyped, ListTyped, disk, list
<1>3. /\ c \in Codes \cup {NoCode} /\ entry \in Held(now)
      /\ pend \in [Codes -> Held(now)] /\ prunePending \in [Codes -> Held(now)]
      /\ \A x \in Codes : prunePending[x] # NoOne => pend[x] # NoOne
  <2>1. KeyOf[r] \in Keys /\ c \in Codes \cup {NoCode} /\ now \in 0..now
    BY <1>0, RegsAssumption
  <2>2. entry \in Held(now)
    BY <2>1 DEF Held
  <2>3. pend \in [Codes -> Held(now)]
    BY <1>0 DEF CachesTyped
  <2>4. \A x \in Codes : prunePending[x] \in {pend[x], NoOne}
    BY DEF prunePending
  <2>5. prunePending \in [Codes -> Held(now)]
    BY <2>3 DEF prunePending, Held
  <2>6. QED
    BY <2>1, <2>2, <2>3, <2>4, <2>5
<1>4. ASSUME NEW A \in SUBSET Codes, NEW B \in SUBSET A
      PROVE  /\ IsFiniteSet(A) /\ IsFiniteSet(B)
             /\ Cardinality(A) \in Nat /\ Cardinality(B) \in Nat
             /\ Cardinality(B) <= Cardinality(A)
  BY RegsAssumption, FS_Subset, FS_CardinalityType
<1>5. Size(pend) <= MaxPending /\ Size(pend) \in Nat
  BY <1>0, <1>4 DEF CachesBounded, Pending
<1>6. Size(prunePending) <= Size(pend) /\ Size(prunePending) \in Nat
  BY <1>3, <1>4
<1>7. ASSUME NEW p \in [Codes -> Held(now)], NEW q, q = [p EXCEPT ![c] = entry], c \in Codes
      PROVE  /\ q \in [Codes -> Held(now)] /\ Size(q) \in Nat
             /\ Size(p) < MaxPending => Size(q) <= MaxPending
             /\ p[c] # NoOne => Size(q) <= Size(p)
  <2> DEFINE A == {x \in Codes : p[x] # NoOne}
             B == {x \in Codes : q[x] # NoOne}
  <2>1. q \in [Codes -> Held(now)] /\ B \in SUBSET (A \cup {c}) /\ A \cup {c} \in SUBSET Codes
    BY <1>3, <1>7
  <2>2. /\ Cardinality(B) <= Cardinality(A \cup {c}) /\ Cardinality(B) \in Nat
        /\ IsFiniteSet(A) /\ Cardinality(A) \in Nat /\ Cardinality(A \cup {c}) \in Nat
    BY <1>4, <2>1
  <2>3. Cardinality(A \cup {c}) = IF c \in A THEN Cardinality(A) ELSE Cardinality(A) + 1
    BY Zenon, <2>2, FS_AddElement
  <2>4. p[c] # NoOne => c \in A
    BY <1>7
  <2>5. Size(p) = Cardinality(A) /\ Size(q) = Cardinality(B)
    OBVIOUS
  <2> HIDE DEF A, B, Size
  <2>6. QED
    BY <1>0, <2>1, <2>2, <2>3, <2>4, <2>5
<1>8. pend' \in [Codes -> Held(now)] /\ Size(pend') <= MaxPending
  <2> HIDE DEF Size, entry, c
  <2>1. CASE pend' = pend
    BY <1>3, <1>5, <2>1
  <2>2. CASE c \in Codes /\ pend[c] # NoOne /\ pend' = [pend EXCEPT ![c] = entry]
    <3>1. /\ pend' \in [Codes -> Held(now)] /\ Size(pend') <= Size(pend)
          /\ Size(pend') \in Nat
      BY Zenon, <1>3, <1>7, <2>2
    <3>2. QED
      BY <1>0, <1>5, <3>1
  <2>3. ASSUME NEW room \in {pend, prunePending}, c \in Codes,
               pend' = IF Size(room) >= MaxPending THEN room ELSE [room EXCEPT ![c] = entry]
        PROVE  pend' \in [Codes -> Held(now)] /\ Size(pend') <= MaxPending
    <3>1. room \in [Codes -> Held(now)] /\ Size(room) <= MaxPending /\ Size(room) \in Nat
      BY <1>0, <1>3, <1>5, <1>6, <2>3
    <3>2. CASE Size(room) >= MaxPending
      BY <2>3, <3>1, <3>2
    <3>3. CASE Size(room) < MaxPending
      <4>1. pend' = [room EXCEPT ![c] = entry]
        BY <1>0, <2>3, <3>1, <3>3
      <4>2. QED
        BY Zenon, <1>7, <2>3, <3>1, <3>3, <4>1
    <3>4. QED
      BY <1>0, <3>1, <3>2, <3>3
  <2>4. \/ pend' = pend
        \/ c \in Codes /\ pend[c] # NoOne /\ pend' = [pend EXCEPT ![c] = entry]
        \/ c \in Codes /\ \E room \in {pend, prunePending} :
             pend' = IF Size(room) >= MaxPending THEN room ELSE [room EXCEPT ![c] = entry]
    BY ZenonT(30), <1>3 DEF recordPending, Reg, Size, c, entry
  <2>5. QED
    BY <2>1, <2>2, <2>3, <2>4
<1>9. CachesTyped'
  BY ZenonT(30), <1>0, <1>1, <1>8 DEF CachesTyped, caches, history
<1>10. CachesBounded' /\ Remembers'
  BY Zenon, <1>0, <1>1, <1>8 DEF CachesBounded, Remembers, Entries, Pending, Kept, Since, caches, history
<1>11. QED
  BY <1>2, <1>9, <1>10, TypeParts DEF Inv

(* An approved key's request: refused as a replay, or noted as accepted. *)
LEMMA ReplayedStep ==
  ASSUME Inv, NEW w \in Workers, replayed(w)
  PROVE  Inv'
<1> DEFINE r == work[w].reg
<1>0. /\ FileTyped /\ ListTyped /\ WorkTyped /\ CachesTyped /\ CachesBounded /\ Remembers
      /\ now \in Nat /\ work[w].pc = "fresh" /\ r \in Regs /\ MaxReplayRegs \in Nat \ {0}
  BY TypeParts, WorkMoves, LimitsAssumption DEF Inv, CachesTyped, replayed, At
<1>1. UNCHANGED <<now, disk, list, pend, poll, recordedAt>>
  BY DEF replayed
<1>2. FileTyped' /\ ListTyped'
  BY <1>0, <1>1 DEF FileTyped, ListTyped, disk, list
<1>3. CASE Within(recentRegs, r) \/ Within(preAuthRegs, r)
  <2>1. Done(w) /\ UNCHANGED <<caches, acceptedAt>>
    BY <1>3 DEF replayed, Reg
  <2>2. WorkTyped'
    BY Zenon, <1>0, <2>1, WorkMoves DEF Done
  <2>3. QED
    BY <1>1, <1>2, <2>1, <2>2, QuietStep DEF history
<1>4. CASE ~(Within(recentRegs, r) \/ Within(preAuthRegs, r))
  <2>1. /\ Goto(w, "accepted")
        /\ preAuthRegs' \in {preAuthRegs, pruneRegs(preAuthRegs)}
        /\ \E room \in MakeRoom(recentRegs, MaxReplayRegs) :
              recentRegs' = [room EXCEPT ![r] = now]
        /\ acceptedAt' = [acceptedAt EXCEPT ![r] = now]
    BY <1>4 DEF replayed, Reg
  <2>2. WorkTyped'
    BY Zenon, <1>0, <2>1, WorkMoves DEF Goto
  <2>3. PICK room \in MakeRoom(recentRegs, MaxReplayRegs) :
          recentRegs' = [room EXCEPT ![r] = now]
    BY Zenon, <2>1
  <2>4. /\ recentRegs' \in [Regs -> Times(now)] /\ acceptedAt' \in [Regs -> Times(now)]
        /\ Kept(now, recentRegs', acceptedAt', MaxReplayRegs)
        /\ Cardinality(Entries(recentRegs')) <= MaxReplayRegs
    <3>1. /\ recentRegs \in [Regs -> Times(now)] /\ acceptedAt \in [Regs -> Times(now)]
          /\ Kept(now, recentRegs, acceptedAt, MaxReplayRegs)
          /\ Cardinality(Entries(recentRegs)) <= MaxReplayRegs
      BY <1>0 DEF CachesTyped, Remembers, CachesBounded
    <3>2. QED
      BY Zenon, <1>0, <1>4, <2>1, <2>3, <3>1, InsertKeeps
  <2>5. /\ preAuthRegs' \in [Regs -> Times(now)]
        /\ Kept(now, preAuthRegs', recordedAt, MaxPreAuthRegs)
        /\ Entries(preAuthRegs') \in SUBSET Entries(preAuthRegs)
    <3>1. /\ preAuthRegs \in [Regs -> Times(now)]
          /\ Kept(now, preAuthRegs, recordedAt, MaxPreAuthRegs)
      BY <1>0 DEF CachesTyped, Remembers
    <3>2. /\ pruneRegs(preAuthRegs) \in [Regs -> Times(now)]
          /\ Kept(now, pruneRegs(preAuthRegs), recordedAt, MaxPreAuthRegs)
          /\ Entries(pruneRegs(preAuthRegs)) \in SUBSET Entries(preAuthRegs)
      BY Zenon, <1>0, <3>1, PruneKeeps
    <3>3. QED
      BY <2>1, <3>1, <3>2
  <2>6. Cardinality(Entries(preAuthRegs')) <= MaxPreAuthRegs
    <3>1. /\ Cardinality(Entries(preAuthRegs')) <= Cardinality(Entries(preAuthRegs))
          /\ Cardinality(Entries(preAuthRegs')) \in Nat
          /\ Cardinality(Entries(preAuthRegs)) \in Nat
      BY <2>5, RegSets DEF Entries
    <3>2. Cardinality(Entries(preAuthRegs)) <= MaxPreAuthRegs /\ MaxPreAuthRegs \in Nat
      BY ZenonT(30), <1>0, LimitsAssumption DEF CachesBounded
    <3>3. QED
      BY <3>1, <3>2
  <2>7. CachesTyped'
    BY <1>0, <1>1, <2>4, <2>5 DEF CachesTyped
  <2>8. CachesBounded'
    BY <1>0, <1>1, <2>4, <2>6 DEF CachesBounded, Entries, Pending
  <2>9. Remembers'
    BY <1>1, <2>4, <2>5 DEF Remembers, Kept, Since
  <2>10. QED
    BY <1>2, <2>2, <2>7, <2>8, <2>9, TypeParts DEF Inv
<1>5. QED
  BY <1>3, <1>4

(* Time only makes what is forgotten older. *)
LEMMA TickStep ==
  ASSUME Inv, Tick
  PROVE  Inv'
<1>0. /\ FileTyped /\ ListTyped /\ WorkTyped /\ CachesTyped /\ CachesBounded /\ Remembers
      /\ now \in Nat /\ MaxNow \in Nat /\ RegReplayWindow \in Nat
  BY TypeParts, LimitsAssumption DEF Inv, CachesTyped, RegReplayWindow
<1>1. /\ now < MaxNow /\ now' = now + 1
      /\ UNCHANGED <<disk, list, caches, pend, poll, work, history>>
  BY DEF Tick
<1>2. FileTyped' /\ ListTyped' /\ WorkTyped'
  BY <1>0, <1>1 DEF FileTyped, ListTyped, WorkTyped, disk, list
<1>3. Times(now) \subseteq Times(now') /\ Held(now) \subseteq Held(now')
  BY <1>0, <1>1 DEF Times, Held
<1>4. CachesTyped'
  <2>1. now' \in 0..MaxNow
    BY <1>0, <1>1
  <2>2. QED
    BY <1>0, <1>1, <1>3, <2>1 DEF CachesTyped, caches, history
<1>5. CachesBounded'
  BY <1>0, <1>1 DEF CachesBounded, Entries, Pending, caches
<1>6. ASSUME NEW cache, NEW notedAt \in [Regs -> Times(now)], NEW max,
             Kept(now, cache, notedAt, max)
      PROVE  Kept(now + 1, cache, notedAt, max)
  <2> DEFINE t == now + 1
  <2>0. t = now + 1
    OBVIOUS
  <2> HIDE DEF t
  <2>1. ASSUME NEW r \in Regs PROVE notedAt[r] \in Int
    BY <1>0 DEF Times, Never
  <2>2. ASSUME NEW r \in Regs, now - notedAt[r] >= RegReplayWindow
        PROVE  t - notedAt[r] >= RegReplayWindow
    <3>1. notedAt[r] \in Int
      BY <2>1
    <3>2. QED
      BY <1>0, <2>0, <2>2, <3>1
  <2>3. ASSUME NEW r \in Regs, notedAt[r] # Never, cache[r] = Never
        PROVE  \/ t - notedAt[r] >= RegReplayWindow
               \/ Cardinality(Since(notedAt, r)) >= max
    <3>1. CASE now - notedAt[r] >= RegReplayWindow
      BY <2>2, <3>1
    <3>2. CASE Cardinality(Since(notedAt, r)) >= max
      BY <3>2
    <3>3. QED
      BY <1>6, <2>3, <3>1, <3>2 DEF Kept
  <2>4. \A r \in Regs : cache[r] # Never => cache[r] = notedAt[r]
    BY <1>6 DEF Kept
  <2>5. \A r \in Regs : notedAt[r] # Never /\ cache[r] = Never =>
             \/ t - notedAt[r] >= RegReplayWindow
             \/ Cardinality(Since(notedAt, r)) >= max
    BY <2>3
  <2>6. Kept(t, cache, notedAt, max)
    BY <2>4, <2>5 DEF Kept
  <2>7. QED
    BY <2>6 DEF t
<1>7. Remembers'
  BY <1>0, <1>1, <1>6 DEF Remembers, CachesTyped, caches, history
<1>8. QED
  BY <1>2, <1>4, <1>5, <1>7, TypeParts DEF Inv

-----------------------------------------------------------------------------
(* The invariant *)

(* The invariant holds at the start. *)
LEMMA InitInv == Init => Inv
<1> SUFFICES ASSUME Init PROVE Inv
  OBVIOUS
<1>1. FileTyped
  <2>1. edits \in 0..MaxEdits /\ fault \in {"none", "stat", "open"}
    BY LimitsAssumption DEF Init
  <2>2. file \in [there : BOOLEAN, keys : SUBSET Keys, mtime : Nat]
    <3>1. CASE file = [there |-> FALSE, keys |-> {}, mtime |-> NoTime]
      BY <3>1 DEF NoTime
    <3>2. ASSUME NEW ks \in StartLists, file = [there |-> TRUE, keys |-> ks, mtime |-> 1]
          PROVE  file \in [there : BOOLEAN, keys : SUBSET Keys, mtime : Nat]
      BY <3>2, RegsAssumption
    <3>3. QED
      BY <3>1, <3>2 DEF Init
  <2>3. QED
    BY <2>1, <2>2 DEF FileTyped
<1>2. keys \in SUBSET Keys
  BY <1>1 DEF Init, Readable, FileTyped
<1>3. ListTyped
  <2>1. mtime \in Nat
    BY <1>1 DEF Init, FileTyped
  <2>2. approvedAt \in [Keys -> {Unknown, AtStartup} \cup Nat]
    BY DEF Init
  <2>3. poll \in Polls
    BY DEF Init, Idle, Polls, NoTime
  <2>4. QED
    BY <1>2, <2>1, <2>2, <2>3 DEF ListTyped
<1>4. WorkTyped
  BY DEF Init, WorkTyped
<1>5. /\ now = 0 /\ pend = [c \in Codes |-> NoOne]
      /\ recentRegs = [r \in Regs |-> Never] /\ preAuthRegs = [r \in Regs |-> Never]
      /\ acceptedAt = [r \in Regs |-> Never] /\ recordedAt = [r \in Regs |-> Never]
  BY DEF Init
<1>6. CachesTyped
  BY <1>5, LimitsAssumption DEF CachesTyped, Times, Held
<1>7. CachesBounded
  <2>1. Entries(recentRegs) = {} /\ Entries(preAuthRegs) = {} /\ Pending = {}
    BY <1>5 DEF Entries, Pending
  <2>2. QED
    BY <2>1, FS_EmptySet, LimitsAssumption DEF CachesBounded
<1>8. Remembers
  BY <1>5 DEF Remembers, Kept
<1>9. QED
  BY <1>1, <1>3, <1>4, <1>6, <1>7, <1>8, TypeParts DEF Inv

(* Every step keeps it. *)
LEMMA NextInv == Inv /\ [Next]_vars => Inv'
<1> SUFFICES ASSUME Inv, [Next]_vars PROVE Inv'
  OBVIOUS
<1>1. ASSUME NEW w \in Workers, Request(w) PROVE Inv'
  BY <1>1, RequestSteps, PreAuthStep, PendingStep, ReplayedStep DEF Request
<1>2. CASE UNCHANGED vars
  <2>1. FileTyped' /\ ListTyped' /\ WorkTyped'
    BY <1>2, TypeParts DEF Inv, FileTyped, ListTyped, WorkTyped, vars, disk, list
  <2>2. QED
    BY <1>2, <2>1, QuietStep DEF vars
<1>3. QED
  BY <1>1, <1>2, OperatorStep, WatchStep, TickStep DEF Next

(* The invariant holds throughout. *)
LEMMA AuthorizerInv == Spec => []Inv
BY InitInv, NextInv, PTL DEF Spec

(* Only replayed accepts a registration, and only one in neither cache. *)
LEMMA AcceptStep ==
  ASSUME Inv, [Next]_vars, NEW w \in Workers, Accepts(w)
  PROVE  /\ Reg(w) \in Regs
         /\ ~Within(recentRegs, Reg(w)) /\ ~Within(preAuthRegs, Reg(w))
<1>0. WorkTyped /\ work[w].pc = "fresh" /\ work'[w].pc = "accepted"
  BY TypeParts DEF Inv, Accepts, At
<1>1. Reg(w) \in Regs
  BY <1>0, WorkMoves DEF Reg
<1>2. work'[w] # work[w] /\ work'[w] # Free
  BY <1>0 DEF Free
<1>3. PICK v \in Workers : Request(v)
  BY <1>2 DEF Next, vars, Tick, Operator, ApproveKey, RevokeKey, Write, MoveFile, ChangeFault,
     Watch, pollOnce, readAuthorized, load
<1>4. v = w
  BY <1>0, <1>2, <1>3 DEF Request, verifyRegistration, allowed, allowEnroll, recordPreAuth,
     recordPending, freshSinceApproval, replayed, answered, Goto, Done, WorkTyped
<1>5. replayed(w)
  BY Zenon, <1>0, <1>2, <1>3, <1>4 DEF Request, verifyRegistration, allowed, allowEnroll, recordPreAuth,
     recordPending, freshSinceApproval, answered, At
<1>6. ~Done(w)
  BY <1>0, <1>2 DEF Done, WorkTyped
<1>7. QED
  BY <1>1, <1>5, <1>6 DEF replayed

(* What is in no cache was forgotten for a reason. *)
LEMMA AbsentForgotten ==
  ASSUME now \in Nat, NEW cache \in [Regs -> Times(now)], NEW notedAt \in [Regs -> Times(now)],
         NEW max, Kept(now, cache, notedAt, max), NEW r \in Regs, ~Within(cache, r)
  PROVE  Forgotten(notedAt, r, max)
<1>0. RegReplayWindow \in Nat
  BY LimitsAssumption DEF RegReplayWindow
<1>1. CASE cache[r] = Never
  BY <1>1 DEF Kept, Forgotten, Since
<1>2. CASE cache[r] # Never
  <2>1. cache[r] = notedAt[r] /\ cache[r] \in 0..now
    BY <1>2 DEF Kept, Times
  <2>2. now - cache[r] >= RegReplayWindow
    BY <1>0, <1>2, <2>1 DEF Within
  <2>3. QED
    BY <2>1, <2>2 DEF Forgotten
<1>3. QED
  BY <1>1, <1>2

-----------------------------------------------------------------------------

(* The authorizer's state is well typed throughout. *)
THEOREM AuthorizerTyped == Spec => []TypeOK
<1>1. Inv => TypeOK
  BY DEF Inv
<1>2. QED
  BY <1>1, AuthorizerInv, PTL

(* Neither replay cache nor the pending enrollments outgrow their limits, for
   any number of request goroutines (replayed, recordPreAuth, recordPending). *)
THEOREM AuthorizerCachesBounded == Spec => []CachesBounded
<1>1. Inv => CachesBounded
  BY DEF Inv
<1>2. QED
  BY <1>1, AuthorizerInv, PTL

(* replayed accepts a registration again only after a replay window, or after
   maxReplayRegs others of approved keys, whatever other requests, reloads and
   edits come in between. *)
THEOREM AuthorizerReplayRefused == Spec => ReplayRefused
<1> DEFINE Refuses == \A w \in Workers : Accepts(w) => Forgotten(acceptedAt, Reg(w), MaxReplayRegs)
<1>1. Inv /\ [Next]_vars => Refuses
  <2> SUFFICES ASSUME Inv, [Next]_vars, NEW w \in Workers, Accepts(w)
               PROVE  Forgotten(acceptedAt, Reg(w), MaxReplayRegs)
    OBVIOUS
  <2>1. Reg(w) \in Regs /\ ~Within(recentRegs, Reg(w))
    BY AcceptStep
  <2>2. /\ now \in Nat /\ recentRegs \in [Regs -> Times(now)]
        /\ acceptedAt \in [Regs -> Times(now)]
        /\ Kept(now, recentRegs, acceptedAt, MaxReplayRegs)
    BY TypeParts DEF Inv, CachesTyped, Remembers
  <2>3. QED
    BY <2>1, <2>2, AbsentForgotten
<1>2. Inv /\ [Next]_vars => [Refuses]_vars
  BY <1>1
<1>3. QED
  BY <1>2, AuthorizerInv, PTL DEF Spec, ReplayRefused

(* A registration noted before its key was approved is refused after the
   approval, under the same terms (recordPreAuth, replayed's second look-up). *)
THEOREM AuthorizerPreAuthRefused == Spec => PreAuthRefused
<1> DEFINE Refuses == \A w \in Workers : Accepts(w) => Forgotten(recordedAt, Reg(w), MaxPreAuthRegs)
<1>1. Inv /\ [Next]_vars => Refuses
  <2> SUFFICES ASSUME Inv, [Next]_vars, NEW w \in Workers, Accepts(w)
               PROVE  Forgotten(recordedAt, Reg(w), MaxPreAuthRegs)
    OBVIOUS
  <2>1. Reg(w) \in Regs /\ ~Within(preAuthRegs, Reg(w))
    BY AcceptStep
  <2>2. /\ now \in Nat /\ preAuthRegs \in [Regs -> Times(now)]
        /\ recordedAt \in [Regs -> Times(now)]
        /\ Kept(now, preAuthRegs, recordedAt, MaxPreAuthRegs)
    BY TypeParts DEF Inv, CachesTyped, Remembers
  <2>3. QED
    BY <2>1, <2>2, AbsentForgotten
<1>2. Inv /\ [Next]_vars => [Refuses]_vars
  BY <1>1
<1>3. QED
  BY <1>2, AuthorizerInv, PTL DEF Spec, PreAuthRefused
=============================================================================
