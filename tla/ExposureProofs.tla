---------------------------- MODULE ExposureProofs ----------------------------
(***************************************************************************)
(* Proofs for Exposure, for any interfaces and scopes and any number of    *)
(* failures, kills and reloads.  Inv adds to the two safety properties     *)
(* what makes them inductive: the rule order names every interface that    *)
(* has a scope (so that a rebuild for one keeps the others), a worker has  *)
(* its rules in the package's state and in the kernel from applyScope on   *)
(* until its link is gone, and a link of this run (not counting one whose  *)
(* deletion failed) exists exactly in the steps between its creation and   *)
(* its deletion.                                                           *)
(***************************************************************************)
EXTENDS Exposure, SequenceTheorems, TLAPS

(* Time for the larger leaves. *)
USE SMTT(20), ZenonT(30)

Priming == {"probe", "probed", "primed"}
Configured == {"confirm", "live"}
Linked == {"device", "address", "up", "route", "confirm", "live", "down"}
Ruled == {"scoped", "cleared"} \cup Linked

OrderInv == \A i \in Ifs : scopes[i] # None => Contains(order, i)

Ruling(i) ==
  /\ work[i].pc \in Ruled => scopes[i] # None /\ table[i] # None
  /\ work[i].pc \in Priming => work[i].scope # None

RuleInv == \A i \in Ifs : Ruling(i)

Linking(i) ==
  /\ Own(i) <=> work[i].pc \in Linked
  /\ link[i] # None => link[i].run <= run
  /\ work[i].pc = "device" => link[i].has = {}
  /\ work[i].pc = "address" => link[i].has = {"device"}
  /\ work[i].pc = "up" => link[i].has = {"device", "address"}
  /\ work[i].pc = "route" => link[i].has = {"device", "address", "up"}
  /\ work[i].pc \in Configured => link[i].has = {"device", "address", "up", "route"}
  /\ work[i].pc = "live" => link[i].shaken

LinkInv == \A i \in Ifs : Linking(i)

Inv == TypeOK /\ OrderInv /\ RuleInv /\ LinkInv

Pcs == {"idle", "probe", "probed", "primed", "scoped", "cleared",
        "confirm", "live", "down", "unscope"} \cup Range(Steps)
Work == [Ifs -> [pc : Pcs, scope : Scopes \cup {None}]]
Kernel == [Names -> Links \cup {None}]

-----------------------------------------------------------------------------
(* The rule order *)

(* The four steps of Up. *)
LEMMA StepsFacts ==
  /\ Range(Steps) = {"device", "address", "up", "route"}
  /\ DOMAIN Steps = 1 .. 4 /\ Len(Steps) = 4
  /\ Steps[1] = "device" /\ Steps[2] = "address" /\ Steps[3] = "up" /\ Steps[4] = "route"
<1>1. /\ DOMAIN Steps = 1 .. 4 /\ Len(Steps) = 4
      /\ Steps[1] = "device" /\ Steps[2] = "address" /\ Steps[3] = "up" /\ Steps[4] = "route"
  BY DEF Steps
<1>2. Range(Steps) = {Steps[n] : n \in 1 .. 4}
  BY <1>1 DEF Range
<1>3. {Steps[n] : n \in 1 .. 4} = {"device", "address", "up", "route"}
  BY <1>1
<1>4. QED
  BY <1>1, <1>2, <1>3

(* Appending keeps what the order names and adds the new interface. *)
LEMMA AppendNames ==
  ASSUME NEW ord \in Seq(Ifs), NEW j \in Ifs
  PROVE  /\ Append(ord, j) \in Seq(Ifs) /\ Contains(Append(ord, j), j)
         /\ \A i \in Ifs : Contains(ord, i) => Contains(Append(ord, j), i)
<1>1. /\ Append(ord, j) \in Seq(Ifs)
      /\ Len(Append(ord, j)) = Len(ord) + 1
      /\ Append(ord, j)[Len(ord) + 1] = j
      /\ \A n \in 1 .. Len(ord) : Append(ord, j)[n] = ord[n]
      /\ Len(ord) \in Nat
  OBVIOUS
<1>2. Contains(Append(ord, j), j)
  BY <1>1 DEF Contains
<1>3. ASSUME NEW i \in Ifs, Contains(ord, i)
      PROVE  Contains(Append(ord, j), i)
  <2>1. PICK n \in 1 .. Len(ord) : ord[n] = i
    BY <1>3 DEF Contains
  <2>2. n \in 1 .. Len(Append(ord, j)) /\ Append(ord, j)[n] = i
    BY <1>1, <2>1
  <2>3. QED
    BY <2>2 DEF Contains
<1>4. QED
  BY <1>1, <1>2, <1>3

(* Dropping one interface from the order keeps the others. *)
LEMMA WithoutNames ==
  ASSUME order \in Seq(Ifs), NEW j \in Ifs, Contains(order, j)
  PROVE  /\ Without(j) \in Seq(Ifs)
         /\ \A i \in Ifs \ {j} : Contains(order, i) => Contains(Without(j), i)
<1> DEFINE k == CHOOSE n \in DOMAIN order : order[n] = j
           a == SubSeq(order, 1, k - 1)
           b == SubSeq(order, k + 1, Len(order))
<1>1. DOMAIN order = 1 .. Len(order) /\ Len(order) \in Nat
  OBVIOUS
<1>2. \E n \in DOMAIN order : order[n] = j
  BY <1>1 DEF Contains
<1>3. k \in DOMAIN order /\ order[k] = j
  BY <1>2
<1>4. k \in 1 .. Len(order) /\ k \in Int /\ order[k] = j
  BY <1>1, <1>3
<1> HIDE DEF k
<1>5. /\ a \in Seq(Ifs) /\ Len(a) = k - 1
      /\ \A n \in 1 .. k - 1 : a[n] = order[n]
  <2>1. \A n \in 1 .. k - 1 : order[n] \in Ifs
    BY <1>1, <1>4
  <2>2. a \in Seq(Ifs) /\ Len(a) = (IF 1 <= k - 1 THEN k - 1 - 1 + 1 ELSE 0)
        /\ \A n \in 1 .. k - 1 - 1 + 1 : a[n] = order[1 + n - 1]
    BY <1>4, <2>1, SubSeqProperties
  <2> HIDE DEF a
  <2>3. QED
    BY <2>2, <1>4, <1>1
<1>6. /\ b \in Seq(Ifs) /\ Len(b) = Len(order) - k
      /\ \A n \in 1 .. Len(order) - k : b[n] = order[k + n]
  <2>1. \A n \in k + 1 .. Len(order) : order[n] \in Ifs
    BY <1>1, <1>4
  <2>2. b \in Seq(Ifs)
        /\ Len(b) = (IF k + 1 <= Len(order) THEN Len(order) - (k + 1) + 1 ELSE 0)
        /\ \A n \in 1 .. Len(order) - (k + 1) + 1 : b[n] = order[(k + 1) + n - 1]
    BY <1>1, <1>4, <2>1, SubSeqProperties
  <2> HIDE DEF b
  <2>3. Len(b) = Len(order) - k
    <3> HIDE DEF k
    <3>1. Len(b) = (IF k + 1 <= Len(order) THEN Len(order) - (k + 1) + 1 ELSE 0)
      BY <2>2
    <3>2. k \in Int /\ k <= Len(order) /\ Len(order) \in Int
      BY <1>1, <1>4
    <3>3. CASE k + 1 <= Len(order)
      BY <3>1, <3>2, <3>3
    <3>4. CASE ~ (k + 1 <= Len(order))
      BY <3>1, <3>2, <3>4
    <3>5. QED
      BY <3>3, <3>4
  <2>4. ASSUME NEW n \in 1 .. Len(order) - k
        PROVE  b[n] = order[k + n]
    <3>1. n \in 1 .. Len(order) - (k + 1) + 1 /\ (k + 1) + n - 1 = k + n
      BY <1>4, <1>1
    <3>2. b[n] = order[(k + 1) + n - 1]
      BY <2>2, <3>1
    <3>3. QED
      BY <3>1, <3>2
  <2>5. QED
    BY <2>2, <2>3, <2>4
<1>7. Without(j) = a \o b
  BY DEF Without, RemoveAt, k
<1> HIDE DEF a, b
<1>8. /\ a \o b \in Seq(Ifs) /\ Len(a \o b) = Len(a) + Len(b)
      /\ \A n \in 1 .. Len(a) + Len(b) :
            (a \o b)[n] = IF n <= Len(a) THEN a[n] ELSE b[n - Len(a)]
  BY <1>5, <1>6, ConcatProperties, Zenon
<1>9. ASSUME NEW i \in Ifs \ {j}, Contains(order, i)
      PROVE  Contains(a \o b, i)
  <2>1. PICK n \in 1 .. Len(order) : order[n] = i
    BY <1>9 DEF Contains
  <2>2. n # k
    BY <1>4, <2>1
  <2>3. CASE n < k
    <3>1. n \in 1 .. Len(a \o b) /\ (a \o b)[n] = i
      BY <2>1, <2>3, <1>4, <1>5, <1>6, <1>8, <1>1
    <3>2. QED
      BY <3>1 DEF Contains
  <2>4. CASE n > k
    <3>1. n - 1 \in 1 .. Len(a \o b) /\ n - 1 > Len(a) /\ n - 1 - Len(a) = n - k
      BY <2>1, <2>4, <1>4, <1>5, <1>6, <1>8, <1>1
    <3>2. (a \o b)[n - 1] = b[n - k]
      BY <3>1, <1>8, <1>5, <1>6, <1>4, <2>1
    <3>3. b[n - k] = order[k + (n - k)] /\ k + (n - k) = n
      BY <1>6, <2>4, <2>1, <1>4, <1>1
    <3>4. QED
      BY <3>1, <3>2, <3>3, <2>1 DEF Contains
  <2>5. QED
    BY <2>1, <2>2, <2>3, <2>4, <1>4
<1>10. QED
  BY <1>7, <1>8, <1>9

-----------------------------------------------------------------------------
(* The table *)

(* A table rebuilt from an order holds the rules of each interface it names. *)
LEMMA BatchHolds ==
  ASSUME NEW sc \in [Ifs -> Scopes \cup {None}], NEW ord
  PROVE  /\ buildBatch(sc, ord) \in [Ifs -> Rules \cup {None}]
         /\ \A j \in Ifs : Contains(ord, j) /\ sc[j] # None => buildBatch(sc, ord)[j] # None
<1> DEFINE R(s) == ruleExprs(s) \cup forwardExprs
<1>1. \A s \in Scopes : R(s) \in Rules /\ R(s) # None
  BY NoRulesAssumption DEF Rules
<1>2. buildBatch(sc, ord)
        = [i \in Ifs |-> IF Contains(ord, i) /\ sc[i] # None THEN R(sc[i]) ELSE None]
  BY DEF buildBatch
<1> HIDE DEF R
<1>3. QED
  BY <1>1, <1>2

(* Apply keeps the rules of every interface, and a success sets those asked for. *)
LEMMA ApplyKeeps ==
  ASSUME TypeOK, OrderInv, NEW i \in Ifs, NEW s \in Scopes, Apply(i, s)
  PROVE  /\ scopes' \in [Ifs -> Scopes \cup {None}] /\ order' \in Seq(Ifs)
         /\ table' \in [Ifs -> Rules \cup {None}] /\ faults' \in Nat
         /\ OrderInv'
         /\ \A j \in Ifs : scopes[j] # None /\ table[j] # None
                             => scopes'[j] # None /\ table'[j] # None
         /\ faults' = faults => scopes'[i] # None /\ table'[i] # None
<1> DEFINE sc == [scopes EXCEPT ![i] = s]
           ord == IF scopes[i] = None THEN Append(order, i) ELSE order
<1>1. /\ sc \in [Ifs -> Scopes \cup {None}] /\ sc[i] = s /\ s # None
      /\ \A j \in Ifs \ {i} : sc[j] = scopes[j]
  BY NamesAssumption DEF TypeOK
<1>2. ord \in Seq(Ifs) /\ \A j \in Ifs : sc[j] # None => Contains(ord, j)
  <2>1. CASE scopes[i] = None
    BY <2>1, <1>1, AppendNames DEF TypeOK, OrderInv
  <2>2. CASE scopes[i] # None
    BY <2>2, <1>1 DEF TypeOK, OrderInv
  <2>3. QED
    BY <2>1, <2>2
<1> HIDE DEF sc, ord
<1>3. /\ buildBatch(sc, ord) \in [Ifs -> Rules \cup {None}]
      /\ \A j \in Ifs : sc[j] # None => buildBatch(sc, ord)[j] # None
  BY <1>1, <1>2, BatchHolds
<1>4. /\ table' \in {table, buildBatch(sc, ord)}
      /\ faults' = faults => table' = buildBatch(sc, ord)
      /\ faults' \in Nat
  BY DEF Apply, sendBatch, Works, Fault, TypeOK, sc, ord
<1>5. \/ faults' = faults /\ scopes' = sc /\ order' = ord
      \/ faults' # faults /\ scopes' = scopes /\ order' = order
  BY DEF Apply, sc, ord
<1>6. table' \in [Ifs -> Rules \cup {None}]
  BY <1>3, <1>4 DEF TypeOK
<1>7. scopes' \in [Ifs -> Scopes \cup {None}] /\ order' \in Seq(Ifs)
  BY <1>5, <1>1, <1>2 DEF TypeOK
<1>8. OrderInv'
  BY <1>5, <1>2 DEF OrderInv
<1>9. ASSUME NEW j \in Ifs, scopes[j] # None, table[j] # None
      PROVE  scopes'[j] # None /\ table'[j] # None
  <2>1. sc[j] # None
    BY <1>1, <1>9
  <2>2. QED
    BY <2>1, <1>9, <1>3, <1>4, <1>5
<1>10. faults' = faults => scopes'[i] # None /\ table'[i] # None
  BY <1>1, <1>3, <1>4, <1>5
<1>11. QED
  BY <1>4, <1>6, <1>7, <1>8, <1>9, <1>10

(* Remove keeps the rules of every other interface. *)
LEMMA RemoveKeeps ==
  ASSUME TypeOK, OrderInv, NEW i \in Ifs, RemoveRules(i)
  PROVE  /\ scopes' \in [Ifs -> Scopes \cup {None}] /\ order' \in Seq(Ifs)
         /\ table' \in [Ifs -> Rules \cup {None}] /\ faults' \in Nat
         /\ OrderInv'
         /\ \A j \in Ifs \ {i} : scopes[j] # None /\ table[j] # None
                                   => scopes'[j] # None /\ table'[j] # None
<1>1. CASE scopes[i] = None
  BY <1>1 DEF RemoveRules, nft, Works, TypeOK, OrderInv
<1>2. CASE scopes[i] # None
  <2> DEFINE sc == [scopes EXCEPT ![i] = None]
             ord == Without(i)
  <2>1. /\ sc \in [Ifs -> Scopes \cup {None}] /\ sc[i] = None
        /\ \A j \in Ifs \ {i} : sc[j] = scopes[j]
    BY DEF TypeOK
  <2>2. ord \in Seq(Ifs) /\ \A j \in Ifs : sc[j] # None => Contains(ord, j)
    BY <1>2, <2>1, WithoutNames DEF TypeOK, OrderInv
  <2> HIDE DEF sc, ord
  <2>3. /\ buildBatch(sc, ord) \in [Ifs -> Rules \cup {None}]
        /\ \A j \in Ifs : sc[j] # None => buildBatch(sc, ord)[j] # None
    BY <2>1, <2>2, BatchHolds
  <2>4. table' \in {table, buildBatch(sc, ord)} /\ faults' \in Nat
        /\ scopes' = sc /\ order' = ord
    BY <1>2 DEF RemoveRules, sendBatch, Works, Fault, TypeOK, sc, ord
  <2>5. OrderInv'
    BY <2>4, <2>2 DEF OrderInv
  <2>6. table' \in [Ifs -> Rules \cup {None}]
    BY <2>3, <2>4 DEF TypeOK
  <2>7. QED
    BY <2>1, <2>2, <2>3, <2>4, <2>5, <2>6
<1>3. QED
  BY <1>1, <1>2

-----------------------------------------------------------------------------
(* One worker's step *)

(* A step of one worker's program counter leaves the other workers alone. *)
LEMMA GotoKeeps ==
  ASSUME TypeOK, NEW i \in Ifs, NEW p \in Pcs, Goto(i, p)
  PROVE  /\ work' \in Work /\ work'[i].pc = p /\ work'[i].scope = work[i].scope
         /\ \A j \in Ifs \ {i} : work'[j] = work[j]
BY Zenon DEF TypeOK, Goto, Work, Pcs

(* So does one that sets its whole state. *)
LEMMA SetKeeps ==
  ASSUME TypeOK, NEW i \in Ifs, NEW p \in Pcs, NEW s \in Scopes \cup {None},
         work' = [work EXCEPT ![i] = [pc |-> p, scope |-> s]]
  PROVE  /\ work' \in Work /\ work'[i].pc = p /\ work'[i].scope = s
         /\ \A j \in Ifs \ {i} : work'[j] = work[j]
BY DEF TypeOK, Work, Pcs

(* Going back to wait is such a step. *)
LEMMA WaitKeeps ==
  ASSUME TypeOK, NEW i \in Ifs, work' = [work EXCEPT ![i] = Waiting]
  PROVE  /\ work' \in Work /\ work'[i].pc = "idle"
         /\ \A j \in Ifs \ {i} : work'[j] = work[j]
BY SetKeeps, Zenon DEF Waiting, Pcs

(* A deleted link is one link. *)
LEMMA GoneKeeps ==
  ASSUME TypeOK, NEW n \in Names, Gone(n)
  PROVE  /\ link' \in Kernel /\ link'[n] = None
         /\ \A m \in Names \ {n} : link'[m] = link[m]
BY DEF TypeOK, Gone, Kernel

(* A created link belongs to this run and has nothing configured. *)
LEMMA CreateKeeps ==
  ASSUME TypeOK, NEW n \in Names, Create(n)
  PROVE  /\ link' \in Kernel /\ link'[n] # None
         /\ link'[n] = [run |-> run, has |-> {}, shaken |-> FALSE, left |-> FALSE]
         /\ \A m \in Names \ {n} : link'[m] = link[m]
<1>1. New \in Links
  BY DEF TypeOK, Links, New
<1>2. link' \in Kernel /\ link'[n] = New /\ link'[n] # None
      /\ \A m \in Names \ {n} : link'[m] = link[m]
  BY <1>1, NoLinkAssumption, Zenon DEF TypeOK, Create, Kernel
<1>3. QED
  BY <1>2 DEF New

(* The probe is none of the interfaces. *)
LEMMA NamesDiffer == Probe \in Names /\ Ifs \subseteq Names /\ Probe \notin Ifs
BY NamesAssumption DEF Names

(* What a step of one worker leaves to show: its own part of the invariant. *)
LEMMA OneLinks ==
  ASSUME LinkInv, NEW i \in Ifs, run' = run, Linking(i)',
         \A j \in Ifs \ {i} : link'[j] = link[j] /\ work'[j].pc = work[j].pc
  PROVE  LinkInv'
BY DEF LinkInv, Linking, Own

(* The same for the rules. *)
LEMMA OneRules ==
  ASSUME RuleInv, NEW i \in Ifs, Ruling(i)',
         \A j \in Ifs \ {i} : work'[j] = work[j],
         \A j \in Ifs \ {i} : scopes[j] # None /\ table[j] # None
                                => scopes'[j] # None /\ table'[j] # None
  PROVE  RuleInv'
BY DEF RuleInv, Ruling

(* The types, part by part. *)
LEMMA TypeParts ==
  ASSUME scopes' \in [Ifs -> Scopes \cup {None}], order' \in Seq(Ifs),
         table' \in [Ifs -> Rules \cup {None}], link' \in Kernel, work' \in Work,
         cell' \in [Ifs -> Scopes], ctx' \in BOOLEAN, run' \in Nat,
         reloads' \in Nat, faults' \in Nat
  PROVE  TypeOK'
BY DEF TypeOK, Kernel, Work, Pcs

(* A worker's step that sends no batch. *)
LEMMA QuietStep ==
  ASSUME Inv, NEW i \in Ifs, UNCHANGED <<nft, rest>>,
         link' \in Kernel, work' \in Work, faults' \in Nat,
         \A j \in Ifs \ {i} : link'[j] = link[j] /\ work'[j] = work[j],
         Linking(i)', work'[i].pc \in Ruled => work[i].pc \in Ruled,
         work'[i].pc \in Priming => work'[i].scope # None
  PROVE  Inv'
<1>1. TypeOK'
  BY TypeParts DEF Inv, TypeOK, nft, rest
<1>2. OrderInv'
  BY DEF Inv, OrderInv, nft
<1>3. RuleInv'
  <2>1. Ruling(i)'
    BY DEF Inv, RuleInv, Ruling, nft
  <2>2. QED
    BY <2>1, OneRules DEF Inv, nft
<1>4. LinkInv'
  BY OneLinks DEF Inv, rest
<1>5. QED
  BY <1>1, <1>2, <1>3, <1>4 DEF Inv

(* The program counters are typed. *)
LEMMA PcTyped ==
  /\ {"idle", "probe", "probed", "primed", "scoped", "cleared", "confirm", "live",
      "down", "unscope", "device", "address", "up", "route"} = Pcs
BY StepsFacts DEF Pcs

(* The steps of Available keep the invariant. *)
LEMMA ProbeSteps ==
  ASSUME Inv, NEW i \in Ifs,
         probeClears(i) \/ probeCreates(i) \/ probeDeletes(i) \/ pathFails(i)
  PROVE  Inv'
<1> USE NamesDiffer
<1>0. TypeOK /\ Linking(i) /\ Ruling(i) /\ faults \in Nat /\ link \in Kernel
  BY DEF Inv, LinkInv, RuleInv, TypeOK, Kernel
<1>1. CASE probeClears(i)
  <2>1. work' \in Work /\ work'[i].pc = "probe" /\ work'[i].scope # None
        /\ \A j \in Ifs \ {i} : work'[j] = work[j]
    <3>1. cell[i] \in Scopes \cup {None} /\ cell[i] # None
      BY <1>0, NamesAssumption DEF TypeOK
    <3>2. work' = [work EXCEPT ![i] = [pc |-> "probe", scope |-> cell[i]]]
      BY <1>1 DEF probeClears
    <3>3. "probe" \in Pcs
      BY PcTyped
    <3>4. /\ work' \in Work /\ work'[i].pc = "probe" /\ work'[i].scope = cell[i]
          /\ \A j \in Ifs \ {i} : work'[j] = work[j]
      BY <1>0, <3>1, <3>2, <3>3, SetKeeps, ZenonT(30)
    <3>5. QED
      BY <3>1, <3>4
  <2>2. link' \in Kernel /\ faults' \in Nat /\ \A j \in Ifs : link'[j] = link[j]
    BY <1>0, <1>1, GoneKeeps DEF probeClears, Works, Fault
  <2>3. work[i].pc = "idle" /\ run' = run /\ UNCHANGED <<nft, rest>>
    BY <1>1 DEF probeClears, rest
  <2>4. Linking(i)'
    BY <1>0, <2>1, <2>2, <2>3 DEF Linking, Own, Linked, Configured
  <2>5. QED
    BY <1>0, <2>1, <2>2, <2>3, <2>4, QuietStep DEF Ruled, Linked, Priming, Ruling
<1>2. CASE probeCreates(i)
  <2>1. work' \in Work /\ work'[i].pc \in {"probed", "idle"}
        /\ (work'[i].pc = "probed" => work'[i].scope = work[i].scope)
        /\ \A j \in Ifs \ {i} : work'[j] = work[j]
    BY <1>0, <1>2, GotoKeeps, WaitKeeps, PcTyped DEF probeCreates
  <2>2. link' \in Kernel /\ faults' \in Nat /\ \A j \in Ifs : link'[j] = link[j]
    BY <1>0, <1>2, CreateKeeps DEF probeCreates, CreateFails, Works, Fault
  <2>3. work[i].pc = "probe" /\ run' = run /\ UNCHANGED <<nft, rest>>
    BY <1>2 DEF probeCreates, rest
  <2>4. Linking(i)'
    BY <1>0, <2>1, <2>2, <2>3 DEF Linking, Own, Linked, Configured
  <2>5. QED
    BY <1>0, <2>1, <2>2, <2>3, <2>4, QuietStep DEF Ruled, Linked, Priming, Ruling
<1>3. CASE probeDeletes(i)
  <2>1. work' \in Work /\ work'[i].pc = "primed" /\ work'[i].scope = work[i].scope
        /\ \A j \in Ifs \ {i} : work'[j] = work[j]
    BY <1>0, <1>3, GotoKeeps, PcTyped DEF probeDeletes
  <2>2. link' \in Kernel /\ faults' \in Nat /\ \A j \in Ifs : link'[j] = link[j]
    BY <1>0, <1>3, GoneKeeps DEF probeDeletes, Works, Fault
  <2>3. work[i].pc = "probed" /\ run' = run /\ UNCHANGED <<nft, rest>>
    BY <1>3 DEF probeDeletes, rest
  <2>4. Linking(i)'
    BY <1>0, <2>1, <2>2, <2>3 DEF Linking, Own, Linked, Configured
  <2>5. QED
    BY <1>0, <2>1, <2>2, <2>3, <2>4, QuietStep DEF Ruled, Linked, Priming, Ruling
<1>4. CASE pathFails(i)
  <2>1. work' \in Work /\ work'[i].pc = "idle" /\ \A j \in Ifs \ {i} : work'[j] = work[j]
    BY <1>0, <1>4, WaitKeeps, ZenonT(30) DEF pathFails
  <2>2. link' = link /\ faults' = faults /\ work[i].pc = "primed" /\ run' = run
        /\ UNCHANGED <<nft, rest>>
    BY <1>4 DEF pathFails, rest
  <2>3. Linking(i)'
    BY <1>0, <2>1, <2>2 DEF Linking, Own, Linked, Configured
  <2>4. QED
    BY <1>0, <2>1, <2>2, <2>3, QuietStep DEF Ruled, Linked, Priming
<1>5. QED
  BY <1>1, <1>2, <1>3, <1>4

(* The steps of Up before the link is there. *)
LEMMA UpStarts ==
  ASSUME Inv, NEW i \in Ifs, UpRejects(i) \/ UpClears(i) \/ UpCreates(i)
  PROVE  Inv'
<1> USE NamesDiffer
<1>0. TypeOK /\ Linking(i) /\ faults \in Nat /\ link \in Kernel /\ run \in Nat
  BY DEF Inv, LinkInv, TypeOK, Kernel
<1>1. CASE UpRejects(i)
  <2>1. work' \in Work /\ work'[i].pc = "unscope" /\ \A j \in Ifs \ {i} : work'[j] = work[j]
    BY <1>0, <1>1, GotoKeeps, PcTyped DEF UpRejects
  <2>2. link' = link /\ faults' = faults /\ work[i].pc = "scoped" /\ run' = run
        /\ UNCHANGED <<nft, rest>>
    BY <1>1 DEF UpRejects, rest
  <2>3. Linking(i)'
    BY <1>0, <2>1, <2>2 DEF Linking, Own, Linked, Configured
  <2>4. QED
    BY <1>0, <2>1, <2>2, <2>3, QuietStep DEF Ruled, Linked, Priming
<1>2. CASE UpClears(i)
  <2>1. work' \in Work /\ work'[i].pc = "cleared" /\ \A j \in Ifs \ {i} : work'[j] = work[j]
    BY <1>0, <1>2, GotoKeeps, PcTyped DEF UpClears
  <2>2. link' \in Kernel /\ faults' \in Nat /\ link'[i] \in {link[i], None}
        /\ \A j \in Ifs \ {i} : link'[j] = link[j]
    BY <1>0, <1>2, GoneKeeps DEF UpClears, Works, Fault
  <2>3. work[i].pc = "scoped" /\ run' = run /\ UNCHANGED <<nft, rest>>
    BY <1>2 DEF UpClears, rest
  <2>4. Linking(i)'
    BY <1>0, <2>1, <2>2, <2>3 DEF Linking, Own, Linked, Configured
  <2>5. QED
    BY <2>1, <2>2, <2>3, <2>4, QuietStep DEF Ruled, Linked, Priming
<1>3. CASE UpCreates(i)
  <2>0. work[i].pc = "cleared" /\ run' = run /\ UNCHANGED <<nft, rest>>
    BY <1>3 DEF UpCreates, rest
  <2>1. CASE Create(i) /\ Works /\ Goto(i, Steps[1])
    <3>1. work' \in Work /\ work'[i].pc = "device" /\ \A j \in Ifs \ {i} : work'[j] = work[j]
      BY <1>0, <2>1, GotoKeeps, PcTyped, StepsFacts
    <3>2. /\ link' \in Kernel /\ link'[i] # None
          /\ link'[i] = [run |-> run, has |-> {}, shaken |-> FALSE, left |-> FALSE]
          /\ \A j \in Ifs \ {i} : link'[j] = link[j]
      BY <1>0, <2>1, CreateKeeps, ZenonT(30)
    <3>3. link'[i].run = run /\ link'[i].has = {} /\ ~link'[i].left /\ faults' \in Nat
      BY <1>0, <2>1, <3>2 DEF Works
    <3>4. Linking(i)'
      BY <1>0, <2>0, <3>1, <3>2, <3>3 DEF Linking, Own, Linked, Configured
    <3>5. QED
      BY <2>0, <3>1, <3>2, <3>3, <3>4, QuietStep DEF Ruled, Linked, Priming
  <2>2. CASE CreateFails(i) /\ UNCHANGED link /\ Goto(i, "unscope")
    <3>1. work' \in Work /\ work'[i].pc = "unscope" /\ \A j \in Ifs \ {i} : work'[j] = work[j]
      BY <1>0, <2>2, GotoKeeps, PcTyped
    <3>2. faults' \in Nat /\ link' = link
      BY <1>0, <2>2 DEF CreateFails, Works, Fault
    <3>3. Linking(i)'
      BY <1>0, <2>0, <3>1, <3>2 DEF Linking, Own, Linked, Configured
    <3>4. QED
      BY <1>0, <2>0, <3>1, <3>2, <3>3, QuietStep DEF Ruled, Linked, Priming
  <2>3. QED
    BY <1>3, <2>1, <2>2 DEF UpCreates
<1>4. QED
  BY <1>1, <1>2, <1>3

(* The steps of Up on the link. *)
LEMMA UpContinues ==
  ASSUME Inv, NEW i \in Ifs, UpConfigures(i)
  PROVE  Inv'
<1> USE NamesDiffer
<1>0. TypeOK /\ Linking(i) /\ faults \in Nat /\ link \in Kernel /\ run \in Nat
  BY DEF Inv, LinkInv, TypeOK, Kernel
<1> DEFINE done(n) == [link EXCEPT ![i].has = @ \cup {Steps[n]}]
<1>1. PICK n \in 1 .. 4 :
        /\ work[i].pc = Steps[n] /\ UNCHANGED <<nft, rest>>
        /\ \/ /\ link' = done(n) /\ Works
              /\ Goto(i, IF n = 4 THEN "confirm" ELSE Steps[n + 1])
           \/ link' \in {link, done(n)} /\ Fault /\ Goto(i, "down")
  BY StepsFacts DEF UpConfigures
<1>2. work[i].pc \in Linked /\ run' = run /\ link[i] # None /\ link[i].run = run /\ ~link[i].left
  BY <1>0, <1>1, StepsFacts DEF Linked, Linking, Own, rest
<1>3. link[i] \in Links /\ Steps[n] \in Range(Steps)
  BY <1>0, <1>2, <1>1, StepsFacts DEF Kernel
<1>4. /\ done(n) \in Kernel
      /\ done(n)[i] \in Links
      /\ done(n)[i].run = link[i].run /\ done(n)[i].shaken = link[i].shaken
      /\ done(n)[i].left = link[i].left
      /\ done(n)[i].has = link[i].has \cup {Steps[n]}
      /\ \A j \in Ifs \ {i} : done(n)[j] = link[j]
  BY <1>0, <1>3 DEF Kernel, Links
<1>5. done(n)[i] # None
  BY <1>4, NoLinkAssumption
<1> HIDE DEF done
<1>6. CASE link' = done(n) /\ Works /\ Goto(i, IF n = 4 THEN "confirm" ELSE Steps[n + 1])
  <2>1. (IF n = 4 THEN "confirm" ELSE Steps[n + 1]) \in Pcs
    BY <1>1, StepsFacts, PcTyped
  <2>2. /\ work' \in Work /\ work'[i].pc = (IF n = 4 THEN "confirm" ELSE Steps[n + 1])
        /\ \A j \in Ifs \ {i} : work'[j] = work[j]
    BY <1>0, <1>6, <2>1, GotoKeeps
  <2>3. \/ work[i].pc = "device" /\ Steps[n] = "device" /\ work'[i].pc = "address"
        \/ work[i].pc = "address" /\ Steps[n] = "address" /\ work'[i].pc = "up"
        \/ work[i].pc = "up" /\ Steps[n] = "up" /\ work'[i].pc = "route"
        \/ work[i].pc = "route" /\ Steps[n] = "route" /\ work'[i].pc = "confirm"
    BY <1>1, <2>2, StepsFacts
  <2>4. Linking(i)'
    <3>1. /\ work'[i].pc = "address" => link'[i].has = {"device"}
          /\ work'[i].pc = "up" => link'[i].has = {"device", "address"}
          /\ work'[i].pc = "route" => link'[i].has = {"device", "address", "up"}
          /\ work'[i].pc = "confirm" => link'[i].has = {"device", "address", "up", "route"}
      BY <1>0, <1>4, <1>6, <2>3 DEF Linking, Configured
    <3>2. link'[i] # None /\ link'[i].run = run' /\ link'[i].run <= run' /\ ~link'[i].left
          /\ work'[i].pc \in {"address", "up", "route", "confirm"}
      <4>1. link'[i] = done(n)[i]
        BY <1>6
      <4>2. /\ link'[i] # None /\ link'[i].run = run /\ ~link'[i].left
            /\ run' = run /\ run <= run
        BY <1>0, <1>2, <1>4, <1>5, <4>1
      <4>3. work'[i].pc \in {"address", "up", "route", "confirm"}
        BY <2>3
      <4>4. QED
        BY <4>2, <4>3
    <3>3. QED
      BY <3>1, <3>2 DEF Linking, Own, Linked, Configured
  <2>5. faults' \in Nat /\ link' \in Kernel
    BY <1>0, <1>4, <1>6 DEF Works
  <2>6. work'[i].pc \notin Priming /\ work[i].pc \in Ruled
    BY <1>2, <2>3 DEF Priming, Ruled
  <2>7. \A j \in Ifs \ {i} : link'[j] = link[j] /\ work'[j] = work[j]
    BY <1>4, <1>6, <2>2
  <2>8. QED
    BY <1>1, <2>2, <2>4, <2>5, <2>6, <2>7, QuietStep
<1>7. CASE link' \in {link, done(n)} /\ Fault /\ Goto(i, "down")
  <2>1. work' \in Work /\ work'[i].pc = "down" /\ \A j \in Ifs \ {i} : work'[j] = work[j]
    BY <1>0, <1>7, GotoKeeps, PcTyped
  <2>2. faults' \in Nat /\ link' \in Kernel /\ link'[i] # None /\ link'[i].run = run
        /\ ~link'[i].left /\ \A j \in Ifs \ {i} : link'[j] = link[j]
    BY <1>0, <1>2, <1>4, <1>5, <1>7 DEF Fault
  <2>3. Linking(i)'
    BY <1>0, <1>2, <2>1, <2>2 DEF Linking, Own, Linked, Configured
  <2>4. QED
    BY <1>1, <1>2, <2>1, <2>2, <2>3, QuietStep DEF Ruled, Priming
<1>8. QED
  BY <1>1, <1>6, <1>7

(* The handshake, its confirmation, the end of the tunnel and its teardown. *)
LEMMA TunnelSteps ==
  ASSUME Inv, NEW i \in Ifs,
         handshake(i) \/ ConfirmHandshake(i) \/ tunnelEnds(i) \/ takeDown(i)
  PROVE  Inv'
<1> USE NamesDiffer
<1>0. /\ TypeOK /\ Linking(i) /\ Ruling(i) /\ faults \in Nat /\ link \in Kernel
      /\ run \in Nat /\ work \in Work
  BY DEF Inv, LinkInv, RuleInv, TypeOK, Kernel, Work, Pcs
<1>1. CASE handshake(i)
  <2> DEFINE made == [link EXCEPT ![i].shaken = TRUE]
  <2>1. link[i] \in Links
    BY <1>0, <1>1 DEF handshake, Kernel
  <2>2. /\ made \in Kernel /\ made[i] \in Links /\ made[i].shaken
        /\ made[i].run = link[i].run /\ made[i].has = link[i].has /\ made[i].left = link[i].left
        /\ \A j \in Ifs \ {i} : made[j] = link[j]
    BY <1>0, <2>1, Zenon DEF Kernel, Links
  <2>3. link' = made /\ work' = work /\ faults' = faults /\ run' = run /\ link[i] # None
        /\ UNCHANGED <<nft, rest>>
    BY <1>1 DEF handshake, rest
  <2>4. made[i] # None
    BY <2>2, NoLinkAssumption, Zenon
  <2> HIDE DEF made
  <2>5. Linking(i)'
    BY <1>0, <2>2, <2>3, <2>4, ZenonT(30) DEF Linking, Own
  <2>6. QED
    BY <1>0, <2>2, <2>3, <2>5, QuietStep, ZenonT(30) DEF Ruling
<1>2. CASE ConfirmHandshake(i)
  <2>1. work' \in Work /\ work'[i].pc \in {"live", "down"}
        /\ (work'[i].pc = "live" => link[i].shaken)
        /\ \A j \in Ifs \ {i} : work'[j] = work[j]
    BY <1>0, <1>2, GotoKeeps, PcTyped DEF ConfirmHandshake, Handshaked
  <2>2. link' = link /\ faults' = faults /\ work[i].pc = "confirm" /\ run' = run
        /\ UNCHANGED <<nft, rest>>
    BY <1>2 DEF ConfirmHandshake, rest
  <2>3. Linking(i)'
    BY <1>0, <2>1, <2>2 DEF Linking, Own, Linked, Configured
  <2>4. QED
    BY <1>0, <2>1, <2>2, <2>3, QuietStep, ZenonT(30) DEF Ruled, Linked, Priming
<1>3. CASE tunnelEnds(i)
  <2>1. work' \in Work /\ work'[i].pc = "down" /\ \A j \in Ifs \ {i} : work'[j] = work[j]
    BY <1>0, <1>3, GotoKeeps, PcTyped DEF tunnelEnds
  <2>2. link' = link /\ faults' = faults /\ work[i].pc = "live" /\ run' = run
        /\ UNCHANGED <<nft, rest>>
    BY <1>3 DEF tunnelEnds, rest
  <2>3. Linking(i)'
    BY <1>0, <2>1, <2>2 DEF Linking, Own, Linked, Configured
  <2>4. QED
    BY <1>0, <2>1, <2>2, <2>3, QuietStep DEF Ruled, Linked, Priming
<1>4. CASE takeDown(i)
  <2>1. work' \in Work /\ work'[i].pc = "unscope" /\ \A j \in Ifs \ {i} : work'[j] = work[j]
    BY <1>0, <1>4, GotoKeeps, PcTyped DEF takeDown
  <2>3. work[i].pc = "down" /\ run' = run /\ UNCHANGED <<nft, rest>>
    BY <1>4 DEF takeDown, rest
  <2>2. /\ link' \in Kernel /\ (link'[i] = None \/ (link'[i].left /\ link'[i].run <= run))
        /\ \A j \in Ifs \ {i} : link'[j] = link[j]
        /\ faults' \in Nat
    <3>1. CASE Gone(i) /\ Works
      BY <1>0, <3>1, GoneKeeps DEF Works
    <3>2. CASE link' = [link EXCEPT ![i].left = TRUE] /\ Fault
      <4>1. link[i] # None /\ link[i].run <= run
        BY <1>0, <2>3 DEF Linking, Own, Linked
      <4>2. link[i] \in Links
        BY <1>0, <4>1 DEF Kernel
      <4>3. /\ link' \in Kernel /\ link'[i].left /\ link'[i].run = link[i].run
            /\ \A j \in Ifs \ {i} : link'[j] = link[j]
        BY ZenonT(30), <1>0, <3>2, <4>2 DEF Kernel, Links
      <4>4. QED
        BY <1>0, <3>2, <4>1, <4>3 DEF Fault
    <3>3. QED
      BY <1>4, <3>1, <3>2 DEF takeDown
  <2>4. Linking(i)'
    BY <1>0, <2>1, <2>2, <2>3 DEF Linking, Own, Linked, Configured
  <2>5. QED
    BY <1>0, <2>1, <2>2, <2>3, <2>4, QuietStep DEF Ruled, Linked, Priming
<1>5. QED
  BY <1>1, <1>2, <1>3, <1>4

(* The steps that send a batch. *)
LEMMA BatchSteps ==
  ASSUME Inv, NEW i \in Ifs,
         \/ applyScope(i) \/ removeScope(i)
         \/ \E s \in Scopes : reprogramScope(i, s)
  PROVE  Inv'
<1>0. /\ TypeOK /\ OrderInv /\ RuleInv /\ LinkInv /\ Linking(i) /\ Ruling(i)
      /\ link \in Kernel /\ work \in Work
  BY DEF Inv, LinkInv, RuleInv, TypeOK, Kernel, Work, Pcs
<1>1. CASE applyScope(i)
  <2>1. work[i].pc = "primed" /\ link' = link /\ UNCHANGED rest /\ Apply(i, work[i].scope)
        /\ work[i].scope \in Scopes
    BY <1>0, <1>1 DEF applyScope, Ruling, Priming, Work
  <2>2. /\ work' \in Work
        /\ work'[i].pc = IF faults' = faults THEN "scoped" ELSE "idle"
        /\ \A j \in Ifs \ {i} : work'[j] = work[j]
    <3> DEFINE p == IF faults' = faults THEN "scoped" ELSE "idle"
    <3>1. p \in Pcs
      BY PcTyped
    <3>2. work' = [work EXCEPT ![i] = [pc |-> p, scope |-> None]]
      <4>1. work' = [work EXCEPT ![i] = [Waiting EXCEPT !.pc = p]]
        BY <1>1 DEF applyScope
      <4> HIDE DEF p
      <4>2. [Waiting EXCEPT !.pc = p] = [pc |-> p, scope |-> None]
        BY DEF Waiting
      <4>3. QED
        BY <4>1, <4>2, Zenon
    <3> HIDE DEF p
    <3>3. work' \in Work /\ work'[i].pc = p /\ \A j \in Ifs \ {i} : work'[j] = work[j]
      BY <1>0, <3>1, <3>2, SetKeeps, ZenonT(30)
    <3>4. QED
      BY <3>3 DEF p
  <2>3. /\ scopes' \in [Ifs -> Scopes \cup {None}] /\ order' \in Seq(Ifs)
        /\ table' \in [Ifs -> Rules \cup {None}] /\ faults' \in Nat
        /\ OrderInv'
        /\ \A j \in Ifs : scopes[j] # None /\ table[j] # None
                            => scopes'[j] # None /\ table'[j] # None
        /\ faults' = faults => scopes'[i] # None /\ table'[i] # None
    BY <1>0, <2>1, ApplyKeeps
  <2>4. TypeOK'
    BY <1>0, <2>1, <2>2, <2>3, TypeParts DEF TypeOK, rest
  <2>5. Ruling(i)'
    BY <2>2, <2>3 DEF Ruling, Ruled, Linked, Priming
  <2>6. RuleInv'
    BY ZenonT(30), <1>0, <2>2, <2>3, <2>5, OneRules
  <2>7. Linking(i)'
    BY ZenonT(30), <1>0, <2>1, <2>2 DEF Linking, Own, Linked, Configured, rest
  <2>8. LinkInv'
    BY ZenonT(30), <1>0, <2>1, <2>2, <2>7, OneLinks DEF rest
  <2>9. QED
    BY <2>3, <2>4, <2>6, <2>8 DEF Inv
<1>2. CASE removeScope(i)
  <2>1. work[i].pc = "unscope" /\ link' = link /\ UNCHANGED rest /\ RemoveRules(i)
    BY <1>2 DEF removeScope
  <2>2. work' \in Work /\ work'[i].pc = "idle" /\ \A j \in Ifs \ {i} : work'[j] = work[j]
    BY <1>0, <1>2, WaitKeeps, ZenonT(30) DEF removeScope
  <2>3. /\ scopes' \in [Ifs -> Scopes \cup {None}] /\ order' \in Seq(Ifs)
        /\ table' \in [Ifs -> Rules \cup {None}] /\ faults' \in Nat
        /\ OrderInv'
        /\ \A j \in Ifs \ {i} : scopes[j] # None /\ table[j] # None
                                  => scopes'[j] # None /\ table'[j] # None
    BY <1>0, <2>1, RemoveKeeps
  <2>4. TypeOK'
    BY <1>0, <2>1, <2>2, <2>3, TypeParts DEF TypeOK, rest
  <2>5. Ruling(i)'
    BY <2>2 DEF Ruling, Ruled, Linked, Priming
  <2>6. RuleInv'
    BY <1>0, <2>2, <2>3, <2>5, OneRules, ZenonT(30)
  <2>7. Linking(i)'
    BY <1>0, <2>1, <2>2, ZenonT(30) DEF Linking, Own, Linked, Configured, rest
  <2>8. LinkInv'
    BY <1>0, <2>1, <2>2, <2>7, OneLinks, ZenonT(30) DEF rest
  <2>9. QED
    BY <2>3, <2>4, <2>6, <2>8 DEF Inv
<1>3. ASSUME NEW s \in Scopes, reprogramScope(i, s)
      PROVE  Inv'
  <2>1. /\ link' = link /\ work' = work /\ run' = run /\ ctx' = ctx
        /\ Apply(i, s) /\ cell' = [cell EXCEPT ![i] = s] /\ reloads' = reloads + 1
    BY <1>3 DEF reprogramScope
  <2>2. /\ scopes' \in [Ifs -> Scopes \cup {None}] /\ order' \in Seq(Ifs)
        /\ table' \in [Ifs -> Rules \cup {None}] /\ faults' \in Nat
        /\ OrderInv'
        /\ \A j \in Ifs : scopes[j] # None /\ table[j] # None
                            => scopes'[j] # None /\ table'[j] # None
    BY <1>0, <2>1, ApplyKeeps
  <2>3. cell' \in [Ifs -> Scopes] /\ reloads' \in Nat /\ run' \in Nat /\ ctx' \in BOOLEAN
    BY <1>0, <2>1 DEF TypeOK
  <2>4. TypeOK'
    BY <1>0, <2>1, <2>2, <2>3, TypeParts
  <2>5. RuleInv'
    BY <1>0, <2>1, <2>2, ZenonT(30) DEF RuleInv, Ruling
  <2>6. LinkInv'
    BY ZenonT(30), <1>0, <2>1 DEF LinkInv, Linking, Own
  <2>7. QED
    BY <2>2, <2>4, <2>5, <2>6, ZenonT(30) DEF Inv
<1>4. QED
  BY <1>1, <1>2, <1>3

-----------------------------------------------------------------------------
(* The invariant *)

(* The invariant holds at the start. *)
LEMMA InitInv == Init => Inv
<1> SUFFICES ASSUME Init PROVE Inv
  OBVIOUS
<1> USE NamesDiffer
<1>1. TypeOK
  <2>1. work \in Work
    BY PcTyped DEF Init, Waiting, Work
  <2>2. link \in Kernel /\ cell \in [Ifs -> Scopes]
    BY NamesAssumption DEF Init, Kernel
  <2>3. scopes \in [Ifs -> Scopes \cup {None}] /\ table \in [Ifs -> Rules \cup {None}]
    BY DEF Init
  <2>4. order \in Seq(Ifs)
    BY DEF Init
  <2>5. ctx \in BOOLEAN /\ run \in Nat /\ reloads \in Nat /\ faults \in Nat
    BY Zenon DEF Init
  <2>6. QED
    BY <2>1, <2>2, <2>3, <2>4, <2>5 DEF TypeOK, Work, Kernel, Pcs
<1>2. OrderInv
  BY DEF Init, OrderInv
<1>3. \A i \in Ifs : work[i].pc = "idle" /\ link[i] = None
  BY DEF Init, Waiting
<1>4. RuleInv
  BY <1>3 DEF RuleInv, Ruling, Ruled, Linked, Priming
<1>5. LinkInv
  BY <1>3 DEF LinkInv, Linking, Own, Linked, Configured
<1>6. QED
  BY <1>1, <1>2, <1>4, <1>5 DEF Inv

(* Every step keeps it: a kill forgets the rules with the workers, and makes
   every link that is left a link of an earlier run. *)
LEMMA NextInv == Inv /\ [Next]_vars => Inv'
<1> SUFFICES ASSUME Inv, [Next]_vars PROVE Inv'
  OBVIOUS
<1> USE NamesDiffer
<1>0. TypeOK /\ OrderInv /\ RuleInv /\ LinkInv /\ link \in Kernel /\ work \in Work
  BY DEF Inv, TypeOK, Kernel, Work, Pcs
<1>1. ASSUME NEW i \in Ifs, runWG(i) \/ tunnelEnds(i) \/ handshake(i)
      PROVE  Inv'
  BY <1>1, ProbeSteps, UpStarts, UpContinues, TunnelSteps, BatchSteps DEF runWG
<1>2. ASSUME NEW i \in Ifs, NEW s \in Scopes, reprogramScope(i, s)
      PROVE  Inv'
  BY <1>2, BatchSteps
<1>3. CASE Stop
  <2>1. TypeOK'
    BY <1>0, <1>3 DEF TypeOK, Stop, nft
  <2>2. OrderInv' /\ RuleInv'
    BY <1>0, <1>3 DEF OrderInv, RuleInv, Ruling, Stop, nft
  <2>3. LinkInv'
    BY <1>0, <1>3 DEF LinkInv, Linking, Own, Stop
  <2>4. QED
    BY <2>1, <2>2, <2>3 DEF Inv
<1>4. CASE Kill
  <2>1. \A i \in Ifs : work'[i].pc = "idle" /\ link'[i] = link[i] /\ scopes'[i] = None
    BY <1>4 DEF Kill, Waiting
  <2>2. work' \in Work /\ scopes' \in [Ifs -> Scopes \cup {None}] /\ order' \in Seq(Ifs)
    BY <1>4, PcTyped DEF Kill, Waiting, Work
  <2>3. run' = run + 1 /\ run \in Nat /\ ctx' \in BOOLEAN
        /\ UNCHANGED <<table, link, cell, reloads, faults>>
    BY <1>0, <1>4, ZenonT(30) DEF Kill, TypeOK
  <2>4. TypeOK'
    BY <1>0, <2>2, <2>3, TypeParts DEF TypeOK
  <2>5. OrderInv' /\ RuleInv'
    BY <2>1 DEF OrderInv, RuleInv, Ruling, Ruled, Linked, Priming
  <2>6. LinkInv'
    <3> SUFFICES ASSUME NEW i \in Ifs PROVE Linking(i)'
      BY DEF LinkInv
    <3>1. link[i] # None => link[i].run \in Nat /\ link[i].run <= run
      BY <1>0 DEF LinkInv, Linking, Kernel, Links
    <3>2. link'[i] # None => link'[i].run <= run' /\ link'[i].run # run'
      BY <2>1, <2>3, <3>1
    <3>3. QED
      BY <2>1, <3>2 DEF Linking, Own, Linked, Configured
  <2>7. QED
    BY <2>4, <2>5, <2>6 DEF Inv
<1>5. CASE UNCHANGED vars
  <2>1. TypeOK'
    BY <1>0, <1>5 DEF TypeOK, vars, nft, rest
  <2>2. OrderInv' /\ RuleInv'
    BY <1>0, <1>5 DEF OrderInv, RuleInv, Ruling, vars, nft
  <2>3. LinkInv'
    BY <1>0, <1>5 DEF LinkInv, Linking, Own, vars, rest
  <2>4. QED
    BY <2>1, <2>2, <2>3 DEF Inv
<1>6. QED
  BY <1>1, <1>2, <1>3, <1>4, <1>5 DEF Next

(* The invariant holds throughout. *)
LEMMA ExposureInv == Spec => []Inv
BY InitInv, NextInv, PTL DEF Spec

-----------------------------------------------------------------------------

(* The kernel's and the daemon's state are well typed throughout. *)
THEOREM ExposureTyped == Spec => []TypeOK
<1>1. Inv => TypeOK
  BY DEF Inv
<1>2. QED
  BY <1>1, ExposureInv, PTL

(* No rules for a scope let forwarded traffic pass. *)
LEMMA RulesForwardNothing ==
  ASSUME NEW r \in Rules
  PROVE  "forwarded" \notin r /\ \E s \in Scopes : r = ruleExprs(s)
<1>1. PICK s \in Scopes : r = ruleExprs(s) \cup forwardExprs
  BY DEF Rules
<1>2. r = ruleExprs(s)
  BY <1>1 DEF forwardExprs
<1>3. CASE s = All
  BY <1>2, <1>3 DEF ruleExprs
<1>4. CASE s # All
  <2>1. s \subseteq Ports
    BY <1>1, <1>4, ScopesAssumption
  <2>2. ruleExprs(s) = {"established", "icmp"} \cup s
    BY <1>4 DEF ruleExprs
  <2>3. QED
    BY <1>2, <2>1, <2>2, ScopesAssumption
<1>5. QED
  BY <1>3, <1>4

(* From a link the running daemon created (createLink) nothing is forwarded and
   only what a scope admits comes in, for as long as it exists: Apply and Remove
   rebuild the whole table, for this and for every other interface, and may
   fail, time out or be cut short by a kill. *)
THEOREM ExposureOwnLinksScoped == Spec => []OwnLinksScoped
<1>1. ASSUME Inv, NEW i \in Ifs, Own(i)
      PROVE  "forwarded" \notin Passes(i) /\ \E s \in Scopes : Passes(i) = ruleExprs(s)
  <2>1. table[i] # None
    BY <1>1 DEF Inv, RuleInv, Ruling, LinkInv, Linking, Ruled
  <2>2. table[i] \in Rules
    BY <1>1, <2>1 DEF Inv, TypeOK
  <2>3. Passes(i) = table[i]
    BY <2>1 DEF Passes
  <2>4. QED
    BY <2>2, <2>3, RulesForwardNothing
<1>2. Inv => OwnLinksScoped
  BY <1>1 DEF OwnLinksScoped
<1>3. QED
  BY <1>2, ExposureInv, PTL

(* runWG takes a tunnel for up (ConfirmHandshake) only after a handshake on a
   link this run created and configured with all four requests, never on the
   strength of a link an earlier run left behind. *)
THEOREM ExposureHandshakeFresh == Spec => []HandshakeFresh
<1>1. ASSUME Inv, NEW i \in Ifs, work[i].pc = "live"
      PROVE  /\ link[i] # None
             /\ link[i] = [run |-> run, has |-> Range(Steps), shaken |-> TRUE, left |-> FALSE]
  <2>1. /\ link[i] # None /\ link[i].run = run /\ link[i].shaken /\ ~link[i].left
        /\ link[i].has = {"device", "address", "up", "route"}
    BY <1>1 DEF Inv, LinkInv, Linking, Own, Linked, Configured
  <2>2. link[i] \in Links
    BY <1>1, <2>1, NamesDiffer DEF Inv, TypeOK
  <2>3. link[i].shaken = TRUE /\ link[i].left = FALSE
    BY <2>1, <2>2 DEF Links
  <2>4. link[i] = [run |-> link[i].run, has |-> link[i].has, shaken |-> link[i].shaken,
                   left |-> link[i].left]
    BY <2>2 DEF Links
  <2>5. QED
    BY ZenonT(30), <2>1, <2>3, <2>4, StepsFacts
<1>2. Inv => HandshakeFresh
  BY <1>1, Zenon DEF HandshakeFresh
<1>3. QED
  BY <1>2, ExposureInv, PTL
=============================================================================
