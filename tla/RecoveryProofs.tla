---------------------------- MODULE RecoveryProofs ----------------------------
(***************************************************************************)
(* Proofs about StateRecovery, of any command that publishes, reconciles,  *)
(* abandons an operation or removes orphan snapshots, in any order: what a *)
(* reconcile recovers from Google is complete and ordered, and its         *)
(* baselines are those of its documents.                                   *)
(*                                                                         *)
(* SavedWhole and StoreInv of the publisher do not survive the loss of the *)
(* state file and the removal of snapshots.  The invariant here starts     *)
(* from TypeInv, Position and DocsInv, which do, and adds what every       *)
(* document was made as, whoever finds it later; that the finished         *)
(* documents of complete sets are the recorded ones; and what of the       *)
(* snapshots stays true of each record.                                    *)
(***************************************************************************)
EXTENDS StateRecovery, PublishCommandProofs

-----------------------------------------------------------------------------
(* The invariant *)

\* The first layer is the publisher's own.
BaseInv ==
    /\ TypeInv /\ Position /\ DocsInv /\ CreatedInOrder /\ RecordsTrue
    /\ abandoning \in BOOLEAN /\ (abandoning => pc = "idle")
    /\ (pc = "idle" => todo = {})
    /\ size \in [DocIds -> Nat]

\* A document is made with the key and the generation of an item, and only one
\* that the journal names becomes ready or gets into the review folder.
MadeAs(d) ==
    /\ docs[d].key \in Targets /\ docs[d].gen \in 1..docs[d].op
    /\ Ours(d) => docs[d].gen = journal.gen[docs[d].key]
    /\ docs[d].st = "inflight" => docs[d].status = "pending"
    /\ docs[d].status = "ready" => HasNoPlaceholder(d, docs[d].key)
    /\ Ours(d) /\ (docs[d].status = "ready" \/ docs[d].parent = "review") =>
          fileOf[docs[d].key] = d
    /\ \A e \in DocIds : docs[e].op = docs[d].op /\ docs[e].key = docs[d].key =>
          docs[e].gen = docs[d].gen

Made == {d \in DocIds : docs[d].st # "absent"}
DocumentsMade == IsFiniteSet(Made) /\ \A d \in Made : MadeAs(d)

-----------------------------------------------------------------------------
(* Sorting *)

\* The elements of a finite set can be listed by their distinct numbers.
LEMMA SortedExists ==
    ASSUME NEW S, IsFiniteSet(S), NEW f, \A x \in S : f[x] \in Nat,
           \A x, y \in S : f[x] = f[y] => x = y
    PROVE  \E s \in [1..Cardinality(S) -> S] :
              \A i, j \in 1..Cardinality(S) : i < j => f[s[i]] < f[s[j]]
<1> DEFINE n == Cardinality(S)
           below(x) == {y \in S : f[y] <= f[x]}
           rank == [x \in S |-> Cardinality(below(x))]
<1>1. n \in Nat
  BY FS_CardinalityType
<1>2. ASSUME NEW x \in S
      PROVE  /\ IsFiniteSet(below(x)) /\ Cardinality(below(x)) \in 1..n
             /\ Cardinality(below(x)) \in Nat
             /\ x \in below(x) /\ below(x) \subseteq S
  <2>1. x \in below(x) /\ below(x) \subseteq S
    OBVIOUS
  <2>2. IsFiniteSet(below(x)) /\ Cardinality(below(x)) \in Nat /\ Cardinality(below(x)) <= n
    BY <2>1, PartCounted
  <2>3. Cardinality(below(x)) # 0
    BY <2>1, <2>2, FS_EmptySet
  <2> HIDE DEF below, n
  <2>4. QED BY <1>1, <2>1, <2>2, <2>3
<1>3. ASSUME NEW x \in S, NEW y \in S, f[x] < f[y]
      PROVE  rank[x] < rank[y]
  <2>1. below(x) \subseteq below(y) /\ y \notin below(x) /\ y \in below(y)
    BY <1>3
  <2>2. IsFiniteSet(below(y)) /\ Cardinality(below(x)) \in Nat /\ Cardinality(below(y)) \in Nat
    BY <1>2
  <2>3. Cardinality(below(x)) <= Cardinality(below(y)) /\ Cardinality(below(x)) # Cardinality(below(y))
    <3>1. below(x) \in SUBSET below(y) /\ below(x) # below(y)
      BY <2>1
    <3> HIDE DEF below
    <3>2. QED BY <2>2, <3>1, FS_Subset
  <2>4. rank[x] = Cardinality(below(x)) /\ rank[y] = Cardinality(below(y))
    OBVIOUS
  <2> HIDE DEF below, rank
  <2>5. QED BY <2>2, <2>3, <2>4
<1>4. \A x \in S : rank[x] \in 1..n
  BY <1>2
<1>5. rank \in [S -> 1..n]
  BY <1>4
<1> HIDE DEF rank, below
<1>6. \A x, y \in S : rank[x] = rank[y] => x = y
  <2>1. SUFFICES ASSUME NEW x \in S, NEW y \in S, x # y PROVE rank[x] # rank[y]
    OBVIOUS
  <2>2. f[x] < f[y] \/ f[y] < f[x]
    BY <2>1
  <2>3. rank[x] \in Nat /\ rank[y] \in Nat
    BY <1>1, <1>4
  <2>4. QED BY <1>3, <2>2, <2>3
<1>7. rank \in Injection(S, 1..n)
  BY <1>5, <1>6 DEF Injection, IsInjective
<1>8. IsFiniteSet(1..n) /\ Cardinality(1..n) = n
  BY <1>1, FS_Interval
<1>9. rank \in Surjection(S, 1..n)
  BY <1>7, <1>8, FS_Injection
<1>10. \A i \in 1..n : \E x \in S : rank[x] = i
  BY <1>9 DEF Surjection
<1> DEFINE s == [i \in 1..n |-> CHOOSE x \in S : rank[x] = i]
<1>11. \A i \in 1..n : s[i] \in S /\ rank[s[i]] = i
  BY <1>10
<1>12. s \in [1..n -> S]
  BY <1>11
<1> HIDE DEF s
<1>13. ASSUME NEW i \in 1..n, NEW j \in 1..n, i < j
       PROVE  f[s[i]] < f[s[j]]
  <2>1. s[i] \in S /\ s[j] \in S /\ rank[s[i]] = i /\ rank[s[j]] = j
    BY <1>11
  <2>2. ~(f[s[j]] < f[s[i]])
    BY <1>1, <1>3, <1>13, <2>1
  <2>3. f[s[j]] # f[s[i]]
    <3>1. s[i] # s[j]
      BY <1>1, <1>13, <2>1
    <3>2. QED BY <2>1, <3>1
  <2>4. QED BY <2>1, <2>2, <2>3
<1>14. QED BY <1>12, <1>13

\* Such a list has every element.
LEMMA SortedCovers ==
    ASSUME NEW S, IsFiniteSet(S), NEW f, \A x \in S : f[x] \in Nat,
           NEW s \in [1..Cardinality(S) -> S],
           \A i, j \in 1..Cardinality(S) : i < j => f[s[i]] < f[s[j]]
    PROVE  \A x \in S : \E i \in 1..Cardinality(S) : s[i] = x
<1> DEFINE n == Cardinality(S)
<1>1. n \in Nat
  BY FS_CardinalityType
<1>2. IsFiniteSet(1..n) /\ Cardinality(1..n) = n
  BY <1>1, FS_Interval
<1> HIDE DEF n
<1>3. \A i, j \in 1..n : s[i] = s[j] => i = j
  <2>1. SUFFICES ASSUME NEW i \in 1..n, NEW j \in 1..n, i # j PROVE s[i] # s[j]
    OBVIOUS
  <2>2. i < j \/ j < i
    BY <1>1, <2>1
  <2>3. f[s[i]] < f[s[j]] \/ f[s[j]] < f[s[i]]
    BY <2>2 DEF n
  <2>4. s[i] \in S /\ s[j] \in S
    BY DEF n
  <2>5. QED BY <2>3, <2>4
<1>4. s \in Injection(1..n, S)
  BY <1>3 DEF Injection, IsInjective, n
<1>5. s \in Surjection(1..n, S)
  BY <1>2, <1>4, FS_Injection DEF n
<1>6. QED BY <1>5 DEF Surjection, n
-----------------------------------------------------------------------------
(* What a reconcile recovers *)

\* What there is of the documents a reconcile looks at.
LEMMA DocumentTyped ==
    ASSUME TypeInv, DocumentsMade, OperationsNumbered, NEW d \in Made
    PROVE  /\ d \in DocIds /\ docs[d] \in Documents
           /\ docs[d].key \in Targets /\ docs[d].op \in 1..ops
           /\ docs[d].gen \in Nat /\ docs[d].gen >= 1 /\ docs[d].gen <= docs[d].op
           /\ docs[d].gen \in 1..MaxOps /\ ops \in Nat
<1>1. d \in DocIds /\ docs[d] \in Documents /\ docs[d].st # "absent"
  BY DEF Made, TypeInv, TypeOK, DocsTypeOK
<1>2. docs[d].op \in Nat /\ docs[d].op # 0 /\ docs[d].op <= ops
  BY <1>1 DEF OperationsNumbered, Documents
<1>3. ops \in Nat /\ ops <= MaxOps /\ MaxOps \in Nat
  BY ConstantsOK DEF TypeInv, TypeOK, CountTypeOK, GenerationsBounded
<1>4. docs[d].key \in Targets /\ docs[d].gen \in 1..docs[d].op
  BY DEF DocumentsMade, MadeAs
<1>5. docs[d].gen \in Nat /\ docs[d].gen >= 1 /\ docs[d].gen <= docs[d].op
  BY <1>2, <1>4
<1>6. QED BY <1>1, <1>2, <1>3, <1>4, <1>5

\* A recovered target is a target record.
LEMMA RecoveredTyped ==
    ASSUME TypeInv, DocumentsMade, OperationsNumbered, NEW d \in Made
    PROVE  RecoveredTarget(d) \in TargetRecords
<1>1. /\ d \in DocIds /\ docs[d] \in Documents /\ docs[d].key \in Targets
      /\ docs[d].gen \in 1..MaxOps /\ docs[d].gen \in Nat /\ docs[d].op \in Nat
  BY DocumentTyped DEF Documents
<1>2. snap[docs[d].key][docs[d].gen] \in Manifests
  BY <1>1 DEF TypeInv, TypeOK, StoreTypeOK
<1>3. NoManifest \in Manifests
  BY DEF NoManifest, Manifests, FileIds
<1>4. RecoveredSnapshot(d) \in Manifests
  BY <1>2, <1>3 DEF RecoveredSnapshot
<1>5. QED BY <1>1, <1>4 DEF RecoveredTarget, TargetRecords, FileIds

\* The complete documents of a target are listed by their generations.
LEMMA RecoveredSorted ==
    ASSUME TypeInv, DocumentsMade, OperationsNumbered, ~DuplicateTarget, NEW t \in Targets
    PROVE  LET found == RecoveredDocs(t)
               n == Cardinality(found)
           IN  /\ RecoveredDocs(t) \subseteq Made
               /\ n \in Nat /\ (n = 0 <=> found = {})
               /\ ByGeneration(found) \in [1..n -> found]
               /\ \A i, j \in 1..n :
                     i < j => docs[ByGeneration(found)[i]].gen < docs[ByGeneration(found)[j]].gen
               /\ \A d \in found : \E i \in 1..n : ByGeneration(found)[i] = d
<1>1. RecoveredDocs(t) \subseteq Made
  BY DEF RecoveredDocs, Live, Made
<1>2. IsFiniteSet(RecoveredDocs(t))
  BY <1>1, PartCounted DEF DocumentsMade
<1>3. PICK S : S = RecoveredDocs(t)
  OBVIOUS
<1>4. PICK f : f = [d \in S |-> docs[d].gen]
  OBVIOUS
<1>5. \A x \in S : f[x] = docs[x].gen /\ f[x] \in Nat
  <2>1. \A x \in S : docs[x].gen \in Nat
    BY <1>1, <1>3, DocumentTyped
  <2>2. QED BY <1>4, <2>1
<1>6. \A x, y \in S : f[x] = f[y] => x = y
  BY <1>3, <1>5 DEF DuplicateTarget, RecoveredDocs, Live
<1>7. IsFiniteSet(S) /\ Cardinality(S) \in Nat /\ (Cardinality(S) = 0 <=> S = {})
  BY <1>2, <1>3, FS_CardinalityType, FS_EmptySet
<1>8. \E s \in [1..Cardinality(S) -> S] :
        \A i, j \in 1..Cardinality(S) : i < j => docs[s[i]].gen < docs[s[j]].gen
  <2>1. PICK s \in [1..Cardinality(S) -> S] :
          \A i, j \in 1..Cardinality(S) : i < j => f[s[i]] < f[s[j]]
    BY <1>5, <1>6, <1>7, SortedExists
  <2>2. \A i \in 1..Cardinality(S) : s[i] \in S
    OBVIOUS
  <2>3. QED BY <1>5, <2>1, <2>2
<1>9. PICK b : b = ByGeneration(S)
  OBVIOUS
<1>10. /\ b \in [1..Cardinality(S) -> S]
       /\ \A i, j \in 1..Cardinality(S) : i < j => docs[b[i]].gen < docs[b[j]].gen
  BY <1>8, <1>9 DEF ByGeneration
<1>11. \A i, j \in 1..Cardinality(S) : i < j => f[b[i]] < f[b[j]]
  <2>1. \A i \in 1..Cardinality(S) : b[i] \in S
    BY <1>10
  <2>2. QED BY <1>5, <1>10, <2>1
<1>12. \A x \in S : \E i \in 1..Cardinality(S) : b[i] = x
  BY <1>5, <1>7, <1>10, <1>11, SortedCovers
<1>13. QED BY <1>1, <1>3, <1>7, <1>9, <1>10, <1>12

\* The records of a target after a reconcile: those of the documents that were
\* found, the last one active, the others before it in the order of their
\* generations.
LEMMA RecoveredRecords ==
    ASSUME TypeInv, DocumentsMade, OperationsNumbered, ~DuplicateTarget, NEW abandon,
           SaveRecovered(abandon), NEW t \in Targets
    PROVE  /\ active'[t] \in TargetRecords /\ prior'[t] \in Seq(TargetRecords)
           /\ RecoveredDocs(t) = {} => active'[t] = NoTarget
           /\ \A r \in Recorded(t)' : r = NoTarget \/ \E d \in RecoveredDocs(t) : r = RecoveredTarget(d)
           /\ \A d \in RecoveredDocs(t) : /\ RecoveredTarget(d) \in Recorded(t)'
                                          /\ active'[t] # NoTarget
                                          /\ docs[d].gen <= active'[t].gen
           /\ \A i \in 1..Len(prior'[t]) :
                 /\ prior'[t][i] # NoTarget /\ prior'[t][i].gen < active'[t].gen
                 /\ \A j \in 1..(i - 1) : prior'[t][j].gen < prior'[t][i].gen
<1> DEFINE S == RecoveredDocs(t)
           n == Cardinality(S)
           b == ByGeneration(S)
           q == [i \in 1..n |-> RecoveredTarget(b[i])]
<1>1. /\ S \subseteq Made /\ n \in Nat /\ (n = 0 <=> S = {})
      /\ b \in [1..n -> S]
      /\ \A i, j \in 1..n : i < j => docs[b[i]].gen < docs[b[j]].gen
      /\ \A d \in S : \E i \in 1..n : b[i] = d
  BY RecoveredSorted
<1>2. /\ active'[t] = IF n = 0 THEN NoTarget ELSE q[n]
      /\ prior'[t] = SubSeq(q, 1, n - 1)
  BY DEF SaveRecovered, RecoveredTargets
<1> HIDE DEF b, n, S
<1>3. \A i \in 1..n : /\ b[i] \in S /\ b[i] \in Made /\ q[i] = RecoveredTarget(b[i])
                      /\ q[i] \in TargetRecords
  <2>1. \A i \in 1..n : b[i] \in S /\ b[i] \in Made
    BY <1>1
  <2>2. QED BY <2>1, RecoveredTyped
<1>4. \A d \in Made : /\ RecoveredTarget(d).gen = docs[d].gen /\ RecoveredTarget(d).file = d
                      /\ RecoveredTarget(d) # NoTarget
  <2>1. \A d \in Made : d \in DocIds /\ RecoveredTarget(d).file = d
    BY DEF Made, RecoveredTarget
  <2>2. QED BY <2>1, ConstantsOK DEF RecoveredTarget, NoTarget
<1>5. \A i \in 1..n : q[i].gen = docs[b[i]].gen /\ q[i] # NoTarget /\ q[i].gen \in Nat
  <2>1. \A i \in 1..n : docs[b[i]].gen \in Nat
    BY <1>3, DocumentTyped
  <2>2. QED BY <1>3, <1>4, <2>1
<1>6. \A i, j \in 1..n : i < j => q[i].gen < q[j].gen
  BY <1>1, <1>5
<1>7. q \in Seq(TargetRecords) /\ Len(q) = n
  <2>1. q \in [1..n -> TargetRecords]
    BY <1>3
  <2> HIDE DEF q
  <2>2. QED BY <1>1, <2>1
<1> HIDE DEF q
<1>8. CASE n = 0
  <2>1. active'[t] = NoTarget /\ S = {}
    BY <1>1, <1>2, <1>8
  <2>2. prior'[t] = << >>
    BY <1>2, <1>7, <1>8
  <2>3. Recorded(t)' = {NoTarget}
    BY <2>1, <2>2 DEF Recorded
  <2>4. NoTarget \in TargetRecords
    BY DEF NoTarget, TargetRecords, NoManifest, Manifests, FileIds
  <2>5. QED BY <2>1, <2>2, <2>3, <2>4 DEF S
<1>9. CASE n # 0
  <2>1. active'[t] = q[n] /\ n \in 1..n /\ n - 1 \in Nat
    BY <1>1, <1>2, <1>9
  <2>2. /\ prior'[t] \in Seq(TargetRecords) /\ Len(prior'[t]) = n - 1
        /\ \A i \in 1..(n - 1) : prior'[t][i] = q[i] /\ i \in 1..n /\ i < n
    BY <1>1, <1>2, <1>7, <2>1
  <2>3. Recorded(t)' = {q[i] : i \in 1..n}
    <3>1. \A i \in 1..n : i = n \/ i \in 1..(n - 1)
      BY <2>1
    <3>2. Recorded(t)' = {q[n]} \cup {q[i] : i \in 1..(n - 1)}
      BY <2>1, <2>2 DEF Recorded
    <3>3. QED BY <2>1, <2>2, <3>1, <3>2
  <2>4. \A r \in Recorded(t)' : \E d \in S : r = RecoveredTarget(d)
    BY <1>3, <2>3
  <2>5. ASSUME NEW d \in S
        PROVE  RecoveredTarget(d) \in Recorded(t)' /\ docs[d].gen <= active'[t].gen
    <3>1. PICK i \in 1..n : b[i] = d
      BY <1>1
    <3>2. q[i] = RecoveredTarget(d) /\ q[i].gen = docs[d].gen
      BY <1>3, <1>5, <3>1
    <3>3. q[i].gen <= q[n].gen
      BY <1>1, <1>5, <1>6, <2>1, SMTT(30)
    <3>4. QED BY <2>1, <2>3, <3>2, <3>3
  <2>6. active'[t] \in TargetRecords /\ active'[t] # NoTarget /\ S # {}
    BY <1>1, <1>3, <1>5, <1>9, <2>1
  <2>7. \A i \in 1..Len(prior'[t]) :
          /\ prior'[t][i] # NoTarget /\ prior'[t][i].gen < active'[t].gen
          /\ \A j \in 1..(i - 1) : prior'[t][j].gen < prior'[t][i].gen
    <3>1. ASSUME NEW i \in 1..(n - 1), NEW j \in 1..(i - 1)
          PROVE  j \in 1..(n - 1) /\ j < i
      BY <2>1
    <3>2. QED BY <1>5, <1>6, <2>1, <2>2, <3>1
  <2>8. QED BY <2>2, <2>4, <2>5, <2>6, <2>7 DEF S
<1>10. QED BY <1>8, <1>9

-----------------------------------------------------------------------------
(* What a step of the publisher does to each document *)

\* A document that is there is as it was made; what it gains it gains as the
\* one that the journal names.
Grown(d) ==
    /\ Settles(d) /\ docs'[d].gen = docs[d].gen
    /\ \/ docs'[d].status = docs[d].status
       \/ docs'[d].status = "ready" /\ Ours(d) /\ Visible(d) /\ fileOf[docs[d].key] = d
          /\ HasNoPlaceholder(d, docs[d].key)
    /\ \/ docs'[d].parent = docs[d].parent
       \/ docs'[d].parent = "review" /\ Ours(d) /\ Visible(d) /\ fileOf[docs[d].key] = d

\* A document is made for the item that is creating.
NewMade(d) ==
    /\ docs[d].st = "absent" /\ pc = "issue" /\ HasJournal
    /\ \E t \in journal.items :
          /\ stage[t] = Creating
          /\ docs'[d] = NewDocument(t, "live")
             \/ (docs'[d] = NewDocument(t, "inflight") /\ late' = late + 1)
    /\ UNCHANGED <<journal, stage, fileOf, active, prior, snap, ops>>

\* A document that does not change has grown.
LEMMA UntouchedGrows == \A d : docs'[d] = docs[d] => Grown(d)
BY DEF Grown, Settles

\* One document changes, the others do not.
LEMMA ChangeGrows ==
    ASSUME TypeInv, NEW f \in DocIds, NEW r, docs' = [docs EXCEPT ![f] = r],
           r.op = docs[f].op, r.key = docs[f].key, r.gen = docs[f].gen,
           \/ r.st = docs[f].st
           \/ docs[f].st = "inflight" /\ r.st = "live"
           \/ docs[f].st = "live" /\ r.st = "trashed",
           \/ r.status = docs[f].status
           \/ r.status = "ready" /\ Ours(f) /\ Visible(f) /\ fileOf[docs[f].key] = f
              /\ HasNoPlaceholder(f, docs[f].key),
           \/ r.parent = docs[f].parent
           \/ r.parent = "review" /\ Ours(f) /\ Visible(f) /\ fileOf[docs[f].key] = f
    PROVE  \A d \in DocIds : Grown(d)
<1>1. \A d \in DocIds : docs'[d] = IF d = f THEN r ELSE docs[d]
  BY DEF TypeInv, TypeOK, DocsTypeOK
<1>2. Grown(f)
  BY <1>1 DEF Grown, Settles
<1>3. QED BY <1>1, <1>2, UntouchedGrows

\* The loops over the documents.
LEMMA LoopsGrow ==
    ASSUME TypeInv, Position, DocsInv, NEW t \in Targets,
           LinksStep(t) \/ CaptureStep(t) \/ ReadyStep(t) \/ MoveStep(t) \/ SealStep(t)
    PROVE  \A d \in DocIds : Grown(d)
<1> DEFINE f == fileOf[t]
<1>1. CASE docs' = docs
  BY <1>1, UntouchedGrows
<1>2. ASSUME IsNext(t), pc # "idle", pc \notin CreateLabels
      PROVE  /\ f \in DocIds /\ Ours(f) /\ Visible(f) /\ docs[f].key = t
             /\ docs[f] \in Documents /\ fileOf[docs[f].key] = f
  <2>1. t \in todo
    BY <1>2 DEF IsNext
  <2>2. QED BY <1>2, <2>1, ItemDocument
<1>3. CASE LinksUpdate(t)
  <2> DEFINE l == [u \in Targets |-> IF u \in Placeholders(t) THEN LinkURL(u) ELSE docs[f].link[u]]
  <2>1. docs' = [docs EXCEPT ![f] = Revised(docs[f], l)] /\ IsNext(t) /\ pc = "updatelinks"
    BY <1>3 DEF LinksUpdate
  <2> HIDE DEF l
  <2>2. f \in DocIds /\ docs[f] \in Documents
    BY <1>2, <2>1 DEF CreateLabels
  <2> HIDE DEF f
  <2>3. PICK r : r = Revised(docs[f], l)
    OBVIOUS
  <2>4. /\ r.op = docs[f].op /\ r.key = docs[f].key /\ r.gen = docs[f].gen /\ r.st = docs[f].st
        /\ r.status = docs[f].status /\ r.parent = docs[f].parent
    BY <2>2, <2>3 DEF Revised, Documents
  <2>5. QED BY <2>1, <2>2, <2>3, <2>4, ChangeGrows
<1>4. CASE ReadyMark(t)
  <2>1. /\ docs' = [docs EXCEPT ![f] = [docs[f] EXCEPT !.status = "ready"]]
        /\ IsNext(t) /\ t \in todo /\ pc = "mark"
    BY <1>4 DEF ReadyMark, IsNext
  <2>2. /\ f \in DocIds /\ Ours(f) /\ Visible(f) /\ docs[f].key = t
        /\ docs[f] \in Documents /\ fileOf[docs[f].key] = f
    BY <1>2, <2>1 DEF CreateLabels
  <2>3. HasNoPlaceholder(f, docs[f].key)
    <3>1. stage[t] >= MarkingReady /\ stage[t] \in Nat
      BY <2>1, NamedStages DEF Position, ItemAnnounced, TypeInv, TypeOK, JournalTypeOK
    <3>2. stage[t] >= LinksFixed
      BY <3>1, StageOrder
    <3>3. QED BY <2>2, <3>2 DEF DocsInv, EntriesTrue
  <2> HIDE DEF f
  <2>4. PICK r : r = [docs[f] EXCEPT !.status = "ready"]
    OBVIOUS
  <2>5. /\ r.op = docs[f].op /\ r.key = docs[f].key /\ r.gen = docs[f].gen /\ r.st = docs[f].st
        /\ r.status = "ready" /\ r.parent = docs[f].parent
    BY <2>2, <2>4 DEF Documents
  <2>6. QED BY <2>1, <2>2, <2>3, <2>4, <2>5, ChangeGrows
<1>5. CASE MoveRelocate(t)
  <2>1. /\ docs' = [docs EXCEPT ![f] = [docs[f] EXCEPT !.parent = "review"]]
        /\ IsNext(t) /\ pc = "relocate"
    BY <1>5 DEF MoveRelocate
  <2>2. /\ f \in DocIds /\ Ours(f) /\ Visible(f) /\ docs[f].key = t
        /\ docs[f] \in Documents /\ fileOf[docs[f].key] = f
    BY <1>2, <2>1 DEF CreateLabels
  <2> HIDE DEF f
  <2>3. PICK r : r = [docs[f] EXCEPT !.parent = "review"]
    OBVIOUS
  <2>4. /\ r.op = docs[f].op /\ r.key = docs[f].key /\ r.gen = docs[f].gen /\ r.st = docs[f].st
        /\ r.status = docs[f].status /\ r.parent = "review"
    BY <2>2, <2>3 DEF Documents
  <2>5. QED BY <2>1, <2>2, <2>3, <2>4, ChangeGrows
<1>6. CASE ~LinksUpdate(t) /\ ~ReadyMark(t) /\ ~MoveRelocate(t)
  <2>1. docs' = docs
    BY <1>6 DEF LinksStep, LinksBegin, Pass, LinksRead, LinksReadRefuse, LinksUpdateFail,
       LinksUpdateRefuse, LinksRecord, CaptureStep, CaptureBegin, CaptureKnown, CaptureFound,
       CaptureWrite, CaptureRefuse, CaptureRecord, ReadyStep, ReadyBegin, ReadyFail,
       ReadyRecord, MoveStep, MoveBegin, MoveKnown, MoveFail, MoveRecord,
       MoveFinalRead, SealStep, SealBegin, SealWrite, SealFound, SealRefuse, SealRecord, SealKnown,
       Refuse, OnlyRun, OnlyStage
  <2>2. QED BY <1>1, <2>1
<1>7. QED BY <1>3, <1>4, <1>5, <1>6

\* Reviewers and late creates.
LEMMA EnvironmentGrows ==
    ASSUME TypeInv, Environment
    PROVE  \A d \in DocIds : Grown(d)
<1>1. PICK e \in DocIds : CreateLands(e) \/ ReviewerEdits(e) \/ ReviewerTrashes(e)
  BY DEF Environment
<1>2. docs[e] \in Documents
  BY DEF TypeInv, TypeOK, DocsTypeOK
<1>3. CASE CreateLands(e)
  <2>1. PICK r : r = [docs[e] EXCEPT !.st = "live"]
    OBVIOUS
  <2>2. docs' = [docs EXCEPT ![e] = r] /\ docs[e].st = "inflight"
    BY <1>3, <2>1 DEF CreateLands
  <2>3. /\ r.op = docs[e].op /\ r.key = docs[e].key /\ r.gen = docs[e].gen /\ r.st = "live"
        /\ r.status = docs[e].status /\ r.parent = docs[e].parent
    BY <1>2, <2>1 DEF Documents
  <2>4. QED BY <2>2, <2>3, ChangeGrows
<1>4. CASE ReviewerTrashes(e)
  <2>1. PICK r : r = [docs[e] EXCEPT !.st = "trashed"]
    OBVIOUS
  <2>2. docs' = [docs EXCEPT ![e] = r] /\ docs[e].st = "live"
    BY <1>4, <2>1 DEF ReviewerTrashes
  <2>3. /\ r.op = docs[e].op /\ r.key = docs[e].key /\ r.gen = docs[e].gen /\ r.st = "trashed"
        /\ r.status = docs[e].status /\ r.parent = docs[e].parent
    BY <1>2, <2>1 DEF Documents
  <2>4. QED BY <2>2, <2>3, ChangeGrows
<1>5. CASE ReviewerEdits(e)
  <2>1. PICK gone \in SUBSET Targets : docs' = [docs EXCEPT ![e] = Revised(docs[e],
                [u \in Targets |-> IF u \in gone THEN NoDoc ELSE docs[e].link[u]])]
    BY <1>5 DEF ReviewerEdits
  <2>2. PICK l : l = [u \in Targets |-> IF u \in gone THEN NoDoc ELSE docs[e].link[u]]
    OBVIOUS
  <2>3. PICK r : r = Revised(docs[e], l)
    OBVIOUS
  <2>4. docs' = [docs EXCEPT ![e] = r]
    BY <2>1, <2>2, <2>3
  <2>5. /\ r.op = docs[e].op /\ r.key = docs[e].key /\ r.gen = docs[e].gen /\ r.st = docs[e].st
        /\ r.status = docs[e].status /\ r.parent = docs[e].parent
    BY <1>2, <2>3 DEF Revised, Documents
  <2>6. QED BY <2>4, <2>5, ChangeGrows
<1>6. QED BY <1>1, <1>3, <1>4, <1>5

\* In any step one document at most is made, and the others grow.
LEMMA DocumentKinds ==
    ASSUME TypeInv, Position, DocsInv, [Next]_vars
    PROVE  /\ \E x : \A d \in DocIds : Grown(d) \/ (d = x /\ NewMade(d))
           /\ late' = late \/ late' = late + 1
<1> DEFINE Goal == /\ \E x : \A d \in DocIds : Grown(d) \/ (d = x /\ NewMade(d))
                   /\ late' = late \/ late' = late + 1
<1>1. ASSUME docs' = docs, late' = late PROVE Goal
  BY <1>1, UntouchedGrows
<1>2. ASSUME NEW t \in Targets, CreateStep(t) PROVE Goal
  <2>1. ASSUME NEW e \in DocIds, docs[e].st = "absent", NEW v, pc = "issue", IsNext(t),
               docs' = [docs EXCEPT ![e] = NewDocument(t, v)],
               \/ v = "live" /\ late' = late
               \/ v = "inflight" /\ late' = late + 1,
               UNCHANGED <<durable, ops>>
        PROVE  Goal
    <3>1. /\ docs'[e] = NewDocument(t, v)
          /\ \A d \in DocIds \ {e} : docs'[d] = docs[d]
      BY <2>1 DEF TypeInv, TypeOK, DocsTypeOK
    <3>2. t \in journal.items /\ HasJournal /\ stage[t] = Creating
      BY <2>1 DEF TypeInv, RunHasJournal, IsNext, Position, ItemAnnounced
    <3>3. UNCHANGED <<journal, stage, fileOf, active, prior, snap, ops>>
      BY <2>1 DEF durable, journalVars, stateVars
    <3>4. NewMade(e)
      BY <2>1, <3>1, <3>2, <3>3 DEF NewMade
    <3>5. QED BY <2>1, <3>1, <3>4, UntouchedGrows
  <2>2. ASSUME NEW d \in DocIds, CreateIssue(t, d) PROVE Goal
    <3>1. /\ docs[d].st = "absent" /\ pc = "issue" /\ IsNext(t)
          /\ docs' = [docs EXCEPT ![d] = NewDocument(t, "live")]
          /\ late' = late /\ UNCHANGED <<durable, ops>>
      BY <2>2 DEF CreateIssue, OnlyDocs
    <3>2. QED BY <2>1, <3>1
  <2>3. CASE CreateFail(t)
    BY <1>1, <2>1, <2>3 DEF CreateFail
  <2>4. CASE ~CreateFail(t) /\ \A d \in DocIds : ~CreateIssue(t, d)
    <3>1. docs' = docs /\ late' = late
      BY <1>2, <2>4 DEF CreateStep, CreateBegin, Pass, LookupNone, LookupRefuse, LookupMatch,
         CreateRecord, Refuse, OnlyRun, OnlyStage, countVars
    <3>2. QED BY <1>1, <3>1
  <2>5. QED BY <2>2, <2>3, <2>4
<1>3. ASSUME NEW t \in Targets,
             LinksStep(t) \/ CaptureStep(t) \/ ReadyStep(t) \/ MoveStep(t) \/ SealStep(t)
      PROVE  Goal
  BY <1>3, LoopsGrow, LoopsSettle DEF Settled
<1>4. CASE Environment
  BY <1>4, EnvironmentGrows, EnvironmentSettles DEF Settled
<1>5. CASE CommitStep \/ NextLoop \/ Resume \/ Interrupt \/ UNCHANGED vars
  BY <1>1, <1>5 DEF CommitStep, CommitSave, SaveFrame, CommitClear, CommitBegin, CommitRecord,
     NextLoop, Resume, Interrupt, OnlyRun, OnlyStage, countVars, vars
<1>6. ASSUME NEW items \in SUBSET Targets, Start(items) PROVE Goal
  BY <1>1, <1>6 DEF Start
<1>7. QED BY <1>2, <1>3, <1>4, <1>5, <1>6 DEF Next, RunStep

-----------------------------------------------------------------------------
(* The steps of the commands *)

\* A step of the publisher, with the size of the sets it makes documents of.
\* While an operation is being abandoned only Google and reviewers act.
PublisherStep ==
    /\ [Next]_vars /\ UNCHANGED abandoning
    /\ abandoning => UNCHANGED vars \/ Environment
    /\ pc = "idle" /\ pc' # "idle" /\ HasJournal => TargetsUnchanged
    /\ size' = [d \in DocIds |-> IF docs[d].st = "absent" /\ docs'[d].st # "absent"
                                 THEN Cardinality(journal.items) ELSE size[d]]

\* A snapshot that no record names is removed.
OrphanRemoved ==
    \E t \in Targets, g \in 1..MaxOps :
        pc = "idle" /\ Orphan(t, g) /\ snap' = [snap EXCEPT ![t][g] = NoManifest]

\* A command ends, or a snapshot is removed.
StillStep ==
    /\ UNCHANGED <<journalVars, stateVars, docs, ops, late, reviewer, size>>
    /\ failures' \in Nat
    /\ UNCHANGED runVars \/ StopRun
    /\ abandoning' \in BOOLEAN /\ (abandoning' => abandoning)
    /\ snap' = snap \/ OrphanRemoved

RecoverStep(abandon) ==
    /\ Unlocked /\ ~DuplicateTarget /\ SaveRecovered(abandon)
    /\ abandon /\ HasJournal => PendingSets = {}

\* These are all the steps there are.
LEMMA StepKinds ==
    ASSUME BaseInv, [NextAnyOrphan]_everything
    PROVE  \/ PublisherStep \/ StillStep \/ AbandonClear
           \/ \E abandon \in BOOLEAN : RecoverStep(abandon)
<1>a. /\ TypeInv /\ size \in [DocIds -> Nat] /\ abandoning \in BOOLEAN
      /\ abandoning => pc = "idle"
  BY DEF BaseInv
<1>b. failures \in Nat /\ (Failed => failures' \in Nat)
  BY <1>a DEF TypeInv, TypeOK, CountTypeOK, Failed
<1>c. size = [d \in DocIds |-> size[d]]
  BY <1>a
<1>1. ASSUME [Next]_vars, \A d \in DocIds : docs[d].st = "absent" => docs'[d].st = "absent",
             UNCHANGED <<abandoning, size>>, abandoning => UNCHANGED vars \/ Environment,
             pc = "idle" /\ pc' # "idle" /\ HasJournal => TargetsUnchanged
      PROVE  PublisherStep
  BY <1>1, <1>c DEF PublisherStep
<1>2. ASSUME UNCHANGED <<vars, abandoning, size>> PROVE PublisherStep
  BY <1>1, <1>2 DEF vars, runVars
<1>3. ASSUME NEW asked \in (SUBSET Targets) \ {{}}, NEW newReview \in BOOLEAN,
             PublishReady(asked, newReview)
      PROVE  PublisherStep
  <2>1. UNCHANGED <<abandoning, size>> /\ ~abandoning /\ Publish(asked, newReview)
    BY <1>3 DEF PublishReady, recoveryVars, fileVars
  <2>2. CASE UNCHANGED <<vars, loaded, frozen, built, hashed>>
    BY <1>2, <2>1, <2>2
  <2>3. CASE StartBatch(asked, newReview)
    <3>1. PICK items \in SUBSET Targets : Start(items)
      BY <2>3, ClosureClosed DEF StartBatch, PlanWrites
    <3>2. [Next]_vars /\ docs' = docs /\ ~HasJournal
      BY <3>1 DEF Next, Start
    <3>3. QED BY <1>1, <2>1, <3>2
  <2>4. CASE ResumeBatch(asked, newReview)
    <3>1. [Next]_vars /\ docs' = docs /\ TargetsUnchanged
      BY <2>4 DEF ResumeBatch, Next, Resume, OnlyRun, OnlyStage
    <3>2. QED BY <1>1, <2>1, <3>1
  <2>5. QED BY <2>1, <2>2, <2>3, <2>4, PublishKinds
<1>4. CASE RunStepSized
  <2>1. RunStep /\ UNCHANGED abandoning
    BY <1>4 DEF RunStepSized, RunCommand, fileVars
  <2>2. pc # "idle" /\ ~abandoning
    BY <1>a, <2>1, RunStepRuns
  <2>3. QED BY <1>4, <2>1, <2>2 DEF RunStepSized, PublisherStep, Next
<1>5. CASE Outside /\ UNCHANGED recoveryVars
  <2>1. UNCHANGED <<abandoning, size>>
    BY <1>5 DEF recoveryVars, fileVars
  <2>2. CASE InterruptCommand
    <3>1. Interrupt /\ docs' = docs /\ pc # "idle"
      BY <2>2 DEF InterruptCommand, Interrupt
    <3>2. QED BY <1>1, <1>a, <2>1, <3>1 DEF Next
  <2>3. CASE EnvironmentStep
    <3>1. Environment
      BY <2>3 DEF EnvironmentStep
    <3>2. \A d \in DocIds : docs[d].st = "absent" => docs'[d].st = "absent"
      BY <1>a, <3>1, EnvironmentSettles DEF Settled, Settles
    <3>3. pc' = pc
      BY <3>1 DEF Environment, CreateLands, ReviewerEdits, ReviewerTrashes, ReviewerActs, runVars
    <3>4. QED BY <1>1, <2>1, <3>1, <3>2, <3>3 DEF Next
  <2>4. CASE \E t \in Targets : EditSource(t)
    BY <1>2, <2>1, <2>4 DEF EditSource
  <2>5. QED BY <1>5, <2>2, <2>3, <2>4 DEF Outside
<1>6. CASE PublishUnready \/ LoseState \/ \E abandon \in BOOLEAN : ReconcileRefuse(abandon)
  <2>1. UNCHANGED <<vars, abandoning, size>>
    BY <1>6 DEF PublishUnready, LoseState, ReconcileRefuse, Answer, recoveryVars, fileVars, allVars
  <2>2. QED BY <1>2, <2>1
<1>7. ASSUME NEW abandon \in BOOLEAN, ReconcileSave(abandon) PROVE RecoverStep(abandon)
  BY <1>7 DEF ReconcileSave, RecoverStep
<1>8. CASE AbandonInterrupt
  <2>1. /\ UNCHANGED <<journalVars, stateVars, snap, docs, runVars, ops, late, reviewer, size>>
        /\ failures' \in Nat /\ abandoning' = FALSE
    BY <1>8, <1>b DEF AbandonInterrupt, durable
  <2>2. QED BY <2>1 DEF StillStep
<1>9. ASSUME NEW t \in Targets, CaptureLost(t) PROVE StillStep
  <2>1. /\ UNCHANGED <<journalVars, stateVars, snap, docs, countVars, size, abandoning>> /\ StopRun
    BY <1>9 DEF CaptureLost, Refuse, OnlyRun, OnlyStage, recoveryVars, fileVars, journalVars
  <2>2. QED BY <1>a, <1>b, <2>1 DEF StillStep, countVars
<1>10. ASSUME NEW t \in Targets, NEW g \in 1..MaxOps, RemoveOrphan(t, g) PROVE StillStep
  <2>1. /\ UNCHANGED <<journalVars, stateVars, docs, runVars, countVars, size, abandoning>>
        /\ OrphanRemoved
    BY <1>10 DEF RemoveOrphan, Unlocked, OrphanRemoved
  <2>2. QED BY <1>a, <1>b, <2>1 DEF StillStep, countVars
<1>11. CASE UNCHANGED everything
  BY <1>2, <1>11 DEF everything, allVars, recoveryVars, fileVars
<1>12. QED
  BY <1>3, <1>4, <1>5, <1>6, <1>7, <1>8, <1>9, <1>10, <1>11
  DEF NextAnyOrphan, NextRecovery, RunRecovery

-----------------------------------------------------------------------------
(* The first layer *)

\* A reviewed and ready document of a complete set, which a reconcile finds.
Finished(d) == docs[d].st = "live" /\ docs[d].status = "ready" /\ docs[d].parent = "review"

\* What a reconcile would record of a target is finished, in a complete set.
LEMMA RecoveredFinished ==
    ASSUME NEW t, NEW d \in RecoveredDocs(t)
    PROVE  d \in Made /\ Finished(d) /\ docs[d].key = t /\ CompleteSet(docs[d].op)
BY DEF RecoveredDocs, Live, CompleteSet, SetOf, Made, Finished

\* Steps that leave the records, the journal and Google alone.
LEMMA BaseStill ==
    ASSUME BaseInv, StillStep
    PROVE  BaseInv'
<1>a. /\ UNCHANGED <<journal, stage, fileOf, candHash, sealHash, active, prior, docs,
                     ops, late, reviewer, size>>
      /\ UNCHANGED <<pc, todo, attempt, got, readRev, finalSt>> \/ StopRun
      /\ failures' \in Nat
  BY DEF StillStep, journalVars, stateVars, runVars
<1>1. /\ \/ pc' = pc /\ todo' = todo
         \/ pc' = "idle" /\ todo' = {}
      /\ got' = got \/ pc' = "idle"
  BY <1>a DEF StopRun
<1>2. TypeInv'
  <2>1. StoreTypeOK'
    <3>1. StoreTypeOK
      BY DEF BaseInv, TypeInv, TypeOK
    <3>2. NoManifest \in Manifests
      BY DEF NoManifest, Manifests, FileIds
    <3>3. CASE OrphanRemoved
      BY <1>a, <3>1, <3>2, <3>3, SnapTyped DEF OrphanRemoved
    <3>4. CASE snap' = snap
      BY <1>a, <3>1, <3>4 DEF StoreTypeOK
    <3>5. QED BY <3>3, <3>4 DEF StillStep
  <2>2. RunTypeOK'
    <3>1. RunTypeOK
      BY DEF BaseInv, TypeInv, TypeOK
    <3>2. CASE StopRun
      <4>1. NoDoc \in FileIds
        BY DEF FileIds
      <4>2. QED BY <3>2, <4>1 DEF StopRun, RunTypeOK, NewCall, Labels
    <3>3. CASE UNCHANGED <<pc, todo, attempt, got, readRev, finalSt>>
      BY <3>1, <3>3 DEF RunTypeOK
    <3>4. QED BY <1>a, <3>2, <3>3
  <2>3. JournalTypeOK' /\ DocsTypeOK' /\ CountTypeOK'
    BY <1>a DEF BaseInv, TypeInv, TypeOK, JournalTypeOK, DocsTypeOK, CountTypeOK
  <2>4. GenerationsBounded'
    BY <1>a DEF BaseInv, TypeInv, GenerationsBounded
  <2>5. RunHasJournal'
    BY <1>a, <1>1 DEF BaseInv, TypeInv, RunHasJournal, HasJournal
  <2>6. FilesRecorded'
    BY <1>a, <1>1 DEF BaseInv, TypeInv, FilesRecorded, IsNext, CreateLabels
  <2>7. QED BY <2>1, <2>2, <2>3, <2>4, <2>5, <2>6 DEF TypeInv, TypeOK
<1>3. Position'
  <2>1. CASE pc' = pc /\ todo' = todo
    BY <1>a, <2>1
    DEF BaseInv, Position, LoopsDone, EntriesTogether, ItemAnnounced, Through, Phase, IsNext
  <2>2. CASE pc' = "idle" /\ todo' = {}
    <3>1. LoopsDone' /\ ItemAnnounced'
      BY <2>2 DEF LoopsDone, ItemAnnounced
    <3>2. EntriesTogether'
      BY <1>a DEF BaseInv, Position, EntriesTogether, Through
    <3>3. QED BY <3>1, <3>2 DEF Position
  <2>3. QED BY <1>1, <2>1, <2>2
<1>4. DocsInv'
  <2>1. (OperationsNumbered /\ Announced /\ LinksKnown /\ EntriesTrue)'
    BY <1>a DEF BaseInv, DocsInv, OperationsNumbered, Announced, LinksKnown, EntriesTrue, Ours,
       Mine, Visible, HasJournal, HasNoPlaceholder
  <2>2. ItemTrue'
    BY <1>a, <1>1 DEF BaseInv, DocsInv, ItemTrue, IsNext, Mine, Visible, HasJournal,
       HasNoPlaceholder
  <2>3. QED BY <2>1, <2>2 DEF DocsInv
<1>5. CreatedInOrder' /\ RecordsTrue'
  BY <1>a DEF BaseInv, CreatedInOrder, RecordsTrue, RecordTrue, Recorded, Visible,
     HasNoPlaceholder
<1>6. /\ abandoning' \in BOOLEAN /\ (abandoning' => pc' = "idle") /\ size' \in [DocIds -> Nat]
      /\ (pc' = "idle" => todo' = {})
  BY <1>a, <1>1 DEF BaseInv, StillStep
<1>7. QED BY <1>2, <1>3, <1>4, <1>5, <1>6 DEF BaseInv

\* A recovered record is of a finished document, as it was published.
LEMMA BaseRecover ==
    ASSUME BaseInv, DocumentsMade, NEW abandon \in BOOLEAN, RecoverStep(abandon)
    PROVE  BaseInv'
<1>a. /\ UNCHANGED <<journal, stage, fileOf, candHash, sealHash, snap, docs, pc, todo, attempt,
                     got, readRev, finalSt, ops, failures, late, reviewer, size>>
      /\ ~DuplicateTarget /\ SaveRecovered(abandon) /\ pc = "idle"
      /\ abandoning' \in BOOLEAN
  BY DEF RecoverStep, SaveRecovered, journalVars, runVars, countVars, Unlocked
<1>b. TypeInv /\ OperationsNumbered
  BY DEF BaseInv, DocsInv
<1>1. ASSUME NEW t \in Targets, NEW r \in Recorded(t)', r # NoTarget
      PROVE  \E d \in RecoveredDocs(t) : r = RecoveredTarget(d)
  BY <1>a, <1>b, <1>1, RecoveredRecords
<1>2. TypeInv'
  <2>1. StoreTypeOK'
    <3>1. \A t \in Targets : active'[t] \in TargetRecords /\ prior'[t] \in Seq(TargetRecords)
      BY <1>a, <1>b, RecoveredRecords
    <3>2. active' = [t \in Targets |-> active'[t]] /\ prior' = [t \in Targets |-> prior'[t]]
      BY <1>a DEF SaveRecovered
    <3>3. active' \in [Targets -> TargetRecords] /\ prior' \in [Targets -> Seq(TargetRecords)]
      BY <3>1, <3>2
    <3>4. QED BY <1>a, <1>b, <3>3 DEF TypeInv, TypeOK, StoreTypeOK
  <2>2. TypeOK'
    BY <1>a, <1>b, <2>1
    DEF TypeInv, TypeOK, JournalTypeOK, DocsTypeOK, RunTypeOK, CountTypeOK
  <2>3. ASSUME NEW t \in Targets PROVE active'[t].gen <= ops /\ active'[t].op <= ops
    <3>1. CASE active'[t] = NoTarget
      BY <1>b, <3>1 DEF NoTarget, TypeInv, TypeOK, CountTypeOK
    <3>2. CASE active'[t] # NoTarget
      <4>1. PICK d \in RecoveredDocs(t) : active'[t] = RecoveredTarget(d)
        BY <1>1, <3>2 DEF Recorded
      <4>2. active'[t].gen = docs[d].gen /\ active'[t].op = docs[d].op /\ d \in Made
        BY <4>1, RecoveredFinished DEF RecoveredTarget
      <4>3. /\ docs[d].gen <= docs[d].op /\ docs[d].op \in 1..ops
            /\ docs[d].gen \in Nat /\ ops \in Nat
        BY <1>b, <4>2, DocumentTyped
      <4>4. QED BY <4>2, <4>3
    <3>3. QED BY <3>1, <3>2
  <2>4. GenerationsBounded'
    BY <1>a, <1>b, <2>3 DEF TypeInv, GenerationsBounded
  <2>5. RunHasJournal' /\ FilesRecorded'
    BY <1>a, <1>b DEF TypeInv, RunHasJournal, HasJournal, FilesRecorded, IsNext, CreateLabels
  <2>6. QED BY <2>2, <2>4, <2>5 DEF TypeInv
<1>3. Position'
  BY <1>a DEF BaseInv, Position, LoopsDone, EntriesTogether, ItemAnnounced, Through, Phase, IsNext
<1>4. DocsInv' /\ CreatedInOrder'
  BY <1>a DEF BaseInv, DocsInv, OperationsNumbered, Announced, LinksKnown, EntriesTrue, Ours,
     Mine, Visible, HasJournal, HasNoPlaceholder, ItemTrue, IsNext, CreatedInOrder
<1>5. RecordsTrue'
  <2>1. ASSUME NEW t \in Targets, NEW r \in Recorded(t)', r # NoTarget
        PROVE  RecordTrue(t, r)'
    <3>1. PICK d \in RecoveredDocs(t) : r = RecoveredTarget(d)
      BY <1>1, <2>1
    <3>2. r.file = d /\ r.op = docs[d].op
      BY <3>1 DEF RecoveredTarget
    <3>3. d \in Made /\ Finished(d) /\ docs[d].key = t
      BY RecoveredFinished
    <3>4. HasNoPlaceholder(d, t)
      BY <3>3 DEF DocumentsMade, MadeAs, Finished
    <3>5. QED BY <1>a, <3>2, <3>3, <3>4
              DEF RecordTrue, Finished, Made, Visible, HasNoPlaceholder
  <2>2. QED BY <2>1 DEF RecordsTrue
<1>6. QED BY <1>a, <1>2, <1>3, <1>4, <1>5 DEF BaseInv

\* Without a journal nothing of a run is left to be true.
LEMMA BaseClear ==
    ASSUME BaseInv, AbandonClear
    PROVE  BaseInv'
<1>a. /\ UNCHANGED <<active, prior, snap, docs, pc, todo, attempt, got, readRev, finalSt, ops,
                     failures, late, reviewer, size>>
      /\ abandoning' = FALSE /\ pc = "idle" /\ todo = {} /\ journal' = NoJournal
      /\ stage' = [t \in Targets |-> Planned] /\ fileOf' = [t \in Targets |-> NoDoc]
      /\ candHash' = [t \in Targets |-> NoManifest] /\ sealHash' = [t \in Targets |-> NoManifest]
  BY DEF AbandonClear, BaseInv, stateVars, runVars, countVars
<1>b. HasJournal' = FALSE /\ journal'.items = {} /\ journal'.op = 0
  BY <1>a DEF HasJournal, NoJournal
<1>1. TypeInv'
  <2>1. TypeOK'
    <3>1. TypeOK
      BY DEF BaseInv, TypeInv
    <3>2. JournalTypeOK'
      <4>1. NoManifest \in Manifests /\ NoDoc \in FileIds /\ Planned \in Stages
        BY NamedStages DEF NoManifest, Manifests, FileIds
      <4>2. QED BY <1>a, <4>1 DEF JournalTypeOK, NoJournal
    <3>3. QED BY <1>a, <3>1, <3>2 DEF TypeOK, StoreTypeOK, DocsTypeOK, RunTypeOK, CountTypeOK
  <2>2. GenerationsBounded'
    BY <1>a, <1>b DEF BaseInv, TypeInv, GenerationsBounded, TypeOK, CountTypeOK
  <2>3. RunHasJournal' /\ FilesRecorded'
    BY <1>a, <1>b, StageOrder DEF RunHasJournal, HasJournal, FilesRecorded
  <2>4. QED BY <2>1, <2>2, <2>3 DEF TypeInv
<1>2. Position'
  BY <1>a, <1>b DEF Position, LoopsDone, EntriesTogether, ItemAnnounced
<1>3. DocsInv'
  <2>1. OperationsNumbered'
    BY <1>a, <1>b DEF BaseInv, DocsInv, OperationsNumbered
  <2>2. (Announced /\ LinksKnown)'
    BY <1>b DEF Announced, LinksKnown, Ours
  <2>3. EntriesTrue'
    BY <1>a, StageOrder DEF EntriesTrue
  <2>4. ItemTrue'
    BY <1>a DEF ItemTrue
  <2>5. QED BY <2>1, <2>2, <2>3, <2>4 DEF DocsInv
<1>4. CreatedInOrder'
  BY <1>b DEF CreatedInOrder
<1>5. RecordsTrue'
  BY <1>a DEF BaseInv, RecordsTrue, RecordTrue, Recorded, Visible, HasNoPlaceholder
<1>6. QED BY <1>a, <1>1, <1>2, <1>3, <1>4, <1>5 DEF BaseInv

\* A run that has ended has no items left.
LEMMA RunsEnd ==
    ASSUME TypeInv, pc = "idle" => todo = {}, [Next]_vars
    PROVE  pc' = "idle" => todo' = {}
<1>1. StopRun => todo' = {}
  BY DEF StopRun
<1>2. ASSUME NEW label, label # "idle", CallFailed(label)
      PROVE  pc' = "idle" => todo' = {}
  BY <1>1, <1>2 DEF CallFailed, Goto
<1>3. ASSUME NEW t \in Targets, CreateStep(t) \/ LinksStep(t)
      PROVE  pc' = "idle" => todo' = {}
  <2>1. CASE LinksUpdate(t) \/ LinksUpdateFail(t)
    BY <1>2, <2>1 DEF LinksUpdate, LinksUpdateFail, Goto
  <2>2. CASE ~LinksUpdate(t) /\ ~LinksUpdateFail(t)
    BY <1>1, <1>3, <2>2 DEF CreateStep, CreateBegin, Pass, LookupNone, LookupRefuse,
       LookupMatch, CreateIssue, CreateFail, CreateRecord, LinksStep, LinksBegin, LinksRead,
       LinksReadRefuse, LinksUpdateRefuse, LinksRecord, Refuse, Goto, ItemDone
  <2>3. QED BY <2>1, <2>2
<1>4. ASSUME NEW t \in Targets, ReadyStep(t) \/ MoveStep(t)
      PROVE  pc' = "idle" => todo' = {}
  BY <1>2, <1>4 DEF ReadyStep, ReadyBegin, Pass, ReadyMark, ReadyFail, ReadyRecord, MoveStep,
     MoveBegin, MoveKnown, MoveRelocate, MoveFail, MoveRecord, MoveFinalRead, Goto, ItemDone
<1>5. ASSUME NEW t \in Targets, CaptureStep(t) \/ SealStep(t)
      PROVE  pc' = "idle" => todo' = {}
  BY <1>1, <1>5 DEF CaptureStep, CaptureBegin, CaptureKnown, CaptureFound, CaptureWrite,
     CaptureRefuse, CaptureRecord, SealStep, SealBegin, SealWrite, SealFound, SealRefuse,
     SealRecord, SealKnown, Pass, Refuse, Goto, ItemDone
<1>6. CASE CommitStep
  BY <1>1, <1>6 DEF CommitStep, CommitSave, SaveFrame, CommitClear, CommitBegin, CommitRecord,
     ItemDone
<1>7. CASE NextLoop
  BY <1>7, NextLoopMoves
<1>8. CASE Resume \/ (\E items \in SUBSET Targets : Start(items)) \/ Interrupt
  BY <1>1, <1>8 DEF Resume, Start, Interrupt
<1>9. CASE Environment \/ UNCHANGED vars
  BY <1>9 DEF Environment, CreateLands, ReviewerEdits, ReviewerTrashes, ReviewerActs, vars, runVars
<1>10. QED BY <1>3, <1>4, <1>5, <1>6, <1>7, <1>8, <1>9 DEF Next, RunStep

\* A step of the publisher keeps the layers that loss and recovery keep.
LEMMA BasePublisher ==
    ASSUME BaseInv, PublisherStep
    PROVE  BaseInv'
<1>a. TypeInv /\ Position /\ DocsInv /\ CreatedInOrder /\ RecordsTrue /\ [Next]_vars
  BY DEF BaseInv, PublisherStep
<1>1. TypeInv'
  BY <1>a, NextLayers
<1>2. Position' /\ DocsInv'
  BY <1>a, <1>1, NextPosition, NextDocs DEF TypeInv
<1>3. CreatedInOrder' /\ RecordsTrue'
  BY <1>a, <1>1, NextInOrder, NextRecords
<1>4. abandoning' => pc' = "idle"
  <2>1. Environment => pc' = pc
    BY DEF Environment, CreateLands, ReviewerEdits, ReviewerTrashes, ReviewerActs, runVars
  <2>2. QED BY <2>1 DEF BaseInv, PublisherStep, vars, runVars
<1>5. size' \in [DocIds -> Nat]
  <2>1. Cardinality(journal.items) \in Nat
    <3>1. journal.items \subseteq Targets
      BY <1>a DEF TypeInv, TypeOK, JournalTypeOK
    <3>2. QED BY <3>1, RecoveryConstantsOK, PartCounted
  <2>2. QED BY <2>1 DEF BaseInv, PublisherStep
<1>6. pc' = "idle" => todo' = {}
  BY <1>a, RunsEnd DEF BaseInv
<1>7. QED BY <1>1, <1>2, <1>3, <1>4, <1>5, <1>6 DEF BaseInv, PublisherStep

-----------------------------------------------------------------------------
(* What was made *)

\* The journal of an unfinished operation stays as it was planned; an entry that
\* names a document goes on naming it.
LEMMA JournalKinds ==
    ASSUME TypeInv, Position, DocsInv, [Next]_vars
    PROVE  \/ /\ journal' = journal
              /\ \A t \in Targets : fileOf'[t] = fileOf[t] \/ fileOf[t] = NoDoc
           \/ \E items \in SUBSET Targets : Start(items)
           \/ CommitClear
<1>1. ASSUME journal' = journal, fileOf' = fileOf
      PROVE  journal' = journal /\ \A t \in Targets : fileOf'[t] = fileOf[t] \/ fileOf[t] = NoDoc
  BY <1>1
<1>2. ASSUME NEW t \in Targets, CreateRecord(t)
      PROVE  /\ journal' = journal
             /\ \A u \in Targets : fileOf'[u] = fileOf[u] \/ fileOf[u] = NoDoc
  <2>1. /\ fileOf' = [fileOf EXCEPT ![t] = got] /\ journal' = journal
        /\ t \in todo /\ IsNext(t) /\ pc = "record"
    BY <1>2 DEF CreateRecord, IsNext
  <2>2. fileOf[t] = NoDoc
    BY <2>1, StageOrder DEF Position, ItemAnnounced, DocsInv, EntriesTrue
  <2>3. QED BY <2>1, <2>2 DEF TypeInv, TypeOK, JournalTypeOK
<1>3. ASSUME NEW t \in Targets, CreateStep(t), ~CreateRecord(t)
      PROVE  journal' = journal /\ fileOf' = fileOf
  BY <1>3 DEF CreateStep, CreateBegin, Pass, LookupNone, LookupRefuse, LookupMatch,
     CreateIssue, CreateFail, Refuse, OnlyRun, OnlyStage, OnlyDocs, durable, journalVars
<1>4. ASSUME NEW t \in Targets, LinksStep(t) \/ ReadyStep(t) \/ MoveStep(t)
      PROVE  journal' = journal /\ fileOf' = fileOf
  BY <1>4 DEF LinksStep, LinksBegin, Pass, LinksRead, LinksReadRefuse, LinksUpdate,
     LinksUpdateFail, LinksUpdateRefuse, LinksRecord, ReadyStep, ReadyBegin, ReadyMark,
     ReadyFail, ReadyRecord, MoveStep, MoveBegin, MoveKnown, MoveRelocate, MoveFail,
     MoveRecord, MoveFinalRead, Refuse, OnlyRun, OnlyStage, OnlyDocs, durable, journalVars
<1>5. ASSUME NEW t \in Targets, CaptureStep(t) \/ SealStep(t)
      PROVE  journal' = journal /\ fileOf' = fileOf
  BY <1>5 DEF CaptureStep, CaptureBegin, CaptureKnown, CaptureFound, CaptureWrite,
     CaptureRefuse, CaptureRecord, SealStep, SealBegin, SealWrite, SealFound, SealRefuse,
     SealRecord, SealKnown, Pass, Refuse, OnlyRun, OnlyStage, journalVars
<1>6. CASE CommitStep
  BY <1>1, <1>6 DEF CommitStep, CommitSave, SaveFrame, CommitBegin, CommitRecord, OnlyStage,
     journalVars
<1>7. CASE NextLoop \/ Resume \/ Interrupt \/ Environment \/ UNCHANGED vars
  BY <1>1, <1>7 DEF NextLoop, Resume, Interrupt, Environment, CreateLands, ReviewerEdits,
     ReviewerTrashes, ReviewerActs, OnlyRun, OnlyStage, vars, durable, journalVars
<1>8. QED BY <1>1, <1>2, <1>3, <1>4, <1>5, <1>6, <1>7 DEF Next, RunStep

\* Which documents there are after a step of the publisher.
LEMMA MadeKinds ==
    ASSUME BaseInv, DocumentsMade, PublisherStep
    PROVE  \E x : /\ \A d \in Made' : (d \in Made /\ Grown(d)) \/ (d = x /\ d \notin Made /\ NewMade(d))
                  /\ Made \subseteq Made' /\ \A d \in Made : Grown(d)
<1>1. TypeInv /\ Position /\ DocsInv /\ [Next]_vars
  BY DEF BaseInv, PublisherStep
<1>2. PICK x : \A d \in DocIds : Grown(d) \/ (d = x /\ NewMade(d))
  BY <1>1, DocumentKinds
<1>3. ASSUME NEW d \in DocIds
      PROVE  /\ d \in Made <=> docs[d].st # "absent"
             /\ d \in Made' <=> docs'[d].st # "absent"
  BY DEF Made
<1>4. ASSUME NEW d \in DocIds, Grown(d)
      PROVE  docs[d].st = "absent" <=> docs'[d].st = "absent"
  BY <1>4 DEF Grown, Settles
<1>5. ASSUME NEW d \in DocIds, NewMade(d)
      PROVE  docs[d].st = "absent"
  BY <1>5 DEF NewMade
<1>6. \A d \in Made : Grown(d) /\ d \in Made'
  BY <1>2, <1>3, <1>4, <1>5 DEF Made
<1>7. \A d \in Made' : d \in DocIds
  BY DEF Made
<1>8. \A d \in Made' : (d \in Made /\ Grown(d)) \/ (d = x /\ d \notin Made /\ NewMade(d))
  <2>1. SUFFICES ASSUME NEW d \in Made', d \notin Made PROVE d = x /\ NewMade(d)
    BY <1>6
  <2>2. d \in DocIds /\ docs[d].st = "absent" /\ docs'[d].st # "absent"
    BY <1>3, <1>7, <2>1
  <2>3. ~Grown(d)
    BY <1>4, <2>2
  <2>4. QED BY <1>2, <2>2, <2>3
<1>9. QED BY <1>6, <1>8

\* What a document of the unfinished operation is made as.
LEMMA NewMadeIs ==
    ASSUME TypeInv, NEW d \in DocIds, NewMade(d)
    PROVE  /\ docs'[d].op = journal.op /\ docs'[d].key \in journal.items
           /\ docs'[d].key \in Targets /\ docs'[d].gen = journal.gen[docs'[d].key]
           /\ docs'[d].status = "pending" /\ docs'[d].parent = "staging"
           /\ docs'[d].st \in {"live", "inflight"}
           /\ HasJournal /\ journal' = journal /\ journal'.op = journal.op /\ journal.op \in 1..ops
           /\ docs'[d].gen \in 1..journal.op => docs'[d].gen \in 1..docs'[d].op
<1>1. PICK t \in journal.items, v \in {"live", "inflight"} : docs'[d] = NewDocument(t, v)
  BY DEF NewMade
<1>2. journal.op # 0 /\ journal.op \in Nat /\ journal.op <= ops /\ ops \in Nat /\ t \in Targets
  BY DEF NewMade, HasJournal, TypeInv, TypeOK, JournalTypeOK, CountTypeOK, GenerationsBounded
<1>3. QED BY <1>1, <1>2 DEF NewDocument, NewMade

\* The generation of an item is none before the first nor beyond the operation.
LEMMA ItemGeneration ==
    ASSUME TypeInv, DocsInv, NEW t \in journal.items
    PROVE  t \in Targets /\ journal.gen[t] \in 1..journal.op /\ HasJournal
<1>1. HasJournal /\ t \in Targets
  BY DEF TypeInv, RunHasJournal, TypeOK, JournalTypeOK
<1>2. journal.op = ops
  BY <1>1 DEF DocsInv, OperationsNumbered
<1>3. QED BY <1>1, <1>2 DEF TypeInv, GenerationsBounded

\* A new document is made as an announced entry of the journal, the rest grow.
LEMMA MadePublisher ==
    ASSUME BaseInv, DocumentsMade, PublisherStep
    PROVE  DocumentsMade'
<1>a. /\ TypeInv /\ Position /\ DocsInv /\ [Next]_vars /\ OperationsNumbered /\ EntriesTrue
      /\ NoDoc \notin DocIds
  BY ConstantsOK DEF BaseInv, PublisherStep, DocsInv
<1>1. PICK x : /\ \A d \in Made' : (d \in Made /\ Grown(d)) \/ (d = x /\ d \notin Made /\ NewMade(d))
               /\ Made \subseteq Made' /\ \A d \in Made : Grown(d)
  BY MadeKinds
<1>2. IsFiniteSet(Made')
  <2>1. IsFiniteSet(Made)
    BY DEF DocumentsMade
  <2>2. Made' \subseteq Made \cup {x}
    BY <1>1
  <2>3. QED BY <2>1, <2>2, OneMore
<1>3. ASSUME NEW d \in Made
      PROVE  /\ MadeAs(d) /\ Grown(d) /\ Evolves(d) /\ Settles(d)
             /\ d \in DocIds /\ docs[d].st # "absent"
             /\ docs[d].op \in 1..ops /\ docs[d].key \in Targets /\ docs[d].gen \in 1..docs[d].op
             /\ docs'[d].op = docs[d].op /\ docs'[d].key = docs[d].key /\ docs'[d].gen = docs[d].gen
  <2>1. d \in DocIds /\ docs[d].st # "absent" /\ MadeAs(d) /\ Grown(d)
    BY <1>1 DEF DocumentsMade, Made
  <2>2. Evolves(d)
    BY <1>a, <2>1, DocumentsEvolve
  <2>3. docs[d].op \in 1..ops /\ docs[d].key \in Targets /\ docs[d].gen \in 1..docs[d].op
    BY <1>a, DocumentTyped
  <2>4. QED BY <2>1, <2>2, <2>3 DEF Grown, Settles
<1>4. ASSUME NEW d \in Made', d \notin Made
      PROVE  /\ d \in DocIds /\ NewMade(d) /\ d = x
             /\ docs'[d].op = journal.op /\ docs'[d].key \in journal.items
             /\ docs'[d].key \in Targets /\ docs'[d].gen = journal.gen[docs'[d].key]
             /\ docs'[d].status = "pending" /\ docs'[d].parent = "staging"
             /\ HasJournal /\ journal' = journal /\ journal'.op = journal.op /\ journal.op \in 1..ops
             /\ docs'[d].gen \in 1..docs'[d].op
  <2>1. d \in DocIds /\ NewMade(d) /\ d = x
    BY <1>1, <1>4 DEF Made
  <2>2. docs'[d].key \in journal.items => journal.gen[docs'[d].key] \in 1..journal.op
    BY <1>a, ItemGeneration
  <2>3. QED BY <1>a, <2>1, <2>2, NewMadeIs
<1>5. ASSUME NEW d \in Made, Ours(d)'
      PROVE  /\ Ours(d) /\ journal' = journal
             /\ \A t \in Targets : fileOf'[t] = fileOf[t] \/ fileOf[t] = NoDoc
  <2>1. CASE \E items \in SUBSET Targets : Start(items)
    <3>1. journal'.op = ops + 1
      BY <2>1 DEF Start
    <3>2. docs'[d].op = docs[d].op /\ docs[d].op \in 1..ops /\ docs'[d].op = journal'.op
      BY <1>3, <1>5 DEF Ours
    <3>3. ops \in Nat
      BY <1>a DEF TypeInv, TypeOK, CountTypeOK
    <3>4. QED BY <3>1, <3>2, <3>3
  <2>2. CASE CommitClear
    BY <1>5, <2>2 DEF CommitClear, NoJournal, Ours, HasJournal
  <2>3. CASE /\ journal' = journal
             /\ \A t \in Targets : fileOf'[t] = fileOf[t] \/ fileOf[t] = NoDoc
    BY <1>3, <1>5, <2>3 DEF Ours, HasJournal
  <2>4. QED BY <1>a, <2>1, <2>2, <2>3, JournalKinds
<1>6. ASSUME NEW d \in Made PROVE MadeAs(d)'
  <2>1. docs'[d].key \in Targets /\ docs'[d].gen \in 1..docs'[d].op
    BY <1>3
  <2>2. Ours(d)' => docs'[d].gen = journal'.gen[docs'[d].key]
    BY <1>3, <1>5 DEF MadeAs
  <2>3. docs'[d].st = "inflight" => docs'[d].status = "pending"
    BY <1>3 DEF MadeAs, Grown, Settles, Visible
  <2>4. docs'[d].status = "ready" => \A u \in Links[docs'[d].key] : docs'[d].link[u] # Placeholder
    <3>1. docs'[d].status = "ready" => HasNoPlaceholder(d, docs[d].key)
      BY <1>3 DEF MadeAs, Grown
    <3>2. PICK t \in Targets : t = docs[d].key
      BY <1>3
    <3>3. docs'[d].status = "ready" => HasNoPlaceholder(d, t)'
      BY <1>3, <3>1, <3>2, NoNewPlaceholder
    <3>4. QED BY <1>3, <3>2, <3>3 DEF HasNoPlaceholder
  <2>5. ASSUME Ours(d)', docs'[d].status = "ready" \/ docs'[d].parent = "review"
        PROVE  fileOf'[docs'[d].key] = d
    <3>1. fileOf[docs[d].key] = d
      BY <1>3, <1>5, <2>5 DEF MadeAs, Grown
    <3>2. QED BY <1>a, <1>3, <1>5, <2>5, <3>1
  <2>6. ASSUME NEW e \in DocIds, docs'[e].op = docs'[d].op, docs'[e].key = docs'[d].key
        PROVE  docs'[e].gen = docs'[d].gen
    <3>1. CASE e \in Made
      BY <1>3, <2>6, <3>1 DEF MadeAs
    <3>2. CASE e \in Made' /\ e \notin Made
      <4>1. Ours(d)
        BY <1>3, <1>4, <2>6, <3>2 DEF Ours
      <4>2. docs[d].gen = journal.gen[docs[d].key]
        BY <1>3, <4>1 DEF MadeAs
      <4>3. QED BY <1>3, <1>4, <2>6, <3>2, <4>2
    <3>3. CASE e \notin Made'
      <4>1. docs'[e].st = "absent"
        BY <3>3 DEF Made
      <4>2. OperationsNumbered'
        BY <1>a, NextLayers, NextDocs DEF DocsInv
      <4>3. docs'[e].op = 0 /\ docs'[d].op \in 1..ops
        BY <1>3, <4>1, <4>2 DEF OperationsNumbered
      <4>4. ops \in Nat
        BY <1>a DEF TypeInv, TypeOK, CountTypeOK
      <4>5. QED BY <2>6, <4>3, <4>4
    <3>4. QED BY <3>1, <3>2, <3>3
  <2>7. QED BY <2>1, <2>2, <2>3, <2>4, <2>5, <2>6 DEF MadeAs, HasNoPlaceholder
<1>7. ASSUME NEW d \in Made', d \notin Made PROVE MadeAs(d)'
  <2>1. ASSUME NEW e \in DocIds, docs'[e].op = docs'[d].op, docs'[e].key = docs'[d].key
        PROVE  docs'[e].gen = docs'[d].gen
    <3>1. CASE e \in Made
      BY <1>6, <2>1, <3>1, <1>4 DEF MadeAs
    <3>2. CASE e \in Made' /\ e \notin Made
      BY <1>4, <1>7, <3>2
    <3>3. CASE e \notin Made'
      <4>1. docs'[e].st = "absent"
        BY <3>3 DEF Made
      <4>2. OperationsNumbered'
        BY <1>a, NextLayers, NextDocs DEF DocsInv
      <4>3. docs'[e].op = 0 /\ docs'[d].op \in 1..ops
        BY <1>4, <1>7, <4>1, <4>2 DEF OperationsNumbered
      <4>4. ops \in Nat
        BY <1>a DEF TypeInv, TypeOK, CountTypeOK
      <4>5. QED BY <2>1, <4>3, <4>4
    <3>4. QED BY <3>1, <3>2, <3>3
  <2>2. docs'[d].st # "inflight" \/ docs'[d].status = "pending"
    BY <1>4, <1>7
  <2>3. QED BY <1>4, <1>7, <2>1, <2>2 DEF MadeAs
<1>8. QED BY <1>2, <1>6, <1>7 DEF DocumentsMade

\* Steps that leave the documents alone.
LEMMA MadeOtherwise ==
    ASSUME BaseInv, DocumentsMade,
           StillStep \/ AbandonClear \/ \E abandon \in BOOLEAN : RecoverStep(abandon)
    PROVE  DocumentsMade'
<1>1. docs' = docs /\ Made' = Made
  BY DEF StillStep, AbandonClear, RecoverStep, SaveRecovered, Made
<1>2. \/ journal' = journal /\ fileOf' = fileOf
      \/ HasJournal' = FALSE
  BY DEF StillStep, AbandonClear, RecoverStep, SaveRecovered, journalVars, HasJournal, NoJournal
<1>3. ASSUME NEW d \in Made PROVE MadeAs(d)'
  <2>1. MadeAs(d)
    BY DEF DocumentsMade
  <2>2. CASE journal' = journal /\ fileOf' = fileOf
    BY <1>1, <2>1, <2>2 DEF MadeAs, Ours, HasJournal, HasNoPlaceholder
  <2>3. CASE HasJournal' = FALSE
    BY <1>1, <2>1, <2>3 DEF MadeAs, Ours, HasNoPlaceholder
  <2>4. QED BY <1>2, <2>2, <2>3
<1>4. QED BY <1>1, <1>3 DEF DocumentsMade

-----------------------------------------------------------------------------
(* Review sets *)

\* The targets an operation has made documents of.
KeysOf(o) == {docs[d].key : d \in {e \in Made : docs[e].op = o}}

\* The documents of an operation agree on the size of its review set, which is
\* that of the journal's items while it is unfinished.
SizesTrue ==
    \A d \in Made :
        /\ Cardinality(KeysOf(docs[d].op)) <= size[d]
        /\ \A e \in Made : docs[e].op = docs[d].op => size[e] = size[d]
        /\ Ours(d) => size[d] = Cardinality(journal.items)

\* An operation has made all it was to make and finished a document of each
\* target.  Once its journal has ended it can stop being whole, when a reviewer
\* trashes a document, but it does not become whole any more.
Whole(o) ==
    /\ \A k \in KeysOf(o) : \E d \in Made : Finished(d) /\ docs[d].op = o /\ docs[d].key = k
    /\ \A d \in Made : docs[d].op = o => size[d] = Cardinality(KeysOf(o))

\* As many names as things named.
LEMMA DistinctNames ==
    ASSUME NEW S, IsFiniteSet(S), NEW f, \A x, y \in S : f[x] = f[y] => x = y
    PROVE  /\ IsFiniteSet({f[x] : x \in S}) /\ Cardinality(S) \in Nat
           /\ Cardinality({f[x] : x \in S}) = Cardinality(S)
<1> DEFINE T == {f[x] : x \in S}
<1>1. PICK g : g = [x \in S |-> f[x]]
  OBVIOUS
<1>2. g \in [S -> T] /\ \A x \in S : g[x] = f[x]
  BY <1>1
<1>3. \A y \in T : \E x \in S : g[x] = y
  BY <1>2
<1>4. \A x, y \in S : g[x] = g[y] => x = y
  BY <1>2
<1> HIDE DEF T
<1>5. g \in Surjection(S, T) /\ g \in Injection(S, T)
  BY <1>2, <1>3, <1>4 DEF Surjection, Injection, IsInjective
<1>6. IsFiniteSet(T) /\ Cardinality(T) = Cardinality(S) /\ Cardinality(S) \in Nat
  BY <1>5, FS_Surjection, FS_CardinalityType
<1>7. QED BY <1>6 DEF T

\* The targets of an operation's documents can be counted.
LEMMA KeysFinite ==
    ASSUME DocumentsMade, NEW o
    PROVE  KeysOf(o) \in SUBSET Targets /\ IsFiniteSet(KeysOf(o)) /\ Cardinality(KeysOf(o)) \in Nat
<1>1. KeysOf(o) \subseteq Targets
  BY DEF KeysOf, DocumentsMade, MadeAs
<1>2. QED BY <1>1, RecoveryConstantsOK, PartCounted

\* The documents of one operation, each of another target.
LEMMA SetCounted ==
    ASSUME DocumentsMade, NEW o, \A d, e \in SetOf(o) : docs[d].key = docs[e].key => d = e
    PROVE  /\ {docs[d].key : d \in SetOf(o)} \in SUBSET KeysOf(o)
           /\ Cardinality(SetOf(o)) = Cardinality({docs[d].key : d \in SetOf(o)})
           /\ IsFiniteSet({docs[d].key : d \in SetOf(o)})
<1>1. SetOf(o) \subseteq Made /\ \A d \in SetOf(o) : docs[d].op = o
  BY DEF SetOf, Live, Made
<1>2. IsFiniteSet(SetOf(o))
  BY <1>1, PartCounted DEF DocumentsMade
<1>3. PICK S : S = SetOf(o)
  OBVIOUS
<1>4. PICK f : f = [d \in S |-> docs[d].key]
  OBVIOUS
<1>5. \A d \in S : f[d] = docs[d].key
  BY <1>4
<1>6. {f[d] : d \in S} = {docs[d].key : d \in S}
  BY <1>5
<1>7. IsFiniteSet({f[d] : d \in S}) /\ Cardinality({f[d] : d \in S}) = Cardinality(S)
  BY <1>2, <1>3, <1>5, DistinctNames
<1>8. {docs[d].key : d \in SetOf(o)} \subseteq KeysOf(o)
  BY <1>1 DEF KeysOf
<1>9. QED BY <1>3, <1>6, <1>7, <1>8

\* What the scan calls complete is whole,
LEMMA CompleteIsWhole ==
    ASSUME DocumentsMade, SizesTrue, NEW d \in Live, CompleteSet(docs[d].op)
    PROVE  Whole(docs[d].op)
<1>1. PICK o : o = docs[d].op
  OBVIOUS
<1>2. d \in SetOf(o) /\ d \in Made /\ SetOf(o) \subseteq Made
  BY <1>1 DEF SetOf, Live, Made
<1>3. \A e \in SetOf(o) : /\ Cardinality(SetOf(o)) = size[e] /\ Finished(e) /\ docs[e].op = o
                          /\ \A f \in SetOf(o) \ {e} : docs[f].key # docs[e].key
  BY <1>1 DEF CompleteSet, Finished, SetOf, Live
<1> DEFINE K == {docs[e].key : e \in SetOf(o)}
<1>4. K \in SUBSET KeysOf(o) /\ Cardinality(SetOf(o)) = Cardinality(K) /\ IsFiniteSet(K)
  BY <1>3, SetCounted
<1>5. Cardinality(KeysOf(o)) <= size[d]
  BY <1>1, <1>2 DEF SizesTrue
<1>6. K = KeysOf(o) /\ size[d] = Cardinality(KeysOf(o))
  <2>1. IsFiniteSet(KeysOf(o)) /\ Cardinality(KeysOf(o)) \in Nat
    BY KeysFinite
  <2>2. Cardinality(K) \in Nat /\ Cardinality(K) = size[d]
    BY <1>2, <1>3, <1>4, FS_CardinalityType
  <2> HIDE DEF K
  <2>3. Cardinality(K) <= Cardinality(KeysOf(o))
    BY <1>4, <2>1, FS_Subset
  <2>4. Cardinality(K) = Cardinality(KeysOf(o))
    BY <1>5, <2>1, <2>2, <2>3
  <2>5. QED BY <1>4, <2>1, <2>2, <2>4, FS_Subset
<1>7. \A k \in KeysOf(o) : \E e \in Made : Finished(e) /\ docs[e].op = o /\ docs[e].key = k
  BY <1>2, <1>3, <1>6
<1>8. \A e \in Made : docs[e].op = o => size[e] = Cardinality(KeysOf(o))
  BY <1>1, <1>2, <1>6 DEF SizesTrue
<1>9. QED BY <1>1, <1>7, <1>8 DEF Whole

\* and what is whole it calls complete, unless it is ambiguous.
LEMMA WholeIsComplete ==
    ASSUME DocumentsMade, ~DuplicateTarget, NEW o, Whole(o)
    PROVE  CompleteSet(o)
<1>1. SetOf(o) \subseteq Made /\ \A d \in SetOf(o) : d \in Live /\ docs[d].op = o /\ d \in DocIds
  BY DEF SetOf, Live, Made
<1>2. ASSUME NEW d \in SetOf(o), NEW e \in SetOf(o), docs[d].key = docs[e].key
      PROVE  d = e
  <2>1. docs[d].gen = docs[e].gen
    BY <1>1, <1>2 DEF DocumentsMade, MadeAs
  <2>2. QED BY <1>1, <1>2, <2>1 DEF DuplicateTarget
<1>3. ASSUME NEW k \in KeysOf(o)
      PROVE  \E d \in SetOf(o) : Finished(d) /\ docs[d].key = k
  BY <1>3 DEF Whole, SetOf, Live, Finished, Made
<1>4. ASSUME NEW d \in SetOf(o) PROVE Finished(d) /\ docs[d].key \in KeysOf(o)
  <2>1. docs[d].key \in KeysOf(o)
    BY <1>1 DEF KeysOf
  <2>2. QED BY <1>2, <1>3, <2>1
<1>5. {docs[d].key : d \in SetOf(o)} = KeysOf(o)
  BY <1>3, <1>4
<1>6. Cardinality(SetOf(o)) = Cardinality(KeysOf(o))
  <2>1. Cardinality(SetOf(o)) = Cardinality({docs[d].key : d \in SetOf(o)})
    BY <1>2, SetCounted
  <2>2. QED BY <1>5, <2>1
<1>7. ASSUME NEW d \in SetOf(o)
      PROVE  /\ Cardinality(SetOf(o)) = size[d]
             /\ docs[d].status = "ready" /\ docs[d].parent = "review"
             /\ \A e \in SetOf(o) \ {d} : docs[e].key # docs[d].key
  BY <1>1, <1>2, <1>4, <1>6 DEF Whole, Finished
<1>8. QED BY <1>7 DEF CompleteSet

\* The set of an operation whose journal has ended: no document is added to it
\* and none of it gets finished.
LEMMA ClosedSet ==
    ASSUME BaseInv, DocumentsMade, PublisherStep, NEW o, o # 0, o # journal'.op
    PROVE  /\ \A d \in Made' : docs'[d].op = o =>
                  d \in Made /\ docs[d].op = o /\ size'[d] = size[d] /\ docs'[d].key = docs[d].key
           /\ \A d \in Made : docs[d].op = o => d \in Made' /\ docs'[d].op = o
           /\ \A d \in Made' : docs'[d].op = o /\ Finished(d)' => Finished(d)
           /\ KeysOf(o)' = KeysOf(o)
<1>a. TypeInv /\ Position /\ DocsInv /\ [Next]_vars
  BY DEF BaseInv, PublisherStep
<1>1. PICK x : /\ \A d \in Made' : (d \in Made /\ Grown(d)) \/ (d = x /\ d \notin Made /\ NewMade(d))
               /\ Made \subseteq Made' /\ \A d \in Made : Grown(d)
  BY MadeKinds
<1>2. ASSUME NEW d \in Made', docs'[d].op = o
      PROVE  d \in Made /\ Grown(d)
  <2>1. CASE d \notin Made /\ NewMade(d)
    <3>1. d \in DocIds
      BY DEF Made
    <3>2. docs'[d].op = journal.op /\ journal'.op = journal.op
      BY <1>a, <2>1, <3>1, NewMadeIs
    <3>3. QED BY <1>2, <3>2
  <2>2. QED BY <1>1, <2>1
<1>3. ASSUME NEW d \in Made
      PROVE  docs'[d].op = docs[d].op /\ docs'[d].key = docs[d].key /\ size'[d] = size[d]
  <2>1. d \in DocIds /\ docs[d].st # "absent" /\ Grown(d)
    BY <1>1 DEF Made
  <2>2. QED BY <2>1 DEF Grown, Settles, PublisherStep
<1>4. ASSUME NEW d \in Made, docs[d].op = o, Finished(d)' PROVE Finished(d)
  <2>1. d \in DocIds /\ Grown(d) /\ MadeAs(d)
    BY <1>1 DEF Made, DocumentsMade
  <2>2. CASE CommitClear
    BY <1>4, <2>2 DEF CommitClear, Finished
  <2>3. CASE \E items \in SUBSET Targets : Start(items)
    BY <1>4, <2>3 DEF Start, Finished
  <2>4. CASE journal' = journal
    <3>1. ~Ours(d)
      BY <1>4, <2>4 DEF Ours
    <3>2. docs[d].status = "ready" /\ docs[d].parent = "review"
      BY <1>4, <2>1, <3>1 DEF Grown, Finished
    <3>3. docs[d].st = "live"
      BY <1>4, <2>1, <3>2 DEF Grown, Settles, Finished, MadeAs
    <3>4. QED BY <3>2, <3>3 DEF Finished
  <2>5. QED BY <1>a, <2>2, <2>3, <2>4, JournalKinds
<1>5. KeysOf(o)' = KeysOf(o)
  <2>1. KeysOf(o)' = {docs'[d].key : d \in {e \in Made' : docs'[e].op = o}}
    BY DEF KeysOf
  <2>2. {e \in Made' : docs'[e].op = o} = {e \in Made : docs[e].op = o}
    BY <1>1, <1>2, <1>3
  <2>3. \A e \in {e \in Made : docs[e].op = o} : docs'[e].key = docs[e].key
    BY <1>3
  <2>4. KeysOf(o)' = {docs'[d].key : d \in {e \in Made : docs[e].op = o}}
    BY <2>1, <2>2
  <2>5. QED BY <2>3, <2>4 DEF KeysOf
<1>6. QED BY <1>1, <1>2, <1>3, <1>4, <1>5

\* A document of the unfinished operation is of one of its items.
LEMMA OurKeys ==
    ASSUME BaseInv, DocumentsMade, HasJournal
    PROVE  /\ KeysOf(journal.op) \in SUBSET journal.items /\ IsFiniteSet(journal.items)
           /\ Cardinality(journal.items) \in Nat
           /\ Cardinality(KeysOf(journal.op)) <= Cardinality(journal.items)
           /\ Cardinality(KeysOf(journal.op)) = Cardinality(journal.items) =>
                 KeysOf(journal.op) = journal.items
<1>1. KeysOf(journal.op) \subseteq journal.items
  BY DEF KeysOf, Made, BaseInv, DocsInv, Announced, Ours
<1>2. IsFiniteSet(journal.items) /\ Cardinality(journal.items) \in Nat
  <2>1. journal.items \subseteq Targets
    BY DEF BaseInv, TypeInv, TypeOK, JournalTypeOK
  <2>2. QED BY <2>1, RecoveryConstantsOK, PartCounted
<1>3. PICK K : K = KeysOf(journal.op)
  OBVIOUS
<1>4. K \in SUBSET journal.items
  BY <1>1, <1>3
<1>5. /\ Cardinality(K) <= Cardinality(journal.items)
      /\ Cardinality(journal.items) = Cardinality(K) => journal.items = K
  BY <1>2, <1>4, FS_Subset
<1>6. QED BY <1>2, <1>3, <1>4, <1>5

\* A new document carries the size that the operation's others carry.
LEMMA SizesPublisher ==
    ASSUME BaseInv, DocumentsMade, SizesTrue, PublisherStep
    PROVE  SizesTrue'
<1>a. /\ TypeInv /\ Position /\ DocsInv /\ [Next]_vars /\ BaseInv' /\ DocumentsMade'
      /\ size \in [DocIds -> Nat]
  BY BasePublisher, MadePublisher DEF BaseInv, PublisherStep
<1>1. PICK x : /\ \A d \in Made' : (d \in Made /\ Grown(d)) \/ (d = x /\ d \notin Made /\ NewMade(d))
               /\ Made \subseteq Made' /\ \A d \in Made : Grown(d)
  BY MadeKinds
<1>2. ASSUME NEW d \in Made', Ours(d)'
      PROVE  journal' = journal /\ size'[d] = Cardinality(journal'.items)
  <2>1. CASE d \notin Made /\ NewMade(d)
    <3>1. d \in DocIds /\ docs[d].st = "absent" /\ docs'[d].st # "absent" /\ journal' = journal
      BY <2>1 DEF Made, NewMade
    <3>2. QED BY <3>1 DEF PublisherStep
  <2>2. CASE d \in Made /\ Grown(d)
    <3>1. d \in DocIds /\ docs[d].st # "absent" /\ docs'[d].op = docs[d].op
      BY <2>2 DEF Made, Grown, Settles
    <3>2. size'[d] = size[d]
      BY <3>1 DEF PublisherStep
    <3>3. CASE journal' = journal
      BY <1>2, <2>2, <3>1, <3>2, <3>3 DEF SizesTrue, Ours, HasJournal
    <3>4. CASE CommitClear
      BY <1>2, <3>4 DEF CommitClear, NoJournal, Ours, HasJournal
    <3>5. CASE \E items \in SUBSET Targets : Start(items)
      <4>1. journal'.op = ops + 1 /\ ops \in Nat
        BY <1>a, <3>5 DEF Start, TypeInv, TypeOK, CountTypeOK
      <4>2. docs[d].op <= ops /\ docs[d].op \in Nat
        BY <1>a, <3>1 DEF DocsInv, OperationsNumbered, TypeInv, TypeOK, DocsTypeOK, Documents
      <4>3. docs'[d].op = journal'.op
        BY <1>2 DEF Ours
      <4>4. QED BY <3>1, <4>1, <4>2, <4>3
    <3>6. QED BY <1>a, <3>3, <3>4, <3>5, JournalKinds
  <2>3. QED BY <1>1, <2>1, <2>2
<1>3. ASSUME NEW d \in Made', Ours(d)'
      PROVE  /\ Cardinality(KeysOf(docs[d].op))' <= size'[d]
             /\ \A e \in Made' : docs'[e].op = docs'[d].op => size'[e] = size'[d]
  <2>1. Cardinality(KeysOf(journal.op))' <= Cardinality(journal.items)'
    <3>1. KeysOf(journal.op)' \subseteq journal'.items
      BY <1>a, <1>3 DEF KeysOf, Made, BaseInv, DocsInv, Announced, Ours
    <3>2. journal'.items \subseteq Targets
      BY <1>a DEF BaseInv, TypeInv, TypeOK, JournalTypeOK
    <3>3. PICK K, I : K = KeysOf(journal.op)' /\ I = journal'.items
      OBVIOUS
    <3>4. IsFiniteSet(I) /\ K \in SUBSET I
      BY <3>1, <3>2, <3>3, RecoveryConstantsOK, PartCounted
    <3>5. Cardinality(K) <= Cardinality(I)
      BY <3>4, FS_Subset
    <3>6. QED BY <3>3, <3>5
  <2>2. KeysOf(docs[d].op)' = KeysOf(journal.op)'
    BY <1>3 DEF Ours
  <2>3. \A e \in Made' : docs'[e].op = docs'[d].op => Ours(e)'
    BY <1>3 DEF Ours
  <2>4. QED BY <1>2, <1>3, <2>1, <2>2, <2>3
<1>4. ASSUME NEW d \in Made', ~Ours(d)'
      PROVE  /\ Cardinality(KeysOf(docs[d].op))' <= size'[d]
             /\ \A e \in Made' : docs'[e].op = docs'[d].op => size'[e] = size'[d]
  <2>1. PICK o : o = docs'[d].op
    OBVIOUS
  <2>2. o # 0 /\ o # journal'.op
    <3>1. OperationsNumbered' /\ d \in DocIds /\ docs'[d].st # "absent"
      BY <1>a DEF BaseInv, DocsInv, Made
    <3>2. QED BY <1>4, <2>1, <3>1 DEF OperationsNumbered, Ours, HasJournal
  <2>3. /\ \A e \in Made' : docs'[e].op = o => e \in Made /\ docs[e].op = o /\ size'[e] = size[e]
        /\ KeysOf(o)' = KeysOf(o)
    BY <2>2, ClosedSet
  <2>4. d \in Made /\ docs[d].op = o /\ size'[d] = size[d]
    BY <2>1, <2>3
  <2>5. Cardinality(KeysOf(o)) <= size[d] /\ \A e \in Made : docs[e].op = o => size[e] = size[d]
    BY <2>4 DEF SizesTrue
  <2>6. Cardinality(KeysOf(docs[d].op))' = Cardinality(KeysOf(o))
    BY <2>1, <2>3
  <2>7. QED BY <2>1, <2>3, <2>4, <2>5, <2>6
<1>5. QED BY <1>2, <1>3, <1>4 DEF SizesTrue

\* Nothing but the publisher makes a document.
LEMMA SizesOtherwise ==
    ASSUME SizesTrue, StillStep \/ AbandonClear \/ \E abandon \in BOOLEAN : RecoverStep(abandon)
    PROVE  SizesTrue'
<1>1. docs' = docs /\ Made' = Made /\ size' = size
  BY DEF StillStep, AbandonClear, RecoverStep, SaveRecovered, Made
<1>2. journal' = journal \/ HasJournal' = FALSE
  BY DEF StillStep, AbandonClear, RecoverStep, SaveRecovered, journalVars, HasJournal, NoJournal
<1>3. QED BY <1>1, <1>2 DEF SizesTrue, KeysOf, Ours, HasJournal

-----------------------------------------------------------------------------
(* The records *)

InState(d) == \E r \in Recorded(docs[d].key) : r.file = d

\* A record has the generation of its document.
GenTrue ==
    \A t \in Targets : \A r \in Recorded(t) : r # NoTarget => docs[r.file].gen = r.gen

HistorySorted ==
    \A t \in Targets : \A i \in 1..Len(prior[t]) :
        /\ prior[t][i] # NoTarget /\ prior[t][i].gen < active[t].gen
        /\ \A j \in 1..(i - 1) : prior[t][j].gen < prior[t][i].gen

\* The unfinished operation makes a later generation than any other has.
JournalNewer ==
    HasJournal => \A t \in journal.items : \A r \in Recorded(t) :
        r # NoTarget /\ r.op # journal.op => r.gen < journal.gen[t]

\* What a reconcile would find of the operations that have ended is recorded.
WholeInState ==
    \A d \in Made : Finished(d) /\ docs[d].op # journal.op /\ Whole(docs[d].op) => InState(d)

\* A run that has saved, or a reconcile that abandons the operation, has
\* recorded what there is of it.
SavedInRun == pc \in {"committed", "clear"} => \A t \in journal.items : active[t].op = journal.op
AbandonedInState == abandoning => \A d \in Made : Finished(d) /\ Ours(d) => InState(d)

AllOrNone ==
    HasJournal =>
        \/ \A t \in journal.items : active[t].op = journal.op
        \/ \A t \in Targets : \A r \in Recorded(t) : r.op # journal.op

RecordsInv ==
    /\ GenTrue /\ HistorySorted /\ JournalNewer /\ WholeInState
    /\ SavedInRun /\ AbandonedInState /\ AllOrNone

MadeInv == BaseInv /\ DocumentsMade /\ SizesTrue

\* Every step keeps what the documents were made as.
LEMMA MadeInvKept ==
    ASSUME MadeInv, [NextAnyOrphan]_everything
    PROVE  MadeInv'
<1>1. CASE PublisherStep
  BY <1>1, BasePublisher, MadePublisher, SizesPublisher DEF MadeInv
<1>2. CASE StillStep
  BY <1>2, BaseStill, MadeOtherwise, SizesOtherwise DEF MadeInv
<1>3. CASE AbandonClear
  BY <1>3, BaseClear, MadeOtherwise, SizesOtherwise DEF MadeInv
<1>4. CASE \E abandon \in BOOLEAN : RecoverStep(abandon)
  BY <1>4, BaseRecover, MadeOtherwise, SizesOtherwise DEF MadeInv
<1>5. QED BY <1>1, <1>2, <1>3, <1>4, StepKinds DEF MadeInv

\* The records of a target, the active one and the earlier ones, by type.
LEMMA RecordTyped ==
    ASSUME TypeInv, NEW t \in Targets
    PROVE  /\ \A r \in Recorded(t) : r \in TargetRecords /\ r.gen \in Nat /\ r.op \in Nat
           /\ active[t] \in Recorded(t) /\ Len(prior[t]) \in Nat
           /\ \A i \in 1..Len(prior[t]) : prior[t][i] \in Recorded(t)
<1>1. active[t] \in TargetRecords /\ prior[t] \in Seq(TargetRecords)
  BY DEF TypeInv, TypeOK, StoreTypeOK
<1>2. \A r \in Recorded(t) : r \in TargetRecords
  BY <1>1 DEF Recorded
<1>3. QED BY <1>1, <1>2 DEF Recorded, TargetRecords

\* A record of the unfinished operation is of the document its journal names.
LEMMA OwnRecord ==
    ASSUME BaseInv, DocumentsMade, GenTrue, HasJournal, NEW t \in Targets,
           NEW r \in Recorded(t), r.op = journal.op
    PROVE  /\ r # NoTarget /\ r.file = fileOf[t] /\ r.file \in Made /\ r.gen = journal.gen[t]
           /\ t \in journal.items
<1>1. r # NoTarget
  BY DEF NoTarget, HasJournal
<1>2. /\ r.file \in DocIds /\ Visible(r.file) /\ docs[r.file].op = journal.op
      /\ docs[r.file].key = t /\ docs[r.file].status = "ready"
  BY <1>1 DEF BaseInv, RecordsTrue, RecordTrue
<1>3. r.file \in Made /\ Ours(r.file) /\ MadeAs(r.file)
  BY <1>2 DEF Made, Visible, Ours, DocumentsMade
<1>4. t \in journal.items
  BY <1>2, <1>3 DEF BaseInv, DocsInv, Announced
<1>5. docs[r.file].gen = r.gen
  BY <1>1 DEF GenTrue
<1>6. QED BY <1>1, <1>2, <1>3, <1>4, <1>5 DEF MadeAs

\* A target without active record has no prior one.
LEMMA NothingPrior ==
    ASSUME TypeInv, HistorySorted, NEW t \in Targets, active[t] = NoTarget
    PROVE  Recorded(t) = {NoTarget} /\ Len(prior[t]) = 0
<1>1. Len(prior[t]) \in Nat
  BY RecordTyped
<1>2. \A i \in 1..Len(prior[t]) : prior[t][i].gen \in Nat /\ prior[t][i].gen < 0
  BY RecordTyped DEF HistorySorted, NoTarget
<1>3. \A i \in 1..Len(prior[t]) : FALSE
  BY <1>2
<1>4. Len(prior[t]) = 0
  BY <1>1, <1>3
<1>5. QED BY <1>4 DEF Recorded

\* A save keeps each document in the state file.
LEMMA PublisherKeepsFiles ==
    ASSUME BaseInv, DocumentsMade, GenTrue, [Next]_vars, NEW t \in Targets, NEW d \in DocIds,
           NEW r \in Recorded(t), r.file = d
    PROVE  \E q \in Recorded(t)' : q.file = d
<1>a. TypeInv
  BY DEF BaseInv
<1>1. CASE ~CommitSave
  BY <1>a, <1>1, OnlySavesChangeRecords DEF Recorded
<1>2. CASE CommitSave
  <2>1. HasJournal
    BY <1>2, <1>a DEF CommitSave, SaveFrame, TypeInv, RunHasJournal
  <2>2. r # NoTarget
    BY ConstantsOK DEF NoTarget
  <2>3. CASE t \notin journal.items
    <3>1. active'[t] = active[t] /\ prior'[t] = prior[t]
      BY <1>a, <1>2, <2>3, SaveRecords
    <3>2. Recorded(t)' = Recorded(t)
      BY <3>1 DEF Recorded
    <3>3. QED BY <3>2
  <2>4. CASE t \in journal.items /\ r.op = journal.op
    <3>1. active'[t] = NewTarget(t) /\ NewTarget(t).file = fileOf[t]
      BY <1>a, <1>2, <2>4, SaveRecords DEF NewTarget
    <3>2. active'[t].file = d
      BY <2>1, <2>4, <3>1, OwnRecord
    <3>3. QED BY <3>2 DEF Recorded
  <2>5. CASE t \in journal.items /\ r.op # journal.op
    <3>1. PICK a, p : a = active[t] /\ p = prior[t]
      OBVIOUS
    <3>2. /\ a \in TargetRecords /\ p \in Seq(TargetRecords)
          /\ \/ a # NoTarget /\ a.op # journal.op /\ prior'[t] = Append(p, a)
             \/ (a = NoTarget \/ a.op = journal.op) /\ prior'[t] = p
      BY <1>a, <1>2, <2>5, <3>1, SaveRecords
    <3>3. r = a \/ r \in {p[i] : i \in 1..Len(p)}
      BY <3>1 DEF Recorded
    <3>4. r \in {prior'[t][i] : i \in 1..Len(prior'[t])}
      <4>1. CASE prior'[t] = Append(p, a)
        BY <3>2, <3>3, <4>1, RecordedAppend
      <4>2. CASE (a = NoTarget \/ a.op = journal.op) /\ prior'[t] = p
        BY <2>2, <2>5, <3>3, <4>2
      <4>3. QED BY <3>2, <4>1, <4>2
    <3>5. r \in Recorded(t)'
      BY <3>4 DEF Recorded
    <3>6. QED BY <3>5
  <2>6. QED BY <2>3, <2>4, <2>5
<1>3. QED BY <1>1, <1>2

\* A run that has saved has done it in this step or before.
LEMMA SavedLabels ==
    ASSUME TypeInv, Position, [Next]_vars, pc' \in {"committed", "clear"}
    PROVE  CommitSave \/ (pc \in {"committed", "clear"} /\ journal' = journal /\ ~CommitSave)
<1>a. TypeOK'
  BY NextLayers DEF TypeInv
<1>1. ASSUME NEW t \in Targets, LoopStep(t), RunStep, ~CommitSave
      PROVE  pc \in {"committed", "clear"} /\ journal' = journal
  <2>1. Phase' = Phase /\ journal' = journal
    BY <1>1 DEF LoopStep
  <2>2. Phase' = 8
    BY DEF Phase, CreateLabels
  <2>3. pc \in {"save", "committed", "clear"}
    BY <2>1, <2>2 DEF Phase, TypeInv, TypeOK, RunTypeOK, Labels, CreateLabels
  <2>4. QED BY <1>1, <2>1, <2>3, RunStepRuns
<1>2. ASSUME NEW t \in Targets, CreateStep(t) \/ LinksStep(t) \/ CaptureStep(t) \/ ReadyStep(t)
                                  \/ MoveStep(t) \/ SealStep(t), ~CommitSave
      PROVE  pc \in {"committed", "clear"} /\ journal' = journal
  <2>1. LoopStep(t)
    BY <1>a, <1>2, CreateLoops, LinksLoops, CaptureLoops, ReadyLoops, MoveLoops, SealLoops
  <2>2. QED BY <1>1, <1>2, <2>1 DEF RunStep
<1>3. ASSUME NEW t \in Targets, CommitBegin(t) \/ CommitRecord(t), ~CommitSave
      PROVE  pc \in {"committed", "clear"} /\ journal' = journal
  BY <1>a, <1>1, <1>3, CommitLoops DEF RunStep, CommitStep
<1>4. ASSUME NextLoop
      PROVE  pc \in {"committed", "clear"} /\ journal' = journal
  BY <1>4, NextLoopMoves DEF NextLoop, OnlyRun, OnlyStage
<1>5. ~CommitClear /\ ~Interrupt /\ ~Resume /\ \A items \in SUBSET Targets : ~Start(items)
  BY DEF CommitClear, Interrupt, StopRun, Resume, Start
<1>6. ASSUME Environment \/ UNCHANGED vars
      PROVE  pc \in {"committed", "clear"} /\ journal' = journal
  BY <1>6 DEF Environment, CreateLands, ReviewerEdits, ReviewerTrashes, ReviewerActs, vars,
     runVars, durable, journalVars
<1>7. QED BY <1>2, <1>3, <1>4, <1>5, <1>6 DEF Next, RunStep, CommitStep

\* A save adds the documents of one whole operation, newer than all before.
LEMMA RecordsSaved ==
    ASSUME MadeInv, RecordsInv, CommitSave
    PROVE  GenTrue' /\ HistorySorted' /\ JournalNewer' /\ SavedInRun' /\ AllOrNone'
<1>a. /\ TypeInv /\ Position /\ DocsInv /\ BaseInv /\ DocumentsMade /\ GenTrue
      /\ docs' = docs /\ journal' = journal /\ HasJournal /\ pc' = "committed"
  BY DEF MadeInv, BaseInv, RecordsInv, CommitSave, SaveFrame, journalVars, TypeInv, RunHasJournal
<1>1. ASSUME NEW t \in Targets, NEW r \in Recorded(t)'
      PROVE  r \in Recorded(t) \/ (t \in journal.items /\ r = NewTarget(t))
  BY <1>a, SavedRecords
<1>2. ASSUME NEW t \in journal.items
      PROVE  /\ t \in Targets /\ active'[t] = NewTarget(t)
             /\ NewTarget(t).op = journal.op /\ NewTarget(t).gen = journal.gen[t]
             /\ docs[NewTarget(t).file].gen = journal.gen[t]
  <2>1. t \in Targets
    BY <1>a DEF TypeInv, TypeOK, JournalTypeOK
  <2>2. RecordTrue(t, NewTarget(t))
    BY <1>a, SavedRecordTrue
  <2>3. PICK d : d = NewTarget(t).file
    OBVIOUS
  <2>4. d \in Made /\ docs[d].op = journal.op /\ docs[d].key = t
    BY <2>2, <2>3 DEF RecordTrue, NewTarget, Made, Visible
  <2>5. docs[d].gen = journal.gen[t]
    BY <1>a, <2>4 DEF DocumentsMade, MadeAs, Ours
  <2>6. QED BY <1>a, <2>1, <2>3, <2>5, SaveRecords DEF NewTarget
<1>3. GenTrue'
  <2>1. ASSUME NEW t \in Targets, NEW r \in Recorded(t)', r # NoTarget
        PROVE  docs'[r.file].gen = r.gen
    BY <1>a, <1>1, <1>2, <2>1 DEF GenTrue
  <2>2. QED BY <2>1 DEF GenTrue
<1>4. JournalNewer'
  <2>1. ASSUME NEW t \in journal.items, NEW r \in Recorded(t)', r # NoTarget, r.op # journal.op
        PROVE  r.gen < journal.gen[t]
    BY <1>a, <1>1, <1>2, <2>1 DEF JournalNewer, RecordsInv
  <2>2. QED BY <1>a, <2>1 DEF JournalNewer
<1>5. \A t \in journal.items : active'[t].op = journal.op
  BY <1>2
<1>6. ASSUME NEW t \in Targets, NEW i \in 1..Len(prior'[t])
      PROVE  /\ prior'[t][i] # NoTarget /\ prior'[t][i].gen < active'[t].gen
             /\ \A j \in 1..(i - 1) : prior'[t][j].gen < prior'[t][i].gen
  <2>0. PICK a, p : a = active[t] /\ p = prior[t]
    OBVIOUS
  <2>1. /\ a \in TargetRecords /\ p \in Seq(TargetRecords) /\ Len(p) \in Nat /\ a.gen \in Nat
        /\ \A k \in 1..Len(p) : p[k].gen \in Nat
    BY <1>a, <2>0, SaveRecords, RecordTyped
  <2>2. \A k \in 1..Len(p) : /\ p[k] # NoTarget /\ p[k].gen < a.gen
                             /\ \A j \in 1..(k - 1) : p[j].gen < p[k].gen
    BY <2>0 DEF RecordsInv, HistorySorted
  <2>3. CASE t \notin journal.items
    <3>1. active'[t] = a /\ prior'[t] = p
      BY <1>a, <2>0, <2>3, SaveRecords
    <3>2. QED BY <1>6, <2>2, <3>1
  <2>4. CASE t \in journal.items /\ a # NoTarget /\ a.op # journal.op
    <3>1. prior'[t] = Append(p, a) /\ active'[t].gen = journal.gen[t]
      BY <1>2, <1>a, <2>0, <2>4, SaveRecords
    <3>2. /\ Len(Append(p, a)) = Len(p) + 1
          /\ \A k \in 1..Len(p) : Append(p, a)[k] = p[k]
          /\ Append(p, a)[Len(p) + 1] = a
      BY <2>1, RecordedAppend
    <3>3. a.gen < journal.gen[t] /\ journal.gen[t] \in Nat
      <4>1. a \in Recorded(t)
        BY <2>0 DEF Recorded
      <4>2. QED BY <1>a, <2>0, <2>4, <4>1 DEF RecordsInv, JournalNewer, TypeInv, TypeOK, JournalTypeOK
    <3>4. CASE i \in 1..Len(p)
      <4>1. prior'[t][i] = p[i] /\ \A j \in 1..(i - 1) : j \in 1..Len(p)
        BY <2>1, <3>1, <3>2, <3>4
      <4>2. \A j \in 1..(i - 1) : prior'[t][j] = p[j]
        BY <3>1, <3>2, <4>1
      <4>3. p[i].gen < journal.gen[t]
        BY <2>1, <2>2, <3>3, <3>4
      <4>4. QED BY <2>2, <3>1, <3>4, <4>1, <4>2, <4>3
    <3>5. CASE i = Len(p) + 1
      <4>1. prior'[t][i] = a /\ \A j \in 1..(i - 1) : j \in 1..Len(p)
        BY <2>1, <3>1, <3>2, <3>5
      <4>2. \A j \in 1..(i - 1) : prior'[t][j] = p[j]
        BY <3>1, <3>2, <4>1
      <4>3. QED BY <2>2, <2>4, <3>1, <3>3, <4>1, <4>2
    <3>6. i \in 1..(Len(p) + 1)
      BY <1>6, <3>1, <3>2
    <3>7. QED BY <2>1, <3>4, <3>5, <3>6, SMTT(30)
  <2>5. CASE t \in journal.items /\ a = NoTarget
    <3>1. prior'[t] = p
      BY <1>a, <2>0, <2>5, SaveRecords
    <3>2. Len(p) = 0
      BY <1>a, <2>0, <2>5, NothingPrior DEF RecordsInv
    <3>3. QED BY <1>6, <3>1, <3>2
  <2>6. CASE t \in journal.items /\ a.op = journal.op
    <3>1. prior'[t] = p /\ active'[t].gen = journal.gen[t]
      BY <1>2, <1>a, <2>0, <2>6, SaveRecords
    <3>2. a.gen = journal.gen[t]
      <4>1. a \in Recorded(t)
        BY <2>0 DEF Recorded
      <4>2. QED BY <1>a, <2>6, <4>1, OwnRecord
    <3>3. QED BY <1>6, <2>2, <3>1, <3>2
  <2>7. QED BY <2>3, <2>4, <2>5, <2>6
<1>7. QED BY <1>3, <1>4, <1>5, <1>6, <1>a DEF HistorySorted, SavedInRun, AllOrNone

\* The steps of the publisher but the save.
LEMMA RecordsUnsaved ==
    ASSUME MadeInv, RecordsInv, PublisherStep, ~CommitSave
    PROVE  GenTrue' /\ HistorySorted' /\ JournalNewer' /\ SavedInRun' /\ AllOrNone'
<1>a. /\ TypeInv /\ Position /\ DocsInv /\ BaseInv /\ DocumentsMade /\ GenTrue /\ [Next]_vars
      /\ active' = active /\ prior' = prior
  BY OnlySavesChangeRecords DEF MadeInv, BaseInv, RecordsInv, PublisherStep
<1>b. \A t : Recorded(t)' = Recorded(t)
  BY <1>a DEF Recorded
<1>1. ASSUME NEW t \in Targets, NEW r \in Recorded(t), r # NoTarget
      PROVE  /\ docs'[r.file].gen = docs[r.file].gen /\ r.file \in Made
             /\ r.op <= ops
  <2>1. RecordTrue(t, r)
    BY <1>1, <1>a DEF BaseInv, RecordsTrue
  <2>2. PICK d : d = r.file
    OBVIOUS
  <2>3. d \in Made /\ docs[d].op = r.op
    BY <2>1, <2>2 DEF RecordTrue, Made, Visible
  <2>4. Grown(d)
    BY <2>3, <1>a, MadeKinds
  <2>5. docs[d].op <= ops
    BY <1>a, <2>3 DEF DocsInv, OperationsNumbered, Made
  <2>6. QED BY <2>2, <2>3, <2>4, <2>5 DEF Grown
<1>2. GenTrue'
  <2>1. ASSUME NEW t \in Targets, NEW r \in Recorded(t), r # NoTarget
        PROVE  docs'[r.file].gen = r.gen
    BY <1>a, <1>1, <2>1 DEF GenTrue
  <2>2. QED BY <1>b, <2>1 DEF GenTrue
<1>3. HistorySorted'
  BY <1>a DEF RecordsInv, HistorySorted
<1>4. CASE \E items \in SUBSET Targets : Start(items)
  <2>1. PICK items \in SUBSET Targets : Start(items)
    BY <1>4
  <2>2. /\ journal'.op = ops + 1 /\ journal'.items = items /\ ops \in Nat /\ pc' = "create"
        /\ \A t \in items : journal'.gen[t] = active[t].gen + 1
    BY <1>a, <2>1 DEF Start, TypeInv, TypeOK, CountTypeOK
  <2>3. ASSUME NEW t \in items, NEW r \in Recorded(t), r # NoTarget
        PROVE  r.gen < active[t].gen + 1
    <3>1. r.gen \in Nat /\ active[t].gen \in Nat
      BY <1>a, RecordTyped
    <3>2. r.gen <= active[t].gen
      BY <3>1 DEF Recorded, RecordsInv, HistorySorted
    <3>3. QED BY <3>1, <3>2
  <2>4. ASSUME NEW t \in Targets, NEW r \in Recorded(t)
        PROVE  r.op # ops + 1
    <3>1. r.op \in Nat /\ (r # NoTarget => r.op <= ops)
      BY <1>a, <1>1, RecordTyped
    <3>2. NoTarget.op = 0
      BY DEF NoTarget
    <3>3. QED BY <2>2, <3>1, <3>2
  <2>5. JournalNewer'
    BY <1>b, <2>2, <2>3 DEF JournalNewer
  <2>6. SavedInRun' /\ AllOrNone'
    BY <1>b, <2>2, <2>4 DEF SavedInRun, AllOrNone
  <2>7. QED BY <1>2, <1>3, <2>5, <2>6
<1>5. CASE CommitClear
  <2>1. HasJournal' = FALSE /\ pc' = "idle"
    BY <1>5 DEF CommitClear, HasJournal, NoJournal, StopRun
  <2>2. QED BY <1>2, <1>3, <2>1 DEF JournalNewer, SavedInRun, AllOrNone
<1>6. CASE journal' = journal
  <2>1. JournalNewer' /\ AllOrNone'
    BY <1>a, <1>b, <1>6 DEF RecordsInv, JournalNewer, AllOrNone, HasJournal
  <2>2. SavedInRun'
    <3>1. pc' \in {"committed", "clear"} => pc \in {"committed", "clear"}
      BY <1>a, SavedLabels
    <3>2. QED BY <1>a, <1>6, <3>1 DEF RecordsInv, SavedInRun
  <2>3. QED BY <1>2, <1>3, <2>1, <2>2
<1>7. QED BY <1>a, <1>4, <1>5, <1>6, JournalKinds

\* What was not whole when its journal ended does not become whole.
LEMMA WholeBefore ==
    ASSUME BaseInv, DocumentsMade, PublisherStep, NEW o, o # 0, o # journal'.op, Whole(o)'
    PROVE  Whole(o)
<1>1. /\ \A d \in Made' : docs'[d].op = o =>
            d \in Made /\ docs[d].op = o /\ size'[d] = size[d] /\ docs'[d].key = docs[d].key
      /\ \A d \in Made : docs[d].op = o => d \in Made' /\ docs'[d].op = o
      /\ \A d \in Made' : docs'[d].op = o /\ Finished(d)' => Finished(d)
      /\ KeysOf(o)' = KeysOf(o)
  BY ClosedSet
<1>2. ASSUME NEW k \in KeysOf(o)
      PROVE  \E d \in Made : Finished(d) /\ docs[d].op = o /\ docs[d].key = k
  <2>1. PICK d \in Made' : Finished(d)' /\ docs'[d].op = o /\ docs'[d].key = k
    BY <1>1, <1>2 DEF Whole
  <2>2. QED BY <1>1, <2>1
<1>3. ASSUME NEW d \in Made, docs[d].op = o
      PROVE  size[d] = Cardinality(KeysOf(o))
  BY <1>1, <1>3 DEF Whole
<1>4. QED BY <1>2, <1>3 DEF Whole

\* The documents of an operation that has been saved are recorded.
LEMMA SavedDocuments ==
    ASSUME BaseInv, DocumentsMade, GenTrue, HasJournal,
           \A t \in journal.items : active[t].op = journal.op,
           NEW d \in Made, Finished(d), Ours(d)
    PROVE  InState(d)
<1>1. docs[d].key \in journal.items /\ docs[d].key \in Targets
  BY DEF BaseInv, DocsInv, Announced, Made, DocumentsMade, MadeAs
<1>2. PICK t \in Targets : t = docs[d].key
  BY <1>1
<1>3. fileOf[t] = d
  BY <1>2 DEF DocumentsMade, MadeAs, Finished
<1>4. active[t] \in Recorded(t)
  BY DEF Recorded
<1>5. active[t].file = fileOf[t]
  BY <1>1, <1>2, <1>4, OwnRecord
<1>6. QED BY <1>2, <1>3, <1>4, <1>5 DEF InState

\* What Google and the reviewers leave alone.
LEMMA EnvironmentLeaves ==
    ASSUME TypeInv, Environment
    PROVE  /\ UNCHANGED <<journal, active, prior, fileOf, pc>>
           /\ \A d \in DocIds : /\ docs'[d].status = docs[d].status
                                /\ docs'[d].parent = docs[d].parent
<1>1. UNCHANGED <<journal, active, prior, fileOf, pc>>
  BY DEF Environment, CreateLands, ReviewerEdits, ReviewerTrashes, ReviewerActs, durable,
     journalVars, stateVars, runVars
<1>2. PICK e \in DocIds : CreateLands(e) \/ ReviewerEdits(e) \/ ReviewerTrashes(e)
  BY DEF Environment
<1>3. docs[e] \in Documents
  BY DEF TypeInv, TypeOK, DocsTypeOK
<1>4. \E r : /\ docs' = [docs EXCEPT ![e] = r]
             /\ r.status = docs[e].status /\ r.parent = docs[e].parent
  <2>1. CASE CreateLands(e)
    <3>1. PICK r : r = [docs[e] EXCEPT !.st = "live"]
      OBVIOUS
    <3>2. docs' = [docs EXCEPT ![e] = r] /\ r.status = docs[e].status /\ r.parent = docs[e].parent
      BY <1>3, <2>1, <3>1 DEF CreateLands, Documents
    <3>3. QED BY <3>2
  <2>2. CASE ReviewerTrashes(e)
    <3>1. PICK r : r = [docs[e] EXCEPT !.st = "trashed"]
      OBVIOUS
    <3>2. docs' = [docs EXCEPT ![e] = r] /\ r.status = docs[e].status /\ r.parent = docs[e].parent
      BY <1>3, <2>2, <3>1 DEF ReviewerTrashes, Documents
    <3>3. QED BY <3>2
  <2>3. CASE ReviewerEdits(e)
    <3>1. PICK gone \in SUBSET Targets : docs' = [docs EXCEPT ![e] = Revised(docs[e],
                  [u \in Targets |-> IF u \in gone THEN NoDoc ELSE docs[e].link[u]])]
      BY <2>3 DEF ReviewerEdits
    <3>2. PICK l : l = [u \in Targets |-> IF u \in gone THEN NoDoc ELSE docs[e].link[u]]
      OBVIOUS
    <3>3. PICK r : r = Revised(docs[e], l)
      OBVIOUS
    <3>4. docs' = [docs EXCEPT ![e] = r] /\ r.status = docs[e].status /\ r.parent = docs[e].parent
      BY <1>3, <3>1, <3>2, <3>3 DEF Revised, Documents
    <3>5. QED BY <3>4
  <2>4. QED BY <1>2, <2>1, <2>2, <2>3
<1>5. QED BY <1>1, <1>4 DEF TypeInv, TypeOK, DocsTypeOK

\* A step of the publisher keeps the records whole and ordered.
LEMMA RecordsPublisher ==
    ASSUME MadeInv, RecordsInv, PublisherStep
    PROVE  RecordsInv'
<1>a. /\ TypeInv /\ Position /\ DocsInv /\ BaseInv /\ DocumentsMade /\ GenTrue /\ [Next]_vars
      /\ BaseInv' /\ DocumentsMade'
  BY BasePublisher, MadePublisher DEF MadeInv, BaseInv, RecordsInv, PublisherStep
<1>1. GenTrue' /\ HistorySorted' /\ JournalNewer' /\ SavedInRun' /\ AllOrNone'
  BY RecordsSaved, RecordsUnsaved
<1>2. ASSUME NEW d \in Made, docs'[d].key = docs[d].key, InState(d)
      PROVE  InState(d)'
  <2>1. PICK t \in Targets : t = docs[d].key
    BY <1>a DEF DocumentsMade, MadeAs
  <2>2. d \in DocIds
    BY DEF Made
  <2>3. \E q \in Recorded(t)' : q.file = d
    BY <1>2, <1>a, <2>1, <2>2, PublisherKeepsFiles DEF InState
  <2>4. QED BY <1>2, <2>1, <2>3 DEF InState
<1>3. ASSUME NEW d \in Made', Finished(d)', docs'[d].op # journal'.op, Whole(docs[d].op)'
      PROVE  InState(d)'
  <2>1. PICK o : o = docs'[d].op
    OBVIOUS
  <2>2. o # 0 /\ o # journal'.op /\ Whole(o)'
    BY <1>3, <1>a, <2>1 DEF BaseInv, DocsInv, OperationsNumbered, Made
  <2>3. /\ d \in Made /\ docs[d].op = o /\ docs'[d].key = docs[d].key /\ Finished(d)
    BY <1>3, <1>a, <2>1, <2>2, ClosedSet
  <2>4. Whole(o)
    BY <1>a, <2>2, WholeBefore
  <2>5. InState(d)
    <3>1. CASE o # journal.op
      BY <2>3, <2>4, <3>1 DEF RecordsInv, WholeInState
    <3>2. CASE o = journal.op
      <4>1. HasJournal /\ Ours(d) /\ journal' # journal
        BY <2>2, <2>3, <3>2 DEF HasJournal, Ours
      <4>2. CommitClear
        BY <1>a, <4>1, JournalKinds DEF Start
      <4>3. \A t \in journal.items : active[t].op = journal.op
        BY <4>2 DEF CommitClear, RecordsInv, SavedInRun
      <4>4. QED BY <1>a, <2>3, <4>1, <4>3, SavedDocuments
    <3>3. QED BY <3>1, <3>2
  <2>6. QED BY <1>2, <2>3, <2>5
<1>4. WholeInState'
  BY <1>3 DEF WholeInState
<1>5. AbandonedInState'
  <2>1. SUFFICES ASSUME abandoning, NEW d \in Made', Finished(d)', Ours(d)' PROVE InState(d)'
    BY DEF AbandonedInState, PublisherStep
  <2>2. CASE UNCHANGED vars
    BY <2>1, <2>2 DEF vars, journalVars, stateVars, RecordsInv, AbandonedInState, Made, Finished,
       Ours, HasJournal, InState, Recorded
  <2>3. CASE Environment
    <3>1. journal' = journal /\ docs'[d].status = docs[d].status /\ docs'[d].parent = docs[d].parent
      BY <1>a, <2>3, EnvironmentLeaves DEF Made
    <3>2. d \in DocIds /\ Settles(d) /\ docs'[d].st = "live"
      BY <1>a, <2>1, <2>3, EnvironmentSettles DEF Settled, Made, Finished
    <3>3. d \in Made /\ docs[d].st \in {"live", "inflight"}
      BY <3>2 DEF Settles, Made
    <3>4. Finished(d) /\ Ours(d)
      BY <1>a, <2>1, <3>1, <3>2, <3>3 DEF Finished, Ours, Settles, HasJournal, DocumentsMade, MadeAs
    <3>5. InState(d)
      BY <2>1, <3>3, <3>4 DEF RecordsInv, AbandonedInState
    <3>6. QED BY <1>2, <3>2, <3>3, <3>5 DEF Settles
  <2>4. QED BY <2>1, <2>2, <2>3 DEF PublisherStep
<1>6. QED BY <1>1, <1>4, <1>5 DEF RecordsInv

\* A reconcile records what is whole.
LEMMA RecoverFinds ==
    ASSUME MadeInv, NEW abandon \in BOOLEAN, RecoverStep(abandon),
           NEW d \in Live, CompleteSet(docs[d].op) \/ Whole(docs[d].op)
    PROVE  /\ docs[d].key \in Targets /\ d \in RecoveredDocs(docs[d].key)
           /\ RecoveredTarget(d) \in Recorded(docs[d].key)' /\ RecoveredTarget(d).file = d
           /\ InState(d)'
<1>a. /\ TypeInv /\ DocumentsMade /\ OperationsNumbered
      /\ ~DuplicateTarget /\ SaveRecovered(abandon) /\ docs' = docs
  BY DEF MadeInv, BaseInv, DocsInv, RecoverStep, SaveRecovered
<1>1. CompleteSet(docs[d].op)
  BY <1>a, WholeIsComplete
<1>2. docs[d].key \in Targets
  BY <1>a DEF Live, Made, DocumentsMade, MadeAs
<1>3. d \in RecoveredDocs(docs[d].key)
  BY <1>1 DEF RecoveredDocs
<1>4. RecoveredTarget(d) \in Recorded(docs[d].key)'
  <2>1. PICK t \in Targets : t = docs[d].key
    BY <1>2
  <2>2. RecoveredTarget(d) \in Recorded(t)'
    BY <1>3, <1>a, <2>1, RecoveredRecords
  <2>3. QED BY <1>a, <2>1, <2>2
<1>5. RecoveredTarget(d).file = d
  BY DEF RecoveredTarget
<1>6. QED BY <1>2, <1>3, <1>4, <1>5, <1>a DEF InState

\* A recovered state has the sets that are whole, sorted by generation.
LEMMA RecordsRecover ==
    ASSUME MadeInv, RecordsInv, NEW abandon \in BOOLEAN, RecoverStep(abandon)
    PROVE  RecordsInv'
<1>a. /\ TypeInv /\ DocsInv /\ BaseInv /\ DocumentsMade /\ SizesTrue /\ OperationsNumbered
      /\ ~DuplicateTarget /\ SaveRecovered(abandon)
      /\ docs' = docs /\ journal' = journal /\ size' = size /\ pc' = pc /\ pc = "idle"
      /\ abandoning' = (abandon /\ HasJournal)
  BY DEF MadeInv, BaseInv, DocsInv, RecoverStep, SaveRecovered, Unlocked, journalVars, runVars
<1>1. ASSUME NEW t \in Targets, NEW r \in Recorded(t)', r # NoTarget
      PROVE  \E d \in RecoveredDocs(t) : r = RecoveredTarget(d)
  BY <1>a, <1>1, RecoveredRecords
<1>2. ASSUME NEW t, NEW d \in RecoveredDocs(t)
      PROVE  /\ d \in Made /\ d \in Live /\ Finished(d) /\ docs[d].key = t
             /\ CompleteSet(docs[d].op) /\ Whole(docs[d].op)
             /\ RecoveredTarget(d).file = d /\ RecoveredTarget(d).op = docs[d].op
             /\ RecoveredTarget(d).gen = docs[d].gen
  <2>1. d \in Live /\ CompleteSet(docs[d].op)
    BY DEF RecoveredDocs
  <2>2. QED BY <1>a, <2>1, RecoveredFinished, CompleteIsWhole DEF RecoveredTarget
<1>3. GenTrue'
  <2>1. ASSUME NEW t \in Targets, NEW r \in Recorded(t)', r # NoTarget
        PROVE  docs'[r.file].gen = r.gen
    BY <1>1, <1>2, <1>a, <2>1
  <2>2. QED BY <2>1 DEF GenTrue
<1>4. HistorySorted'
  <2>1. ASSUME NEW t \in Targets
        PROVE  \A i \in 1..Len(prior'[t]) :
                  /\ prior'[t][i] # NoTarget /\ prior'[t][i].gen < active'[t].gen
                  /\ \A j \in 1..(i - 1) : prior'[t][j].gen < prior'[t][i].gen
    BY <1>a, RecoveredRecords
  <2>2. QED BY <2>1 DEF HistorySorted
<1>5. ASSUME HasJournal, NEW t \in journal.items, NEW r \in Recorded(t)', r # NoTarget,
             r.op # journal.op
      PROVE  r.gen < journal.gen[t]
  <2>1. t \in Targets
    BY <1>a DEF TypeInv, TypeOK, JournalTypeOK
  <2>2. PICK d \in RecoveredDocs(t) : r = RecoveredTarget(d)
    BY <1>1, <1>5, <2>1
  <2>3. /\ d \in Made /\ Finished(d) /\ docs[d].key = t /\ Whole(docs[d].op)
        /\ docs[d].op = r.op /\ docs[d].gen = r.gen /\ d \in DocIds
    BY <1>2, <2>2 DEF Made
  <2>4. PICK q \in Recorded(t) : q.file = d
    BY <1>5, <2>3 DEF RecordsInv, WholeInState, InState
  <2>5. q # NoTarget
    BY <2>3, <2>4, ConstantsOK DEF NoTarget
  <2>6. q.op = docs[d].op /\ q.gen = docs[d].gen
    BY <1>a, <2>1, <2>4, <2>5 DEF BaseInv, RecordsTrue, RecordTrue, RecordsInv, GenTrue
  <2>7. QED BY <1>5, <2>3, <2>4, <2>5, <2>6 DEF RecordsInv, JournalNewer
<1>6. JournalNewer'
  BY <1>5, <1>a DEF JournalNewer, HasJournal
<1>7. WholeInState'
  <2>1. ASSUME NEW d \in Made, Finished(d), Whole(docs[d].op) PROVE InState(d)'
    BY <2>1, RecoverFinds DEF Finished, Live, Made
  <2>2. Made' = Made /\ \A d \in Made : (Finished(d)' <=> Finished(d))
    BY <1>a DEF Made, Finished
  <2>3. \A d \in Made : (Whole(docs[d].op)' <=> Whole(docs[d].op))
    BY <1>a DEF Whole, KeysOf, Made, Finished
  <2>4. QED BY <2>1, <2>2, <2>3 DEF WholeInState
<1>8. SavedInRun'
  BY <1>a DEF SavedInRun
<1>9. AbandonedInState'
  <2>1. SUFFICES ASSUME abandon, HasJournal, NEW d \in Made, Finished(d), Ours(d)
                 PROVE  InState(d)'
    BY <1>a DEF AbandonedInState, Made, Finished, Ours, HasJournal
  <2>2. PendingSets = {} /\ d \in Live
    BY <2>1 DEF RecoverStep, Finished, Live, Made
  <2>3. CompleteSet(docs[d].op)
    BY <2>2 DEF PendingSets
  <2>4. QED BY <2>2, <2>3, RecoverFinds
<1>10. AllOrNone'
  <2>1. SUFFICES ASSUME HasJournal, NEW t \in Targets, NEW r \in Recorded(t)', r.op = journal.op,
                        NEW u \in journal.items
                 PROVE  active'[u].op = journal.op
    BY <1>a DEF AllOrNone, HasJournal
  <2>2. u \in Targets /\ r # NoTarget
    BY <1>a, <2>1 DEF TypeInv, TypeOK, JournalTypeOK, NoTarget, HasJournal
  <2>3. PICK d \in RecoveredDocs(t) : r = RecoveredTarget(d)
    BY <1>1, <2>2
  <2>4. d \in Made /\ docs[d].op = journal.op /\ Whole(journal.op) /\ Ours(d)
    BY <1>2, <2>1, <2>3 DEF Ours
  <2>5. KeysOf(journal.op) = journal.items
    <3>1. size[d] = Cardinality(KeysOf(journal.op)) /\ size[d] = Cardinality(journal.items)
      BY <1>a, <2>4 DEF Whole, SizesTrue
    <3>2. QED BY <1>a, <2>1, <3>1, OurKeys
  <2>6. PICK e \in Made : Finished(e) /\ docs[e].op = journal.op /\ docs[e].key = u
    BY <2>4, <2>5 DEF Whole
  <2>7. e \in RecoveredDocs(u)
    BY <2>4, <2>6, RecoverFinds DEF Finished, Live, Made
  <2>8. active'[u] # NoTarget /\ docs[e].gen <= active'[u].gen /\ active'[u] \in Recorded(u)'
    BY <1>a, <2>2, <2>7, RecoveredRecords DEF Recorded
  <2>9. docs[e].gen = journal.gen[u] /\ docs[e].gen \in Nat
    BY <1>a, <2>1, <2>6, DocumentTyped DEF DocumentsMade, MadeAs, Ours
  <2>10. active'[u].gen \in Nat
    <3>1. active'[u] \in TargetRecords
      BY <1>a, <2>2, RecoveredRecords
    <3>2. QED BY <3>1 DEF TargetRecords
  <2>11. CASE active'[u].op # journal.op
    <3>1. active'[u].gen < journal.gen[u]
      BY <1>5, <2>1, <2>8, <2>11
    <3>2. QED BY <2>8, <2>9, <2>10, <3>1
  <2>12. QED BY <2>11
<1>11. QED BY <1>3, <1>4, <1>6, <1>7, <1>8, <1>9, <1>10 DEF RecordsInv

\* An abandoned journal is removed once what is whole is recorded.
LEMMA RecordsClear ==
    ASSUME MadeInv, RecordsInv, AbandonClear
    PROVE  RecordsInv'
<1>a. /\ UNCHANGED <<active, prior, docs, pc, size>> /\ journal' = NoJournal
      /\ abandoning /\ abandoning' = FALSE /\ HasJournal' = FALSE /\ pc = "idle"
      /\ OperationsNumbered
  BY DEF AbandonClear, MadeInv, BaseInv, DocsInv, stateVars, runVars, HasJournal, NoJournal
<1>1. GenTrue' /\ HistorySorted'
  BY <1>a DEF RecordsInv, GenTrue, HistorySorted, Recorded
<1>2. JournalNewer' /\ AllOrNone' /\ SavedInRun' /\ AbandonedInState'
  BY <1>a DEF JournalNewer, AllOrNone, SavedInRun, AbandonedInState
<1>3. WholeInState'
  <2>1. ASSUME NEW d \in Made, Finished(d), Whole(docs[d].op) PROVE InState(d)
    <3>1. CASE docs[d].op # journal.op
      BY <2>1, <3>1 DEF RecordsInv, WholeInState
    <3>2. CASE docs[d].op = journal.op
      <4>1. Ours(d)
        BY <1>a, <3>2 DEF Ours, HasJournal, OperationsNumbered, Made
      <4>2. QED BY <1>a, <2>1, <4>1 DEF RecordsInv, AbandonedInState
    <3>3. QED BY <3>1, <3>2
  <2>2. Made' = Made /\ \A d \in Made : (Finished(d)' <=> Finished(d)) /\ (InState(d)' <=> InState(d))
    BY <1>a DEF Made, Finished, InState, Recorded
  <2>3. \A d \in Made : (Whole(docs[d].op)' <=> Whole(docs[d].op))
    BY <1>a DEF Whole, KeysOf, Made, Finished
  <2>4. QED BY <2>1, <2>2, <2>3 DEF WholeInState
<1>4. QED BY <1>1, <1>2, <1>3 DEF RecordsInv

\* Steps that leave records and documents alone.
LEMMA RecordsStill ==
    ASSUME MadeInv, RecordsInv, StillStep
    PROVE  RecordsInv'
<1>a. /\ UNCHANGED <<active, prior, docs, size, journal>> /\ (pc' = pc \/ pc' = "idle")
      /\ (abandoning' => abandoning)
  BY DEF StillStep, stateVars, journalVars, runVars, StopRun
<1>1. GenTrue' /\ HistorySorted'
  BY <1>a DEF RecordsInv, GenTrue, HistorySorted, Recorded
<1>2. JournalNewer' /\ AllOrNone'
  BY <1>a DEF RecordsInv, JournalNewer, AllOrNone, Recorded, HasJournal
<1>3. SavedInRun'
  BY <1>a DEF RecordsInv, SavedInRun
<1>4. Made' = Made /\ \A d \in Made : (Finished(d)' <=> Finished(d)) /\ (InState(d)' <=> InState(d))
                                      /\ (Ours(d)' <=> Ours(d))
  BY <1>a DEF Made, Finished, InState, Recorded, Ours, HasJournal
<1>5. \A d \in Made : (Whole(docs[d].op)' <=> Whole(docs[d].op))
  BY <1>a DEF Whole, KeysOf, Made, Finished
<1>6. WholeInState' /\ AbandonedInState'
  BY <1>a, <1>4, <1>5 DEF RecordsInv, WholeInState, AbandonedInState
<1>7. QED BY <1>1, <1>2, <1>3, <1>6 DEF RecordsInv

\* Every step keeps the records whole and ordered.
LEMMA RecordsInvKept ==
    ASSUME MadeInv, RecordsInv, [NextAnyOrphan]_everything
    PROVE  RecordsInv'
BY StepKinds, RecordsPublisher, RecordsStill, RecordsClear, RecordsRecover DEF MadeInv

-----------------------------------------------------------------------------
(* The snapshots *)

SnapshotsSound ==
    \A t \in Targets : \A g \in 1..MaxOps : snap[t][g] # NoManifest =>
        /\ t \in ReviewPull
        /\ snap[t][g].status = "sealed" => snap[t][g].rev = snap[t][g].act

SealedFor(t) ==
    /\ Snapshot(t).op = journal.op /\ Snapshot(t).status = "sealed"
    /\ Snapshot(t).file = fileOf[t]

\* A run saves the snapshots it has found sealed, although a user may have
\* removed some between two runs.
SealedInRun ==
    \A t \in journal.items \cap ReviewPull :
        (\/ Phase >= 7
         \/ Phase = 6 /\ t \notin todo
         \/ pc = "sealed" /\ IsNext(t))
        => SealedFor(t)

\* The targets an operation was planned with are of earlier operations; as a
\* run starts with none but those, it runs up to its save only once.
KnownBefore ==
    HasJournal => \A t \in Targets :
        \/ journal.known[t] = NoDoc
        \/ journal.known[t] \in Made /\ docs[journal.known[t]].op # journal.op
UnsavedInRun ==
    UseTargets /\ pc \notin {"idle", "committed", "clear"} =>
        \A t \in journal.items : active[t].op # journal.op

\* The baseline of a record is what a reconcile would take for it.
BaselineExact ==
    \A t \in Targets : \A r \in Recorded(t) : r # NoTarget => r.snap = RecoveredSnapshot(r.file)

SnapshotsInv == SnapshotsSound /\ SealedInRun /\ KnownBefore /\ UnsavedInRun /\ BaselineExact

\* Only a capture and a seal write a snapshot.
LEMMA SnapshotKinds ==
    ASSUME [Next]_vars
    PROVE  snap' = snap \/ \E t \in Targets : CaptureWrite(t) \/ SealWrite(t)
<1>1. ASSUME NEW t \in Targets, CreateStep(t) \/ LinksStep(t) PROVE snap' = snap
  BY <1>1 DEF CreateStep, CreateBegin, Pass, LookupNone, LookupRefuse, LookupMatch, CreateIssue,
     CreateFail, CreateRecord, LinksStep, LinksBegin, LinksRead, LinksReadRefuse, LinksUpdate,
     LinksUpdateFail, LinksUpdateRefuse, LinksRecord, Refuse, OnlyRun, OnlyStage, OnlyDocs, durable
<1>2. ASSUME NEW t \in Targets, ReadyStep(t) \/ MoveStep(t) PROVE snap' = snap
  BY <1>2 DEF ReadyStep, ReadyBegin, Pass, ReadyMark, ReadyFail, ReadyRecord, MoveStep, MoveBegin,
     MoveKnown, MoveRelocate, MoveFail, MoveRecord, MoveFinalRead, OnlyRun, OnlyStage, OnlyDocs,
     durable
<1>3. ASSUME NEW t \in Targets, CaptureStep(t) \/ SealStep(t), ~CaptureWrite(t), ~SealWrite(t)
      PROVE  snap' = snap
  BY <1>3 DEF CaptureStep, CaptureBegin, CaptureKnown, CaptureFound, CaptureRefuse,
     CaptureRecord, SealStep, SealBegin, SealFound, SealRefuse, SealRecord, SealKnown, Pass,
     Refuse, OnlyRun, OnlyStage
<1>4. CASE CommitStep \/ NextLoop \/ Resume \/ Interrupt \/ UNCHANGED vars
  BY <1>4 DEF CommitStep, CommitSave, SaveFrame, CommitClear, CommitBegin, CommitRecord, NextLoop,
     Resume, Interrupt, OnlyRun, OnlyStage, vars, durable
<1>5. CASE Environment \/ \E items \in SUBSET Targets : Start(items)
  BY <1>5 DEF Environment, CreateLands, ReviewerEdits, ReviewerTrashes, ReviewerActs, Start, durable
<1>6. QED BY <1>1, <1>2, <1>3, <1>4, <1>5 DEF Next, RunStep

\* A run that has saved ends, or is about to.
LEMMA AfterSave ==
    ASSUME [Next]_vars, pc \in {"committed", "clear"}
    PROVE  pc' \in {"committed", "clear", "idle"}
<1>1. ASSUME NEW t \in Targets, CreateStep(t) \/ LinksStep(t) PROVE FALSE
  BY <1>1 DEF CreateStep, CreateBegin, Pass, LookupNone, LookupRefuse, LookupMatch, CreateIssue,
     CreateFail, CreateRecord, LinksStep, LinksBegin, LinksRead, LinksReadRefuse, LinksUpdate,
     LinksUpdateFail, LinksUpdateRefuse, LinksRecord, Refuse
<1>2. ASSUME NEW t \in Targets, ReadyStep(t) \/ MoveStep(t) PROVE FALSE
  BY <1>2 DEF ReadyStep, ReadyBegin, Pass, ReadyMark, ReadyFail, ReadyRecord, MoveStep, MoveBegin,
     MoveKnown, MoveRelocate, MoveFail, MoveRecord, MoveFinalRead
<1>3. ASSUME NEW t \in Targets, CaptureStep(t) \/ SealStep(t) PROVE FALSE
  BY <1>3 DEF CaptureStep, CaptureBegin, CaptureKnown, CaptureFound, CaptureWrite, CaptureRefuse,
     CaptureRecord, SealStep, SealBegin, SealWrite, SealFound, SealRefuse, SealRecord, SealKnown,
     Pass, Refuse
<1>4. CASE CommitStep \/ Interrupt \/ Resume \/ \E items \in SUBSET Targets : Start(items)
  BY <1>4 DEF CommitStep, CommitSave, SaveFrame, CommitClear, CommitBegin, CommitRecord, ItemDone,
     Interrupt, StopRun, Resume, Start
<1>5. CASE NextLoop
  BY <1>5, FollowingLabels DEF NextLoop
<1>6. CASE Environment \/ UNCHANGED vars
  BY <1>6 DEF Environment, CreateLands, ReviewerEdits, ReviewerTrashes, ReviewerActs, vars, runVars
<1>7. QED BY <1>1, <1>2, <1>3, <1>4, <1>5, <1>6 DEF Next, RunStep

\* Captures and seals are of documents under review pull; a seal is of one revision.
LEMMA SoundPublisher ==
    ASSUME MadeInv, SnapshotsSound, [Next]_vars
    PROVE  SnapshotsSound'
<1>a. TypeInv /\ Position
  BY DEF MadeInv, BaseInv
<1>1. ASSUME NEW t \in Targets, CaptureWrite(t) \/ SealWrite(t)
      PROVE  SnapshotsSound'
  <2>1. t \in todo /\ t \in journal.items /\ t \in ReviewPull
    BY <1>1, <1>a DEF CaptureWrite, SealWrite, IsNext, TypeInv, RunHasJournal, Position,
       ItemAnnounced, Phase, CreateLabels
  <2>2. PICK g \in 1..MaxOps : g = journal.gen[t] /\ snap[t][g] = Snapshot(t)
    BY <1>a, <2>1, SnapshotTyped DEF Snapshot
  <2>3. \E m : /\ snap' = [snap EXCEPT ![t][g] = m]
               /\ m.status = "sealed" => m.rev = m.act
    <3>1. CASE CaptureWrite(t)
      <4>1. PICK m : m = [status |-> "candidate", op |-> journal.op, file |-> fileOf[t],
                          rev |-> docs[fileOf[t]].rev, act |-> 0]
        OBVIOUS
      <4>2. m.status = "candidate"
        BY <4>1
      <4>3. snap' = [snap EXCEPT ![t][g] = m]
        BY <2>2, <3>1, <4>1 DEF CaptureWrite
      <4>4. QED BY <4>2, <4>3
    <3>2. CASE SealWrite(t)
      <4>1. Snapshot(t) \in Manifests /\ Snapshot(t).rev = docs[fileOf[t]].rev
        BY <1>a, <2>1, <3>2, SnapshotTyped DEF SealWrite
      <4>2. PICK m : m = [Snapshot(t) EXCEPT !.status = "sealed", !.act = docs[fileOf[t]].rev]
        OBVIOUS
      <4>3. m.rev = m.act
        BY <4>1, <4>2 DEF Manifests
      <4>4. snap' = [snap EXCEPT ![t][g] = m]
        BY <2>2, <3>2, <4>2 DEF SealWrite
      <4>5. QED BY <4>3, <4>4
    <3>3. QED BY <1>1, <3>1, <3>2
  <2>4. PICK m : /\ snap' = [snap EXCEPT ![t][g] = m]
                 /\ m.status = "sealed" => m.rev = m.act
    BY <2>3
  <2>5. ASSUME NEW u \in Targets, NEW h \in 1..MaxOps
        PROVE  snap'[u][h] = IF u = t /\ h = g THEN m ELSE snap[u][h]
    BY <2>4, <1>a DEF TypeInv, TypeOK, StoreTypeOK
  <2>6. QED BY <2>1, <2>4, <2>5 DEF SnapshotsSound
<1>2. CASE snap' = snap
  BY <1>2 DEF SnapshotsSound
<1>3. QED BY <1>1, <1>2, SnapshotKinds

\* Behind the seals of a run, its items are sealed.
LEMMA SealedPublisher ==
    ASSUME MadeInv, SealedInRun, [Next]_vars
    PROVE  SealedInRun'
<1>a. /\ TypeInv /\ Position /\ TypeOK'
  BY NextLayers DEF MadeInv, BaseInv, TypeInv
<1>b. ASSUME Phase' <= 5 PROVE SealedInRun'
  <2>1. pc' # "sealed"
    BY <1>b DEF Phase, CreateLabels
  <2>2. ~(Phase' >= 7) /\ Phase' # 6
    BY <1>b DEF Phase
  <2>3. QED BY <2>1, <2>2 DEF SealedInRun
<1>c. pc' = "idle" => SealedInRun'
  BY <1>b DEF Phase
<1>d. ASSUME UNCHANGED <<journal, fileOf, snap>>,
             (Phase >= 7 /\ pc' # "sealed") \/ UNCHANGED <<pc, todo>>
      PROVE  SealedInRun'
  BY <1>d DEF SealedInRun, SealedFor, Snapshot, Phase, IsNext
<1>1. ASSUME NEW t \in Targets,
             CreateStep(t) \/ LinksStep(t) \/ CaptureStep(t) \/ ReadyStep(t) \/ MoveStep(t)
      PROVE  SealedInRun'
  <2>1. pc' = "idle" \/ Phase' = Phase
    BY <1>1, <1>a, CreateLoops, LinksLoops, CaptureLoops, ReadyLoops, MoveLoops DEF LoopStep
  <2>2. CASE CreateStep(t)
    <3>1. Phase = 1
      BY <2>2 DEF CreateStep, CreateBegin, Pass, LookupNone, LookupRefuse, LookupMatch,
         CreateIssue, CreateFail, CreateRecord, Refuse, Phase, CreateLabels
    <3>2. QED BY <1>b, <1>c, <2>1, <3>1
  <2>3. CASE LinksStep(t)
    <3>1. Phase = 2
      BY <2>3 DEF LinksStep, LinksBegin, Pass, LinksRead, LinksReadRefuse, LinksUpdate,
         LinksUpdateFail, LinksUpdateRefuse, LinksRecord, Refuse, Phase, CreateLabels
    <3>2. QED BY <1>b, <1>c, <2>1, <3>1
  <2>4. CASE CaptureStep(t)
    <3>1. Phase = 3
      BY <2>4 DEF CaptureStep, CaptureBegin, CaptureKnown, CaptureFound, CaptureWrite,
         CaptureRefuse, CaptureRecord, Pass, Refuse, Phase, CreateLabels
    <3>2. QED BY <1>b, <1>c, <2>1, <3>1
  <2>5. CASE ReadyStep(t)
    <3>1. Phase = 4
      BY <2>5 DEF ReadyStep, ReadyBegin, Pass, ReadyMark, ReadyFail, ReadyRecord, Phase, CreateLabels
    <3>2. QED BY <1>b, <1>c, <2>1, <3>1
  <2>6. CASE MoveStep(t)
    <3>1. Phase = 5
      BY <2>6 DEF MoveStep, MoveBegin, MoveKnown, MoveRelocate, MoveFail, MoveRecord,
         MoveFinalRead, Phase, CreateLabels
    <3>2. QED BY <1>b, <1>c, <2>1, <3>1
  <2>7. QED BY <1>1, <2>2, <2>3, <2>4, <2>5, <2>6
<1>2. ASSUME NEW t \in Targets, SealStep(t) PROVE SealedInRun'
  <2>1. IsNext(t) /\ Phase = 6 /\ t \in todo
    BY <1>2 DEF SealStep, SealBegin, SealWrite, SealFound, SealRefuse, SealRecord, SealKnown,
       Refuse, Phase, CreateLabels, IsNext
  <2>2. t \in journal.items /\ t \in ReviewPull /\ journal.gen[t] \in 1..MaxOps
    BY <1>a, <2>1, SnapshotTyped DEF TypeInv, RunHasJournal, Position, ItemAnnounced
  <2>3. journal' = journal /\ fileOf' = fileOf
    BY <1>2 DEF SealStep, SealBegin, SealWrite, SealFound, SealRefuse, SealRecord, SealKnown,
       Refuse, OnlyRun, OnlyStage, journalVars
  <2>4. \A u \in Targets \ {t} : Snapshot(u)' = Snapshot(u)
    <3>1. CASE SealWrite(t)
      BY <1>a, <2>3, <3>1 DEF SealWrite, Snapshot, TypeInv, TypeOK, StoreTypeOK
    <3>2. CASE ~SealWrite(t)
      BY <1>2, <2>3, <3>2 DEF SealStep, SealBegin, SealFound, SealRefuse, SealRecord, SealKnown,
         Refuse, OnlyRun, OnlyStage, Snapshot
    <3>3. QED BY <3>1, <3>2
  <2>5. \/ pc' = "idle"
        \/ pc' = "activate" /\ todo' = todo
        \/ pc' = "sealed" /\ todo' = todo /\ SealedFor(t)'
        \/ pc' = "seal" /\ todo' = todo \ {t} /\ SealedFor(t)'
    <3>1. CASE SealBegin(t) \/ SealRefuse(t)
      BY <3>1 DEF SealBegin, SealRefuse, Refuse, StopRun, Goto
    <3>2. CASE SealFound(t)
      BY <3>2 DEF SealFound, Activatable, Goto, SealedFor, Snapshot, OnlyRun, OnlyStage
    <3>3. CASE SealWrite(t)
      <4>1. PICK m : m = [Snapshot(t) EXCEPT !.status = "sealed", !.act = docs[fileOf[t]].rev]
        OBVIOUS
      <4>2. Snapshot(t) \in Manifests
        BY <1>a, <2>2, SnapshotTyped
      <4>3. m.op = journal.op /\ m.status = "sealed" /\ m.file = fileOf[t]
        BY <3>3, <4>1, <4>2 DEF SealWrite, Activatable, Manifests
      <4>4. snap' = [snap EXCEPT ![t][journal.gen[t]] = m]
        BY <3>3, <4>1 DEF SealWrite, Snapshot
      <4>5. snap'[t][journal.gen[t]] = m
        BY <1>a, <2>2, <4>4 DEF TypeInv, TypeOK, StoreTypeOK
      <4>6. SealedFor(t)'
        BY <2>3, <4>3, <4>5 DEF SealedFor, Snapshot
      <4>7. QED BY <3>3, <4>6 DEF SealWrite, Goto
    <3>4. CASE SealRecord(t) \/ SealKnown(t)
      <4>1. SealedFor(t)
        BY <2>1, <2>2, <3>4 DEF SealRecord, SealKnown, SealedInRun
      <4>2. snap' = snap
        BY <3>4 DEF SealRecord, SealKnown, OnlyRun, OnlyStage
      <4>3. SealedFor(t)'
        BY <2>3, <4>1, <4>2 DEF SealedFor, Snapshot
      <4>4. QED BY <3>4, <4>3 DEF SealRecord, SealKnown, ItemDone
    <3>5. QED BY <1>2, <3>1, <3>2, <3>3, <3>4 DEF SealStep
  <2>6. CASE pc' = "idle"
    BY <1>c, <2>6
  <2>7. CASE pc' # "idle"
    <3>1. Phase' = 6
      BY <2>5, <2>7 DEF Phase, CreateLabels
    <3>2. ASSUME NEW u \in journal.items \cap ReviewPull, u # t,
                 u \notin todo' \/ (pc' = "sealed" /\ IsNext(u)')
          PROVE  SealedFor(u)'
      <4>1. u \in Targets
        BY <1>a DEF TypeInv, TypeOK, JournalTypeOK
      <4>2. u \notin todo
        <5>1. CASE u \notin todo'
          BY <2>5, <2>7, <3>2, <5>1
        <5>2. CASE pc' = "sealed" /\ IsNext(u)'
          <6>1. todo' = todo
            BY <2>5, <5>2
          <6>2. u \in todo
            BY <5>2, <6>1 DEF IsNext
          <6>3. QED BY <1>a, <2>1, <3>2, <5>2, <6>1, <6>2, OneNext DEF TypeInv
        <5>3. QED BY <3>2, <5>1, <5>2
      <4>3. SealedFor(u)
        BY <2>1, <4>2 DEF SealedInRun
      <4>4. QED BY <2>3, <2>4, <3>2, <4>1, <4>3 DEF SealedFor
    <3>3. ASSUME t \notin todo' \/ (pc' = "sealed" /\ IsNext(t)')
          PROVE  SealedFor(t)'
      BY <2>1, <2>5, <2>7, <3>3
    <3>4. QED BY <2>3, <3>1, <3>2, <3>3 DEF SealedInRun
  <2>8. QED BY <2>6, <2>7
<1>3. ASSUME NEW t \in Targets, CommitBegin(t) \/ CommitRecord(t) PROVE SealedInRun'
  <2>1. Phase >= 7 /\ pc' # "sealed" /\ UNCHANGED <<journal, fileOf, snap>>
    BY <1>3 DEF CommitBegin, CommitRecord, ItemDone, OnlyStage, Phase, CreateLabels
  <2>2. QED BY <1>d, <2>1
<1>4. CASE CommitSave
  <2>1. Phase >= 7 /\ pc' # "sealed" /\ UNCHANGED <<journal, fileOf, snap>>
    BY <1>4 DEF CommitSave, SaveFrame, Phase, CreateLabels, journalVars
  <2>2. QED BY <1>d, <2>1
<1>5. CASE CommitClear \/ Interrupt
  BY <1>c, <1>5 DEF CommitClear, Interrupt, StopRun
<1>6. CASE Resume \/ \E items \in SUBSET Targets : Start(items)
  BY <1>b, <1>6 DEF Resume, Start, Phase, CreateLabels
<1>7. CASE Environment \/ UNCHANGED vars
  BY <1>d, <1>7 DEF Environment, CreateLands, ReviewerEdits, ReviewerTrashes, ReviewerActs, vars,
     runVars, durable, journalVars
<1>8. CASE NextLoop
  <2>1. /\ UNCHANGED <<journal, fileOf, snap>> /\ todo = {}
        /\ pc \in DOMAIN Following /\ pc' = Following[pc] /\ todo' = LoopItems(Following[pc])
    BY <1>8 DEF NextLoop, OnlyRun, OnlyStage
  <2>2. CASE pc = "move"
    <3>1. pc' = "seal" /\ todo' = journal.items \cap ReviewPull /\ Phase' = 6
      BY <2>1, <2>2, FollowingLabels DEF LoopItems, Phase, CreateLabels
    <3>2. QED BY <2>1, <3>1 DEF SealedInRun
  <2>3. CASE pc = "seal"
    <3>1. Phase = 6 /\ \A t \in journal.items \cap ReviewPull : SealedFor(t)
      BY <2>1, <2>3 DEF SealedInRun, Phase, CreateLabels
    <3>2. QED BY <2>1, <3>1 DEF SealedInRun, SealedFor, Snapshot
  <2>4. CASE pc \in {"create", "links", "capture", "ready"}
    <3>1. Phase' <= 5
      BY <2>1, <2>4, FollowingLabels DEF Phase, CreateLabels
    <3>2. QED BY <1>b, <3>1
  <2>5. CASE pc \in {"committing", "committed"}
    <3>1. Phase >= 7 /\ pc' # "sealed"
      BY <2>1, <2>5, FollowingLabels DEF Phase, CreateLabels
    <3>2. QED BY <1>d, <2>1, <3>1
  <2>6. QED BY <2>1, <2>2, <2>3, <2>4, <2>5, FollowingLabels
<1>9. QED BY <1>1, <1>2, <1>3, <1>4, <1>5, <1>6, <1>7, <1>8 DEF Next, RunStep, CommitStep

\* What a record says of its document.
LEMMA RecordedDocument ==
    ASSUME BaseInv, DocumentsMade, GenTrue, NEW t \in Targets, NEW r \in Recorded(t), r # NoTarget
    PROVE  /\ r.file \in Made /\ r.file \in DocIds
           /\ docs[r.file].op = r.op /\ docs[r.file].key = t /\ docs[r.file].gen = r.gen
           /\ r.op \in Nat /\ r.op <= ops /\ r.op # 0 /\ r.gen \in 1..MaxOps
<1>1. RecordTrue(t, r) /\ docs[r.file].gen = r.gen
  BY DEF BaseInv, RecordsTrue, GenTrue
<1>2. PICK d : d = r.file
  OBVIOUS
<1>3. d \in Made /\ docs[d].op = r.op /\ docs[d].key = t /\ docs[d].gen = r.gen
  BY <1>1, <1>2 DEF RecordTrue, Made, Visible
<1>4. /\ d \in DocIds /\ docs[d].op \in 1..ops /\ docs[d].gen \in 1..MaxOps /\ ops \in Nat
  BY <1>3, DocumentTyped DEF BaseInv, DocsInv
<1>5. QED BY <1>2, <1>3, <1>4

\* The documents a plan starts from were made by earlier operations.
LEMMA KnownPublisher ==
    ASSUME MadeInv, RecordsInv, KnownBefore, PublisherStep
    PROVE  KnownBefore'
<1>a. /\ TypeInv /\ Position /\ DocsInv /\ BaseInv /\ DocumentsMade /\ GenTrue /\ [Next]_vars
      /\ journal.known \in [Targets -> FileIds]
  BY DEF MadeInv, BaseInv, RecordsInv, PublisherStep, TypeInv, TypeOK, JournalTypeOK
<1>b. Made \subseteq Made' /\ \A d \in Made : docs'[d].op = docs[d].op
  BY <1>a, MadeKinds DEF Grown, Settles
<1>1. CASE journal' = journal
  <2>1. ASSUME HasJournal, NEW t \in Targets, journal.known[t] # NoDoc
        PROVE  /\ journal.known[t] \in Made' /\ docs'[journal.known[t]].op # journal.op
    BY <1>b, <2>1 DEF KnownBefore
  <2>2. QED BY <1>1, <2>1 DEF KnownBefore, HasJournal
<1>2. CASE \E items \in SUBSET Targets : Start(items)
  <2>1. /\ journal'.op = ops + 1 /\ ops \in Nat /\ docs' = docs /\ Made' = Made
        /\ journal'.known = [t \in Targets |-> active[t].file]
    BY <1>2, <1>a DEF Start, TypeInv, TypeOK, CountTypeOK, ActiveURLs, Made
  <2>2. ASSUME NEW t \in Targets, active[t].file # NoDoc
        PROVE  active[t].file \in Made /\ docs[active[t].file].op # ops + 1
    <3>1. active[t] \in Recorded(t) /\ active[t] # NoTarget
      BY <2>2 DEF Recorded, NoTarget
    <3>2. PICK d : d = active[t].file
      OBVIOUS
    <3>3. d \in Made /\ docs[d].op \in Nat /\ docs[d].op <= ops
      BY <1>a, <3>1, <3>2, RecordedDocument
    <3>4. QED BY <2>1, <3>2, <3>3
  <2>3. QED BY <2>1, <2>2 DEF KnownBefore
<1>3. CASE CommitClear
  <2>1. HasJournal' = FALSE
    BY <1>3 DEF CommitClear, HasJournal, NoJournal
  <2>2. QED BY <2>1 DEF KnownBefore
<1>4. QED BY <1>a, <1>1, <1>2, <1>3, JournalKinds

\* Before the save no item's record is of the operation under way.
LEMMA UnsavedPublisher ==
    ASSUME MadeInv, RecordsInv, KnownBefore, UnsavedInRun, PublisherStep
    PROVE  UnsavedInRun'
<1>a. /\ TypeInv /\ Position /\ DocsInv /\ BaseInv /\ DocumentsMade /\ GenTrue /\ [Next]_vars
      /\ TypeInv' /\ ops \in Nat
  BY BasePublisher DEF MadeInv, BaseInv, RecordsInv, PublisherStep, TypeInv, TypeOK, CountTypeOK
<1>1. SUFFICES ASSUME UseTargets, pc' \notin {"idle", "committed", "clear"}, NEW t \in journal'.items
               PROVE  active'[t].op # journal'.op
  BY DEF UnsavedInRun
<1>2. t \in Targets /\ ~CommitSave /\ active' = active /\ HasJournal'
  BY <1>1, <1>a, OnlySavesChangeRecords
  DEF CommitSave, SaveFrame, TypeInv, TypeOK, JournalTypeOK, RunHasJournal
<1>3. active[t] \in Recorded(t)
  BY DEF Recorded
<1>4. CASE pc # "idle"
  <2>1. pc \notin {"idle", "committed", "clear"}
    BY <1>1, <1>4, <1>a, AfterSave
  <2>2. journal' = journal
    BY <1>a, <2>1, JournalKinds DEF Start, CommitClear
  <2>3. QED BY <1>1, <1>2, <2>1, <2>2 DEF UnsavedInRun
<1>5. CASE pc = "idle" /\ journal' = journal
  <2>1. HasJournal /\ active[t].file = journal.known[t]
    <3>1. HasJournal /\ ActiveURLs = journal.known
      BY <1>1, <1>2, <1>5 DEF PublisherStep, TargetsUnchanged, HasJournal
    <3>2. ActiveURLs[t] = active[t].file
      BY <1>2 DEF ActiveURLs
    <3>3. QED BY <3>1, <3>2
  <2>2. CASE active[t] = NoTarget
    BY <1>2, <1>5, <2>1, <2>2 DEF NoTarget, HasJournal
  <2>3. CASE active[t] # NoTarget
    <3>1. PICK d : d = active[t].file
      OBVIOUS
    <3>2. d \in DocIds /\ docs[d].op = active[t].op
      BY <1>a, <1>2, <1>3, <2>3, <3>1, RecordedDocument
    <3>3. d # NoDoc
      BY <3>2, ConstantsOK
    <3>4. QED BY <1>2, <1>5, <2>1, <3>1, <3>2, <3>3 DEF KnownBefore
  <2>4. QED BY <2>2, <2>3
<1>6. CASE \E items \in SUBSET Targets : Start(items)
  <2>1. journal'.op = ops + 1
    BY <1>6 DEF Start
  <2>2. active[t].op \in Nat /\ active[t].op <= ops
    <3>1. CASE active[t] = NoTarget
      BY <1>a, <3>1 DEF NoTarget
    <3>2. CASE active[t] # NoTarget
      BY <1>a, <1>2, <1>3, <3>2, RecordedDocument
    <3>3. QED BY <3>1, <3>2
  <2>3. QED BY <1>a, <1>2, <2>1, <2>2
<1>7. CASE CommitClear
  BY <1>1, <1>7 DEF CommitClear, StopRun
<1>8. QED BY <1>a, <1>4, <1>5, <1>6, <1>7, JournalKinds

\* While a run writes snapshots, no record is one of its operation.
LEMMA NothingSaved ==
    ASSUME MadeInv, RecordsInv, UnsavedInRun, UseTargets, NEW u \in journal.items,
           pc \notin {"idle", "committed", "clear"}
    PROVE  \A t \in Targets : \A r \in Recorded(t) : r.op # journal.op
<1>1. HasJournal
  BY DEF MadeInv, BaseInv, TypeInv, RunHasJournal
<1>2. active[u].op # journal.op
  BY DEF UnsavedInRun
<1>3. QED BY <1>1, <1>2 DEF RecordsInv, AllOrNone

\* Writes of the operation under way miss the snapshots of the records.
LEMMA ExactPublisher ==
    ASSUME MadeInv, RecordsInv, SnapshotsInv, PublisherStep
    PROVE  BaselineExact'
<1>a. /\ TypeInv /\ Position /\ DocsInv /\ BaseInv /\ DocumentsMade /\ GenTrue /\ [Next]_vars
      /\ SnapshotsSound /\ SealedInRun /\ UnsavedInRun /\ BaselineExact
  BY DEF MadeInv, BaseInv, RecordsInv, PublisherStep, SnapshotsInv
<1>b. ASSUME NEW d \in Made
      PROVE  docs'[d].key = docs[d].key /\ docs'[d].gen = docs[d].gen /\ docs'[d].op = docs[d].op
  BY <1>a, MadeKinds DEF Grown, Settles
<1>c. ASSUME NEW d \in Made, snap'[docs[d].key][docs[d].gen] = snap[docs[d].key][docs[d].gen]
      PROVE  RecoveredSnapshot(d)' = RecoveredSnapshot(d)
  BY <1>b, <1>c DEF RecoveredSnapshot
<1>1. CASE CommitSave
  <2>1. docs' = docs /\ snap' = snap /\ HasJournal /\ pc = "save"
    BY <1>1, <1>a DEF CommitSave, SaveFrame, TypeInv, RunHasJournal
  <2>2. ASSUME NEW d \in Made PROVE RecoveredSnapshot(d)' = RecoveredSnapshot(d)
    BY <2>1, <2>2, <1>c
  <2>3. ASSUME NEW t \in journal.items
        PROVE  /\ NewTarget(t).file \in Made
               /\ NewTarget(t).snap = RecoveredSnapshot(NewTarget(t).file)
    <3>1. RecordTrue(t, NewTarget(t)) /\ t \in Targets /\ journal.gen[t] \in 1..MaxOps
      BY <1>1, <1>a, SavedRecordTrue, SnapshotTyped
    <3>2. PICK d : d = fileOf[t] /\ d = NewTarget(t).file
      BY DEF NewTarget
    <3>3. d \in Made /\ docs[d].op = journal.op /\ docs[d].key = t
      BY <3>1, <3>2 DEF RecordTrue, NewTarget, Made, Visible
    <3>4. docs[d].gen = journal.gen[t]
      BY <2>1, <3>3, <1>a DEF DocumentsMade, MadeAs, Ours
    <3>5. CASE t \in ReviewPull
      <4>1. UseTargets
        BY <3>5, CommandConstantsOK
      <4>2. SealedFor(t)
        <5>1. Phase = 8
          BY <2>1 DEF Phase, CreateLabels
        <5>2. QED BY <3>5, <5>1, <1>a DEF SealedInRun
      <4>3. NewTarget(t).snap = Snapshot(t)
        BY <3>5 DEF NewTarget
      <4>4. RecoveredSnapshot(d) = Snapshot(t)
        BY <3>2, <3>3, <3>4, <4>1, <4>2 DEF RecoveredSnapshot, Snapshot, SealedFor
      <4>5. QED BY <3>2, <3>3, <4>3, <4>4
    <3>6. CASE t \notin ReviewPull
      <4>1. snap[t][journal.gen[t]] = NoManifest
        BY <3>1, <3>6, <1>a DEF SnapshotsSound
      <4>2. RecoveredSnapshot(d) = NoManifest
        BY <3>3, <3>4, <4>1 DEF RecoveredSnapshot, NoManifest
      <4>3. NewTarget(t).snap = NoManifest
        BY <3>6 DEF NewTarget
      <4>4. QED BY <3>2, <3>3, <4>2, <4>3
    <3>7. QED BY <3>5, <3>6
  <2>4. ASSUME NEW t \in Targets, NEW r \in Recorded(t)', r # NoTarget
        PROVE  r.snap = RecoveredSnapshot(r.file)'
    <3>1. CASE r \in Recorded(t)
      <4>1. PICK d : d = r.file
        OBVIOUS
      <4>2. d \in Made /\ r.snap = RecoveredSnapshot(d)
        BY <1>a, <2>4, <3>1, <4>1, RecordedDocument DEF BaselineExact
      <4>3. RecoveredSnapshot(d)' = RecoveredSnapshot(d)
        BY <2>2, <4>2
      <4>4. QED BY <4>1, <4>2, <4>3
    <3>2. CASE t \in journal.items /\ r = NewTarget(t)
      <4>1. PICK d : d = NewTarget(t).file
        OBVIOUS
      <4>2. d \in Made /\ r.snap = RecoveredSnapshot(d) /\ r.file = d
        BY <2>3, <3>2, <4>1
      <4>3. RecoveredSnapshot(d)' = RecoveredSnapshot(d)
        BY <2>2, <4>2
      <4>4. QED BY <4>2, <4>3
    <3>3. QED BY <1>a, <1>1, <3>1, <3>2, SavedRecords
  <2>5. QED BY <2>4 DEF BaselineExact
<1>2. CASE ~CommitSave
  <2>1. \A t \in Targets : Recorded(t)' = Recorded(t)
    BY <1>a, <1>2, OnlySavesChangeRecords DEF Recorded
  <2>2. SUFFICES ASSUME NEW t \in Targets, NEW r \in Recorded(t), r # NoTarget
                 PROVE  RecoveredSnapshot(r.file)' = RecoveredSnapshot(r.file)
    BY <1>a, <2>1 DEF BaselineExact
  <2>3. PICK d : d = r.file
    OBVIOUS
  <2>4. /\ d \in Made /\ docs[d].op = r.op /\ docs[d].key = t /\ docs[d].gen = r.gen
        /\ r.gen \in 1..MaxOps
    BY <1>a, <2>2, <2>3, RecordedDocument
  <2>5. CASE snap' = snap
    BY <1>c, <2>3, <2>4, <2>5
  <2>6. ASSUME NEW u \in Targets, CaptureWrite(u) \/ SealWrite(u), snap'[t][r.gen] # snap[t][r.gen]
        PROVE  RecoveredSnapshot(d)' = RecoveredSnapshot(d)
    <3>1. /\ u \in journal.items /\ u \in ReviewPull /\ UseTargets
          /\ pc \notin {"idle", "committed", "clear"} /\ HasJournal
      BY <2>6, <1>a, CommandConstantsOK DEF CaptureWrite, SealWrite, IsNext, TypeInv, RunHasJournal,
         Position, ItemAnnounced, Phase, CreateLabels
    <3>2. PICK g \in 1..MaxOps : g = journal.gen[u] /\ snap[u][g] = Snapshot(u)
      BY <1>a, <3>1, SnapshotTyped DEF Snapshot
    <3>3. /\ docs'[d].key = t /\ docs'[d].gen = r.gen /\ docs'[d].op = r.op
          /\ r.op # journal.op
      BY <1>a, <1>b, <2>2, <2>4, <3>1, NothingSaved
    <3>4. CASE CaptureWrite(u)
      <4>1. PICK m : m = [status |-> "candidate", op |-> journal.op, file |-> fileOf[u],
                          rev |-> docs[fileOf[u]].rev, act |-> 0]
        OBVIOUS
      <4>2. m.op = journal.op /\ snap' = [snap EXCEPT ![u][g] = m]
        BY <3>2, <3>4, <4>1 DEF CaptureWrite
      <4>3. snap'[t][r.gen] = IF u = t /\ g = r.gen THEN m ELSE snap[t][r.gen]
        BY <2>4, <3>2, <4>2, <1>a DEF TypeInv, TypeOK, StoreTypeOK
      <4>4. u = t /\ g = r.gen /\ snap'[t][r.gen] = m /\ snap[t][r.gen] = NoManifest
        BY <2>6, <3>2, <3>4, <4>3 DEF CaptureWrite
      <4>5. RecoveredSnapshot(d) = NoManifest
        BY <2>4, <4>4 DEF RecoveredSnapshot, NoManifest
      <4>6. RecoveredSnapshot(d)' = NoManifest
        BY <3>3, <4>2, <4>4 DEF RecoveredSnapshot
      <4>7. QED BY <4>5, <4>6
    <3>5. CASE SealWrite(u)
      <4>1. PICK m : m = [Snapshot(u) EXCEPT !.status = "sealed", !.act = docs[fileOf[u]].rev]
        OBVIOUS
      <4>2. /\ Snapshot(u) \in Manifests /\ Snapshot(u).op = journal.op
            /\ Snapshot(u).status = "candidate"
            /\ snap' = [snap EXCEPT ![u][g] = m]
        BY <1>a, <3>1, <3>2, <3>5, <4>1, SnapshotTyped DEF SealWrite, Activatable
      <4>3. m.op = journal.op
        BY <4>1, <4>2 DEF Manifests
      <4>4. snap'[t][r.gen] = IF u = t /\ g = r.gen THEN m ELSE snap[t][r.gen]
        BY <2>4, <3>2, <4>2, <1>a DEF TypeInv, TypeOK, StoreTypeOK
      <4>5. u = t /\ g = r.gen /\ snap'[t][r.gen] = m /\ snap[t][r.gen] = Snapshot(u)
        BY <2>6, <3>2, <4>4
      <4>6. RecoveredSnapshot(d) = NoManifest
        BY <2>4, <4>2, <4>5 DEF RecoveredSnapshot
      <4>7. RecoveredSnapshot(d)' = NoManifest
        BY <3>3, <4>3, <4>5 DEF RecoveredSnapshot
      <4>8. QED BY <4>6, <4>7
    <3>6. QED BY <2>6, <3>4, <3>5
  <2>7. CASE snap'[t][r.gen] = snap[t][r.gen]
    BY <1>c, <2>3, <2>4, <2>7
  <2>8. QED
    <3>1. RecoveredSnapshot(d)' = RecoveredSnapshot(d)
      BY <1>a, <2>3, <2>5, <2>6, <2>7, SnapshotKinds
    <3>2. QED BY <2>3, <3>1
<1>3. QED BY <1>1, <1>2

\* The publisher keeps the snapshots and what is recorded of them.
LEMMA SnapshotsPublisher ==
    ASSUME MadeInv, RecordsInv, SnapshotsInv, PublisherStep
    PROVE  SnapshotsInv'
BY SoundPublisher, SealedPublisher, KnownPublisher, UnsavedPublisher, ExactPublisher
DEF SnapshotsInv, PublisherStep

\* A recovered record takes the baseline it is to have.
LEMMA SnapshotsRecover ==
    ASSUME MadeInv, SnapshotsInv, NEW abandon \in BOOLEAN, RecoverStep(abandon)
    PROVE  SnapshotsInv'
<1>a. /\ UNCHANGED <<journal, stage, fileOf, snap, docs, pc, todo>> /\ pc = "idle"
      /\ TypeInv /\ DocumentsMade /\ OperationsNumbered /\ ~DuplicateTarget /\ SaveRecovered(abandon)
  BY DEF RecoverStep, SaveRecovered, Unlocked, journalVars, runVars, MadeInv, BaseInv, DocsInv
<1>1. SnapshotsSound' /\ KnownBefore' /\ UnsavedInRun'
  BY <1>a DEF SnapshotsInv, SnapshotsSound, KnownBefore, UnsavedInRun, HasJournal, Made
<1>2. SealedInRun'
  BY <1>a DEF SealedInRun, Phase
<1>3. ASSUME NEW d PROVE RecoveredSnapshot(d)' = RecoveredSnapshot(d)
  BY <1>a DEF RecoveredSnapshot
<1>4. BaselineExact'
  <2>1. SUFFICES ASSUME NEW t \in Targets, NEW r \in Recorded(t)', r # NoTarget
                 PROVE  r.snap = RecoveredSnapshot(r.file)'
    BY DEF BaselineExact
  <2>2. PICK d \in RecoveredDocs(t) : r = RecoveredTarget(d)
    BY <1>a, <2>1, RecoveredRecords
  <2>3. r.snap = RecoveredSnapshot(d) /\ r.file = d
    BY <2>2 DEF RecoveredTarget
  <2>4. QED BY <1>3, <2>3
<1>5. QED BY <1>1, <1>2, <1>4 DEF SnapshotsInv

\* Removing the journal changes no snapshot and no record.
LEMMA SnapshotsClear ==
    ASSUME MadeInv, SnapshotsInv, AbandonClear
    PROVE  SnapshotsInv'
<1>a. /\ UNCHANGED <<active, prior, snap, docs, pc>> /\ HasJournal' = FALSE /\ pc = "idle"
  BY DEF AbandonClear, MadeInv, BaseInv, stateVars, runVars, HasJournal, NoJournal
<1>1. SnapshotsSound' /\ KnownBefore' /\ UnsavedInRun'
  BY <1>a DEF SnapshotsInv, SnapshotsSound, KnownBefore, UnsavedInRun
<1>2. SealedInRun'
  BY <1>a DEF SealedInRun, Phase
<1>3. BaselineExact'
  BY <1>a, SMTT(30) DEF SnapshotsInv, BaselineExact, RecoveredSnapshot, Recorded
<1>4. QED BY <1>1, <1>2, <1>3 DEF SnapshotsInv

\* An orphan is the baseline of no record.
LEMMA SnapshotsStill ==
    ASSUME MadeInv, RecordsInv, SnapshotsInv, StillStep
    PROVE  SnapshotsInv'
<1>a. /\ UNCHANGED <<journal, fileOf, active, prior, docs>>
      /\ UNCHANGED <<pc, todo>> \/ pc' = "idle"
      /\ snap' = snap \/ OrphanRemoved
      /\ TypeInv /\ BaseInv /\ DocumentsMade /\ GenTrue
  BY DEF StillStep, journalVars, stateVars, runVars, StopRun, MadeInv, BaseInv, RecordsInv
<1>1. KnownBefore' /\ UnsavedInRun'
  BY <1>a DEF SnapshotsInv, KnownBefore, UnsavedInRun, HasJournal, Made
<1>2. SealedInRun'
  <2>1. CASE pc' = "idle"
    BY <2>1 DEF SealedInRun, Phase
  <2>2. CASE pc' # "idle"
    <3>1. UNCHANGED <<pc, todo, snap>>
      BY <1>a, <2>2 DEF OrphanRemoved
    <3>2. QED BY <1>a, <3>1 DEF SnapshotsInv, SealedInRun, SealedFor, Snapshot, Phase, IsNext
  <2>3. QED BY <2>1, <2>2
<1>3. CASE snap' = snap
  <2>1. SnapshotsSound' /\ BaselineExact'
    BY <1>a, <1>3, SMTT(30) DEF SnapshotsInv, SnapshotsSound, BaselineExact, RecoveredSnapshot, Recorded
  <2>2. QED BY <1>1, <1>2, <2>1 DEF SnapshotsInv
<1>4. CASE OrphanRemoved
  <2>1. PICK u \in Targets, g \in 1..MaxOps :
          Orphan(u, g) /\ snap' = [snap EXCEPT ![u][g] = NoManifest]
    BY <1>4 DEF OrphanRemoved
  <2>2. ASSUME NEW t \in Targets, NEW h \in 1..MaxOps
        PROVE  snap'[t][h] = IF t = u /\ h = g THEN NoManifest ELSE snap[t][h]
    BY <2>1, <1>a DEF TypeInv, TypeOK, StoreTypeOK
  <2>3. SnapshotsSound'
    BY <2>2 DEF SnapshotsInv, SnapshotsSound
  <2>4. ASSUME NEW t \in Targets, NEW r \in Recorded(t), r # NoTarget
        PROVE  RecoveredSnapshot(r.file)' = RecoveredSnapshot(r.file)
    <3>1. PICK d : d = r.file
      OBVIOUS
    <3>2. /\ docs[d].key = t /\ docs[d].gen = r.gen /\ r.gen \in 1..MaxOps
          /\ r.snap = RecoveredSnapshot(d)
      BY <1>a, <2>4, <3>1, RecordedDocument DEF SnapshotsInv, BaselineExact
    <3>3. CASE t = u /\ r.gen = g
      <4>1. r.snap # snap[t][r.gen]
        BY <2>1, <2>4, <3>3 DEF Orphan
      <4>2. RecoveredSnapshot(d) = NoManifest
        BY <3>2, <4>1 DEF RecoveredSnapshot
      <4>3. snap'[t][r.gen] = NoManifest
        BY <2>2, <3>2, <3>3
      <4>4. RecoveredSnapshot(d)' = NoManifest
        BY <1>a, <3>2, <4>3 DEF RecoveredSnapshot, NoManifest
      <4>5. QED BY <3>1, <4>2, <4>4
    <3>4. CASE ~(t = u /\ r.gen = g)
      <4>1. snap'[t][r.gen] = snap[t][r.gen]
        BY <2>2, <3>2, <3>4
      <4>2. RecoveredSnapshot(d)' = RecoveredSnapshot(d)
        BY <1>a, <3>2, <4>1 DEF RecoveredSnapshot
      <4>3. QED BY <3>1, <4>2
    <3>5. QED BY <3>3, <3>4
  <2>5. BaselineExact'
    BY <1>a, <2>4 DEF SnapshotsInv, BaselineExact, Recorded
  <2>6. QED BY <1>1, <1>2, <2>3, <2>5 DEF SnapshotsInv
<1>5. QED BY <1>a, <1>3, <1>4

\* Every step keeps the snapshots and what is recorded of them.
LEMMA SnapshotsInvKept ==
    ASSUME MadeInv, RecordsInv, SnapshotsInv, [NextAnyOrphan]_everything
    PROVE  SnapshotsInv'
BY StepKinds, SnapshotsPublisher, SnapshotsStill, SnapshotsClear, SnapshotsRecover DEF MadeInv

-----------------------------------------------------------------------------
(* What has gone astray *)

NoneTrashed == \A d \in DocIds : docs[d].st # "trashed"

\* Creates that have still to take effect, and with them the live documents
\* that the state file does not name.
Inflight == {d \in DocIds : docs[d].st = "inflight"}
Strayed == {d \in DocIds : docs[d].st = "inflight" \/ (docs[d].st = "live" /\ ~InState(d))}
StrayedBounded ==
    /\ Cardinality(Inflight) <= late
    /\ abandoning => Cardinality(Strayed) <= late

\* As long as nothing is in the trash a recorded set stays whole, so that a
\* reconcile finds it again.
RecordedWhole == \A t \in Targets : \A r \in Recorded(t) : r # NoTarget => Whole(r.op)

CountInv == StrayedBounded /\ (NoneTrashed => RecordedWhole /\ CreationsBounded)

\* A document that was trashed stays there.
LEMMA TrashedStays ==
    ASSUME MadeInv, NoneTrashed', [NextAnyOrphan]_everything
    PROVE  NoneTrashed
<1>1. CASE PublisherStep
  <2>1. \A d \in Made : Grown(d)
    BY <1>1, MadeKinds DEF MadeInv
  <2>2. QED BY <2>1 DEF NoneTrashed, Grown, Settles, Made
<1>2. CASE docs' = docs
  BY <1>2 DEF NoneTrashed
<1>3. QED
  BY <1>1, <1>2, StepKinds DEF MadeInv, StillStep, AbandonClear, RecoverStep, SaveRecovered

\* The documents on their way and those astray can be counted.
LEMMA StrayedFinite ==
    ASSUME DocumentsMade
    PROVE  /\ IsFiniteSet(Inflight) /\ Cardinality(Inflight) \in Nat
           /\ IsFiniteSet(Strayed) /\ Cardinality(Strayed) \in Nat
<1>1. Inflight \subseteq Made /\ Strayed \subseteq Made
  BY DEF Inflight, Strayed, Made
<1>2. QED BY <1>1, PartCounted DEF DocumentsMade

\* A document goes astray only when a create takes effect late.
LEMMA StrayedPublisher ==
    ASSUME MadeInv, StrayedBounded, PublisherStep
    PROVE  StrayedBounded'
<1>a. /\ TypeInv /\ Position /\ DocsInv /\ DocumentsMade /\ [Next]_vars /\ late \in Nat
      /\ abandoning' = abandoning
  BY DEF MadeInv, BaseInv, PublisherStep, TypeInv, TypeOK, CountTypeOK
<1>1. PICK x : \A d \in DocIds : Grown(d) \/ (d = x /\ NewMade(d))
  BY <1>a, DocumentKinds
<1>2. late' = late \/ late' = late + 1
  BY <1>a, DocumentKinds
<1>3. /\ IsFiniteSet(Inflight) /\ Cardinality(Inflight) \in Nat /\ Cardinality(Inflight) <= late
      /\ IsFiniteSet(Strayed) /\ Cardinality(Strayed) \in Nat
  BY <1>a, StrayedFinite DEF StrayedBounded
<1>4. \A d \in Inflight' : d \in Inflight \/ (d = x /\ NewMade(d))
  BY <1>1 DEF Inflight, Grown, Settles
<1>5. Cardinality(Inflight') <= late'
  <2>1. CASE Inflight' \subseteq Inflight
    <3>1. Cardinality(Inflight') \in Nat /\ Cardinality(Inflight') <= Cardinality(Inflight)
      BY <1>3, <2>1, PartCounted
    <3>2. QED BY <1>a, <1>2, <1>3, <3>1
  <2>2. CASE ~(Inflight' \subseteq Inflight)
    <3>1. x \in Inflight' /\ NewMade(x) /\ Inflight' \subseteq Inflight \cup {x}
      BY <1>4, <2>2
    <3>2. docs'[x].st = "inflight"
      BY <3>1 DEF Inflight
    <3>3. late' = late + 1
      BY <3>1, <3>2 DEF NewMade, NewDocument
    <3>4. Cardinality(Inflight') \in Nat /\ Cardinality(Inflight') <= Cardinality(Inflight) + 1
      BY <1>3, <3>1, OneMore
    <3>5. QED BY <1>a, <1>3, <3>3, <3>4
  <2>3. QED BY <2>1, <2>2
<1>6. ASSUME abandoning PROVE Cardinality(Strayed') <= late'
  <2>1. UNCHANGED <<active, prior, late>> /\ \A d \in DocIds : Settles(d)
    <3>1. CASE UNCHANGED vars
      BY <3>1 DEF vars, stateVars, countVars, Settles
    <3>2. CASE Environment
      <4>1. UNCHANGED <<active, prior, late>>
        BY <3>2 DEF Environment, CreateLands, ReviewerEdits, ReviewerTrashes, ReviewerActs,
           durable, stateVars, countVars
      <4>2. QED BY <1>a, <3>2, <4>1, EnvironmentGrows DEF Grown
    <3>3. QED BY <1>6, <3>1, <3>2 DEF PublisherStep
  <2>2. \A d \in DocIds : InState(d)' <=> InState(d)
    BY <2>1 DEF InState, Recorded, Settles
  <2>3. Strayed' \subseteq Strayed
    BY <2>1, <2>2 DEF Strayed, Settles
  <2>4. Cardinality(Strayed') \in Nat /\ Cardinality(Strayed') <= Cardinality(Strayed)
    BY <1>3, <2>3, PartCounted
  <2>5. Cardinality(Strayed) <= late
    BY <1>6 DEF StrayedBounded
  <2>6. QED BY <1>a, <1>3, <2>1, <2>4, <2>5
<1>7. QED BY <1>a, <1>5, <1>6 DEF StrayedBounded

\* When an operation is abandoned, every live document there is gets recorded.
LEMMA StrayedRecover ==
    ASSUME MadeInv, StrayedBounded, NEW abandon \in BOOLEAN, RecoverStep(abandon)
    PROVE  StrayedBounded'
<1>a. docs' = docs /\ late' = late /\ abandoning' = (abandon /\ HasJournal)
  BY DEF RecoverStep, SaveRecovered, countVars
<1>1. Inflight' = Inflight
  BY <1>a DEF Inflight
<1>2. ASSUME abandoning' PROVE Strayed' = Inflight
  <2>1. PendingSets = {}
    BY <1>a, <1>2 DEF RecoverStep
  <2>2. ASSUME NEW d \in DocIds, docs[d].st = "live" PROVE InState(d)'
    <3>1. d \in Live /\ CompleteSet(docs[d].op)
      BY <2>1, <2>2 DEF PendingSets, Live
    <3>2. QED BY <3>1, RecoverFinds
  <2>3. QED BY <1>a, <2>2 DEF Strayed, Inflight
<1>3. QED BY <1>a, <1>1, <1>2 DEF StrayedBounded

\* No other step makes a document or takes a record away.
LEMMA StrayedOtherwise ==
    ASSUME MadeInv, StrayedBounded, StillStep \/ AbandonClear
    PROVE  StrayedBounded'
<1>1. /\ UNCHANGED <<docs, late, active, prior>> /\ (abandoning' => abandoning)
  BY DEF StillStep, AbandonClear, stateVars, countVars
<1>2. Inflight' = Inflight /\ Strayed' = Strayed
  BY <1>1 DEF Inflight, Strayed, InState, Recorded
<1>3. QED BY <1>1, <1>2 DEF StrayedBounded

\* What is whole stays whole as long as nothing is trashed.
LEMMA WholeStays ==
    ASSUME MadeInv, RecordsInv, NoneTrashed', PublisherStep,
           NEW t \in Targets, NEW r \in Recorded(t), r # NoTarget, Whole(r.op)
    PROVE  Whole(r.op)'
<1>a. /\ TypeInv /\ Position /\ DocsInv /\ BaseInv /\ DocumentsMade /\ SizesTrue /\ GenTrue
      /\ [Next]_vars /\ ops \in Nat
  BY DEF MadeInv, BaseInv, RecordsInv, PublisherStep, TypeInv, TypeOK, CountTypeOK
<1>b. PICK o : o = r.op
  OBVIOUS
<1>c. o \in Nat /\ o <= ops /\ o # 0 /\ Whole(o)
  BY <1>a, <1>b, RecordedDocument
<1>1. ASSUME NEW d \in Made, Finished(d) PROVE Finished(d)' /\ d \in Made'
  <2>1. Grown(d) /\ d \in DocIds /\ Made \subseteq Made'
    BY <1>a, MadeKinds DEF Made
  <2>2. docs'[d].st # "trashed"
    BY <2>1 DEF NoneTrashed
  <2>3. QED BY <1>1, <2>1, <2>2 DEF Finished, Grown, Settles
<1>2. CASE o # journal'.op
  <2>1. /\ \A d \in Made' : docs'[d].op = o =>
              d \in Made /\ docs[d].op = o /\ size'[d] = size[d] /\ docs'[d].key = docs[d].key
        /\ \A d \in Made : docs[d].op = o => d \in Made' /\ docs'[d].op = o
        /\ KeysOf(o)' = KeysOf(o)
    BY <1>a, <1>c, <1>2, ClosedSet
  <2>2. ASSUME NEW k \in KeysOf(o)
        PROVE  \E d \in Made' : Finished(d)' /\ docs'[d].op = o /\ docs'[d].key = k
    <3>1. PICK d \in Made : Finished(d) /\ docs[d].op = o /\ docs[d].key = k
      BY <1>c, <2>2 DEF Whole
    <3>2. QED BY <1>1, <2>1, <3>1
  <2>3. ASSUME NEW d \in Made', docs'[d].op = o PROVE size'[d] = Cardinality(KeysOf(o))
    BY <1>c, <2>1, <2>3 DEF Whole
  <2>4. Whole(o)'
    BY <2>1, <2>2, <2>3 DEF Whole
  <2>5. QED BY <1>b, <2>4
<1>3. CASE o = journal'.op
  <2>1. journal' = journal
    <3>1. ~\E items \in SUBSET Targets : Start(items)
      BY <1>a, <1>c, <1>3 DEF Start
    <3>2. ~CommitClear
      BY <1>c, <1>3 DEF CommitClear, NoJournal
    <3>3. QED BY <1>a, <3>1, <3>2, JournalKinds
  <2>2. HasJournal /\ HasJournal' /\ o = journal.op
    BY <1>c, <1>3, <2>1 DEF HasJournal
  <2>3. RecordTrue(t, r) /\ docs[r.file].op = o
    BY <1>a, <1>b DEF BaseInv, RecordsTrue, RecordTrue
  <2>4. PICK d0 \in Made : docs[d0].op = o
    BY <2>3 DEF RecordTrue, Made, Visible
  <2>5. size[d0] = Cardinality(KeysOf(o)) /\ size[d0] = Cardinality(journal.items)
    BY <1>a, <1>c, <2>2, <2>4 DEF Whole, SizesTrue, Ours
  <2>6. KeysOf(o) = journal.items
    BY <1>a, <2>2, <2>5, OurKeys
  <2>7. BaseInv' /\ DocumentsMade' /\ SizesTrue'
    BY <1>a, BasePublisher, MadePublisher, SizesPublisher
  <2>8. \A k \in KeysOf(o)' : k \in journal.items
    <3>1. ASSUME NEW d \in Made', docs'[d].op = o PROVE docs'[d].key \in journal.items
      BY <2>1, <2>2, <2>7, <3>1 DEF BaseInv, DocsInv, Announced, Ours, Made
    <3>2. QED BY <3>1 DEF KeysOf
  <2>9. ASSUME NEW k \in journal.items
        PROVE  \E d \in Made' : Finished(d)' /\ docs'[d].op = o /\ docs'[d].key = k
    <3>1. PICK d \in Made : Finished(d) /\ docs[d].op = o /\ docs[d].key = k
      BY <1>c, <2>6, <2>9 DEF Whole
    <3>2. Grown(d)
      BY <1>a, MadeKinds
    <3>3. QED BY <1>1, <3>1, <3>2 DEF Grown, Settles
  <2>10. KeysOf(o)' = journal.items
    <3>1. \A k \in journal.items : k \in KeysOf(o)'
      BY <2>9 DEF KeysOf
    <3>2. QED BY <2>8, <3>1
  <2>11. ASSUME NEW d \in Made', docs'[d].op = o PROVE size'[d] = Cardinality(journal.items)
    BY <2>1, <2>2, <2>7, <2>11 DEF SizesTrue, Ours
  <2>12. Whole(o)'
    BY <2>8, <2>9, <2>10, <2>11 DEF Whole
  <2>13. QED BY <1>b, <2>12
<1>4. QED BY <1>2, <1>3

\* A save records a whole set.
LEMMA SavedIsWhole ==
    ASSUME MadeInv, NoneTrashed, CommitSave
    PROVE  Whole(journal.op)
<1>a. /\ TypeInv /\ Position /\ DocsInv /\ BaseInv /\ DocumentsMade /\ SizesTrue /\ HasJournal
  BY DEF MadeInv, BaseInv, CommitSave, SaveFrame, TypeInv, RunHasJournal
<1>1. ASSUME NEW t \in journal.items
      PROVE  \E d \in Made : Finished(d) /\ docs[d].op = journal.op /\ docs[d].key = t
  <2>1. RecordTrue(t, NewTarget(t))
    BY <1>a, SavedRecordTrue
  <2>2. PICK d : d = NewTarget(t).file
    OBVIOUS
  <2>3. /\ d \in DocIds /\ Visible(d) /\ docs[d].op = journal.op /\ docs[d].key = t
        /\ docs[d].status = "ready" /\ docs[d].parent = "review"
    BY <2>1, <2>2 DEF RecordTrue, NewTarget
  <2>4. QED BY <2>3 DEF NoneTrashed, Visible, Made, Finished
<1>2. KeysOf(journal.op) = journal.items
  <2>1. \A t \in journal.items : t \in KeysOf(journal.op)
    BY <1>1 DEF KeysOf
  <2>2. QED BY <1>a, <2>1, OurKeys
<1>3. \A d \in Made : docs[d].op = journal.op => size[d] = Cardinality(journal.items)
  BY <1>a DEF SizesTrue, Ours
<1>4. QED BY <1>1, <1>2, <1>3 DEF Whole

\* A recorded set stays whole as long as nothing is trashed.
LEMMA RecordedWholeKept ==
    ASSUME MadeInv, RecordsInv, RecordedWhole, NoneTrashed, NoneTrashed', [NextAnyOrphan]_everything
    PROVE  RecordedWhole'
<1>a. BaseInv /\ TypeInv /\ DocsInv /\ DocumentsMade /\ SizesTrue /\ OperationsNumbered
  BY DEF MadeInv, BaseInv, DocsInv
<1>1. CASE UNCHANGED <<docs, size, active, prior>>
  <2>1. ASSUME NEW o PROVE Whole(o)' <=> Whole(o)
    BY <1>1 DEF Whole, KeysOf, Made, Finished
  <2>2. QED BY <1>1, <2>1 DEF RecordedWhole, Recorded
<1>2. ASSUME NEW abandon \in BOOLEAN, RecoverStep(abandon)
      PROVE  RecordedWhole'
  <2>1. docs' = docs /\ size' = size /\ ~DuplicateTarget /\ SaveRecovered(abandon)
    BY <1>2 DEF RecoverStep, SaveRecovered
  <2>2. ASSUME NEW t \in Targets, NEW r \in Recorded(t)', r # NoTarget
        PROVE  Whole(r.op)'
    <3>1. PICK d \in RecoveredDocs(t) : r = RecoveredTarget(d)
      BY <1>a, <2>1, <2>2, RecoveredRecords
    <3>2. d \in Live /\ CompleteSet(docs[d].op) /\ r.op = docs[d].op
      BY <3>1 DEF RecoveredDocs, RecoveredTarget
    <3>3. Whole(r.op)
      BY <1>a, <3>2, CompleteIsWhole
    <3>4. PICK o : o = r.op
      OBVIOUS
    <3>5. Whole(o)'
      BY <2>1, <3>3, <3>4 DEF Whole, KeysOf, Made, Finished
    <3>6. QED BY <3>4, <3>5
  <2>3. QED BY <2>2 DEF RecordedWhole
<1>3. CASE PublisherStep /\ ~CommitSave
  <2>1. \A t : Recorded(t)' = Recorded(t)
    BY <1>a, <1>3, OnlySavesChangeRecords DEF Recorded, PublisherStep
  <2>2. QED BY <1>3, <2>1, WholeStays DEF RecordedWhole
<1>4. CASE PublisherStep /\ CommitSave
  <2>1. docs' = docs /\ HasJournal
    BY <1>4, <1>a DEF CommitSave, SaveFrame, TypeInv, RunHasJournal
  <2>2. \A d \in DocIds : size'[d] = size[d]
    BY <1>4, <2>1 DEF PublisherStep
  <2>3. ASSUME NEW o, Whole(o) PROVE Whole(o)'
    <3>1. Made' = Made /\ KeysOf(o)' = KeysOf(o)
          /\ \A d \in Made : (Finished(d)' <=> Finished(d)) /\ size'[d] = size[d]
      BY <2>1, <2>2 DEF KeysOf, Made, Finished
    <3>2. QED BY <2>1, <2>3, <3>1 DEF Whole
  <2>4. ASSUME NEW t \in Targets, NEW r \in Recorded(t)', r # NoTarget
        PROVE  Whole(r.op)'
    <3>1. Whole(r.op)
      <4>1. CASE r \in Recorded(t)
        BY <2>4, <4>1 DEF RecordedWhole
      <4>2. CASE r = NewTarget(t)
        BY <1>4, <4>2, SavedIsWhole DEF NewTarget
      <4>3. QED BY <1>a, <1>4, <4>1, <4>2, SavedRecords
    <3>2. PICK o : o = r.op
      OBVIOUS
    <3>3. Whole(o)'
      BY <2>3, <3>1, <3>2
    <3>4. QED BY <3>2, <3>3
  <2>5. QED BY <2>4 DEF RecordedWhole
<1>5. StillStep \/ AbandonClear => UNCHANGED <<docs, size, active, prior>>
  BY DEF StillStep, AbandonClear, stateVars
<1>6. QED BY <1>a, <1>1, <1>2, <1>3, <1>4, <1>5, StepKinds

\* A reconcile finds each record again, its baseline with it.
LEMMA RecordsRecovered ==
    ASSUME MadeInv, RecordsInv, SnapshotsInv, RecordedWhole, NoneTrashed,
           NEW abandon \in BOOLEAN, RecoverStep(abandon),
           NEW t \in Targets, NEW r \in Recorded(t), r # NoTarget
    PROVE  r \in Recorded(t)'
<1>1. PICK d : d = r.file
  OBVIOUS
<1>2. /\ d \in Made /\ d \in DocIds /\ docs[d].op = r.op /\ docs[d].key = t /\ docs[d].gen = r.gen
  BY <1>1, RecordedDocument DEF MadeInv, RecordsInv
<1>3. d \in Live
  BY <1>1, <1>2 DEF MadeInv, BaseInv, RecordsTrue, RecordTrue, Visible, NoneTrashed, Live
<1>4. Whole(docs[d].op)
  BY <1>2 DEF RecordedWhole
<1>5. RecoveredTarget(d) \in Recorded(t)'
  <2>1. RecoveredTarget(d) \in Recorded(docs[d].key)'
    BY <1>3, <1>4, RecoverFinds
  <2>2. docs' = docs
    BY DEF RecoverStep, SaveRecovered
  <2>3. QED BY <1>2, <2>1, <2>2
<1>6. r.snap = RecoveredSnapshot(d)
  BY <1>1 DEF SnapshotsInv, BaselineExact
<1>7. r \in TargetRecords
  BY RecordTyped DEF MadeInv, BaseInv
<1>8. r = RecoveredTarget(d)
  BY <1>1, <1>2, <1>6, <1>7 DEF RecoveredTarget, TargetRecords
<1>9. QED BY <1>5, <1>8

\* A generation gains a second live document only by a late create.
LEMMA BoundsKept ==
    ASSUME MadeInv, MadeInv', RecordsInv, SnapshotsInv, StrayedBounded,
           RecordedWhole, CreationsBounded, NoneTrashed, [NextAnyOrphan]_everything
    PROVE  CreationsBounded'
<1>a. /\ BaseInv /\ TypeInv /\ TypeInv' /\ Position /\ DocsInv /\ DocumentsMade /\ OperationsNumbered
      /\ CreatedInOrder /\ GenTrue
  BY DEF MadeInv, BaseInv, DocsInv, RecordsInv
<1>b. \A t \in Targets : \A r \in Recorded(t) : r.file \in DocIds => r # NoTarget
  BY ConstantsOK DEF NoTarget
<1>1. CASE PublisherStep
  <2>1. FilesKept
    BY <1>a, <1>1, PublisherKeepsFiles DEF FilesKept, PublisherStep
  <2>2. ASSUME pc = "clear", NEW t \in journal.items PROVE active[t].file = fileOf[t]
    <3>1. HasJournal /\ t \in Targets /\ active[t].op = journal.op /\ active[t] \in Recorded(t)
      BY <1>a, <2>2 DEF RecordsInv, SavedInRun, Recorded, TypeInv, RunHasJournal, TypeOK, JournalTypeOK
    <3>2. QED BY <1>a, <3>1, OwnRecord
  <2>3. QED BY <1>a, <1>1, <2>1, <2>2, NextBounded DEF PublisherStep
<1>2. ASSUME NEW abandon \in BOOLEAN, RecoverStep(abandon) PROVE CreationsBounded'
  <2>1. /\ UNCHANGED <<journal, stage, fileOf, docs, late>> /\ pc' = "idle"
    BY <1>2 DEF RecoverStep, SaveRecovered, Unlocked, journalVars, runVars, countVars
  <2>2. FilesKept
    BY <1>b, <1>2, RecordsRecovered DEF FilesKept
  <2>3. Settled
    BY <2>1 DEF Settled, Settles
  <2>4. QED BY <1>a, <2>1, <2>2, <2>3, QuietKeepsBounds
<1>3. CASE StillStep
  <2>1. /\ UNCHANGED <<journal, stage, fileOf, docs, late, active, prior>>
        /\ UNCHANGED <<pc, got>> \/ pc' = "idle"
    BY <1>3 DEF StillStep, journalVars, stateVars, runVars, StopRun
  <2>2. FilesKept
    BY <2>1 DEF FilesKept, Recorded
  <2>3. Settled
    BY <2>1 DEF Settled, Settles
  <2>4. QED BY <1>a, <2>1, <2>2, <2>3, QuietKeepsBounds
<1>4. CASE AbandonClear
  <2>1. /\ UNCHANGED <<docs, late, active, prior>> /\ pc' = "idle" /\ abandoning
        /\ journal' = NoJournal /\ late \in Nat
    BY <1>4, <1>a DEF AbandonClear, stateVars, countVars, runVars, BaseInv, TypeInv, TypeOK, CountTypeOK
  <2>2. Loose' \subseteq Strayed
    BY <2>1 DEF Loose, Held, Strayed, InState, Recorded
  <2>3. /\ IsFiniteSet(Strayed) /\ Cardinality(Strayed) \in Nat /\ Cardinality(Strayed) <= late
    BY <1>a, <2>1, StrayedFinite DEF StrayedBounded
  <2>4. /\ IsFiniteSet(Loose') /\ Cardinality(Loose') \in Nat
        /\ Cardinality(Loose') <= Cardinality(Strayed)
    BY <2>2, <2>3, PartCounted
  <2>5. (Loose \ InCreation)' \subseteq Loose'
    OBVIOUS
  <2>6. /\ Cardinality((Loose \ InCreation)') \in Nat
        /\ Cardinality((Loose \ InCreation)') <= Cardinality(Loose')
    BY <2>4, <2>5, PartCounted
  <2>7. Cardinality(Loose') <= late' + 1 /\ Cardinality((Loose \ InCreation)') <= late'
    BY <2>1, <2>3, <2>4, <2>6
  <2>8. QED BY <2>1, <2>7 DEF CreationsBounded
<1>5. QED BY <1>a, <1>1, <1>2, <1>3, <1>4, StepKinds

\* Every step keeps the counts.
LEMMA CountInvKept ==
    ASSUME MadeInv, MadeInv', RecordsInv, SnapshotsInv, CountInv, [NextAnyOrphan]_everything
    PROVE  CountInv'
<1>1. StrayedBounded'
  BY StepKinds, StrayedPublisher, StrayedRecover, StrayedOtherwise DEF MadeInv, CountInv
<1>2. ASSUME NoneTrashed' PROVE RecordedWhole' /\ CreationsBounded'
  <2>1. NoneTrashed
    BY <1>2, TrashedStays
  <2>2. QED BY <1>2, <2>1, RecordedWholeKept, BoundsKept DEF CountInv
<1>3. QED BY <1>1, <1>2 DEF CountInv

-----------------------------------------------------------------------------
(* What holds of any order of publishing and recovering *)

RecoveryInv == MadeInv /\ RecordsInv /\ SnapshotsInv /\ CountInv

\* At first there is nothing: no document, record, snapshot or journal.
LEMMA InitRecoveryInv == InitRecovery => RecoveryInv
<1> SUFFICES ASSUME InitRecovery PROVE RecoveryInv
  OBVIOUS
<1>1. /\ Init /\ pc = "idle" /\ todo = {} /\ abandoning = FALSE /\ late = 0 /\ ~HasJournal
      /\ journal.items = {} /\ size \in [DocIds -> Nat]
      /\ \A d \in DocIds : docs[d].st = "absent"
      /\ \A t \in Targets : active[t] = NoTarget /\ prior[t] = << >>
      /\ \A t \in Targets : \A g \in 1..MaxOps : snap[t][g] = NoManifest
  BY DEF InitRecovery, InitCommand, Init, NoJournal, HasJournal, NoDocument
<1>2. \A t \in Targets : Recorded(t) = {NoTarget} /\ Len(prior[t]) = 0
  BY <1>1 DEF Recorded
<1>3. Made = {} /\ Inflight = {} /\ IsFiniteSet({}) /\ Cardinality({}) = 0
  BY <1>1, FS_EmptySet DEF Made, Inflight
<1>4. MadeInv
  <2>1. TypeInv /\ Position /\ DocsInv /\ CreatedInOrder /\ RecordsTrue
    BY <1>1, InitInvariant, InitPosition, InitDocs, InitBounded, InitRecords DEF IInv
  <2>2. BaseInv
    BY <1>1, <2>1 DEF BaseInv
  <2>3. DocumentsMade /\ SizesTrue
    BY <1>3 DEF DocumentsMade, SizesTrue
  <2>4. QED BY <2>2, <2>3 DEF MadeInv
<1>5. RecordsInv
  <2>1. GenTrue /\ JournalNewer /\ AllOrNone /\ SavedInRun /\ AbandonedInState
    BY <1>1, <1>2 DEF GenTrue, JournalNewer, AllOrNone, SavedInRun, AbandonedInState
  <2>2. HistorySorted /\ WholeInState
    BY <1>2, <1>3 DEF HistorySorted, WholeInState
  <2>3. QED BY <2>1, <2>2 DEF RecordsInv
<1>6. SnapshotsInv
  BY <1>1, <1>2 DEF SnapshotsInv, SnapshotsSound, SealedInRun, KnownBefore, UnsavedInRun,
     BaselineExact
<1>7. CountInv
  <2>1. StrayedBounded
    BY <1>1, <1>3 DEF StrayedBounded
  <2>2. RecordedWhole /\ CreationsBounded
    BY <1>1, <1>2, InitBounded DEF RecordedWhole
  <2>3. QED BY <2>1, <2>2 DEF CountInv
<1>8. QED BY <1>4, <1>5, <1>6, <1>7 DEF RecoveryInv

\* The four layers together are inductive.
LEMMA RecoveryInvKept ==
    ASSUME RecoveryInv, [NextAnyOrphan]_everything
    PROVE  RecoveryInv'
BY MadeInvKept, RecordsInvKept, SnapshotsInvKept, CountInvKept DEF RecoveryInv

\* Whatever is published, interrupted, lost, recovered, abandoned and removed,
\* what the documents, the records and the snapshots are to each other stays.
THEOREM RecoveryInvHolds == SpecAnyOrphan => []RecoveryInv
BY InitRecoveryInv, RecoveryInvKept, PTL DEF SpecAnyOrphan

\* The state file shows whole review sets, of documents as they were published,
\* also when it was recovered from Google.
THEOREM RecoveredSetsComplete == SpecAnyOrphan => []PublishedSetsComplete
<1>1. ASSUME RecoveryInv PROVE PublishedSetsComplete
  <2>1. RecordsTrue /\ AllOrNone
    BY <1>1 DEF RecoveryInv, MadeInv, BaseInv, RecordsInv
  <2>2. QED BY <2>1 DEF PublishedSetsComplete, RecordsTrue, RecordTrue, HasNoPlaceholder, AllOrNone
<1>2. QED BY <1>1, RecoveryInvHolds, PTL

\* No record has another baseline than the sealed snapshot of its document, and
\* one that stands in the way of an operation can be removed.
THEOREM BaselinesTrustedHolds == SpecAnyOrphan => []BaselinesTrusted
<1>1. ASSUME RecoveryInv PROVE BaselinesTrusted
  <2>a. /\ BaseInv /\ TypeInv /\ DocumentsMade /\ GenTrue /\ JournalNewer
        /\ SnapshotsSound /\ BaselineExact
    BY <1>1 DEF RecoveryInv, MadeInv, BaseInv, RecordsInv, SnapshotsInv
  <2>1. ASSUME NEW t \in Targets, NEW r \in Recorded(t), r.snap # NoManifest
        PROVE  /\ r # NoTarget /\ r.snap = snap[t][r.gen] /\ r.snap.status = "sealed"
               /\ r.snap.op = r.op /\ r.snap.file = r.file /\ r.snap.rev = r.snap.act
    <3>1. r # NoTarget
      BY <2>1 DEF NoTarget
    <3>2. PICK d : d = r.file
      OBVIOUS
    <3>3. /\ docs[d].op = r.op /\ docs[d].key = t /\ docs[d].gen = r.gen /\ r.gen \in 1..MaxOps
      BY <2>a, <3>1, <3>2, RecordedDocument
    <3>4. r.snap = RecoveredSnapshot(d)
      BY <2>a, <3>1, <3>2 DEF BaselineExact
    <3>5. /\ r.snap = snap[t][r.gen] /\ r.snap.status = "sealed"
          /\ r.snap.op = r.op /\ r.snap.file = r.file
      BY <2>1, <3>2, <3>3, <3>4 DEF RecoveredSnapshot
    <3>6. QED BY <2>1, <2>a, <3>1, <3>3, <3>5 DEF SnapshotsSound
  <2>2. RecoveredBaseline
    BY <2>1 DEF RecoveredBaseline
  <2>3. ASSUME NEW t \in journal.items, Snapshot(t) # NoManifest, Snapshot(t).op # journal.op
        PROVE  Orphan(t, journal.gen[t])
    <3>1. t \in Targets /\ HasJournal /\ journal.gen[t] \in 1..MaxOps
      BY <2>a, SnapshotTyped DEF TypeInv, RunHasJournal
    <3>2. ASSUME NEW r \in Recorded(t), r.gen = journal.gen[t], r.snap = Snapshot(t)
          PROVE  FALSE
      <4>1. r # NoTarget /\ r.op # journal.op
        BY <2>1, <2>3, <3>1, <3>2
      <4>2. r.gen < journal.gen[t]
        BY <2>a, <3>1, <4>1 DEF JournalNewer
      <4>3. QED BY <3>1, <3>2, <4>2
    <3>3. QED BY <2>3, <3>2 DEF Orphan, Snapshot
  <2>4. QED BY <2>2, <2>3 DEF BaselinesTrusted, ForeignSnapshotIsOrphan
<1>2. QED BY <1>1, RecoveryInvHolds, PTL

\* Two documents of one generation are not both held.
LEMMA OneGenerationHeld ==
    ASSUME RecoveryInv, NEW t \in Targets, NEW d \in Live, NEW e \in Live, Held(d), Held(e),
           docs[d].key = t, docs[e].key = t, docs[d].gen = docs[e].gen
    PROVE  d = e
<1>a. /\ BaseInv /\ TypeInv /\ DocsInv /\ DocumentsMade /\ GenTrue /\ JournalNewer /\ HistorySorted
  BY DEF RecoveryInv, MadeInv, BaseInv, RecordsInv
<1>b. ASSUME NEW x \in Live, NEW r \in Recorded(t), r.file = x
      PROVE  r # NoTarget /\ r.gen = docs[x].gen /\ r.gen \in Nat /\ r.op = docs[x].op
  <2>1. r # NoTarget
    BY <1>b, ConstantsOK DEF Live, NoTarget
  <2>2. QED BY <1>a, <1>b, <2>1, RecordedDocument
<1>c. ASSUME NEW x \in Live, docs[x].key = t, docs[x].op = journal.op, fileOf[t] = x
      PROVE  /\ HasJournal /\ t \in journal.items /\ docs[x].gen = journal.gen[t]
             /\ journal.gen[t] \in Nat
  <2>1. x \in Made /\ docs[x].op # 0
    BY <1>a DEF Live, Made, DocsInv, OperationsNumbered
  <2>2. HasJournal /\ Ours(x)
    BY <1>c, <2>1 DEF HasJournal, Ours
  <2>3. QED BY <1>a, <1>c, <2>1, <2>2
        DEF DocsInv, Announced, DocumentsMade, MadeAs, Made, TypeInv, TypeOK, JournalTypeOK
<1>1. ASSUME NEW x \in Live, NEW y \in Live, docs[x].key = t, docs[y].key = t,
             docs[x].gen = docs[y].gen, NEW r \in Recorded(t), r.file = x,
             docs[y].op = journal.op, fileOf[t] = y
      PROVE  x = y
  <2>1. /\ HasJournal /\ t \in journal.items /\ docs[y].gen = journal.gen[t]
        /\ journal.gen[t] \in Nat
    BY <1>c, <1>1
  <2>2. r # NoTarget /\ r.gen = docs[x].gen /\ r.gen \in Nat
    BY <1>b, <1>1
  <2>3. r.op = journal.op
    BY <1>a, <1>1, <2>1, <2>2 DEF JournalNewer
  <2>4. r.file = fileOf[t]
    BY <1>a, <2>1, <2>3, OwnRecord
  <2>5. QED BY <1>1, <2>4
<1>2. ASSUME NEW r \in Recorded(t), NEW q \in Recorded(t), r # NoTarget, q # NoTarget, r.gen = q.gen
      PROVE  r = q
  <2>1. /\ active[t].gen \in Nat /\ Len(prior[t]) \in Nat
        /\ \A i \in 1..Len(prior[t]) : prior[t][i].gen \in Nat
    BY <1>a, RecordTyped
  <2>2. \A i \in 1..Len(prior[t]) : prior[t][i].gen # active[t].gen
    BY <1>a, <2>1 DEF HistorySorted
  <2>3. ASSUME NEW i \in 1..Len(prior[t]), NEW j \in 1..Len(prior[t]), i # j
        PROVE  prior[t][i].gen # prior[t][j].gen
    <3>1. i \in 1..(j - 1) \/ j \in 1..(i - 1)
      BY <2>1, <2>3
    <3>2. prior[t][i].gen < prior[t][j].gen \/ prior[t][j].gen < prior[t][i].gen
      BY <1>a, <3>1 DEF HistorySorted
    <3>3. QED BY <2>1, <3>2
  <2>4. QED BY <1>2, <2>2, <2>3 DEF Recorded
<1>3. CASE (\E r \in Recorded(t) : r.file = d) /\ (\E q \in Recorded(t) : q.file = e)
  <2>1. PICK r \in Recorded(t), q \in Recorded(t) : r.file = d /\ q.file = e
    BY <1>3
  <2>2. r # NoTarget /\ q # NoTarget /\ r.gen = q.gen
    BY <1>b, <2>1
  <2>3. QED BY <1>2, <2>1, <2>2
<1>4. QED BY <1>1, <1>3 DEF Held

\* The generations of a target order its records, and tell its live documents
\* apart but for late creates.
THEOREM GenerationsOrderedHolds == SpecAnyOrphan => []GenerationsOrdered
<1>1. ASSUME RecoveryInv PROVE GenerationsOrdered
  <2>a. /\ BaseInv /\ TypeInv /\ DocsInv /\ DocumentsMade /\ GenTrue /\ JournalNewer /\ HistorySorted
        /\ late \in Nat
    BY <1>1 DEF RecoveryInv, MadeInv, BaseInv, RecordsInv, TypeInv, TypeOK, CountTypeOK
  <2>1. HistoryOrdered
    <3>1. ASSUME NEW t \in Targets, NEW i \in 1..Len(prior[t])
          PROVE  prior[t][i].file # active[t].file
      <4>1. /\ prior[t][i] \in Recorded(t) /\ active[t] \in Recorded(t)
            /\ prior[t][i].gen \in Nat /\ active[t].gen \in Nat
        BY <2>a, RecordTyped
      <4>2. prior[t][i] # NoTarget /\ prior[t][i].gen < active[t].gen
        BY <2>a DEF HistorySorted
      <4>3. active[t] # NoTarget
        BY <4>1, <4>2 DEF NoTarget
      <4>4. /\ docs[prior[t][i].file].gen = prior[t][i].gen
            /\ docs[active[t].file].gen = active[t].gen
        BY <2>a, <4>1, <4>2, <4>3 DEF GenTrue
      <4>5. prior[t][i].gen # active[t].gen
        BY <4>1, <4>2
      <4>6. QED BY <4>4, <4>5
    <3>2. QED BY <2>a, <3>1 DEF HistoryOrdered, HistorySorted
  <2>2. ASSUME NoneTrashed, NEW t \in Targets, NEW g \in 1..ops
        PROVE  Cardinality({d \in Live : docs[d].key = t /\ docs[d].gen = g}) <= 1 + late
    <3> DEFINE made == {d \in Live : docs[d].key = t /\ docs[d].gen = g}
    <3>1. CreationsBounded
      BY <1>1, <2>2 DEF RecoveryInv, CountInv
    <3>2. /\ IsFiniteSet(Loose) /\ Cardinality(Loose) \in Nat /\ Cardinality(Loose) <= late + 1
          /\ IsFiniteSet(Loose \ InCreation) /\ Cardinality(Loose \ InCreation) \in Nat
          /\ Cardinality(Loose \ InCreation) <= late
      BY <3>1, LooseFinite DEF CreationsBounded
    <3>3. \A d \in made : d \in DocIds /\ docs[d].st = "live" /\ (~Held(d) => d \in Loose)
      BY DEF Live, Loose
    <3>4. CASE made \cap InCreation = {}
      <4>1. \A d, e \in made : Held(d) /\ Held(e) => d = e
        BY <1>1, OneGenerationHeld
      <4>2. \E x : made \subseteq (Loose \ InCreation) \cup {x}
        BY <3>3, <3>4, <4>1
      <4>3. Cardinality(made) \in Nat /\ Cardinality(made) <= Cardinality(Loose \ InCreation) + 1
        BY <3>2, <4>2, OneMore
      <4> HIDE DEF made
      <4>4. Cardinality(made) <= 1 + late
        BY <2>a, <3>2, <4>3
      <4>5. QED BY <4>4 DEF made
    <3>5. ASSUME NEW c \in made, c \in InCreation
          PROVE  Cardinality(made) <= 1 + late
      <4>1. docs[c].op = journal.op /\ stage[t] = Creating /\ fileOf[t] = NoDoc
        BY <2>a, <3>5, StageOrder DEF InCreation, DocsInv, EntriesTrue
      <4>2. HasJournal /\ c \in Made
        BY <2>a, <3>3, <4>1 DEF DocsInv, OperationsNumbered, HasJournal, Made
      <4>3. t \in journal.items /\ g = journal.gen[t] /\ journal.gen[t] \in Nat
        BY <2>a, <3>3, <4>1, <4>2 DEF DocsInv, Announced, Ours, DocumentsMade, MadeAs,
           TypeInv, TypeOK, JournalTypeOK
      <4>4. ASSUME NEW d \in made PROVE ~Held(d)
        <5>1. d # NoDoc
          BY <3>3, ConstantsOK
        <5>2. ASSUME NEW r \in Recorded(t), r.file = d PROVE FALSE
          <6>1. r # NoTarget
            BY <5>1, <5>2 DEF NoTarget
          <6>2. r.gen = g
            BY <2>a, <5>2, <6>1 DEF GenTrue
          <6>3. r.op = journal.op
            BY <2>a, <4>2, <4>3, <6>1, <6>2 DEF JournalNewer
          <6>4. r.file = fileOf[t]
            BY <2>a, <4>2, <6>3, OwnRecord
          <6>5. QED BY <4>1, <5>1, <5>2, <6>4
        <5>3. QED BY <4>1, <5>1, <5>2 DEF Held
      <4>5. made \subseteq Loose
        BY <3>3, <4>4
      <4>6. Cardinality(made) \in Nat /\ Cardinality(made) <= Cardinality(Loose)
        BY <3>2, <4>5, PartCounted
      <4> HIDE DEF made
      <4>7. QED BY <2>a, <3>2, <4>6
    <3>6. QED BY <3>4, <3>5
  <2>3. GenerationsDistinct
    BY <2>2 DEF GenerationsDistinct, NoneTrashed
  <2>4. QED BY <2>1, <2>3 DEF GenerationsOrdered
<1>2. QED BY <1>1, RecoveryInvHolds, PTL

\* A reconcile recovers every record there was, its baseline with it, as long
\* as no document is in the trash.
THEOREM ReconcileRecoversHolds == SpecAnyOrphan => ReconcileRecovers
<1> DEFINE Step == (stateFile' = "present" /\ stateVars' # stateVars /\ pc = "idle"
                      /\ \A d \in DocIds : docs[d].st # "trashed")
                   => \A t \in Targets : Recorded(t) \ {NoTarget} \subseteq Recorded(t)'
<1>1. ASSUME RecoveryInv, [NextAnyOrphan]_everything PROVE Step
  <2>1. SUFFICES ASSUME stateVars' # stateVars, pc = "idle", NoneTrashed
                 PROVE  \A t \in Targets : Recorded(t) \ {NoTarget} \subseteq Recorded(t)'
    BY DEF NoneTrashed
  <2>2. MadeInv /\ BaseInv /\ TypeInv /\ RecordsInv /\ SnapshotsInv /\ RecordedWhole
    BY <1>1, <2>1 DEF RecoveryInv, MadeInv, BaseInv, CountInv
  <2>3. ~PublisherStep
    BY <2>1, <2>2, OnlySavesChangeRecords DEF PublisherStep, CommitSave, SaveFrame, stateVars
  <2>4. ~StillStep /\ ~AbandonClear
    BY <2>1 DEF StillStep, AbandonClear
  <2>5. PICK abandon \in BOOLEAN : RecoverStep(abandon)
    BY <1>1, <2>2, <2>3, <2>4, StepKinds
  <2>6. QED BY <2>1, <2>2, <2>5, RecordsRecovered
<1>2. RecoveryInv /\ [NextAnyOrphan]_everything => [Step]_everything
  BY <1>1
<1>3. QED BY <1>2, RecoveryInvHolds, PTL DEF SpecAnyOrphan, ReconcileRecovers

\* When the journal of an abandoned operation is removed, the live documents it
\* made are in the state file, but for creates that took effect late.
THEOREM AbandonLosesNothingHolds == SpecAnyOrphan => AbandonLosesNothing
<1> DEFINE lost == {d \in Live : docs[d].op = journal.op
                                 /\ \A r \in Recorded(docs[d].key) : r.file # d}
<1>1. ASSUME RecoveryInv, abandoning PROVE Cardinality(lost) <= late
  <2>1. lost \subseteq Strayed
    BY DEF Strayed, Live, InState
  <2>2. /\ IsFiniteSet(Strayed) /\ Cardinality(Strayed) \in Nat /\ Cardinality(Strayed) <= late
        /\ late \in Nat
    BY <1>1, StrayedFinite
    DEF RecoveryInv, MadeInv, BaseInv, CountInv, StrayedBounded, TypeInv, TypeOK, CountTypeOK
  <2>3. Cardinality(lost) \in Nat /\ Cardinality(lost) <= Cardinality(Strayed)
    BY <2>1, <2>2, PartCounted
  <2> HIDE DEF lost
  <2>4. QED BY <2>2, <2>3
<1> DEFINE Step == abandoning /\ HasJournal /\ ~HasJournal' => Cardinality(lost) <= late
<1>2. RecoveryInv => Step
  BY <1>1
<1>3. QED BY <1>2, RecoveryInvHolds, PTL DEF SpecAnyOrphan, AbandonLosesNothing

=============================================================================
