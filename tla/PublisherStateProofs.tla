------------------------ MODULE PublisherStateProofs ------------------------
(***************************************************************************)
(* Proofs that what BatchPublisher leaves in the state file and in the     *)
(* review snapshots is complete and ordered: whole review sets, documents  *)
(* that are as published, baselines of exactly those documents; and that   *)
(* it loses no document it created and creates one per target, but for     *)
(* creates that took effect after it had looked for them.                  *)
(*                                                                         *)
(* The third layer of the invariant: the snapshots of the unfinished       *)
(* operation are its own, a save made once stays what a repeated save      *)
(* would write, and the records of a target belong to growing operations   *)
(* and generations.  The fourth counts the documents that neither the      *)
(* state file nor the journal names.  Its bound moves with the run: one is *)
(* to spare before a create is issued, and after a lookup found the only   *)
(* one, that one no longer counts.  The last one says what makes a run go  *)
(* on: entries take the jumps of their kind, hashes are those on disk.     *)
(***************************************************************************)
EXTENDS BatchPublisherProofs, FiniteSetTheorems, WellFoundedInduction

-----------------------------------------------------------------------------
(* What the state file and the snapshots hold *)

\* The snapshot of an item is this operation's once it is captured, of the
\* document in the journal, and sealed at the captured revision.
SnapshotsTrue ==
    /\ \A t \in Targets : \A g \in 1..MaxOps : snap[t][g].op <= ops
    /\ \A t \in journal.items \cap ReviewPull :
          /\ Snapshot(t).op = journal.op =>
                /\ Snapshot(t).file = fileOf[t] /\ stage[t] >= CapturingReview
                /\ Snapshot(t).status \in {"candidate", "sealed"}
                /\ Snapshot(t).status = "sealed" => Snapshot(t).rev = Snapshot(t).act
          /\ stage[t] >= ReviewCaptured => Snapshot(t).op = journal.op
          /\ stage[t] >= ReviewSealed => Snapshot(t).status = "sealed"

\* What a run knows of the snapshot at hand before it records it.
SnapshotAtHand ==
    \A t \in todo : IsNext(t) =>
        /\ pc = "captured" => Snapshot(t).op = journal.op
        /\ pc = "sealed" => Snapshot(t).op = journal.op /\ Snapshot(t).status = "sealed"

\* Saving again would change nothing.
SavedForGood ==
    Saved => \A t \in journal.items : active[t] = NewTarget(t) /\ stage[t] >= Committing

\* The records of a target are those of growing operations and generations.
RecordsOrdered ==
    /\ HasJournal /\ ~Saved => \A t \in Targets : active[t].op < journal.op
    /\ HasJournal => \A t \in Targets \ journal.items : active[t].op < journal.op
    /\ \A t \in Targets : \A i \in 1..Len(prior[t]) :
          /\ prior[t][i].op < active[t].op
          /\ prior[t][i].gen >= 1 /\ prior[t][i].gen < active[t].gen
          /\ \A j \in 1..(i - 1) : /\ prior[t][j].gen < prior[t][i].gen
                                  /\ prior[t][j].op < prior[t][i].op

StoreInv == SnapshotsTrue /\ SnapshotAtHand /\ SavedForGood /\ RecordsOrdered /\ SealedBaseline

\* A record names a document that is as it was published.
RecordTrue(t, r) ==
    /\ r.file \in DocIds /\ Visible(r.file)
    /\ docs[r.file].op = r.op /\ docs[r.file].key = t
    /\ docs[r.file].status = "ready" /\ docs[r.file].parent = "review"
    /\ HasNoPlaceholder(r.file, t)
RecordsTrue ==
    \A t \in Targets : \A r \in Recorded(t) : r # NoTarget => RecordTrue(t, r)

-----------------------------------------------------------------------------
(* Documents in every step *)

\* Whatever a step does, a document of Google that is there evolves.
LEMMA DocumentsEvolve ==
    ASSUME TypeInv, Position, DocsInv, [Next]_vars, NEW d \in DocIds, docs[d].st # "absent"
    PROVE  Evolves(d)
<1>a. TypeInv /\ docs \in [DocIds -> Documents]
  BY DEF IInv, TypeInv, TypeOK, DocsTypeOK
<1>1. CASE docs' = docs
  BY <1>1, UntouchedEvolves
<1>2. CASE Environment
  BY <1>a, <1>2, EnvironmentEvolves
<1>3. ASSUME NEW t \in Targets, CreateStep(t) PROVE Evolves(d)
  <2>1. ASSUME NEW e \in DocIds, NEW v, docs[e].st = "absent",
               docs' = [docs EXCEPT ![e] = NewDocument(t, v)]
        PROVE  Evolves(d)
    <3>1. docs'[d] = docs[d]
      BY <1>a, <2>1
    <3>2. QED BY <3>1, UntouchedEvolves
  <2>2. CASE docs' # docs
    BY <1>3, <2>1, <2>2 DEF CreateStep, CreateBegin, Pass, LookupNone, LookupRefuse, LookupMatch,
       CreateIssue, CreateFail, CreateRecord, Refuse, OnlyRun, OnlyStage
  <2>3. QED BY <1>1, <2>2
<1>4. ASSUME NEW t \in Targets, LinksStep(t) PROVE Evolves(d)
  <2>1. CASE LinksUpdate(t)
    BY <2>1, UpdateEvolves
  <2>2. CASE ~LinksUpdate(t)
    BY <1>1, <1>4, <2>2 DEF LinksStep, LinksBegin, Pass, LinksRead, LinksReadRefuse,
       LinksUpdateFail, LinksUpdateRefuse, LinksRecord, Refuse, OnlyRun, OnlyStage
  <2>3. QED BY <2>1, <2>2
<1>5. ASSUME NEW t \in Targets, ReadyStep(t) PROVE Evolves(d)
  <2>1. CASE ReadyMark(t)
    BY <2>1, MarkEvolves
  <2>2. CASE ~ReadyMark(t)
    BY <1>1, <1>5, <2>2 DEF ReadyStep, ReadyBegin, Pass, ReadyFail, ReadyRecord, OnlyRun, OnlyStage
  <2>3. QED BY <2>1, <2>2
<1>6. ASSUME NEW t \in Targets, MoveStep(t) PROVE Evolves(d)
  <2>1. CASE MoveRelocate(t)
    BY <2>1, RelocateEvolves
  <2>2. CASE ~MoveRelocate(t)
    BY <1>1, <1>6, <2>2 DEF MoveStep, MoveBegin, MoveKnown, MoveFail, MoveRecord, MoveFinalRead,
       OnlyRun, OnlyStage
  <2>3. QED BY <2>1, <2>2
<1>7. ASSUME NEW t \in Targets, CaptureStep(t) \/ SealStep(t) PROVE Evolves(d)
  BY <1>1, <1>7 DEF CaptureStep, CaptureBegin, CaptureKnown, CaptureFound, CaptureWrite,
     CaptureRefuse, CaptureRecord, SealStep, SealBegin, SealWrite, SealFound, SealRefuse,
     SealRecord, SealKnown, Pass, Refuse, OnlyRun, OnlyStage
<1>8. CASE CommitStep
  BY <1>1, <1>8 DEF CommitStep, CommitSave, SaveFrame, CommitClear, CommitBegin, CommitRecord,
     OnlyStage
<1>9. CASE NextLoop \/ Resume \/ Interrupt \/ UNCHANGED vars
  BY <1>1, <1>9 DEF NextLoop, Resume, Interrupt, OnlyRun, OnlyStage, vars
<1>10. ASSUME NEW items \in SUBSET Targets, Start(items) PROVE Evolves(d)
  BY <1>1, <1>10 DEF Start
<1>11. QED
  BY <1>2, <1>3, <1>4, <1>5, <1>6, <1>7, <1>8, <1>9, <1>10 DEF Next, RunStep

\* A recorded document that evolves stays as it was published.
LEMMA RecordStaysTrue ==
    ASSUME NEW t \in Targets, NEW r, RecordTrue(t, r), Evolves(r.file)
    PROVE  /\ r.file \in DocIds /\ docs'[r.file].st \in {"live", "trashed"}
           /\ docs'[r.file].op = r.op /\ docs'[r.file].key = t
           /\ docs'[r.file].status = "ready" /\ docs'[r.file].parent = "review"
           /\ \A u \in Links[t] : docs'[r.file].link[u] # Placeholder
<1>1. \A u \in Links[t] : u \in Targets
  BY ConstantsOK
<1>2. QED BY <1>1, ConstantsOK DEF RecordTrue, HasNoPlaceholder, Evolves
-----------------------------------------------------------------------------
(* The records of the state file *)

\* The targets a state file records after one more was made prior.
LEMMA RecordedAppend ==
    ASSUME NEW s \in Seq(TargetRecords), NEW r \in TargetRecords
    PROVE  /\ Len(Append(s, r)) = Len(s) + 1 /\ Len(s) \in Nat
           /\ \A i \in 1..Len(s) : Append(s, r)[i] = s[i]
           /\ Append(s, r)[Len(s) + 1] = r
           /\ {Append(s, r)[i] : i \in 1..Len(Append(s, r))} = {s[i] : i \in 1..Len(s)} \cup {r}
<1>1. /\ Len(Append(s, r)) = Len(s) + 1 /\ Len(s) \in Nat
      /\ \A i \in 1..Len(s) : Append(s, r)[i] = s[i]
      /\ Append(s, r)[Len(s) + 1] = r
  OBVIOUS
<1>2. \A i \in 1..(Len(s) + 1) : i \in 1..Len(s) \/ i = Len(s) + 1
  BY <1>1
<1>3. \A i \in 1..Len(s) : i \in 1..(Len(s) + 1)
  BY <1>1
<1>4. Len(s) + 1 \in 1..(Len(s) + 1)
  BY <1>1
<1> DEFINE q == Append(s, r)
           n == Len(s)
<1> HIDE DEF q, n
<1>5. {q[i] : i \in 1..(n + 1)} = {s[i] : i \in 1..n} \cup {r}
  BY <1>1, <1>2, <1>3, <1>4 DEF q, n
<1>6. QED BY <1>1, <1>5 DEF q, n

\* What CommitSave does to the records of each target.
LEMMA SaveRecords ==
    ASSUME TypeInv, CommitSave, NEW t \in Targets
    PROVE  /\ t \notin journal.items => active'[t] = active[t] /\ prior'[t] = prior[t]
           /\ t \in journal.items =>
                 /\ active'[t] = NewTarget(t)
                 /\ \/ /\ active[t] # NoTarget /\ active[t].op # journal.op
                       /\ prior'[t] = Append(prior[t], active[t])
                    \/ /\ active[t] = NoTarget \/ active[t].op = journal.op
                       /\ prior'[t] = prior[t]
           /\ active[t] \in TargetRecords /\ prior[t] \in Seq(TargetRecords)
<1>1. /\ active' = [u \in Targets |-> IF u \in journal.items THEN NewTarget(u) ELSE active[u]]
      /\ prior' = [u \in Targets |->
            IF u \in journal.items /\ active[u] # NoTarget /\ active[u].op # journal.op
            THEN Append(prior[u], active[u]) ELSE prior[u]]
  BY DEF CommitSave, SaveActive
<1>2. active[t] \in TargetRecords /\ prior[t] \in Seq(TargetRecords)
  BY DEF IInv, TypeInv, TypeOK, StoreTypeOK
<1>3. QED BY <1>1, <1>2

\* After a save a target's records are those it had, and the saved one.
LEMMA SavedRecords ==
    ASSUME TypeInv, CommitSave, NEW t \in Targets
    PROVE  \A r \in Recorded(t)' : r \in Recorded(t) \/ (t \in journal.items /\ r = NewTarget(t))
<1>1. /\ t \notin journal.items => active'[t] = active[t] /\ prior'[t] = prior[t]
      /\ t \in journal.items =>
            /\ active'[t] = NewTarget(t)
            /\ prior'[t] = Append(prior[t], active[t]) \/ prior'[t] = prior[t]
      /\ active[t] \in TargetRecords /\ prior[t] \in Seq(TargetRecords)
  BY SaveRecords
<1>2. CASE prior'[t] = prior[t]
  BY <1>1, <1>2 DEF Recorded
<1>3. CASE prior'[t] = Append(prior[t], active[t])
  <2>1. {prior'[t][i] : i \in 1..Len(prior'[t])} = {prior[t][i] : i \in 1..Len(prior[t])} \cup {active[t]}
    BY <1>1, <1>3, RecordedAppend
  <2>2. QED BY <1>1, <2>1 DEF Recorded
<1>4. QED BY <1>1, <1>2, <1>3

-----------------------------------------------------------------------------
(* StoreInv is inductive *)

\* A stage recorded for the item at hand keeps StoreInv when what it claims of
\* the snapshot is so.
LEMMA StageKeepsStore ==
    ASSUME TypeInv, TypeOK', StoreInv, NEW t \in Targets, NEW next \in Stages,
           UNCHANGED <<journal, fileOf, active, prior, snap, ops>>,
           Advance(t, next) \/ Announce(t, next) \/ UNCHANGED stage,
           t \in ReviewPull /\ next >= ReviewCaptured =>
               stage[t] >= ReviewCaptured \/ Snapshot(t).op = journal.op,
           t \in ReviewPull /\ next >= ReviewSealed =>
               stage[t] >= ReviewSealed \/ Snapshot(t).status = "sealed",
           SnapshotAtHand'
    PROVE  StoreInv'
<1>1. /\ \A u \in Targets \ {t} : stage'[u] = stage[u]
      /\ stage[t] <= stage'[t]
      /\ stage' = stage \/ stage'[t] = next
  BY LoopStepKinds
<1>2. /\ \A u \in Targets : stage[u] \in Nat /\ stage'[u] \in Nat
      /\ journal.items \subseteq Targets
  BY NamedStages DEF TypeInv, TypeOK, JournalTypeOK
<1>3. \A u \in Targets : stage[u] <= stage'[u]
  BY <1>1, <1>2
<1>4. SnapshotsTrue'
  <2>1. ASSUME NEW u \in journal.items \cap ReviewPull
        PROVE  /\ Snapshot(u).op = journal.op =>
                     /\ Snapshot(u).file = fileOf[u] /\ stage'[u] >= CapturingReview
                     /\ Snapshot(u).status \in {"candidate", "sealed"}
                     /\ Snapshot(u).status = "sealed" => Snapshot(u).rev = Snapshot(u).act
               /\ stage'[u] >= ReviewCaptured => Snapshot(u).op = journal.op
               /\ stage'[u] >= ReviewSealed => Snapshot(u).status = "sealed"
    <3>1. stage'[u] >= ReviewCaptured => Snapshot(u).op = journal.op
      BY <1>1, <1>2 DEF StoreInv, SnapshotsTrue
    <3>2. stage'[u] >= ReviewSealed => Snapshot(u).status = "sealed"
      BY <1>1, <1>2 DEF StoreInv, SnapshotsTrue
    <3>3. stage[u] >= CapturingReview => stage'[u] >= CapturingReview
      BY <1>2, <1>3, StageOrder
    <3>4. QED BY <3>1, <3>2, <3>3 DEF StoreInv, SnapshotsTrue
  <2>2. \A u \in journal.items : Snapshot(u)' = Snapshot(u)
    BY DEF Snapshot
  <2>3. QED BY <2>1, <2>2 DEF StoreInv, SnapshotsTrue
<1>5. SavedForGood'
  <2>1. \A u \in journal.items : stage[u] >= Committing => stage'[u] >= Committing
    BY <1>2, <1>3, StageOrder
  <2>2. QED BY <2>1 DEF StoreInv, SavedForGood, Saved, NewTarget, Snapshot
<1>6. RecordsOrdered'
  BY DEF StoreInv, RecordsOrdered, Saved, HasJournal
<1>7. SealedBaseline'
  BY DEF StoreInv, SealedBaseline, Recorded
<1>8. QED BY <1>4, <1>5, <1>6, <1>7 DEF StoreInv

\* A step that neither saves, nor records, nor writes a snapshot keeps it.
LEMMA QuietKeepsStore ==
    ASSUME StoreInv, UNCHANGED <<journal, stage, fileOf, active, prior, snap, ops>>,
           SnapshotAtHand'
    PROVE  StoreInv'
<1>1. SnapshotsTrue'
  BY DEF StoreInv, SnapshotsTrue, Snapshot
<1>2. SavedForGood'
  BY DEF StoreInv, SavedForGood, Saved, NewTarget, Snapshot
<1>3. RecordsOrdered' /\ SealedBaseline'
  BY DEF StoreInv, RecordsOrdered, SealedBaseline, Saved, HasJournal, Recorded
<1>4. QED BY <1>1, <1>2, <1>3 DEF StoreInv

\* After a step to any other label nothing is claimed of the snapshot at hand.
LEMMA NothingAtHand ==
    ASSUME pc' \notin {"captured", "sealed"}
    PROVE  SnapshotAtHand'
BY DEF SnapshotAtHand

\* Before an operation is saved, the generation of its items is free: no record
\* of the state file names it.
LEMMA GenerationFree ==
    ASSUME IInv, RecordsOrdered, ~Saved, NEW t \in journal.items
    PROVE  /\ \A r \in Recorded(t) : r.gen < journal.gen[t]
           /\ \A u \in Targets : \A r \in Recorded(u) : r # NoTarget => r.gen \in 1..MaxOps
<1>0. /\ active \in [Targets -> TargetRecords] /\ prior \in [Targets -> Seq(TargetRecords)]
      /\ journal.items \subseteq Targets /\ MaxOps \in Nat /\ ops \in Nat
  BY ConstantsOK DEF IInv, TypeInv, TypeOK, JournalTypeOK, StoreTypeOK, CountTypeOK
<1>1. /\ \A u \in Targets : active[u] \in TargetRecords /\ active[u].gen \in Nat
      /\ \A u \in Targets : \A i \in 1..Len(prior[u]) : prior[u][i].gen \in Nat
      /\ journal.gen[t] = active[t].gen + 1
  <2>1. \A r \in TargetRecords : r.gen \in Nat
    BY DEF TargetRecords
  <2>2. \A u \in Targets : active[u] \in TargetRecords
    BY <1>0
  <2>3. \A u \in Targets : \A i \in 1..Len(prior[u]) : prior[u][i] \in TargetRecords
    BY <1>0
  <2>4. journal.gen[t] = active[t].gen + 1
    BY DEF IInv, SavedWhole
  <2>5. QED BY <2>1, <2>2, <2>3, <2>4
<1>2. \A r \in Recorded(t) : r.gen < journal.gen[t]
  BY <1>0, <1>1 DEF Recorded, RecordsOrdered
<1>3. \A u \in Targets : active[u].gen <= ops /\ ops <= MaxOps
                         /\ (active[u] # NoTarget => active[u].gen >= 1)
  BY DEF IInv, SavedWhole, TypeInv, GenerationsBounded
<1>4. ASSUME NEW u \in Targets, NEW r \in Recorded(u), r # NoTarget
      PROVE  r.gen \in 1..MaxOps
  BY <1>0, <1>1, <1>3, <1>4 DEF Recorded, RecordsOrdered
<1>5. QED BY <1>2, <1>4

\* Writing a snapshot of an item that is not saved yet keeps StoreInv.
LEMMA WriteKeepsStore ==
    ASSUME IInv, IInv', StoreInv, NEW t \in journal.items, t \in ReviewPull, ~Saved,
           UNCHANGED <<journal, stage, fileOf, active, prior, ops>>,
           NEW m \in Manifests, snap' = [snap EXCEPT ![t][journal.gen[t]] = m],
           m.op = journal.op, m.file = fileOf[t], m.status \in {"candidate", "sealed"},
           m.status = "sealed" => m.rev = m.act,
           stage[t] >= CapturingReview, stage[t] >= ReviewSealed => m.status = "sealed",
           SnapshotAtHand'
    PROVE  StoreInv'
<1>1. /\ t \in Targets /\ journal.gen[t] \in 1..MaxOps /\ journal.items \subseteq Targets
      /\ snap \in [Targets -> [1..MaxOps -> Manifests]] /\ HasJournal
      /\ journal.op <= ops
  BY SnapshotTyped
  DEF IInv, TypeInv, TypeOK, JournalTypeOK, StoreTypeOK, RunHasJournal, GenerationsBounded
<1>2. /\ \A u \in Targets \ {t} : snap'[u] = snap[u]
      /\ \A g \in 1..MaxOps : snap'[t][g] = IF g = journal.gen[t] THEN m ELSE snap[t][g]
  BY <1>1
<1>3. /\ Snapshot(t)' = m
      /\ \A u \in journal.items \ {t} : Snapshot(u)' = Snapshot(u)
  BY <1>1, <1>2 DEF Snapshot
<1>4. SnapshotsTrue'
  <2>1. \A u \in Targets : \A g \in 1..MaxOps : snap'[u][g].op <= ops
    BY <1>1, <1>2 DEF StoreInv, SnapshotsTrue
  <2>2. \A u \in journal.items \cap ReviewPull :
          /\ Snapshot(u)'.op = journal.op =>
                /\ Snapshot(u)'.file = fileOf[u] /\ stage[u] >= CapturingReview
                /\ Snapshot(u)'.status \in {"candidate", "sealed"}
                /\ Snapshot(u)'.status = "sealed" => Snapshot(u)'.rev = Snapshot(u)'.act
          /\ stage[u] >= ReviewCaptured => Snapshot(u)'.op = journal.op
          /\ stage[u] >= ReviewSealed => Snapshot(u)'.status = "sealed"
    BY <1>3 DEF StoreInv, SnapshotsTrue
  <2>3. QED BY <2>1, <2>2 DEF SnapshotsTrue
<1>5. SavedForGood' /\ RecordsOrdered'
  BY DEF StoreInv, SavedForGood, RecordsOrdered, Saved, HasJournal
<1>6. SealedBaseline'
  <2>1. RecordsOrdered
    BY DEF StoreInv
  <2>2. \A r \in Recorded(t) : r # NoTarget => r.gen \in 1..MaxOps /\ r.gen < journal.gen[t]
    BY <1>1, <2>1, GenerationFree
  <2>3. \A r \in Recorded(t) : r # NoTarget => snap'[t][r.gen] = snap[t][r.gen]
    BY <1>1, <1>2, <2>2
  <2>4. \A u \in Targets : Recorded(u)' = Recorded(u)
    BY DEF Recorded
  <2>5. QED BY <1>2, <2>3, <2>4, ConstantsOK DEF StoreInv, SealedBaseline
<1>7. QED BY <1>4, <1>5, <1>6 DEF StoreInv

\* The create loop keeps StoreInv: no snapshot and no save is of a document
\* that is being created.
LEMMA CreateKeepsStore ==
    ASSUME IInv, IInv', Position, StoreInv, NEW t \in Targets, CreateStep(t)
    PROVE  StoreInv'
<1>a. /\ TypeInv /\ TypeOK' /\ IsNext(t) /\ t \in journal.items /\ HasJournal
      /\ stage[t] \in Nat /\ journal.items \subseteq Targets
      /\ UNCHANGED <<journal, active, prior, snap, ops>>
      /\ pc' \in {"lookup", "create", "issue", "record", "idle"}
  BY NamedStages
  DEF IInv, TypeInv, TypeOK, JournalTypeOK, RunHasJournal, IsNext, CreateStep, CreateBegin, Pass,
      LookupNone, LookupRefuse, LookupMatch, CreateIssue, CreateFail, CreateRecord, Refuse,
      Goto, ItemDone, StopRun, OnlyRun, OnlyStage, OnlyDocs, durable, journalVars, stateVars,
      countVars
<1>b. SnapshotAtHand'
  BY <1>a, NothingAtHand
<1>1. CASE CreateRecord(t)
  <2>1. /\ stage' = [stage EXCEPT ![t] = Created] /\ fileOf' = [fileOf EXCEPT ![t] = got]
        /\ stage[t] < Created
    BY <1>1 DEF CreateRecord, Advance, IInv, TypeInv, FilesRecorded, IsNext
  <2>2. \A u \in Targets \ {t} : stage'[u] = stage[u] /\ fileOf'[u] = fileOf[u]
    BY <1>a, <2>1 DEF TypeInv, TypeOK, JournalTypeOK
  <2>3. ~Saved
    BY <1>a, <2>1, StageOrder DEF StoreInv, SavedForGood
  <2>4. t \in ReviewPull => Snapshot(t).op # journal.op
    BY <1>a, <2>1, StageOrder DEF StoreInv, SnapshotsTrue
  <2>5. stage'[t] = Created
    BY <2>1 DEF TypeInv, TypeOK, JournalTypeOK, IInv
  <2>6. SnapshotsTrue'
    <3>1. \A u \in journal.items : Snapshot(u)' = Snapshot(u)
      BY <1>a DEF Snapshot
    <3>2. \A u \in journal.items \cap ReviewPull :
            /\ Snapshot(u).op = journal.op =>
                  /\ Snapshot(u).file = fileOf'[u] /\ stage'[u] >= CapturingReview
                  /\ Snapshot(u).status \in {"candidate", "sealed"}
                  /\ Snapshot(u).status = "sealed" => Snapshot(u).rev = Snapshot(u).act
            /\ stage'[u] >= ReviewCaptured => Snapshot(u).op = journal.op
            /\ stage'[u] >= ReviewSealed => Snapshot(u).status = "sealed"
      BY <1>a, <2>2, <2>4, <2>5, StageOrder DEF StoreInv, SnapshotsTrue
    <3>3. QED BY <1>a, <3>1, <3>2 DEF StoreInv, SnapshotsTrue
  <2>7. SavedForGood' /\ RecordsOrdered' /\ SealedBaseline'
    BY <1>a, <2>3 DEF StoreInv, SavedForGood, RecordsOrdered, SealedBaseline, Saved, HasJournal,
       Recorded
  <2>8. QED BY <1>b, <2>6, <2>7 DEF StoreInv
<1>2. CASE CreateBegin(t)
  <2>1. Announce(t, Creating) /\ UNCHANGED fileOf
    BY <1>2 DEF CreateBegin, OnlyStage
  <2>2. QED BY <1>a, <1>b, <2>1, StageKeepsStore, NamedStages, StageOrder
<1>3. CASE ~CreateRecord(t) /\ ~CreateBegin(t)
  <2>1. UNCHANGED <<stage, fileOf>>
    BY <1>3 DEF CreateStep, Pass, LookupNone, LookupRefuse, LookupMatch, CreateIssue, CreateFail,
       Refuse, OnlyRun, OnlyStage, OnlyDocs, durable, journalVars
  <2>2. QED BY <1>a, <1>b, <2>1, QuietKeepsStore
<1>4. QED BY <1>1, <1>2, <1>3

\* The item at hand after the create loop.
LEMMA ItemPassed ==
    ASSUME IInv, Position, NEW t \in Targets, IsNext(t), pc # "idle"
    PROVE  /\ t \in journal.items /\ stage[t] \in Nat /\ HasJournal
           /\ Through(t, Phase - 1)
           /\ Phase \in {3, 6} => t \in ReviewPull
BY NamedStages
DEF IInv, TypeInv, TypeOK, JournalTypeOK, RunHasJournal, IsNext, Position, LoopsDone, ItemAnnounced

\* Fixing links, marking ready and moving keep StoreInv.
LEMMA DocumentLoopsKeepStore ==
    ASSUME IInv, IInv', Position, StoreInv, NEW t \in Targets,
           LinksStep(t) \/ ReadyStep(t) \/ MoveStep(t)
    PROVE  StoreInv'
<1>1. /\ TypeInv /\ TypeOK' /\ IsNext(t)
      /\ UNCHANGED <<journal, fileOf, active, prior, snap, ops>>
  BY DEF IInv, TypeInv, LinksStep, LinksBegin, Pass, LinksRead, LinksReadRefuse, LinksUpdate,
     LinksUpdateFail, LinksUpdateRefuse, LinksRecord, Refuse, ReadyStep, ReadyBegin, ReadyMark,
     ReadyFail, ReadyRecord, MoveStep, MoveBegin, MoveKnown, MoveRelocate, MoveFail, MoveRecord,
     MoveFinalRead, OnlyRun, OnlyStage, OnlyDocs, durable, journalVars, stateVars, countVars
<1>2. pc' \notin {"captured", "sealed"}
  BY CallKinds
  DEF LinksStep, LinksBegin, Pass, LinksRead, LinksReadRefuse, LinksUpdate, LinksUpdateFail,
     LinksUpdateRefuse, LinksRecord, Refuse, ReadyStep, ReadyBegin, ReadyMark, ReadyFail,
     ReadyRecord, MoveStep, MoveBegin, MoveKnown, MoveRelocate, MoveFail, MoveRecord,
     MoveFinalRead, Goto, ItemDone, StopRun
<1>3. /\ pc # "idle"
      /\ \/ UNCHANGED stage
         \/ Announce(t, FixingLinks) \/ Advance(t, LinksFixed)
         \/ Phase >= 4 /\ \/ Announce(t, MarkingReady) \/ Advance(t, Ready)
                          \/ Announce(t, Moving) \/ Advance(t, Moved)
  BY DEF LinksStep, LinksBegin, Pass, LinksRead, LinksReadRefuse, LinksUpdate, LinksUpdateFail,
     LinksUpdateRefuse, LinksRecord, Refuse, ReadyStep, ReadyBegin, ReadyMark, ReadyFail,
     ReadyRecord, MoveStep, MoveBegin, MoveKnown, MoveRelocate, MoveFail, MoveRecord,
     MoveFinalRead, OnlyRun, OnlyStage, OnlyDocs, durable, journalVars, Phase, CreateLabels
<1>4. /\ stage[t] \in Nat
      /\ Phase >= 4 => (t \in ReviewPull => stage[t] >= ReviewCaptured)
  <2>1. stage[t] \in Nat /\ Through(t, Phase - 1)
    BY <1>1, <1>3, ItemPassed
  <2>2. QED BY <2>1, PhaseNumber DEF Through
<1>5. SnapshotAtHand'
  BY <1>2, NothingAtHand
<1>6. CASE UNCHANGED stage
  BY <1>1, <1>5, <1>6, QuietKeepsStore
<1>7. CASE Announce(t, FixingLinks) \/ Advance(t, LinksFixed)
  BY <1>1, <1>4, <1>5, <1>7, StageKeepsStore, NamedStages, StageOrder
<1>8. CASE /\ Phase >= 4
           /\ \/ Announce(t, MarkingReady) \/ Advance(t, Ready)
              \/ Announce(t, Moving) \/ Advance(t, Moved)
  BY <1>1, <1>4, <1>5, <1>8, StageKeepsStore, NamedStages, StageOrder
<1>9. QED BY <1>3, <1>6, <1>7, <1>8

\* Capturing the baselines keeps StoreInv.
LEMMA CaptureKeepsStore ==
    ASSUME IInv, IInv', Position, StoreInv, NEW t \in Targets, CaptureStep(t)
    PROVE  StoreInv'
<1>a. /\ TypeInv /\ TypeOK' /\ IsNext(t) /\ t \in todo /\ pc # "idle" /\ Phase = 3
      /\ UNCHANGED <<journal, fileOf, active, prior, ops>>
  BY DEF IInv, TypeInv, IsNext, CaptureStep, CaptureBegin, CaptureKnown, CaptureFound,
     CaptureWrite, CaptureRefuse, CaptureRecord, Pass, Refuse, OnlyRun, OnlyStage, journalVars,
     stateVars, countVars, Phase, CreateLabels
<1>b. t \in journal.items /\ t \in ReviewPull /\ stage[t] \in Nat /\ HasJournal
  BY <1>a, ItemPassed
<1>c. \A u \in todo : todo' = todo /\ IsNext(u)' => u = t
  BY <1>a, OneNext DEF TypeInv
<1>1. CASE CaptureBegin(t)
  <2>1. pc' = "snapshot" /\ UNCHANGED snap /\ Announce(t, CapturingReview)
    BY <1>1 DEF CaptureBegin, Goto, OnlyStage
  <2>2. QED BY <1>a, <1>b, <2>1, NothingAtHand, StageKeepsStore, NamedStages, StageOrder
<1>2. CASE CaptureKnown(t) \/ CaptureRefuse(t)
  <2>1. pc' \in {"capture", "idle"} /\ UNCHANGED <<snap, stage>>
    BY <1>2 DEF CaptureKnown, CaptureRefuse, Pass, Refuse, ItemDone, StopRun, OnlyRun, OnlyStage
  <2>2. QED BY <1>a, <2>1, NothingAtHand, QuietKeepsStore
<1>3. CASE CaptureFound(t)
  <2>1. /\ pc' = "captured" /\ todo' = todo /\ UNCHANGED <<snap, stage>>
        /\ Snapshot(t).op = journal.op
    BY <1>3 DEF CaptureFound, Goto, OnlyRun, OnlyStage
  <2>2. SnapshotAtHand'
    BY <1>a, <1>c, <2>1 DEF SnapshotAtHand, Snapshot
  <2>3. QED BY <1>a, <2>1, <2>2, QuietKeepsStore
<1>4. CASE CaptureWrite(t)
  <2> DEFINE m == [status |-> "candidate", op |-> journal.op, file |-> fileOf[t],
                   rev |-> docs[fileOf[t]].rev, act |-> 0]
  <2>1. /\ pc' = "captured" /\ pc = "snapshot" /\ todo' = todo /\ UNCHANGED stage
        /\ snap' = [snap EXCEPT ![t][journal.gen[t]] = m]
        /\ Snapshot(t) = NoManifest
    BY <1>4 DEF CaptureWrite, Goto, journalVars
  <2>2. m \in Manifests
    <3>1. fileOf[t] \in DocIds
      BY <1>a, <2>1, RecordedFile DEF CreateLabels
    <3>2. docs[fileOf[t]].rev \in Nat /\ journal.op \in Nat /\ fileOf[t] \in FileIds
      BY <1>a, <3>1 DEF TypeInv, TypeOK, JournalTypeOK, DocsTypeOK, Documents, FileIds
    <3>3. QED BY <3>2 DEF Manifests
  <2>3. Snapshot(t).op # journal.op
    BY <1>b, <2>1 DEF NoManifest, HasJournal
  <2>4. stage[t] < ReviewCaptured
    BY <1>b, <2>3, StageOrder DEF StoreInv, SnapshotsTrue
  <2>5. ~Saved
    BY <1>b, <2>4, StageOrder DEF StoreInv, SavedForGood
  <2>6. stage[t] >= CapturingReview
    BY <1>a, <2>1 DEF Position, ItemAnnounced
  <2>7. Snapshot(t)' = m
    <3>1. t \in Targets /\ journal.gen[t] \in 1..MaxOps /\ snap \in [Targets -> [1..MaxOps -> Manifests]]
      BY <1>a, <1>b, SnapshotTyped DEF TypeInv, TypeOK, StoreTypeOK
    <3> HIDE DEF m
    <3>2. QED BY <1>a, <2>1, <3>1 DEF Snapshot
  <2>8. /\ m.op = journal.op /\ m.file = fileOf[t] /\ m.status = "candidate"
    OBVIOUS
  <2> HIDE DEF m
  <2>9. SnapshotAtHand'
    BY <1>a, <1>c, <2>1, <2>7, <2>8 DEF SnapshotAtHand
  <2>10. /\ stage[t] >= ReviewSealed => m.status = "sealed"
         /\ m.status = "sealed" => m.rev = m.act
    BY <1>b, <2>4, <2>8, StageOrder
  <2>11. QED
    BY <1>a, <1>b, <2>1, <2>2, <2>5, <2>6, <2>8, <2>9, <2>10, WriteKeepsStore
<1>5. CASE CaptureRecord(t)
  <2>1. /\ pc = "captured" /\ pc' = "capture" /\ UNCHANGED snap /\ Advance(t, ReviewCaptured)
    BY <1>5 DEF CaptureRecord, ItemDone
  <2>2. Snapshot(t).op = journal.op
    BY <1>a, <2>1 DEF StoreInv, SnapshotAtHand
  <2>3. QED BY <1>a, <1>b, <2>1, <2>2, NothingAtHand, StageKeepsStore, NamedStages, StageOrder
<1>6. QED BY <1>1, <1>2, <1>3, <1>4, <1>5 DEF CaptureStep

\* Sealing the baselines keeps StoreInv.
LEMMA SealKeepsStore ==
    ASSUME IInv, IInv', Position, StoreInv, NEW t \in Targets, SealStep(t)
    PROVE  StoreInv'
<1>a. /\ TypeInv /\ TypeOK' /\ IsNext(t) /\ t \in todo /\ pc # "idle" /\ Phase = 6
      /\ UNCHANGED <<journal, fileOf, active, prior, ops>>
  BY DEF IInv, TypeInv, IsNext, SealStep, SealBegin, SealWrite, SealFound, SealRefuse, SealRecord,
     SealKnown, Refuse, OnlyRun, OnlyStage, journalVars, stateVars, countVars, Phase, CreateLabels
<1>b. t \in journal.items /\ t \in ReviewPull /\ stage[t] \in Nat /\ HasJournal /\ Through(t, 5)
  BY <1>a, ItemPassed
<1>c. \A u \in todo : todo' = todo /\ IsNext(u)' => u = t
  BY <1>a, OneNext DEF TypeInv
<1>d. stage[t] >= ReviewCaptured
  BY <1>b DEF Through
<1>1. CASE SealBegin(t)
  <2>1. pc' = "activate" /\ UNCHANGED snap /\ Announce(t, SealingReview)
    BY <1>1 DEF SealBegin, Goto, OnlyStage
  <2>2. QED BY <1>a, <1>b, <1>d, <2>1, NothingAtHand, StageKeepsStore, NamedStages, StageOrder
<1>2. CASE SealKnown(t) \/ SealRefuse(t)
  <2>1. pc' \in {"seal", "idle"} /\ UNCHANGED <<snap, stage>>
    BY <1>2 DEF SealKnown, SealRefuse, Refuse, ItemDone, StopRun, OnlyRun, OnlyStage
  <2>2. QED BY <1>a, <2>1, NothingAtHand, QuietKeepsStore
<1>3. CASE SealFound(t)
  <2>1. /\ pc' = "sealed" /\ todo' = todo /\ UNCHANGED <<snap, stage>>
        /\ Snapshot(t).op = journal.op /\ Snapshot(t).status = "sealed"
    BY <1>3 DEF SealFound, Activatable, Goto, OnlyRun, OnlyStage
  <2>2. SnapshotAtHand'
    BY <1>a, <1>c, <2>1 DEF SnapshotAtHand, Snapshot
  <2>3. QED BY <1>a, <2>1, <2>2, QuietKeepsStore
<1>4. CASE SealWrite(t)
  <2> DEFINE m == [Snapshot(t) EXCEPT !.status = "sealed", !.act = docs[fileOf[t]].rev]
  <2>a. /\ t \in Targets /\ journal.gen[t] \in 1..MaxOps
        /\ Snapshot(t) = snap[t][journal.gen[t]] /\ Snapshot(t) \in Manifests
        /\ snap \in [Targets -> [1..MaxOps -> Manifests]]
    BY <1>a, <1>b, SnapshotTyped DEF TypeInv, TypeOK, StoreTypeOK
  <2>1. /\ pc' = "sealed" /\ pc = "activate" /\ todo' = todo /\ UNCHANGED stage
        /\ snap' = [snap EXCEPT ![t][journal.gen[t]] =
                       [snap[t][journal.gen[t]] EXCEPT !.status = "sealed", !.act = docs[fileOf[t]].rev]]
        /\ Snapshot(t).op = journal.op /\ Snapshot(t).status = "candidate"
        /\ Snapshot(t).file = fileOf[t] /\ Snapshot(t).rev = docs[fileOf[t]].rev
    BY <1>4, <2>a DEF SealWrite, Activatable, Goto, journalVars
  <2>2. docs[fileOf[t]].rev \in Nat
    <3>1. fileOf[t] \in DocIds
      BY <1>a, <2>1, RecordedFile DEF CreateLabels
    <3>2. QED BY <1>a, <3>1 DEF TypeInv, TypeOK, DocsTypeOK, Documents
  <2>3. /\ m \in Manifests /\ m.op = journal.op /\ m.file = fileOf[t] /\ m.status = "sealed"
        /\ m.rev = m.act
    BY <2>a, <2>1, <2>2 DEF Manifests
  <2>4. snap' = [snap EXCEPT ![t][journal.gen[t]] = m]
    BY <2>a, <2>1
  <2> HIDE DEF m
  <2>5. stage[t] < ReviewSealed
    BY <1>b, <2>1, StageOrder DEF StoreInv, SnapshotsTrue
  <2>6. ~Saved
    BY <1>b, <2>5, StageOrder DEF StoreInv, SavedForGood
  <2>7. Snapshot(t)' = m
    BY <1>a, <2>a, <2>4 DEF Snapshot
  <2>8. SnapshotAtHand'
    BY <1>a, <1>c, <2>1, <2>3, <2>7 DEF SnapshotAtHand
  <2>9. stage[t] >= CapturingReview
    BY <1>b, <1>d, StageOrder
  <2>10. QED BY <1>a, <1>b, <2>1, <2>3, <2>4, <2>6, <2>8, <2>9, WriteKeepsStore
<1>5. CASE SealRecord(t)
  <2>1. /\ pc = "sealed" /\ pc' = "seal" /\ UNCHANGED snap /\ Advance(t, ReviewSealed)
    BY <1>5 DEF SealRecord, ItemDone
  <2>2. Snapshot(t).op = journal.op /\ Snapshot(t).status = "sealed"
    BY <1>a, <2>1 DEF StoreInv, SnapshotAtHand
  <2>3. QED BY <1>a, <1>b, <2>1, <2>2, NothingAtHand, StageKeepsStore, NamedStages, StageOrder
<1>6. QED BY <1>1, <1>2, <1>3, <1>4, <1>5 DEF SealStep

\* The commit loops, the save and the end of an operation keep StoreInv.
LEMMA SaveKeepsStore ==
    ASSUME IInv, IInv', Position, StoreInv, CommitSave
    PROVE  StoreInv'
<1>a. /\ UNCHANGED <<journal, stage, fileOf, snap, ops>> /\ pc = "save" /\ pc' = "committed"
  BY DEF CommitSave, SaveFrame, journalVars, countVars
<1>t. TypeInv
  BY DEF IInv
<1>b. /\ HasJournal /\ journal.items # {} /\ journal.items \subseteq Targets
      /\ \A t \in Targets : /\ active[t] \in TargetRecords /\ prior[t] \in Seq(TargetRecords)
                            /\ active[t].op \in Nat /\ active[t].gen \in Nat
                            /\ Len(prior[t]) \in Nat
                            /\ \A i \in 1..Len(prior[t]) : /\ prior[t][i].gen \in Nat
                                                           /\ prior[t][i].op \in Nat
      /\ journal.op \in Nat
  <2>1. \A r \in TargetRecords : r.gen \in Nat /\ r.op \in Nat
    BY DEF TargetRecords
  <2>2. /\ active \in [Targets -> TargetRecords] /\ prior \in [Targets -> Seq(TargetRecords)]
        /\ HasJournal /\ journal.items # {} /\ journal.items \subseteq Targets /\ journal.op \in Nat
    BY <1>a DEF IInv, TypeInv, TypeOK, JournalTypeOK, StoreTypeOK, RunHasJournal
  <2>3. \A t \in Targets : active[t] \in TargetRecords /\ prior[t] \in Seq(TargetRecords)
    BY <2>2
  <2>4. \A t \in Targets : \A i \in 1..Len(prior[t]) : prior[t][i] \in TargetRecords
    BY <2>3
  <2>5. QED BY <2>1, <2>2, <2>3, <2>4
<1>c. \A t \in journal.items : Through(t, 7)
  BY <1>a DEF Position, LoopsDone, Phase, CreateLabels
<1>d. \A t \in journal.items : /\ stage[t] >= Committing
                               /\ active'[t] = NewTarget(t) /\ NewTarget(t)' = NewTarget(t)
                               /\ NewTarget(t).op = journal.op /\ NewTarget(t).gen = journal.gen[t]
                               /\ NewTarget(t).file = fileOf[t]
                               /\ t \in ReviewPull => NewTarget(t).snap = snap[t][journal.gen[t]]
  BY <1>a, <1>b, <1>c, <1>t, SaveRecords DEF Through, NewTarget, Snapshot
<1>1. Saved'
  BY <1>a, <1>b, <1>d DEF Saved
<1>2. SnapshotsTrue'
  BY <1>a DEF StoreInv, SnapshotsTrue, Snapshot
<1>3. SnapshotAtHand'
  BY <1>a, NothingAtHand
<1>4. SavedForGood'
  BY <1>a, <1>d DEF SavedForGood
<1>5. \A t \in journal.items : \/ active[t].op = journal.op /\ active'[t] = active[t]
                               \/ active[t].op < journal.op /\ journal.gen[t] = active[t].gen + 1
  <2>1. CASE Saved
    BY <1>b, <1>d, <2>1 DEF StoreInv, SavedForGood, IInv, SavedWhole
  <2>2. CASE ~Saved
    BY <1>b, <2>2 DEF StoreInv, RecordsOrdered, IInv, SavedWhole
  <2>3. QED BY <2>1, <2>2
<1>6. RecordsOrdered'
  <2>1. \A t \in Targets \ journal.items : active'[t].op < journal.op
    BY <1>b, <1>t, SaveRecords DEF StoreInv, RecordsOrdered
  <2>2. ASSUME NEW t \in Targets
        PROVE  \A i \in 1..Len(prior'[t]) :
                 /\ prior'[t][i].op < active'[t].op
                 /\ prior'[t][i].gen >= 1 /\ prior'[t][i].gen < active'[t].gen
                 /\ \A j \in 1..(i - 1) : /\ prior'[t][j].gen < prior'[t][i].gen
                                          /\ prior'[t][j].op < prior'[t][i].op
    <3>0. \A i \in 1..Len(prior[t]) :
                 /\ prior[t][i].op < active[t].op
                 /\ prior[t][i].gen >= 1 /\ prior[t][i].gen < active[t].gen
                 /\ \A j \in 1..(i - 1) : /\ prior[t][j].gen < prior[t][i].gen
                                          /\ prior[t][j].op < prior[t][i].op
      BY DEF StoreInv, RecordsOrdered
    <3>1. CASE prior'[t] = prior[t] /\ active'[t] = active[t]
      BY <3>0, <3>1
    <3>2. CASE /\ t \in journal.items /\ active[t].op < journal.op
               /\ journal.gen[t] = active[t].gen + 1 /\ prior'[t] = prior[t]
      BY <1>b, <1>d, <3>0, <3>2, SMTT(30)
    <3>3. CASE /\ t \in journal.items /\ active[t].op < journal.op /\ active[t] # NoTarget
               /\ journal.gen[t] = active[t].gen + 1 /\ prior'[t] = Append(prior[t], active[t])
      <4>1. /\ Len(prior'[t]) = Len(prior[t]) + 1
            /\ \A i \in 1..Len(prior[t]) : prior'[t][i] = prior[t][i]
            /\ prior'[t][Len(prior[t]) + 1] = active[t]
        BY <1>b, <3>3, RecordedAppend
      <4>2. active[t].gen >= 1 /\ active'[t].gen = active[t].gen + 1 /\ active'[t].op = journal.op
        BY <1>d, <3>3 DEF IInv, SavedWhole
      <4>3. ASSUME NEW i \in 1..Len(prior[t])
            PROVE  /\ prior'[t][i].op < active'[t].op
                   /\ prior'[t][i].gen >= 1 /\ prior'[t][i].gen < active'[t].gen
                   /\ \A j \in 1..(i - 1) : /\ prior'[t][j].gen < prior'[t][i].gen
                                            /\ prior'[t][j].op < prior'[t][i].op
        <5>1. \A j \in 1..(i - 1) : j \in 1..Len(prior[t])
          BY <1>b
        <5>2. prior'[t][i].op < active'[t].op
          BY <1>b, <3>0, <3>3, <4>1, <4>2
        <5>3. prior'[t][i].gen >= 1 /\ prior'[t][i].gen < active[t].gen /\ prior'[t][i].gen \in Nat
          BY <1>b, <3>0, <4>1
        <5>4. prior'[t][i].gen < active'[t].gen
          BY <1>b, <4>2, <5>3
        <5>5. \A j \in 1..(i - 1) : /\ prior'[t][j].gen < prior'[t][i].gen
                                    /\ prior'[t][j].op < prior'[t][i].op
          BY <3>0, <4>1, <5>1
        <5>6. QED BY <5>2, <5>3, <5>4, <5>5
      <4>4. LET n == Len(prior[t]) + 1
            IN  /\ prior'[t][n].op < active'[t].op
                /\ prior'[t][n].gen >= 1 /\ prior'[t][n].gen < active'[t].gen
                /\ \A j \in 1..(n - 1) : /\ prior'[t][j].gen < prior'[t][n].gen
                                         /\ prior'[t][j].op < prior'[t][n].op
        <5>1. \A j \in 1..(Len(prior[t]) + 1 - 1) : j \in 1..Len(prior[t])
          BY <1>b
        <5>2. QED BY <1>b, <3>0, <3>3, <4>1, <4>2, <5>1
      <4>5. \A i \in 1..Len(prior'[t]) : i \in 1..Len(prior[t]) \/ i = Len(prior[t]) + 1
        BY <1>b, <4>1
      <4>6. ASSUME NEW i \in 1..Len(prior'[t])
            PROVE  /\ prior'[t][i].op < active'[t].op
                   /\ prior'[t][i].gen >= 1 /\ prior'[t][i].gen < active'[t].gen
                   /\ \A j \in 1..(i - 1) : /\ prior'[t][j].gen < prior'[t][i].gen
                                            /\ prior'[t][j].op < prior'[t][i].op
        <5>1. CASE i \in 1..Len(prior[t])
          BY <4>3, <5>1
        <5>2. CASE i = Len(prior[t]) + 1
          BY <4>4, <5>2
        <5>3. QED BY <4>5, <5>1, <5>2
      <4>7. QED BY <4>6
    <3>4. CASE t \in journal.items
      <4>1. \/ /\ active[t] # NoTarget /\ active[t].op # journal.op
               /\ prior'[t] = Append(prior[t], active[t])
            \/ /\ active[t] = NoTarget \/ active[t].op = journal.op
               /\ prior'[t] = prior[t]
        BY <1>t, <3>4, SaveRecords
      <4>2. active[t].op \in Nat /\ journal.op \in Nat
        BY <1>b
      <4>3. CASE active[t].op = journal.op /\ active'[t] = active[t]
        BY <3>1, <4>1, <4>3
      <4>4. CASE active[t].op < journal.op /\ journal.gen[t] = active[t].gen + 1
        BY <3>2, <3>3, <3>4, <4>1, <4>2, <4>4
      <4>5. QED BY <1>5, <3>4, <4>3, <4>4
    <3>5. QED BY <1>t, <3>1, <3>4, SaveRecords
  <2>3. QED BY <1>a, <1>1, <2>1, <2>2 DEF RecordsOrdered
<1>7. SealedBaseline'
  <2>1. ASSUME NEW t \in ReviewPull, NEW r \in Recorded(t)', r # NoTarget
        PROVE  /\ r.snap = snap[t][r.gen]
               /\ r.snap.status = "sealed" /\ r.snap.op = r.op
               /\ r.snap.file = r.file /\ r.snap.rev = r.snap.act
    <3>1. t \in Targets
      BY ConstantsOK
    <3>2. CASE r \in Recorded(t)
      BY <2>1, <3>2 DEF StoreInv, SealedBaseline
    <3>3. CASE t \in journal.items /\ r = NewTarget(t)
      <4>1. stage[t] >= ReviewSealed /\ stage[t] >= ReviewCaptured
        BY <1>c, <2>1, <3>3 DEF Through
      <4>2. /\ Snapshot(t).op = journal.op /\ Snapshot(t).file = fileOf[t]
            /\ Snapshot(t).status = "sealed" /\ Snapshot(t).rev = Snapshot(t).act
        BY <2>1, <3>3, <4>1 DEF StoreInv, SnapshotsTrue
      <4>3. QED BY <1>d, <2>1, <3>3, <4>2 DEF Snapshot
    <3>4. QED BY <1>t, <2>1, <3>1, <3>2, <3>3, SavedRecords
  <2>2. QED BY <1>a, <2>1 DEF SealedBaseline
<1>8. QED BY <1>2, <1>3, <1>4, <1>6, <1>7 DEF StoreInv

\* StoreInv holds initially.
LEMMA InitStore == Init => StoreInv
<1> SUFFICES ASSUME Init PROVE StoreInv
  OBVIOUS
<1>1. /\ journal.op = 0 /\ journal.items = {} /\ todo = {} /\ ops = 0
      /\ \A t \in Targets : active[t] = NoTarget /\ prior[t] = << >>
      /\ \A t \in Targets : \A g \in 1..MaxOps : snap[t][g] = NoManifest
  BY DEF Init, NoJournal
<1>2. SnapshotsTrue /\ SnapshotAtHand
  BY <1>1 DEF SnapshotsTrue, SnapshotAtHand, NoManifest
<1>3. SavedForGood /\ RecordsOrdered
  BY <1>1 DEF SavedForGood, RecordsOrdered, Saved, HasJournal
<1>4. SealedBaseline
  <2>1. \A t \in Targets : Recorded(t) = {NoTarget}
    BY <1>1 DEF Recorded
  <2>2. QED BY <2>1, ConstantsOK DEF SealedBaseline
<1>5. QED BY <1>2, <1>3, <1>4 DEF StoreInv

\* StoreInv is inductive relative to TypeInv, Position and DocsInv.
LEMMA NextStore ==
    ASSUME IInv, IInv', Position, StoreInv, [Next]_vars
    PROVE  StoreInv'
<1>a. TypeInv /\ TypeOK' /\ TypeInv'
  BY DEF IInv, TypeInv
<1>1. ASSUME NEW t \in Targets, \/ CreateStep(t) \/ LinksStep(t) \/ CaptureStep(t)
                                \/ ReadyStep(t) \/ MoveStep(t) \/ SealStep(t)
      PROVE  StoreInv'
  BY <1>1, CreateKeepsStore, DocumentLoopsKeepStore, CaptureKeepsStore, SealKeepsStore
<1>2. ASSUME NEW t \in Targets, CommitBegin(t) \/ CommitRecord(t) PROVE StoreInv'
  <2>1. /\ IsNext(t) /\ pc \in {"committing", "committed"} /\ pc' \in {"committing", "committed"}
        /\ UNCHANGED <<journal, fileOf, active, prior, snap, ops>>
        /\ Announce(t, Committing) \/ Announce(t, Committed)
    BY <1>2 DEF CommitBegin, CommitRecord, ItemDone, OnlyStage, stateVars, countVars
  <2>2. stage[t] \in Nat /\ Through(t, Phase - 1) /\ Phase \in {7, 8}
    BY <2>1, ItemPassed DEF Phase, CreateLabels
  <2>3. t \in ReviewPull => stage[t] >= ReviewSealed /\ stage[t] >= ReviewCaptured
    BY <2>2 DEF Through
  <2>4. QED BY <1>a, <2>1, <2>3, NothingAtHand, StageKeepsStore, NamedStages
<1>3. CASE CommitSave
  BY <1>3, SaveKeepsStore
<1>4. CASE CommitClear
  <2>1. /\ journal'.op = 0 /\ journal'.items = {} /\ todo' = {}
        /\ UNCHANGED <<active, prior, snap, ops>>
    BY <1>4 DEF CommitClear, NoJournal, StopRun, stateVars, countVars
  <2>2. SnapshotsTrue' /\ SnapshotAtHand' /\ SavedForGood' /\ RecordsOrdered'
    BY <2>1 DEF StoreInv, SnapshotsTrue, SnapshotAtHand, SavedForGood, RecordsOrdered, Saved,
       HasJournal
  <2>3. SealedBaseline'
    BY <2>1 DEF StoreInv, SealedBaseline, Recorded
  <2>4. QED BY <2>2, <2>3 DEF StoreInv
<1>5. ASSUME NEW items \in SUBSET Targets, Start(items) PROVE StoreInv'
  <2>1. /\ journal.items = {} /\ journal'.items = items /\ journal'.op = ops + 1 /\ ops' = ops + 1
        /\ UNCHANGED <<stage, fileOf, active, prior, snap>> /\ pc' = "create"
    BY <1>5 DEF Start, IInv, TypeInv, RunHasJournal, stateVars
  <2>2. /\ \A u \in Targets : stage'[u] = Planned
        /\ \A u \in items : journal'.gen[u] \in 1..MaxOps
        /\ ops \in Nat
        /\ \A u \in Targets : active[u].op \in Nat /\ active[u].op <= ops
        /\ \A u \in Targets : \A g \in 1..MaxOps : snap[u][g].op \in Nat /\ snap[u][g].op <= ops
    <3>1. \A u \in Targets : stage'[u] = Planned
      BY <2>1 DEF Position, EntriesTogether
    <3>2. \A u \in items : journal'.gen[u] \in 1..ops' /\ ops' <= MaxOps
      BY <1>a, <2>1 DEF TypeInv, GenerationsBounded
    <3>3. ops \in Nat /\ MaxOps \in Nat
      BY <1>a, ConstantsOK DEF TypeInv, TypeOK, CountTypeOK
    <3>4. \A u \in Targets : active[u].op \in Nat /\ active[u].op <= ops
      BY <1>a DEF TypeInv, TypeOK, StoreTypeOK, TargetRecords, GenerationsBounded
    <3>5. \A u \in Targets : \A g \in 1..MaxOps : snap[u][g].op \in Nat
      BY <1>a DEF TypeInv, TypeOK, StoreTypeOK, Manifests
    <3>6. QED BY <2>1, <3>1, <3>2, <3>3, <3>4, <3>5 DEF StoreInv, SnapshotsTrue
  <2>3. ~Saved' /\ HasJournal'
    BY <1>5, <2>1, <2>2 DEF Saved, HasJournal
  <2>4. SnapshotsTrue'
    <3>1. \A u \in items : Snapshot(u)'.op # journal'.op
      BY <1>5, <2>1, <2>2 DEF Snapshot
    <3>2. \A u \in Targets : \A g \in 1..MaxOps : snap'[u][g].op <= ops'
      BY <2>1, <2>2
    <3>3. QED BY <1>5, <2>1, <2>2, <3>1, <3>2, StageOrder DEF SnapshotsTrue
  <2>5. SnapshotAtHand' /\ SavedForGood'
    BY <2>1, <2>3, NothingAtHand DEF SavedForGood
  <2>6. RecordsOrdered'
    <3>1. \A u \in Targets : active'[u].op < journal'.op
      BY <2>1, <2>2
    <3>2. QED BY <2>1, <3>1 DEF StoreInv, RecordsOrdered
  <2>7. SealedBaseline'
    BY <2>1 DEF StoreInv, SealedBaseline, Recorded
  <2>8. QED BY <2>4, <2>5, <2>6, <2>7 DEF StoreInv
<1>6. CASE NextLoop \/ Resume \/ Interrupt
  <2>1. UNCHANGED <<journal, stage, fileOf, active, prior, snap, ops>>
    BY <1>6 DEF NextLoop, Resume, Interrupt, OnlyRun, OnlyStage, durable, journalVars, stateVars,
       countVars
  <2>2. pc' \notin {"captured", "sealed"}
    BY <1>6, NextLoopMoves DEF Resume, Interrupt, StopRun
  <2>3. QED BY <2>1, <2>2, NothingAtHand, QuietKeepsStore
<1>7. CASE Environment \/ UNCHANGED vars
  <2>1. UNCHANGED <<journal, stage, fileOf, active, prior, snap, ops, pc, todo>>
    BY <1>7 DEF Environment, CreateLands, ReviewerEdits, ReviewerTrashes, ReviewerActs, vars,
       durable, journalVars, stateVars, runVars, countVars
  <2>2. SnapshotAtHand'
    BY <2>1 DEF StoreInv, SnapshotAtHand, IsNext, Snapshot
  <2>3. QED BY <2>1, <2>2, QuietKeepsStore
<1>8. QED
  BY <1>1, <1>2, <1>3, <1>4, <1>5, <1>6, <1>7 DEF Next, RunStep, CommitStep
-----------------------------------------------------------------------------
(* What the records name stays as it was published *)

\* Only a save changes what the state file holds.
LEMMA OnlySavesChangeRecords ==
    ASSUME TypeInv, [Next]_vars, ~CommitSave
    PROVE  UNCHANGED <<active, prior>>
<1>1. CASE CommitClear
  BY <1>1 DEF CommitClear, stateVars
<1>2. ASSUME NEW items \in SUBSET Targets, Start(items) PROVE UNCHANGED <<active, prior>>
  BY <1>2 DEF Start, stateVars
<1>3. QED BY <1>1, <1>2, MostStepsKeepState

\* A save records documents that are ready, in the review folder and linked.
LEMMA SavedRecordTrue ==
    ASSUME TypeInv, Position, DocsInv, CommitSave, NEW t \in journal.items
    PROVE  RecordTrue(t, NewTarget(t))
<1>1. t \in Targets /\ pc = "save"
  BY DEF CommitSave, SaveFrame, IInv, TypeInv, TypeOK, JournalTypeOK
<1>2. Through(t, 7)
  BY <1>1 DEF Position, LoopsDone, Phase, CreateLabels
<1>3. stage[t] >= Created /\ stage[t] >= LinksFixed /\ stage[t] >= Ready /\ stage[t] >= Moved
  BY <1>2 DEF Through
<1>4. NewTarget(t).file = fileOf[t] /\ NewTarget(t).op = journal.op
  BY DEF NewTarget
<1>5. QED BY <1>1, <1>3, <1>4 DEF DocsInv, EntriesTrue, RecordTrue, Mine

\* RecordsTrue holds initially.
LEMMA InitRecords == Init => RecordsTrue
<1> SUFFICES ASSUME Init PROVE RecordsTrue
  OBVIOUS
<1>1. \A t \in Targets : active[t] = NoTarget /\ prior[t] = << >>
  BY DEF Init
<1>2. \A t \in Targets : Recorded(t) = {NoTarget}
  BY <1>1 DEF Recorded
<1>3. QED BY <1>2 DEF RecordsTrue

\* RecordsTrue is inductive relative to TypeInv, Position and DocsInv.
LEMMA NextRecords ==
    ASSUME TypeInv, Position, DocsInv, RecordsTrue, [Next]_vars
    PROVE  RecordsTrue'
<1>1. ASSUME NEW t \in Targets, NEW r, RecordTrue(t, r)
      PROVE  RecordTrue(t, r)'
  <2>1. r.file \in DocIds /\ docs[r.file].st # "absent"
    BY <1>1 DEF RecordTrue, Visible
  <2>2. Evolves(r.file)
    BY <2>1, DocumentsEvolve
  <2>3. QED BY <1>1, <2>2, RecordStaysTrue DEF RecordTrue, Visible, HasNoPlaceholder
<1>2. CASE CommitSave
  <2>1. ASSUME NEW t \in Targets, NEW r \in Recorded(t)', r # NoTarget
        PROVE  RecordTrue(t, r)
    BY <1>2, <2>1, SavedRecords, SavedRecordTrue DEF RecordsTrue
  <2>2. QED BY <1>1, <2>1 DEF RecordsTrue
<1>3. CASE ~CommitSave
  <2>1. \A t \in Targets : Recorded(t)' = Recorded(t)
    BY <1>3, OnlySavesChangeRecords DEF Recorded
  <2>2. QED BY <1>1, <2>1 DEF RecordsTrue
<1>4. QED BY <1>2, <1>3

\* No step takes a target away from the state file.
LEMMA RecordsKept ==
    ASSUME IInv, StoreInv, [Next]_vars, NEW t \in Targets
    PROVE  Recorded(t) \ {NoTarget} \subseteq Recorded(t)'
<1>a. TypeInv
  BY DEF IInv
<1>1. CASE ~CommitSave
  BY <1>a, <1>1, OnlySavesChangeRecords DEF Recorded
<1>2. CASE CommitSave
  <2>1. CASE t \notin journal.items
    BY <1>a, <1>2, <2>1, SaveRecords DEF Recorded
  <2>2. CASE /\ t \in journal.items /\ active[t] # NoTarget /\ active[t].op # journal.op
             /\ prior'[t] = Append(prior[t], active[t])
    <3>1. active[t] \in TargetRecords /\ prior[t] \in Seq(TargetRecords)
      BY <1>a, <1>2, SaveRecords
    <3>2. {prior'[t][i] : i \in 1..Len(prior'[t])}
            = {prior[t][i] : i \in 1..Len(prior[t])} \cup {active[t]}
      BY <2>2, <3>1, RecordedAppend
    <3>3. QED BY <3>2 DEF Recorded
  <2>3. CASE t \in journal.items /\ active[t] = NoTarget /\ prior'[t] = prior[t]
    BY <2>3 DEF Recorded
  <2>4. CASE t \in journal.items /\ active[t].op = journal.op /\ prior'[t] = prior[t]
    <3>1. active[t] = NewTarget(t)
      BY <2>4 DEF StoreInv, SavedForGood, Saved
    <3>2. active'[t] = active[t]
      BY <1>a, <1>2, <2>4, <3>1, SaveRecords
    <3>3. QED BY <2>4, <3>2 DEF Recorded
  <2>5. QED BY <1>a, <1>2, <2>1, <2>2, <2>3, <2>4, SaveRecords
<1>3. QED BY <1>1, <1>2

-----------------------------------------------------------------------------
(* What the state file promises *)

\* StoreInv and RecordsTrue hold in every reachable state.
THEOREM StoreInvHolds == Spec => [](StoreInv /\ RecordsTrue)
<1>1. Init => StoreInv /\ RecordsTrue
  BY InitStore, InitRecords
<1>2. /\ IInv /\ Position /\ DocsInv /\ StoreInv /\ RecordsTrue /\ [Next]_vars
      /\ (IInv /\ Position /\ DocsInv)'
      => (StoreInv /\ RecordsTrue)'
  BY NextStore, NextRecords DEF IInv
<1>3. QED BY <1>1, <1>2, InvariantHolds, DocsInvHolds, PTL DEF Spec

\* A review pull compares with the baseline of exactly the document that is
\* active, sealed at the revision that was captured (SealedBaseline).
THEOREM SealedBaselineHolds == Spec => []SealedBaseline
<1>1. StoreInv => SealedBaseline
  BY DEF StoreInv
<1>2. QED BY <1>1, StoreInvHolds, PTL

\* The generations of a target only grow and no file is recorded twice, so
\* Save never meets a state that State.Validate refuses (HistoryOrdered).
THEOREM HistoryOrderedHolds == Spec => []HistoryOrdered
<1>1. ASSUME IInv, StoreInv, RecordsTrue, NEW t \in Targets, NEW i \in 1..Len(prior[t])
      PROVE  /\ prior[t][i].gen < active[t].gen /\ prior[t][i].file # active[t].file
             /\ \A j \in 1..(i - 1) : prior[t][j].gen < prior[t][i].gen
  <2>1. /\ prior[t][i].op < active[t].op
        /\ prior[t][i].gen >= 1 /\ prior[t][i].gen < active[t].gen
        /\ \A j \in 1..(i - 1) : prior[t][j].gen < prior[t][i].gen
    BY <1>1 DEF StoreInv, RecordsOrdered
  <2>2. /\ active[t].op \in Nat /\ prior[t][i].op \in Nat /\ active[t].gen \in Nat
        /\ prior[t][i].gen \in Nat
    <3>1. active[t] \in TargetRecords /\ prior[t] \in Seq(TargetRecords)
      BY <1>1 DEF IInv, TypeInv, TypeOK, StoreTypeOK
    <3>2. prior[t][i] \in TargetRecords
      BY <3>1
    <3>3. QED BY <3>1, <3>2 DEF TargetRecords
  <2>3. active[t] # NoTarget /\ prior[t][i] # NoTarget
    BY <2>1, <2>2 DEF NoTarget
  <2>4. RecordTrue(t, active[t]) /\ RecordTrue(t, prior[t][i])
    BY <1>1, <2>3 DEF RecordsTrue, Recorded
  <2>5. prior[t][i].op # active[t].op
    BY <2>1, <2>2
  <2>6. prior[t][i].file # active[t].file
    BY <2>4, <2>5 DEF RecordTrue
  <2>7. QED BY <2>1, <2>6
<1>2. IInv /\ StoreInv /\ RecordsTrue => HistoryOrdered
  BY <1>1 DEF HistoryOrdered
<1>3. QED BY <1>2, InvariantHolds, StoreInvHolds, PTL

\* The state file never shows half a review set, nor one with a document that
\* is not as it was published (PublishedSetsComplete).
THEOREM PublishedSetsCompleteHolds == Spec => []PublishedSetsComplete
<1>1. ASSUME IInv, StoreInv, RecordsTrue
      PROVE  PublishedSetsComplete
  <2>1. \A t \in Targets : \A r \in Recorded(t) : r # NoTarget =>
          /\ r.file \in DocIds /\ Visible(r.file)
          /\ docs[r.file].op = r.op /\ docs[r.file].key = t
          /\ docs[r.file].status = "ready" /\ docs[r.file].parent = "review"
          /\ \A u \in Links[t] : docs[r.file].link[u] # Placeholder
    BY <1>1 DEF RecordsTrue, RecordTrue, HasNoPlaceholder
  <2>2. CASE Saved
    BY <1>1, <2>1, <2>2 DEF IInv, SavedWhole, PublishedSetsComplete
  <2>3. CASE HasJournal /\ ~Saved
    <3>1. ASSUME NEW t \in Targets, NEW r \in Recorded(t)
          PROVE  r.op # journal.op
      <4>1. active[t].op < journal.op
        BY <1>1, <2>3 DEF StoreInv, RecordsOrdered
      <4>2. \A i \in 1..Len(prior[t]) : prior[t][i].op < active[t].op
        BY <1>1 DEF StoreInv, RecordsOrdered
      <4>3. active[t] \in TargetRecords /\ prior[t] \in Seq(TargetRecords) /\ journal.op \in Nat
        BY <1>1 DEF IInv, TypeInv, TypeOK, StoreTypeOK, JournalTypeOK
      <4>4. \A i \in 1..Len(prior[t]) : prior[t][i] \in TargetRecords
        BY <4>3
      <4>5. active[t].op \in Nat /\ \A i \in 1..Len(prior[t]) : prior[t][i].op \in Nat
        BY <4>3, <4>4 DEF TargetRecords
      <4>6. \A i \in 1..Len(prior[t]) : prior[t][i].op # journal.op
        BY <4>1, <4>2, <4>3, <4>5
      <4>7. active[t].op # journal.op
        BY <4>1, <4>3, <4>5
      <4>8. QED BY <4>6, <4>7 DEF Recorded
    <3>2. QED BY <2>1, <3>1 DEF PublishedSetsComplete
  <2>4. CASE ~HasJournal
    BY <2>1, <2>4 DEF PublishedSetsComplete
  <2>5. QED BY <2>2, <2>3, <2>4
<1>2. QED BY <1>1, InvariantHolds, StoreInvHolds, PTL

\* A target the state file ever held stays there, as active or as prior, also
\* when a save is repeated after a crash (HistoryKept).
THEOREM HistoryKeptHolds == Spec => HistoryKept
<1> DEFINE Kept == \A t \in Targets : Recorded(t) \ {NoTarget} \subseteq Recorded(t)'
<1>1. IInv /\ StoreInv /\ [Next]_vars => [Kept]_vars
  BY RecordsKept
<1>2. QED BY <1>1, InvariantHolds, StoreInvHolds, PTL DEF Spec, HistoryKept
-----------------------------------------------------------------------------
(* Which documents are out of sight *)

\* A document that the state file or the journal names.
Held(d) ==
    LET t == docs[d].key IN
    \/ \E r \in Recorded(t) : r.file = d
    \/ docs[d].op = journal.op /\ fileOf[t] = d

\* The others: live ones and creates that are still to take effect.
Loose == {d \in DocIds : docs[d].st = "inflight" \/ (docs[d].st = "live" /\ ~Held(d))}

\* Those a lookup of the entry that is creating will find.
InCreation == {d \in Loose : /\ docs[d].st = "live" /\ docs[d].op = journal.op
                             /\ stage[docs[d].key] = Creating}

\* Entries are created in source key order, each after those before it.
CreatedInOrder ==
    \A t, u \in journal.items : t < u /\ stage[u] >= Creating => stage[t] >= Created

\* The documents there are were created for targets, finitely many.  A
\* create that takes effect late costs one document at most.  The run that is
\* about to create has one to spare, and the one it records is not lost.
CreationsBounded ==
    /\ IsFiniteSet({d \in DocIds : docs[d].st # "absent"})
    /\ \A d \in DocIds : docs[d].st # "absent" => docs[d].key \in Targets
    /\ Cardinality(Loose \ InCreation) <= late
    /\ Cardinality(Loose) <= late + 1
    /\ pc = "issue" => Cardinality(Loose) <= late
    /\ pc = "record" => Cardinality(Loose \ {got}) <= late

-----------------------------------------------------------------------------
(* Counting *)

\* A part of a finite set is counted by a number that is no greater.
LEMMA PartCounted ==
    ASSUME NEW S, IsFiniteSet(S), NEW T, T \subseteq S
    PROVE  /\ IsFiniteSet(T) /\ Cardinality(T) \in Nat /\ Cardinality(S) \in Nat
           /\ Cardinality(T) <= Cardinality(S)
<1>1. IsFiniteSet(T) /\ Cardinality(T) <= Cardinality(S)
  BY FS_Subset
<1>2. QED BY <1>1, FS_CardinalityType

\* One element more adds one at most.
LEMMA OneMore ==
    ASSUME NEW S, IsFiniteSet(S), NEW x, NEW T, T \subseteq S \cup {x}
    PROVE  /\ IsFiniteSet(T) /\ Cardinality(T) \in Nat /\ Cardinality(S) \in Nat
           /\ Cardinality(T) <= Cardinality(S) + 1
<1>1. IsFiniteSet(S \cup {x}) /\ Cardinality(S) \in Nat
      /\ (Cardinality(S \cup {x}) = Cardinality(S) \/ Cardinality(S \cup {x}) = Cardinality(S) + 1)
  BY FS_AddElement, FS_CardinalityType
<1>2. IsFiniteSet(T) /\ Cardinality(T) \in Nat /\ Cardinality(T) <= Cardinality(S \cup {x})
  BY <1>1, PartCounted
<1>3. QED BY <1>1, <1>2

\* The documents there are, the loose ones among them, are finitely many.
LEMMA LooseFinite ==
    ASSUME CreationsBounded
    PROVE  /\ IsFiniteSet(Loose) /\ Cardinality(Loose) \in Nat
           /\ IsFiniteSet(Loose \ InCreation) /\ Cardinality(Loose \ InCreation) \in Nat
<1>1. Loose \subseteq {d \in DocIds : docs[d].st # "absent"}
  BY DEF Loose
<1>2. IsFiniteSet(Loose) /\ Cardinality(Loose) \in Nat
  BY <1>1, PartCounted DEF CreationsBounded
<1>3. Loose \ InCreation \subseteq Loose
  OBVIOUS
<1>4. QED BY <1>2, <1>3, PartCounted

\* Fewer loose documents keep the bounds of a run that is not creating one.
LEMMA FewerLoose ==
    ASSUME CreationsBounded, late \in Nat, late' = late,
           \A d \in DocIds : /\ docs[d].st = "absent" => docs'[d].st = "absent"
                             /\ docs'[d].key = docs[d].key,
           Loose' \subseteq Loose, (Loose \ InCreation)' \subseteq Loose \ InCreation,
           pc' \notin {"issue", "record"} \/ (pc' = pc /\ got' = got)
    PROVE  CreationsBounded'
<1>1. IsFiniteSet({d \in DocIds : docs'[d].st # "absent"})
  <2>1. {d \in DocIds : docs'[d].st # "absent"} \subseteq {d \in DocIds : docs[d].st # "absent"}
    OBVIOUS
  <2>2. QED BY <2>1, PartCounted DEF CreationsBounded
<1>2. /\ IsFiniteSet(Loose) /\ Cardinality(Loose) \in Nat
      /\ IsFiniteSet(Loose \ InCreation) /\ Cardinality(Loose \ InCreation) \in Nat
  BY LooseFinite
<1>3. Cardinality(Loose') \in Nat /\ Cardinality(Loose') <= Cardinality(Loose)
  BY <1>2, PartCounted
<1>4. /\ Cardinality((Loose \ InCreation)') \in Nat
      /\ Cardinality((Loose \ InCreation)') <= Cardinality(Loose \ InCreation)
  BY <1>2, PartCounted
<1>5. /\ Cardinality(Loose') <= late' + 1
      /\ Cardinality((Loose \ InCreation)') <= late'
  BY <1>2, <1>3, <1>4 DEF CreationsBounded
<1>6. pc' = "issue" => Cardinality(Loose') <= late'
  BY <1>2, <1>3 DEF CreationsBounded
<1>7. ASSUME pc' = "record" PROVE Cardinality(Loose' \ {got'}) <= late'
  <2>1. pc = "record" /\ got' = got
    BY <1>7
  <2>2. Loose \ {got} \subseteq Loose /\ Loose' \ {got} \subseteq Loose \ {got}
    OBVIOUS
  <2>3. IsFiniteSet(Loose \ {got})
    BY <1>2, <2>2, PartCounted
  <2>4. /\ Cardinality(Loose' \ {got}) \in Nat /\ Cardinality(Loose \ {got}) \in Nat
        /\ Cardinality(Loose' \ {got}) <= Cardinality(Loose \ {got})
    BY <2>2, <2>3, PartCounted
  <2>5. Cardinality(Loose \ {got}) <= late
    BY <2>1 DEF CreationsBounded
  <2>6. QED BY <2>1, <2>4, <2>5
<1>8. QED BY <1>1, <1>5, <1>6, <1>7 DEF CreationsBounded

-----------------------------------------------------------------------------
(* What happens to documents that are there *)

\* Unless it is being created, a document keeps its operation and key; a late
\* create lands, and a live document may be trashed.
Settles(d) ==
    /\ docs'[d].op = docs[d].op /\ docs'[d].key = docs[d].key
    /\ \/ docs'[d].st = docs[d].st
       \/ docs[d].st = "inflight" /\ docs'[d].st = "live"
       \/ docs[d].st = "live" /\ docs'[d].st = "trashed"

\* A step that creates no document and records none.
Settled ==
    /\ late' = late
    /\ \A d \in DocIds : Settles(d)
    /\ pc' \notin {"issue", "record"} \/ (pc' = pc /\ got' = got)

\* A change of a document's content, status or folder leaves it where it is.
LEMMA ChangesSettle ==
    ASSUME TypeInv, NEW f \in FileIds, NEW r,
           docs' = [docs EXCEPT ![f] = r],
           f \in DocIds => r.op = docs[f].op /\ r.key = docs[f].key /\ r.st = docs[f].st
    PROVE  \A d \in DocIds : Settles(d)
<1>1. \A d \in DocIds : docs'[d] = IF d = f THEN r ELSE docs[d]
  BY DEF TypeInv, TypeOK, DocsTypeOK
<1>2. QED BY <1>1 DEF Settles

\* The loops after the create loop create and record nothing.
LEMMA LoopsSettle ==
    ASSUME TypeInv, NEW t \in Targets,
           LinksStep(t) \/ CaptureStep(t) \/ ReadyStep(t) \/ MoveStep(t) \/ SealStep(t)
    PROVE  Settled
<1>a. \A d \in DocIds : docs[d] \in Documents
  BY DEF TypeInv, TypeOK, DocsTypeOK
<1>b. fileOf[t] \in FileIds
  BY DEF TypeInv, TypeOK, JournalTypeOK
<1>1. late' = late
  BY DEF LinksStep, LinksBegin, Pass, LinksRead, LinksReadRefuse, LinksUpdate, LinksUpdateFail,
     LinksUpdateRefuse, LinksRecord, CaptureStep, CaptureBegin, CaptureKnown, CaptureFound,
     CaptureWrite, CaptureRefuse, CaptureRecord, ReadyStep, ReadyBegin, ReadyMark, ReadyFail,
     ReadyRecord, MoveStep, MoveBegin, MoveKnown, MoveRelocate, MoveFail, MoveRecord,
     MoveFinalRead, SealStep, SealBegin, SealWrite, SealFound, SealRefuse, SealRecord, SealKnown,
     Refuse, OnlyRun, OnlyStage, OnlyDocs, countVars
<1>2. pc' \notin {"issue", "record"}
  BY LinksQuiet, CaptureQuiet, ReadyQuiet, MoveQuiet, SealQuiet DEF Quiet, CreateLabels
<1>3. CASE docs' = docs
  BY <1>1, <1>2, <1>3 DEF Settled, Settles
<1>4. CASE LinksUpdate(t)
  <2> DEFINE l == [u \in Targets |-> IF u \in Placeholders(t) THEN LinkURL(u)
                                     ELSE docs[fileOf[t]].link[u]]
  <2>1. docs' = [docs EXCEPT ![fileOf[t]] = Revised(docs[fileOf[t]], l)]
    BY <1>4 DEF LinksUpdate
  <2> HIDE DEF l
  <2>2. fileOf[t] \in DocIds => LET r == Revised(docs[fileOf[t]], l)
                                IN  /\ r.op = docs[fileOf[t]].op /\ r.key = docs[fileOf[t]].key
                                    /\ r.st = docs[fileOf[t]].st
    BY <1>a DEF Revised, Documents
  <2>3. QED BY <1>1, <1>2, <1>b, <2>1, <2>2, ChangesSettle DEF Settled
<1>5. CASE ReadyMark(t)
  <2>1. docs' = [docs EXCEPT ![fileOf[t]] = [docs[fileOf[t]] EXCEPT !.status = "ready"]]
    BY <1>5 DEF ReadyMark
  <2>2. fileOf[t] \in DocIds => LET r == [docs[fileOf[t]] EXCEPT !.status = "ready"]
                                IN  /\ r.op = docs[fileOf[t]].op /\ r.key = docs[fileOf[t]].key
                                    /\ r.st = docs[fileOf[t]].st
    BY <1>a DEF Documents
  <2>3. QED BY <1>1, <1>2, <1>b, <2>1, <2>2, ChangesSettle DEF Settled
<1>6. CASE MoveRelocate(t)
  <2>1. docs' = [docs EXCEPT ![fileOf[t]] = [docs[fileOf[t]] EXCEPT !.parent = "review"]]
    BY <1>6 DEF MoveRelocate
  <2>2. fileOf[t] \in DocIds => LET r == [docs[fileOf[t]] EXCEPT !.parent = "review"]
                                IN  /\ r.op = docs[fileOf[t]].op /\ r.key = docs[fileOf[t]].key
                                    /\ r.st = docs[fileOf[t]].st
    BY <1>a DEF Documents
  <2>3. QED BY <1>1, <1>2, <1>b, <2>1, <2>2, ChangesSettle DEF Settled
<1>7. CASE ~LinksUpdate(t) /\ ~ReadyMark(t) /\ ~MoveRelocate(t)
  <2>1. docs' = docs
    BY <1>7 DEF LinksStep, LinksBegin, Pass, LinksRead, LinksReadRefuse, LinksUpdateFail,
       LinksUpdateRefuse, LinksRecord, CaptureStep, CaptureBegin, CaptureKnown, CaptureFound,
       CaptureWrite, CaptureRefuse, CaptureRecord, ReadyStep, ReadyBegin, ReadyFail,
       ReadyRecord, MoveStep, MoveBegin, MoveKnown, MoveFail, MoveRecord,
       MoveFinalRead, SealStep, SealBegin, SealWrite, SealFound, SealRefuse, SealRecord, SealKnown,
       Refuse, OnlyRun, OnlyStage
  <2>2. QED BY <1>3, <2>1
<1>8. QED BY <1>4, <1>5, <1>6, <1>7

\* What reviewers and late creates do, too.
LEMMA EnvironmentSettles ==
    ASSUME TypeInv, Environment
    PROVE  Settled
<1>1. PICK e \in DocIds : CreateLands(e) \/ ReviewerEdits(e) \/ ReviewerTrashes(e)
  BY DEF Environment
<1>2. late' = late /\ pc' = pc /\ got' = got
  BY <1>1 DEF CreateLands, ReviewerEdits, ReviewerTrashes, ReviewerActs, runVars, countVars
<1>3. docs \in [DocIds -> Documents] /\ docs[e] \in Documents
  BY DEF TypeInv, TypeOK, DocsTypeOK
<1>4. \A d \in DocIds \ {e} : docs'[d] = docs[d]
  BY <1>1, <1>3 DEF CreateLands, ReviewerEdits, ReviewerTrashes
<1>5. CASE CreateLands(e)
  <2>1. docs'[e] = [docs[e] EXCEPT !.st = "live"] /\ docs[e].st = "inflight"
    BY <1>3, <1>5 DEF CreateLands
  <2>2. Settles(e)
    BY <1>3, <2>1 DEF Settles, Documents
  <2>3. QED BY <1>2, <1>4, <2>2 DEF Settled, Settles
<1>6. CASE ReviewerTrashes(e)
  <2>1. docs'[e] = [docs[e] EXCEPT !.st = "trashed"] /\ docs[e].st = "live"
    BY <1>3, <1>6 DEF ReviewerTrashes
  <2>2. Settles(e)
    BY <1>3, <2>1 DEF Settles, Documents
  <2>3. QED BY <1>2, <1>4, <2>2 DEF Settled, Settles
<1>7. CASE ReviewerEdits(e)
  <2>1. PICK gone \in SUBSET Targets :
          docs'[e] = Revised(docs[e], [u \in Targets |-> IF u \in gone THEN NoDoc ELSE docs[e].link[u]])
    BY <1>3, <1>7 DEF ReviewerEdits
  <2> DEFINE l == [u \in Targets |-> IF u \in gone THEN NoDoc ELSE docs[e].link[u]]
  <2> HIDE DEF l
  <2>2. Settles(e)
    BY <1>3, <2>1 DEF Settles, Revised, Documents, l
  <2>3. QED BY <1>2, <1>4, <2>2 DEF Settled, Settles
<1>8. QED BY <1>1, <1>5, <1>6, <1>7

-----------------------------------------------------------------------------
(* Entries are created in order *)

\* Only the create loop, a new operation and the end of one touch an entry
\* that has not been created.
LEMMA LaterStages ==
    ASSUME TypeInv, TypeInv', [Next]_vars, ~CommitClear,
           \A items \in SUBSET Targets : ~Start(items),
           \A t \in Targets : ~CreateBegin(t) /\ ~CreateRecord(t)
    PROVE  \A u \in Targets : stage'[u] = stage[u] \/ (stage[u] >= Created /\ stage'[u] >= Created)
<1>a. TypeInv /\ TypeOK' /\ \A u \in Targets : stage[u] \in Nat /\ stage'[u] \in Nat
  BY NamedStages DEF TypeInv, TypeOK, JournalTypeOK
<1>1. ASSUME NEW t \in Targets, LinksStep(t) \/ CaptureStep(t) \/ ReadyStep(t)
                                \/ MoveStep(t) \/ SealStep(t)
      PROVE  \A u \in Targets : stage'[u] = stage[u] \/ (stage[u] >= Created /\ stage'[u] >= Created)
  <2>1. Quiet
    BY <1>a, <1>1, LinksQuiet, CaptureQuiet, ReadyQuiet, MoveQuiet, SealQuiet
  <2>2. CASE stage' = stage
    BY <2>2
  <2>3. CASE pc \notin CreateLabels \cup {"idle"}
    <3>1. \A u \in Targets : stage[u] <= stage'[u] /\ (stage[u] # stage'[u] => u \in journal.items)
      BY <1>a, <2>1 DEF Quiet, TypeInv, RunHasJournal
    <3>2. \A u \in journal.items : stage[u] >= Created
      BY <1>a, <2>3 DEF TypeInv, FilesRecorded
    <3>3. QED BY <1>a, <3>1, <3>2, StageOrder
  <2>4. QED BY <2>1, <2>2, <2>3 DEF Quiet
<1>2. ASSUME NEW t \in Targets, CommitBegin(t) \/ CommitRecord(t)
      PROVE  \A u \in Targets : stage'[u] = stage[u] \/ (stage[u] >= Created /\ stage'[u] >= Created)
  <2>1. /\ t \in journal.items /\ pc \notin CreateLabels \cup {"idle"}
        /\ Announce(t, Committing) \/ Announce(t, Committed)
    BY <1>a, <1>2 DEF CommitBegin, CommitRecord, IsNext, TypeInv, RunHasJournal, CreateLabels
  <2>2. stage[t] >= Created
    BY <1>a, <2>1 DEF TypeInv, FilesRecorded
  <2>3. /\ \A u \in Targets \ {t} : stage'[u] = stage[u]
        /\ stage[t] <= stage'[t]
    BY <1>a, <2>1, LoopStepKinds, NamedStages
  <2>4. QED BY <1>a, <2>2, <2>3, StageOrder
<1>3. ASSUME NEW t \in Targets, CreateStep(t) PROVE stage' = stage
  BY <1>3 DEF CreateStep, Pass, LookupNone, LookupRefuse, LookupMatch, CreateIssue,
     CreateFail, Refuse, OnlyRun, OnlyDocs, durable, journalVars
<1>4. CASE NextLoop \/ Resume \/ Interrupt \/ Environment \/ CommitSave \/ UNCHANGED vars
  BY <1>4 DEF NextLoop, Resume, Interrupt, Environment, CreateLands, ReviewerEdits,
     ReviewerTrashes, ReviewerActs, CommitSave, SaveFrame, OnlyRun, vars, durable, journalVars
<1>5. QED BY <1>1, <1>2, <1>3, <1>4 DEF Next, RunStep, CommitStep

\* CreatedInOrder is inductive relative to TypeInv and Position.
LEMMA NextInOrder ==
    ASSUME TypeInv, TypeInv', Position, CreatedInOrder, [Next]_vars
    PROVE  CreatedInOrder'
<1>a. TypeInv /\ TypeOK' /\ \A u \in Targets : stage[u] \in Nat /\ stage'[u] \in Nat
  BY NamedStages DEF TypeInv, TypeOK, JournalTypeOK
<1>b. journal.items \subseteq Targets /\ \A u \in Targets : u \in Nat
  BY <1>a, ConstantsOK DEF TypeInv, TypeOK, JournalTypeOK
<1>1. ASSUME NEW t \in Targets, CreateBegin(t) PROVE CreatedInOrder'
  <2>1. /\ IsNext(t) /\ pc = "create" /\ UNCHANGED journal /\ stage[t] < Created
        /\ Announce(t, Creating)
    BY <1>1 DEF CreateBegin, OnlyStage
  <2>2. /\ \A u \in Targets \ {t} : stage'[u] = stage[u]
        /\ stage'[t] = Creating
    BY <1>a, <2>1, LoopStepKinds, NamedStages, StageOrder
  <2>3. \A s \in journal.items : s < t => stage[s] >= Created
    <3>1. \A s \in journal.items : s < t => s \notin todo
      BY <1>b, <2>1 DEF IsNext
    <3>2. \A s \in journal.items : s \notin todo => stage[s] >= Created
      BY <1>a, <2>1, <3>1 DEF Position, LoopsDone, Through, Phase, CreateLabels
    <3>3. QED BY <3>1, <3>2
  <2>4. \A u \in journal.items : t < u => ~(stage[u] >= Creating)
    <3>1. t \in journal.items
      BY <1>a, <2>1 DEF IsNext, TypeInv, RunHasJournal
    <3>2. QED BY <1>a, <1>b, <2>1, <3>1, StageOrder DEF CreatedInOrder
  <2>5. \A s, u \in journal.items : s < u /\ stage'[u] >= Creating => stage'[s] >= Created
    BY <1>b, <2>2, <2>3, <2>4 DEF CreatedInOrder
  <2>6. QED BY <2>1, <2>5 DEF CreatedInOrder
<1>2. ASSUME NEW t \in Targets, CreateRecord(t) PROVE CreatedInOrder'
  <2>1. /\ IsNext(t) /\ pc = "record" /\ UNCHANGED journal /\ Advance(t, Created)
    BY <1>2 DEF CreateRecord
  <2>2. /\ \A u \in Targets \ {t} : stage'[u] = stage[u]
        /\ stage'[t] = Created
    BY <1>a, <2>1, LoopStepKinds, NamedStages
  <2>3. stage[t] = Creating
    BY <2>1 DEF Position, ItemAnnounced, IsNext
  <2>4. \A s, u \in journal.items : s < u /\ stage'[u] >= Creating => stage'[s] >= Created
    BY <1>a, <1>b, <2>2, <2>3, StageOrder DEF CreatedInOrder
  <2>5. QED BY <2>1, <2>4 DEF CreatedInOrder
<1>3. CASE CommitClear
  BY <1>3 DEF CommitClear, NoJournal, CreatedInOrder
<1>4. ASSUME NEW items \in SUBSET Targets, Start(items) PROVE CreatedInOrder'
  <2>1. journal.items = {} /\ journal'.items = items /\ stage' = stage
    BY <1>4 DEF Start, TypeInv, RunHasJournal
  <2>2. \A u \in items : stage'[u] = Planned
    BY <2>1 DEF Position, EntriesTogether
  <2>3. QED BY <2>1, <2>2, StageOrder DEF CreatedInOrder
<1>5. CASE /\ ~CommitClear /\ \A items \in SUBSET Targets : ~Start(items)
           /\ \A t \in Targets : ~CreateBegin(t) /\ ~CreateRecord(t)
  <2>1. \A u \in Targets : stage'[u] = stage[u] \/ (stage[u] >= Created /\ stage'[u] >= Created)
    BY <1>5, LaterStages
  <2>2. journal' = journal
    BY <1>5, MostStepsKeepState DEF CommitSave, SaveFrame, journalVars
  <2>3. \A s, u \in journal.items : s < u /\ stage'[u] >= Creating => stage'[s] >= Created
    BY <1>a, <1>b, <2>1, StageOrder DEF CreatedInOrder
  <2>4. QED BY <2>2, <2>3 DEF CreatedInOrder
<1>6. QED BY <1>1, <1>2, <1>3, <1>4, <1>5

\* What the entry that is creating has live is what its lookup matches.
LEMMA LookupFinds ==
    ASSUME TypeInv, Position, DocsInv, CreatedInOrder, NEW t \in todo, IsNext(t),
           pc \in {"lookup", "issue", "record"}
    PROVE  /\ InCreation \subseteq Matches(t)
           /\ t \in journal.items /\ stage[t] = Creating /\ fileOf[t] = NoDoc
<1>1. /\ t \in journal.items /\ t \in Targets /\ HasJournal /\ journal.items \subseteq Targets
      /\ \A u \in Targets : u \in Nat /\ stage[u] \in Nat
  BY ConstantsOK, NamedStages DEF TypeInv, TypeOK, JournalTypeOK, RunHasJournal
<1>2. stage[t] = Creating
  BY DEF Position, ItemAnnounced
<1>3. fileOf[t] = NoDoc
  BY <1>1, <1>2, StageOrder DEF DocsInv, EntriesTrue
<1>4. ASSUME NEW d \in InCreation PROVE d \in Matches(t)
  <2>1. /\ d \in DocIds /\ docs[d].st = "live" /\ docs[d].op = journal.op
        /\ stage[docs[d].key] = Creating
    BY DEF InCreation, Loose
  <2>2. docs[d].key \in journal.items
    BY <1>1, <2>1 DEF DocsInv, Announced, Ours
  <2>3. docs[d].key = t
    BY <1>1, <1>2, <2>1, <2>2, StageOrder DEF CreatedInOrder
  <2>4. QED BY <2>1, <2>3 DEF Matches
<1>5. QED BY <1>1, <1>2, <1>3, <1>4

-----------------------------------------------------------------------------
(* The bounds: steps that create nothing *)

\* A file that the state file names stays named there.
FilesKept ==
    \A t \in Targets, d \in DocIds :
        (\E r \in Recorded(t) : r.file = d) => (\E r \in Recorded(t)' : r.file = d)

\* A document that was named stays named, if the journal does not drop it.
LEMMA HeldKept ==
    ASSUME FilesKept, NEW d \in DocIds, docs[d].key \in Targets,
           docs'[d].key = docs[d].key, Held(d),
           docs[d].op = journal.op /\ fileOf[docs[d].key] = d => Held(d)'
    PROVE  Held(d)'
BY DEF FilesKept, Held

\* A settled step keeps the bounds, if the journal drops no document and no
\* entry that is creating.
LEMMA SettledKeepsBounds ==
    ASSUME TypeInv, FilesKept, CreationsBounded, Settled,
           \A d \in DocIds : docs[d].st # "absent" /\ docs[d].op = journal.op
                               /\ fileOf[docs[d].key] = d => Held(d)',
           \A d \in InCreation : journal'.op = journal.op /\ stage'[docs[d].key] = Creating
    PROVE  CreationsBounded'
<1>a. late \in Nat
  BY DEF TypeInv, TypeOK, CountTypeOK
<1>b. \A d \in DocIds : Settles(d)
  BY DEF Settled
<1>1. ASSUME NEW d \in DocIds, d \in Loose' PROVE d \in Loose
  <2>1. docs'[d].st = "inflight" \/ (docs'[d].st = "live" /\ ~Held(d)')
    BY <1>1 DEF Loose
  <2>2. docs[d].st = "inflight" \/ (docs[d].st = "live" /\ ~Held(d)')
    BY <1>b, <2>1 DEF Settles
  <2>3. docs[d].st = "live" => (Held(d) => Held(d)')
    BY <1>b, HeldKept DEF Settles, CreationsBounded
  <2>4. QED BY <2>2, <2>3 DEF Loose
<1>2. ASSUME NEW d \in DocIds, d \in Loose', d \in InCreation PROVE d \in InCreation'
  <2>1. /\ docs[d].st = "live" /\ docs[d].op = journal.op
        /\ journal'.op = journal.op /\ stage'[docs[d].key] = Creating
    BY <1>2 DEF InCreation
  <2>2. docs'[d].st \in {"inflight", "live"}
    BY <1>2 DEF Loose
  <2>3. /\ docs'[d].st = "live" /\ docs'[d].op = journal'.op
        /\ stage'[docs'[d].key] = Creating
    BY <1>b, <2>1, <2>2 DEF Settles
  <2>4. QED BY <1>2, <2>3 DEF InCreation
<1>3. Loose' \subseteq DocIds
  BY DEF Loose
<1>4. Loose' \subseteq Loose /\ (Loose \ InCreation)' \subseteq Loose \ InCreation
  BY <1>1, <1>2, <1>3
<1>5. \A d \in DocIds : /\ docs[d].st = "absent" => docs'[d].st = "absent"
                        /\ docs'[d].key = docs[d].key
  BY <1>b DEF Settles
<1>6. QED BY <1>a, <1>4, <1>5, FewerLoose DEF Settled

\* Within one operation that is always so after the create loop.
LEMMA QuietKeepsBounds ==
    ASSUME TypeInv, FilesKept, CreationsBounded, Settled,
           UNCHANGED <<journal, fileOf>>,
           \A u \in Targets : stage[u] = Creating => stage'[u] = Creating
    PROVE  CreationsBounded'
<1>1. \A d \in DocIds : docs[d].st # "absent" /\ docs[d].op = journal.op
                               /\ fileOf[docs[d].key] = d => Held(d)'
  BY DEF Settled, Settles, Held
<1>2. \A d \in InCreation : docs[d].key \in Targets
  BY DEF InCreation, Loose, CreationsBounded
<1>3. \A d \in InCreation : journal'.op = journal.op /\ stage'[docs[d].key] = Creating
  BY <1>2 DEF InCreation
<1>4. QED BY <1>1, <1>3, SettledKeepsBounds

\* The end of an operation: every document in the journal was saved.
LEMMA ClearKeepsBounds ==
    ASSUME TypeInv, Position, DocsInv, CreationsBounded, CommitClear,
           \A t \in journal.items : active[t].file = fileOf[t]
    PROVE  CreationsBounded'
<1>1. /\ pc = "clear" /\ pc' = "idle" /\ UNCHANGED <<docs, late, active, prior>>
  BY DEF CommitClear, StopRun, stateVars, countVars
<1>2. /\ HasJournal /\ \A t \in journal.items : stage[t] \in Nat /\ stage[t] >= Created
  <2>1. HasJournal /\ \A t \in journal.items : stage[t] \in Nat /\ Through(t, Phase - 1)
    BY <1>1, NamedStages
    DEF TypeInv, TypeOK, JournalTypeOK, RunHasJournal, Position, LoopsDone
  <2>2. Phase = 8
    BY <1>1 DEF Phase, CreateLabels
  <2>3. QED BY <2>1, <2>2 DEF Through
<1>3. ASSUME NEW d \in DocIds, docs[d].op = journal.op
      PROVE  /\ docs[d].key \in journal.items
             /\ fileOf[docs[d].key] = d => Held(d)'
  <2>1. docs[d].key \in journal.items
    BY <1>2, <1>3 DEF DocsInv, Announced, Ours
  <2>2. fileOf[docs[d].key] = d => \E r \in Recorded(docs[d].key) : r.file = d
    BY <1>2, <2>1 DEF Recorded
  <2>3. \A t : Recorded(t)' = Recorded(t)
    BY <1>1 DEF Recorded
  <2>4. QED BY <1>1, <2>1, <2>2, <2>3 DEF Held
<1>4. InCreation = {}
  BY <1>2, <1>3, StageOrder DEF InCreation, Loose
<1>5. Settled /\ FilesKept
  BY <1>1 DEF Settled, Settles, FilesKept, Recorded
<1>6. QED BY <1>1, <1>3, <1>4, <1>5, SettledKeepsBounds

\* A new operation has neither documents nor entries yet.
LEMMA StartKeepsBounds ==
    ASSUME TypeInv, DocsInv, CreationsBounded, NEW items \in SUBSET Targets, Start(items)
    PROVE  CreationsBounded'
<1>1. /\ journal.op = 0 /\ pc' = "create" /\ UNCHANGED <<docs, late, stage, fileOf, active, prior>>
  BY DEF Start, HasJournal, stateVars
<1>2. \A d \in DocIds : docs[d].st # "absent" => docs[d].op # journal.op
  BY <1>1 DEF DocsInv, OperationsNumbered
<1>3. InCreation = {}
  BY <1>2 DEF InCreation, Loose
<1>4. Settled /\ FilesKept
  BY <1>1 DEF Settled, Settles, FilesKept, Recorded
<1>5. QED BY <1>1, <1>2, <1>3, <1>4, SettledKeepsBounds

\* Every other step that creates and records nothing.
LEMMA OthersKeepBounds ==
    ASSUME TypeInv, TypeInv', Position, DocsInv, CreationsBounded, [Next]_vars, FilesKept,
           pc = "clear" => \A t \in journal.items : active[t].file = fileOf[t],
           \A t \in Targets : ~CreateStep(t)
    PROVE  CreationsBounded'
<1>a. TypeInv /\ \A u \in Targets : stage[u] \in Nat
  BY NamedStages DEF TypeInv, TypeOK, JournalTypeOK
<1>1. CASE CommitClear
  BY <1>1, ClearKeepsBounds DEF CommitClear
<1>2. ASSUME NEW items \in SUBSET Targets, Start(items) PROVE CreationsBounded'
  BY <1>2, StartKeepsBounds
<1>3. CASE ~CommitClear /\ \A items \in SUBSET Targets : ~Start(items)
  <2>1. \A t \in Targets : ~CreateBegin(t) /\ ~CreateRecord(t)
    BY DEF CreateStep
  <2>2. \A u \in Targets : stage[u] = Creating => stage'[u] = Creating
    BY <1>a, <1>3, <2>1, LaterStages, StageOrder
  <2>3. UNCHANGED <<journal, fileOf>> /\ Settled
    <3>1. CASE \E t \in Targets : \/ LinksStep(t) \/ CaptureStep(t) \/ ReadyStep(t)
                                  \/ MoveStep(t) \/ SealStep(t)
      BY <1>a, <3>1, LoopsSettle, LinksQuiet, CaptureQuiet, ReadyQuiet, MoveQuiet, SealQuiet
      DEF Quiet
    <3>2. CASE Environment
      <4>1. UNCHANGED <<journal, fileOf>>
        BY <3>2 DEF Environment, CreateLands, ReviewerEdits, ReviewerTrashes, ReviewerActs,
           durable, journalVars
      <4>2. QED BY <1>a, <3>2, <4>1, EnvironmentSettles
    <3>3. CASE UNCHANGED vars
      BY <3>3 DEF vars, journalVars, runVars, countVars, Settled, Settles
    <3>4. ASSUME NEW t \in Targets, CommitBegin(t) \/ CommitRecord(t)
          PROVE  UNCHANGED <<journal, fileOf>> /\ Settled
      BY <3>4 DEF CommitBegin, CommitRecord, ItemDone, OnlyStage, countVars, Settled, Settles
    <3>5. CASE CommitSave
      BY <3>5 DEF CommitSave, SaveFrame, journalVars, countVars, Settled, Settles
    <3>6. CASE NextLoop \/ Resume \/ Interrupt
      <4>1. UNCHANGED <<journal, fileOf, docs, late>>
        BY <3>6 DEF NextLoop, Resume, Interrupt, OnlyRun, OnlyStage, durable, journalVars,
           countVars
      <4>2. pc' \notin {"issue", "record"}
        BY <3>6, NextLoopMoves DEF Resume, Interrupt, StopRun
      <4>3. QED BY <4>1, <4>2 DEF Settled, Settles
    <3>7. QED
      BY <1>3, <3>1, <3>2, <3>3, <3>4, <3>5, <3>6 DEF Next, RunStep, CommitStep
  <2>4. QED BY <2>2, <2>3, QuietKeepsBounds
<1>4. QED BY <1>1, <1>2, <1>3

-----------------------------------------------------------------------------
(* The bounds: creating documents *)

\* The steps of the create loop that leave Google and the entries' files alone.
LEMMA LookupKeepsBounds ==
    ASSUME TypeInv, TypeInv', Position, DocsInv, CreatedInOrder, CreationsBounded, FilesKept,
           NEW t \in Targets,
           \/ CreateBegin(t) \/ Pass("create", t, Created) \/ LookupNone(t) \/ LookupRefuse(t)
           \/ \E d \in DocIds : LookupMatch(t, d)
    PROVE  CreationsBounded'
<1>a. TypeInv /\ TypeOK' /\ (\A u \in Targets : stage[u] \in Nat) /\ late \in Nat
  BY NamedStages DEF TypeInv, TypeOK, JournalTypeOK, CountTypeOK
<1>1. UNCHANGED <<journal, fileOf, docs, late, active, prior>> /\ t \in todo /\ IsNext(t)
  BY DEF CreateBegin, Pass, LookupNone, LookupRefuse, LookupMatch, Refuse, OnlyRun, OnlyStage,
     stateVars, countVars, IsNext
<1>2. CASE CreateBegin(t)
  <2>1. pc' = "lookup" /\ stage[t] < Created /\ Announce(t, Creating)
    BY <1>2 DEF CreateBegin, Goto
  <2>2. \A u \in Targets : stage[u] = Creating => stage'[u] = Creating
    BY <1>a, <2>1, LoopStepKinds, NamedStages, StageOrder
  <2>3. QED BY <1>1, <2>1, <2>2, QuietKeepsBounds DEF Settled, Settles
<1>3. CASE Pass("create", t, Created) \/ LookupRefuse(t)
  <2>1. pc' \in {"create", "idle"} /\ stage' = stage
    BY <1>3 DEF Pass, LookupRefuse, Refuse, ItemDone, StopRun, OnlyRun
  <2>2. QED BY <1>1, <2>1, QuietKeepsBounds DEF Settled, Settles
<1>4. ASSUME LookupNone(t) \/ \E d \in DocIds : LookupMatch(t, d)
      PROVE  CreationsBounded'
  <2>1. stage' = stage /\ pc = "lookup"
    BY <1>4 DEF LookupNone, LookupMatch, OnlyRun
  <2>2. Loose' = Loose /\ InCreation' = InCreation
    BY <1>1, <2>1 DEF Loose, InCreation, Held, Recorded
  <2>3. InCreation \subseteq Matches(t)
    BY <1>1, <2>1, LookupFinds
  <2>4. /\ IsFiniteSet(Loose) /\ Cardinality(Loose) \in Nat
        /\ IsFiniteSet(Loose \ InCreation) /\ Cardinality(Loose \ InCreation) \in Nat
        /\ Cardinality(Loose \ InCreation) <= late
    BY LooseFinite DEF CreationsBounded
  <2>5. pc' = "issue" => Cardinality(Loose) <= late
    <3>1. ASSUME LookupNone(t) PROVE Loose \ InCreation = Loose
      BY <2>3, <3>1 DEF LookupNone
    <3>2. ASSUME NEW d \in DocIds, LookupMatch(t, d) PROVE pc' # "issue"
      BY <3>2 DEF LookupMatch, Goto
    <3>3. QED BY <1>4, <2>4, <3>1, <3>2
  <2>6. pc' = "record" => Cardinality(Loose \ {got'}) <= late
    <3>1. ASSUME NEW d \in DocIds, LookupMatch(t, d) PROVE Cardinality(Loose \ {got'}) <= late
      <4>1. Loose \ {got'} \subseteq Loose \ InCreation
        BY <2>3, <3>1 DEF LookupMatch
      <4>2. /\ Cardinality(Loose \ {got'}) \in Nat
            /\ Cardinality(Loose \ {got'}) <= Cardinality(Loose \ InCreation)
        BY <2>4, <4>1, PartCounted
      <4>3. QED BY <1>a, <2>4, <4>2
    <3>2. ASSUME LookupNone(t) PROVE pc' # "record"
      BY <3>2 DEF LookupNone, Goto
    <3>3. QED BY <1>4, <3>1, <3>2
  <2>7. QED BY <1>1, <2>2, <2>5, <2>6 DEF CreationsBounded
<1>5. QED BY <1>2, <1>3, <1>4

\* A create puts one document more out of sight, which the next lookup finds.
LEMMA IssueKeepsBounds ==
    ASSUME TypeInv, Position, DocsInv, CreatedInOrder, CreationsBounded,
           NEW t \in Targets, NEW d \in DocIds, CreateIssue(t, d)
    PROVE  CreationsBounded'
<1>a. late \in Nat /\ docs \in [DocIds -> Documents]
  BY DEF TypeInv, TypeOK, CountTypeOK, DocsTypeOK
<1>1. /\ pc = "issue" /\ IsNext(t) /\ t \in todo /\ docs[d].st = "absent"
      /\ UNCHANGED <<journal, fileOf, stage, late, active, prior>>
      /\ docs' = [docs EXCEPT ![d] = NewDocument(t, "live")]
      /\ pc' \in {"record", "lookup"} /\ (pc' = "record" => got' = d)
  BY DEF CreateIssue, Goto, OnlyDocs, durable, journalVars, stateVars, IsNext
<1>2. stage[t] = Creating
  BY <1>1, LookupFinds
<1>3. /\ \A e \in DocIds \ {d} : docs'[e] = docs[e]
      /\ docs'[d].st = "live" /\ docs'[d].op = journal.op /\ docs'[d].key = t
  BY <1>a, <1>1 DEF NewDocument
<1>4. \A e \in DocIds \ {d} : Held(e)' = Held(e)
  BY <1>1, <1>3 DEF Held, Recorded
<1>5. Loose' \subseteq Loose \cup {d}
  BY <1>3, <1>4 DEF Loose
<1>6. d \in Loose' => d \in InCreation'
  BY <1>1, <1>2, <1>3 DEF InCreation
<1>7. IsFiniteSet(Loose) /\ Cardinality(Loose) \in Nat /\ Cardinality(Loose) <= late
  BY <1>1, LooseFinite DEF CreationsBounded
<1>8. Cardinality(Loose') \in Nat /\ Cardinality(Loose') <= late + 1
  <2>1. Cardinality(Loose') \in Nat /\ Cardinality(Loose') <= Cardinality(Loose) + 1
    BY <1>5, <1>7, OneMore
  <2>2. QED BY <1>a, <1>7, <2>1
<1>9. ASSUME NEW T, T \subseteq Loose PROVE Cardinality(T) <= late
  <2>1. Cardinality(T) \in Nat /\ Cardinality(T) <= Cardinality(Loose)
    BY <1>7, <1>9, PartCounted
  <2>2. QED BY <1>a, <1>7, <2>1
<1>10. Loose' \ {d} \subseteq Loose /\ (Loose \ InCreation)' \subseteq Loose
  BY <1>5, <1>6
<1>11. IsFiniteSet({e \in DocIds : docs'[e].st # "absent"})
  <2>1. {e \in DocIds : docs'[e].st # "absent"} \subseteq {e \in DocIds : docs[e].st # "absent"} \cup {d}
    BY <1>3
  <2>2. QED BY <2>1, OneMore DEF CreationsBounded
<1>12. \A e \in DocIds : docs'[e].st # "absent" => docs'[e].key \in Targets
  BY <1>3 DEF CreationsBounded
<1>13. QED BY <1>1, <1>8, <1>9, <1>10, <1>11, <1>12 DEF CreationsBounded

\* A create that failed puts one document more out of sight when it is late.
LEMMA FailKeepsBounds ==
    ASSUME TypeInv, CreationsBounded, FilesKept, NEW t \in Targets, CreateFail(t)
    PROVE  CreationsBounded'
<1>a. late \in Nat /\ docs \in [DocIds -> Documents]
  BY DEF TypeInv, TypeOK, CountTypeOK, DocsTypeOK
<1>1. /\ pc = "issue" /\ pc' = "lookup" /\ UNCHANGED <<journal, fileOf, stage, active, prior>>
  BY DEF CreateFail, Goto, durable, journalVars, stateVars
<1>2. CASE UNCHANGED <<docs, late>>
  BY <1>1, <1>2, QuietKeepsBounds DEF Settled, Settles
<1>3. ASSUME NEW d \in DocIds, docs[d].st = "absent", late' = late + 1,
             docs' = [docs EXCEPT ![d] = NewDocument(t, "inflight")]
      PROVE  CreationsBounded'
  <2>1. /\ \A e \in DocIds \ {d} : docs'[e] = docs[e]
        /\ docs'[d].st = "inflight" /\ docs'[d].key = t
    BY <1>a, <1>3 DEF NewDocument
  <2>2. \A e \in DocIds \ {d} : Held(e)' = Held(e)
    BY <1>1, <2>1 DEF Held, Recorded
  <2>3. Loose' \subseteq Loose \cup {d}
    BY <2>1, <2>2 DEF Loose
  <2>4. IsFiniteSet(Loose) /\ Cardinality(Loose) \in Nat /\ Cardinality(Loose) <= late
    BY <1>1, LooseFinite DEF CreationsBounded
  <2>5. ASSUME NEW T, T \subseteq Loose' PROVE Cardinality(T) \in Nat /\ Cardinality(T) <= late'
    <3>1. T \subseteq Loose \cup {d}
      BY <2>3, <2>5
    <3>2. Cardinality(T) \in Nat /\ Cardinality(T) <= Cardinality(Loose) + 1
      BY <2>4, <3>1, OneMore
    <3>3. QED BY <1>a, <1>3, <2>4, <3>2
  <2>6. /\ Cardinality(Loose') <= late' + 1
        /\ Cardinality((Loose \ InCreation)') <= late'
    <3>1. Cardinality(Loose') \in Nat /\ Cardinality(Loose') <= late'
      BY <2>5
    <3>2. Cardinality(Loose') <= late' + 1
      BY <1>a, <1>3, <3>1
    <3>3. (Loose \ InCreation)' \subseteq Loose'
      OBVIOUS
    <3>4. QED BY <2>5, <3>2, <3>3
  <2>7. IsFiniteSet({e \in DocIds : docs'[e].st # "absent"})
    <3>1. {e \in DocIds : docs'[e].st # "absent"} \subseteq {e \in DocIds : docs[e].st # "absent"} \cup {d}
      BY <2>1
    <3>2. QED BY <3>1, OneMore DEF CreationsBounded
  <2>8. \A e \in DocIds : docs'[e].st # "absent" => docs'[e].key \in Targets
    BY <2>1 DEF CreationsBounded
  <2>9. QED BY <1>1, <2>6, <2>7, <2>8 DEF CreationsBounded
<1>4. QED BY <1>2, <1>3 DEF CreateFail

\* Recording the created document names it: no other one was to spare.
LEMMA RecordKeepsBounds ==
    ASSUME TypeInv, Position, DocsInv, CreatedInOrder, CreationsBounded,
           NEW t \in Targets, CreateRecord(t)
    PROVE  CreationsBounded'
<1>a. late \in Nat /\ fileOf \in [Targets -> FileIds]
  BY DEF TypeInv, TypeOK, CountTypeOK, JournalTypeOK
<1>1. /\ pc = "record" /\ IsNext(t) /\ t \in todo /\ pc' = "create"
      /\ UNCHANGED <<journal, docs, late, active, prior>>
      /\ fileOf' = [fileOf EXCEPT ![t] = got]
  BY DEF CreateRecord, ItemDone, stateVars, countVars, IsNext
<1>2. /\ got \in DocIds /\ Visible(got) /\ docs[got].op = journal.op /\ docs[got].key = t
  BY <1>1 DEF TypeInv, FilesRecorded, DocsInv, ItemTrue, Mine
<1>3. fileOf[t] = NoDoc
  BY <1>1, LookupFinds
<1>4. \A e \in DocIds : docs[e].key \in Targets /\ Held(e) => Held(e)'
  <2>1. \A u \in Targets \ {t} : fileOf'[u] = fileOf[u]
    BY <1>a, <1>1
  <2>2. \A e \in DocIds : fileOf[t] # e
    BY <1>3, ConstantsOK
  <2>3. QED BY <1>1, <2>1, <2>2 DEF Held, Recorded
<1>5. \A e \in DocIds : e = got => Held(e)'
  BY <1>a, <1>1, <1>2 DEF Held
<1>6. Loose' \subseteq Loose \ {got}
  <2>1. ASSUME NEW e \in Loose' PROVE e \in Loose /\ e # got
    <3>1. e \in DocIds /\ (docs[e].st = "inflight" \/ (docs[e].st = "live" /\ ~Held(e)'))
      BY <1>1 DEF Loose
    <3>2. e \in DocIds /\ docs[e].key \in Targets
      BY <1>1 DEF Loose, CreationsBounded
    <3>3. QED BY <1>2, <1>4, <1>5, <3>1, <3>2 DEF Loose, Visible
  <2>2. QED BY <2>1
<1>7. IsFiniteSet(Loose \ {got}) /\ Cardinality(Loose \ {got}) <= late
  <2>1. Loose \ {got} \subseteq Loose
    OBVIOUS
  <2>2. QED BY <1>1, <2>1, LooseFinite, PartCounted DEF CreationsBounded
<1>8. ASSUME NEW T, T \subseteq Loose' PROVE Cardinality(T) \in Nat /\ Cardinality(T) <= late
  <2>1. T \subseteq Loose \ {got}
    BY <1>6, <1>8
  <2>2. /\ Cardinality(T) \in Nat /\ Cardinality(Loose \ {got}) \in Nat
        /\ Cardinality(T) <= Cardinality(Loose \ {got})
    BY <1>7, <2>1, PartCounted
  <2>3. QED BY <1>a, <1>7, <2>2
<1>9. Cardinality(Loose') <= late + 1 /\ Cardinality((Loose \ InCreation)') <= late
  <2>1. Cardinality(Loose') \in Nat /\ Cardinality(Loose') <= late
    BY <1>8
  <2>2. Cardinality(Loose') <= late + 1
    BY <1>a, <2>1
  <2>3. (Loose \ InCreation)' \subseteq Loose'
    OBVIOUS
  <2>4. QED BY <1>8, <2>2, <2>3
<1>10. QED BY <1>1, <1>9 DEF CreationsBounded

\* CreationsBounded is inductive relative to the other layers.
LEMMA NextBounded ==
    ASSUME TypeInv, TypeInv', Position, DocsInv, CreatedInOrder, CreationsBounded, [Next]_vars,
           FilesKept, pc = "clear" => \A t \in journal.items : active[t].file = fileOf[t]
    PROVE  CreationsBounded'
<1>1. ASSUME NEW t \in Targets, CreateStep(t) PROVE CreationsBounded'
  BY <1>1, LookupKeepsBounds, IssueKeepsBounds, FailKeepsBounds, RecordKeepsBounds DEF CreateStep
<1>2. QED BY <1>1, OthersKeepBounds

\* It holds initially.
LEMMA InitBounded == Init => CreatedInOrder /\ CreationsBounded
<1> SUFFICES ASSUME Init PROVE CreatedInOrder /\ CreationsBounded
  OBVIOUS
<1>1. /\ journal.items = {} /\ pc = "idle" /\ late = 0
      /\ \A d \in DocIds : docs[d].st = "absent"
  BY DEF Init, NoJournal, NoDocument
<1>2. Loose = {} /\ Loose \ InCreation = {} /\ {d \in DocIds : docs[d].st # "absent"} = {}
  BY <1>1 DEF Loose
<1>3. IsFiniteSet({}) /\ Cardinality({}) = 0
  BY FS_EmptySet
<1>4. QED BY <1>1, <1>2, <1>3 DEF CreatedInOrder, CreationsBounded

-----------------------------------------------------------------------------
(* What there is of each target *)

\* CreatedInOrder and CreationsBounded hold in every reachable state.
THEOREM CountsHold == Spec => [](CreatedInOrder /\ CreationsBounded)
<1>1. Init => CreatedInOrder /\ CreationsBounded
  BY InitBounded
<1>2. /\ IInv /\ Position /\ DocsInv /\ StoreInv /\ CreatedInOrder /\ CreationsBounded
      /\ IInv' /\ [Next]_vars
      => (CreatedInOrder /\ CreationsBounded)'
  <2> SUFFICES ASSUME IInv, Position, DocsInv, StoreInv, CreatedInOrder, CreationsBounded,
                      IInv', [Next]_vars
               PROVE  (CreatedInOrder /\ CreationsBounded)'
    OBVIOUS
  <2>1. TypeInv /\ TypeInv'
    BY DEF IInv
  <2>2. FilesKept
    <3>1. \A t \in Targets : \A r \in Recorded(t) : r.file \in DocIds => r # NoTarget
      BY ConstantsOK DEF NoTarget
    <3>2. \A t \in Targets : Recorded(t) \ {NoTarget} \subseteq Recorded(t)'
      BY RecordsKept
    <3>3. QED BY <3>1, <3>2 DEF FilesKept
  <2>3. pc = "clear" => \A t \in journal.items : active[t].file = fileOf[t]
    BY DEF IInv, SavedWhole
  <2>4. QED BY <2>1, <2>2, <2>3, NextInOrder, NextBounded
<1>3. QED BY <1>1, <1>2, InvariantHolds, DocsInvHolds, StoreInvHolds, PTL DEF Spec

\* The records of a target are told apart by their operation.
LEMMA OneRecordPerOperation ==
    ASSUME IInv, StoreInv, NEW t \in Targets, NEW p \in Recorded(t), NEW q \in Recorded(t),
           p.op = q.op
    PROVE  p = q
<1>1. /\ active[t] \in TargetRecords /\ prior[t] \in Seq(TargetRecords)
  BY DEF IInv, TypeInv, TypeOK, StoreTypeOK
<1>2. \A i \in 1..Len(prior[t]) : prior[t][i] \in TargetRecords
  BY <1>1
<1>3. active[t].op \in Nat /\ Len(prior[t]) \in Nat
      /\ \A i \in 1..Len(prior[t]) : prior[t][i].op \in Nat
  BY <1>1, <1>2 DEF TargetRecords
<1>4. \A i \in 1..Len(prior[t]) : /\ prior[t][i].op # active[t].op
                                  /\ \A j \in 1..(i - 1) : prior[t][j].op # prior[t][i].op
  <2>1. \A i \in 1..Len(prior[t]) : \A j \in 1..(i - 1) : j \in 1..Len(prior[t])
    BY <1>3
  <2>2. QED BY <1>3, <2>1 DEF StoreInv, RecordsOrdered
<1>5. \A i, j \in 1..Len(prior[t]) : prior[t][i].op = prior[t][j].op => i = j
  <2>1. ASSUME NEW i \in 1..Len(prior[t]), NEW j \in 1..Len(prior[t]), i # j
        PROVE  i \in 1..(j - 1) \/ j \in 1..(i - 1)
    BY <1>3, <2>1
  <2>2. QED BY <1>4, <2>1
<1>6. QED BY <1>4, <1>5 DEF Recorded

\* The state file and the journal name one document of a target's operation.
LEMMA OneHeld ==
    ASSUME IInv, StoreInv, RecordsTrue, PublishedSetsComplete, NEW t \in Targets,
           NEW d \in DocIds, NEW e \in DocIds, Held(d), Held(e),
           docs[d].st = "live", docs[e].st = "live",
           docs[d].key = t, docs[e].key = t, docs[d].op = docs[e].op, DocsInv
    PROVE  d = e
<1>1. \A f \in {d, e} : \A r \in Recorded(t) : r.file = f => r.op = docs[d].op /\ r # NoTarget
  <2>1. \A f \in {d, e} : \A r \in Recorded(t) : r.file = f => r # NoTarget
    BY ConstantsOK DEF NoTarget
  <2>2. QED BY <2>1 DEF RecordsTrue, RecordTrue
<1>2. ASSUME NEW r \in Recorded(t), docs[d].op = journal.op, r.file \in {d, e}
      PROVE  r.file = fileOf[t]
  <2>1. docs[d].op # 0 /\ HasJournal
    BY <1>2 DEF DocsInv, OperationsNumbered, HasJournal
  <2>2. t \in journal.items
    BY <1>2, <2>1 DEF DocsInv, Announced, Ours
  <2>3. r.op = journal.op
    BY <1>1, <1>2
  <2>4. Saved
    BY <1>2, <2>1, <2>2, <2>3 DEF PublishedSetsComplete, Saved
  <2>5. active[t].op = journal.op /\ active[t].file = fileOf[t] /\ active[t] \in Recorded(t)
    BY <2>2, <2>4 DEF IInv, SavedWhole, Recorded
  <2>6. QED BY <2>3, <2>5, OneRecordPerOperation
<1>3. CASE docs[d].op = journal.op
  BY <1>2, <1>3 DEF Held
<1>4. CASE docs[d].op # journal.op
  BY <1>1, <1>4, OneRecordPerOperation DEF Held
<1>5. QED BY <1>3, <1>4

\* Retries, lost answers and resumed runs leave one live document of each
\* target of an operation, and it is known to the state, to the journal or to
\* the next lookup, but for creates that took effect late (DocumentsAccounted).
THEOREM DocumentsAccountedHolds == Spec => []DocumentsAccounted
<1>1. ASSUME IInv, DocsInv, StoreInv, RecordsTrue, PublishedSetsComplete, CreationsBounded
      PROVE  DocumentsAccounted
  <2>a. late \in Nat
    BY <1>1 DEF IInv, TypeInv, TypeOK, CountTypeOK
  <2>b. /\ IsFiniteSet(Loose) /\ Cardinality(Loose) \in Nat /\ Cardinality(Loose) <= late + 1
        /\ IsFiniteSet(Loose \ InCreation) /\ Cardinality(Loose \ InCreation) \in Nat
        /\ Cardinality(Loose \ InCreation) <= late
    BY <1>1, LooseFinite DEF CreationsBounded
  <2>1. NoLostDocuments
    <3> DEFINE lost == {d \in DocIds : docs[d].st = "live" /\ ~Tracked(d)}
    <3>1. lost \subseteq Loose \ InCreation
      BY DEF Tracked, Loose, InCreation, Held
    <3>2. Cardinality(lost) \in Nat /\ Cardinality(lost) <= Cardinality(Loose \ InCreation)
      BY <2>b, <3>1, PartCounted
    <3> HIDE DEF lost
    <3>3. Cardinality(lost) <= late
      BY <2>a, <2>b, <3>2
    <3>4. QED BY <3>3 DEF NoLostDocuments, lost
  <2>2. ASSUME NEW o \in 1..ops, NEW t \in Targets
        PROVE  Cardinality({d \in DocIds : docs[d].st = "live" /\ docs[d].op = o
                                             /\ docs[d].key = t}) <= 1 + late
    <3> DEFINE made == {d \in DocIds : docs[d].st = "live" /\ docs[d].op = o /\ docs[d].key = t}
    <3>1. CASE o = journal.op /\ stage[t] = Creating
      <4>1. ASSUME NEW d \in made PROVE ~Held(d)
        <5>1. fileOf[t] = NoDoc /\ d # NoDoc
          BY <1>1, <3>1, StageOrder, ConstantsOK DEF DocsInv, EntriesTrue
        <5>2. \A r \in Recorded(t) : r.file = d => r # NoTarget
          BY ConstantsOK DEF NoTarget
        <5>3. \A r \in Recorded(t) : r.file = d => r.op = journal.op
          BY <1>1, <3>1, <5>2 DEF RecordsTrue, RecordTrue
        <5>4. HasJournal /\ t \in journal.items
          BY <1>1, <3>1 DEF DocsInv, OperationsNumbered, Announced, Ours, HasJournal
        <5>5. ~Saved
          BY <1>1, <3>1, <5>4, StageOrder DEF StoreInv, SavedForGood
        <5>6. \A r \in Recorded(t) : r.op # journal.op
          BY <1>1, <5>4, <5>5 DEF PublishedSetsComplete, Saved
        <5>7. QED BY <5>1, <5>3, <5>6 DEF Held
      <4>2. made \subseteq Loose
        BY <4>1 DEF Loose
      <4>3. Cardinality(made) \in Nat /\ Cardinality(made) <= Cardinality(Loose)
        BY <2>b, <4>2, PartCounted
      <4> HIDE DEF made
      <4>4. Cardinality(made) <= 1 + late
        BY <2>a, <2>b, <4>3
      <4>5. QED BY <4>4 DEF made
    <3>2. CASE ~(o = journal.op /\ stage[t] = Creating)
      <4>1. \A d \in made : ~Held(d) => d \in Loose \ InCreation
        BY <3>2 DEF Loose, InCreation
      <4>2. \A d, e \in made : Held(d) /\ Held(e) => d = e
        BY <1>1, OneHeld
      <4>3. \E x : made \subseteq (Loose \ InCreation) \cup {x}
        BY <4>1, <4>2
      <4>4. Cardinality(made) \in Nat /\ Cardinality(made) <= Cardinality(Loose \ InCreation) + 1
        BY <2>b, <4>3, OneMore
      <4> HIDE DEF made
      <4>5. Cardinality(made) <= 1 + late
        BY <2>a, <2>b, <4>4
      <4>6. QED BY <4>5 DEF made
    <3>3. QED BY <3>1, <3>2
  <2>3. QED BY <2>1, <2>2 DEF DocumentsAccounted, OneDocumentPerTarget
<1>2. IInv /\ DocsInv /\ StoreInv /\ RecordsTrue /\ PublishedSetsComplete /\ CreationsBounded
        => DocumentsAccounted
  BY <1>1
<1>3. QED
  BY <1>2, InvariantHolds, DocsInvHolds, StoreInvHolds, PublishedSetsCompleteHolds, CountsHold, PTL

-----------------------------------------------------------------------------
(* A run can go on *)

\* The stages of a reviewed entry alone.
ReviewStages == {CapturingReview, ReviewCaptured, SealingReview, ReviewSealed}
EntryKinds == \A t \in Targets \ ReviewPull : stage[t] \notin ReviewStages

\* What the item at hand has not recorded yet.
Below(t) ==
    /\ pc \in {"readlinks", "updatelinks", "linksdone"} => stage[t] < LinksFixed
    /\ pc \in {"snapshot", "captured"} => stage[t] < ReviewCaptured
    /\ pc \in {"mark", "marked"} => stage[t] < Ready
    /\ pc \in {"relocate", "moved"} => stage[t] < Moved

\* Inside a loop an item is at hand, and it has not been through the loop.
ItemBelow ==
    /\ pc \notin LoopHeads \cup {"idle", "save", "clear"} => todo # {}
    /\ pc \in {"save", "clear"} => todo = {}
    /\ \A t \in todo : IsNext(t) => Below(t)

\* The journal's hashes are those of the snapshots that are on disk.
HashesTrue ==
    \A t \in journal.items \cap ReviewPull :
        /\ stage[t] >= ReviewCaptured => candHash[t] = CandidateOf(Snapshot(t))
        /\ stage[t] >= ReviewSealed => sealHash[t] = Snapshot(t)

AttemptsLeft == (pc = "issue" => attempt < Attempts) /\ (pc = "lookup" => attempt <= Attempts)

GoInv == EntryKinds /\ ItemBelow /\ HashesTrue /\ AttemptsLeft

\* A step of a loop at item t that records at most stage next, and then stops,
\* takes up another item or goes on with this one.
ItemStep(t, next) ==
    /\ IsNext(t)
    /\ Advance(t, next) \/ Announce(t, next) \/ UNCHANGED stage
    /\ next \in ReviewStages => t \in ReviewPull
    /\ \/ pc' \in LoopHeads \cup {"idle"}
       \/ pc' \notin {"save", "clear"} /\ todo' = todo /\ Below(t)'

\* After a step to any other label nothing is claimed of the item at hand.
LEMMA NothingBelow ==
    ASSUME pc' \in LoopHeads \cup {"idle"}
    PROVE  ItemBelow'
BY DEF ItemBelow, Below, LoopHeads

\* Such a step keeps what the entries are.
LEMMA ItemStepGoes ==
    ASSUME TypeInv, TypeOK', EntryKinds, NEW t \in Targets, NEW next \in Stages, ItemStep(t, next)
    PROVE  EntryKinds' /\ ItemBelow'
<1>1. /\ \A u \in Targets \ {t} : stage'[u] = stage[u]
      /\ stage' = stage \/ stage'[t] = next
  BY LoopStepKinds DEF ItemStep
<1>2. EntryKinds'
  BY <1>1 DEF EntryKinds, ItemStep, ReviewStages
<1>3. CASE pc' \in LoopHeads \cup {"idle"}
  BY <1>2, <1>3, NothingBelow
<1>4. CASE pc' \notin {"save", "clear"} /\ todo' = todo /\ Below(t)'
  <2>1. \A u \in todo : IsNext(u)' => u = t
    BY <1>4, OneNext DEF TypeInv, ItemStep
  <2>2. t \in todo
    BY DEF ItemStep, IsNext
  <2>3. QED BY <1>2, <1>4, <2>1, <2>2 DEF ItemBelow
<1>5. QED BY <1>3, <1>4 DEF ItemStep

\* A stage recorded for the item at hand keeps the hashes true when those it
\* claims were recorded before.
LEMMA StageKeepsHashes ==
    ASSUME TypeInv, TypeOK', HashesTrue, NEW t \in Targets, NEW next \in Stages,
           UNCHANGED <<journal, candHash, sealHash, snap>>,
           Advance(t, next) \/ Announce(t, next) \/ UNCHANGED stage,
           t \in ReviewPull /\ next >= ReviewCaptured => stage[t] >= ReviewCaptured,
           t \in ReviewPull /\ next >= ReviewSealed => stage[t] >= ReviewSealed
    PROVE  HashesTrue'
<1>1. /\ \A u \in Targets \ {t} : stage'[u] = stage[u]
      /\ stage' = stage \/ stage'[t] = next
  BY LoopStepKinds
<1>2. journal.items \subseteq Targets
  BY DEF TypeInv, TypeOK, JournalTypeOK
<1>3. QED BY <1>1, <1>2 DEF HashesTrue, Snapshot

\* So does a step that records and writes nothing.
LEMMA QuietKeepsHashes ==
    ASSUME HashesTrue, UNCHANGED <<journal, stage, candHash, sealHash, snap>>
    PROVE  HashesTrue'
BY DEF HashesTrue, Snapshot

\* A run can go on after a step of the create loop.
LEMMA CreateGoes ==
    ASSUME IInv, IInv', Position, GoInv, NEW t \in Targets, CreateStep(t)
    PROVE  GoInv'
<1>a. /\ TypeInv /\ TypeOK' /\ IsNext(t) /\ t \in todo
      /\ stage[t] \in Nat /\ t \in journal.items
      /\ attempt \in Nat /\ Attempts \in Nat \ {0}
      /\ UNCHANGED <<journal, candHash, sealHash, snap>>
  BY NamedStages, ConstantsOK
  DEF IInv, TypeInv, TypeOK, JournalTypeOK, RunTypeOK, RunHasJournal, IsNext, CreateStep,
     CreateBegin, Pass, LookupNone, LookupRefuse, LookupMatch, CreateIssue, CreateFail,
     CreateRecord, Refuse, OnlyRun, OnlyStage, OnlyDocs, durable, journalVars
<1>1. CASE CreateBegin(t)
  <2>1. /\ Announce(t, Creating) /\ stage[t] < Created /\ pc' = "lookup" /\ todo' = todo
        /\ attempt' = 0
    BY <1>1 DEF CreateBegin, Goto, NewCall
  <2>2. ItemStep(t, Creating)
    BY <1>a, <2>1, StageOrder DEF ItemStep, Below, ReviewStages
  <2>3. HashesTrue'
    BY <1>a, <2>1, StageKeepsHashes, NamedStages, StageOrder DEF GoInv
  <2>4. AttemptsLeft'
    BY <1>a, <2>1 DEF AttemptsLeft
  <2>5. QED BY <1>a, <2>2, <2>3, <2>4, ItemStepGoes, NamedStages DEF GoInv
<1>2. CASE CreateRecord(t)
  <2>1. pc' = "create" /\ Advance(t, Created)
    BY <1>2 DEF CreateRecord, ItemDone
  <2>2. ItemStep(t, Created)
    BY <1>a, <2>1, StageOrder DEF ItemStep, LoopHeads, ReviewStages
  <2>3. HashesTrue'
    BY <1>a, <2>1, StageKeepsHashes, NamedStages, StageOrder DEF GoInv
  <2>4. AttemptsLeft'
    BY <2>1 DEF AttemptsLeft
  <2>5. QED BY <1>a, <2>2, <2>3, <2>4, ItemStepGoes, NamedStages DEF GoInv
<1>4. CASE \/ Pass("create", t, Created) \/ LookupNone(t) \/ LookupRefuse(t)
           \/ (\E d \in DocIds : LookupMatch(t, d)) \/ (\E d \in DocIds : CreateIssue(t, d))
           \/ CreateFail(t)
  <2>1. UNCHANGED stage /\ \/ pc' \in {"create", "idle"}
                           \/ pc' \in {"lookup", "issue", "record"} /\ todo' = todo
    BY <1>4 DEF Pass, LookupNone, LookupRefuse, LookupMatch, CreateIssue, CreateFail, Refuse,
       ItemDone, StopRun, Goto, OnlyRun, OnlyDocs, durable, journalVars
  <2>2. AttemptsLeft'
    BY <1>a, <1>4 DEF GoInv, AttemptsLeft, Pass, LookupNone, LookupRefuse, LookupMatch,
       CreateIssue, CreateFail, Refuse, ItemDone, StopRun, Goto, SameCall
  <2>3. EntryKinds' /\ ItemBelow' /\ HashesTrue'
    <3>1. ItemStep(t, Created)
      BY <1>a, <2>1, StageOrder DEF ItemStep, LoopHeads, ReviewStages, Below
    <3>2. QED BY <1>a, <2>1, <3>1, ItemStepGoes, QuietKeepsHashes, NamedStages DEF GoInv
  <2>4. QED BY <2>2, <2>3 DEF GoInv
<1>5. QED BY <1>1, <1>2, <1>4 DEF CreateStep

\* So it can after fixing links, marking ready and moving.
LEMMA DocumentLoopsGo ==
    ASSUME IInv, IInv', Position, GoInv, NEW t \in Targets,
           LinksStep(t) \/ ReadyStep(t) \/ MoveStep(t)
    PROVE  GoInv'
<1>a. /\ TypeInv /\ TypeOK' /\ IsNext(t) /\ t \in todo /\ pc # "idle"
      /\ UNCHANGED <<journal, candHash, sealHash, snap>>
  BY DEF IInv, TypeInv, IsNext, LinksStep, LinksBegin, Pass, LinksRead, LinksReadRefuse,
     LinksUpdate, LinksUpdateFail, LinksUpdateRefuse, LinksRecord, Refuse, ReadyStep, ReadyBegin,
     ReadyMark, ReadyFail, ReadyRecord, MoveStep, MoveBegin, MoveKnown, MoveRelocate, MoveFail,
     MoveRecord, MoveFinalRead, OnlyRun, OnlyStage, OnlyDocs, durable, journalVars
<1>b. stage[t] \in Nat /\ stage'[t] \in Nat /\ Below(t) /\ Through(t, Phase - 1)
  BY <1>a, ItemPassed, NamedStages
  DEF GoInv, ItemBelow, TypeInv, TypeOK, JournalTypeOK
<1>1. AttemptsLeft'
  BY CallKinds
  DEF AttemptsLeft, LinksStep, LinksBegin, Pass, LinksRead, LinksReadRefuse, LinksUpdate,
     LinksUpdateFail, LinksUpdateRefuse, LinksRecord, Refuse, ReadyStep, ReadyBegin, ReadyMark,
     ReadyFail, ReadyRecord, MoveStep, MoveBegin, MoveKnown, MoveRelocate, MoveFail, MoveRecord,
     MoveFinalRead, Goto, ItemDone, StopRun
<1>2. CASE LinksBegin(t) \/ ReadyBegin(t) \/ MoveBegin(t)
  <2>1. \E next \in {FixingLinks, MarkingReady, Moving} :
          /\ Announce(t, next) /\ todo' = todo
          /\ next = FixingLinks => stage[t] < LinksFixed /\ pc' = "readlinks"
          /\ next = MarkingReady => stage[t] < Ready /\ pc' = "mark" /\ pc = "ready"
          /\ next = Moving => stage[t] < Moved /\ pc' = "relocate" /\ pc = "move"
    BY <1>2, StageOrder DEF LinksBegin, ReadyBegin, MoveBegin, Goto
  <2>2. PICK next \in {FixingLinks, MarkingReady, Moving} :
          /\ Announce(t, next) /\ todo' = todo
          /\ next = FixingLinks => stage[t] < LinksFixed /\ pc' = "readlinks"
          /\ next = MarkingReady => stage[t] < Ready /\ pc' = "mark" /\ pc = "ready"
          /\ next = Moving => stage[t] < Moved /\ pc' = "relocate" /\ pc = "move"
    BY <2>1
  <2>3. stage'[t] = IF stage[t] < next THEN next ELSE stage[t]
    BY <1>a, <2>2, LoopStepKinds, NamedStages
  <2>4. Below(t)'
    BY <1>b, <2>2, <2>3, StageOrder DEF Below
  <2>5. ItemStep(t, next)
    BY <1>a, <2>2, <2>4, StageOrder DEF ItemStep, ReviewStages
  <2>6. next # FixingLinks => (t \in ReviewPull => stage[t] >= ReviewCaptured)
    BY <1>b, <2>2, StageOrder DEF Through, Phase, CreateLabels
  <2>7. HashesTrue'
    BY <1>a, <1>b, <2>2, <2>6, StageKeepsHashes, NamedStages, StageOrder DEF GoInv
  <2>8. QED BY <1>a, <1>1, <2>2, <2>5, <2>7, ItemStepGoes, NamedStages DEF GoInv
<1>3. CASE LinksRecord(t) \/ ReadyRecord(t) \/ MoveRecord(t)
  <2>1. \E next \in {LinksFixed, Ready, Moved} :
          /\ Advance(t, next)
          /\ next = LinksFixed => pc' = "links"
          /\ next = Ready => pc' = "ready" /\ pc = "marked"
          /\ next = Moved => pc' = "final" /\ todo' = todo /\ pc = "moved"
    BY <1>3, StageOrder DEF LinksRecord, ReadyRecord, MoveRecord, Goto, ItemDone
  <2>2. PICK next \in {LinksFixed, Ready, Moved} :
          /\ Advance(t, next)
          /\ next = LinksFixed => pc' = "links"
          /\ next = Ready => pc' = "ready" /\ pc = "marked"
          /\ next = Moved => pc' = "final" /\ todo' = todo /\ pc = "moved"
    BY <2>1
  <2>3. ItemStep(t, next)
    BY <1>a, <2>2, StageOrder DEF ItemStep, ReviewStages, LoopHeads, Below
  <2>4. next # LinksFixed => (t \in ReviewPull => stage[t] >= ReviewCaptured)
    BY <1>b, <2>2, StageOrder DEF Through, Phase, CreateLabels
  <2>5. HashesTrue'
    BY <1>a, <1>b, <2>2, <2>4, StageKeepsHashes, NamedStages, StageOrder DEF GoInv
  <2>6. QED BY <1>a, <1>1, <2>2, <2>3, <2>5, ItemStepGoes, NamedStages DEF GoInv
<1>4. CASE UNCHANGED stage
  <2>1. \/ pc' \in LoopHeads \cup {"idle"}
        \/ /\ todo' = todo /\ pc' = "final"
        \/ /\ todo' = todo
           /\ pc' \in {"readlinks", "updatelinks", "linksdone"}
           /\ pc \in {"readlinks", "updatelinks", "linksdone"}
        \/ /\ todo' = todo /\ pc' \in {"mark", "marked"} /\ pc \in {"mark", "marked"}
        \/ /\ todo' = todo /\ pc' \in {"relocate", "moved"} /\ pc \in {"relocate", "moved"}
        \/ LinksBegin(t) \/ ReadyBegin(t) \/ MoveBegin(t)
        \/ LinksRecord(t) \/ ReadyRecord(t) \/ MoveRecord(t)
    BY CallKinds
    DEF LinksStep, Pass, LinksRead, LinksReadRefuse, LinksUpdate, LinksUpdateFail,
       LinksUpdateRefuse, Refuse, ReadyStep, ReadyMark, ReadyFail, MoveStep, MoveKnown,
       MoveRelocate, MoveFail, MoveFinalRead, Goto, ItemDone, StopRun, LoopHeads
  <2>2. CASE \/ pc' \in LoopHeads \cup {"idle"}
             \/ /\ todo' = todo /\ pc' = "final"
             \/ /\ todo' = todo
                /\ pc' \in {"readlinks", "updatelinks", "linksdone"}
                /\ pc \in {"readlinks", "updatelinks", "linksdone"}
             \/ /\ todo' = todo /\ pc' \in {"mark", "marked"} /\ pc \in {"mark", "marked"}
             \/ /\ todo' = todo /\ pc' \in {"relocate", "moved"} /\ pc \in {"relocate", "moved"}
    <3>1. ItemStep(t, Created)
      BY <1>a, <1>b, <1>4, <2>2, StageOrder DEF ItemStep, ReviewStages, LoopHeads, Below
    <3>2. QED
      BY <1>a, <1>1, <1>4, <3>1, ItemStepGoes, QuietKeepsHashes, NamedStages DEF GoInv
  <2>3. QED BY <1>2, <1>3, <2>1, <2>2
<1>5. \/ UNCHANGED stage
      \/ LinksBegin(t) \/ ReadyBegin(t) \/ MoveBegin(t)
      \/ LinksRecord(t) \/ ReadyRecord(t) \/ MoveRecord(t)
  BY DEF LinksStep, Pass, LinksRead, LinksReadRefuse, LinksUpdate, LinksUpdateFail,
     LinksUpdateRefuse, Refuse, ReadyStep, ReadyMark, ReadyFail, MoveStep, MoveKnown,
     MoveRelocate, MoveFail, MoveFinalRead, OnlyRun, OnlyDocs, durable, journalVars
<1>6. QED BY <1>2, <1>3, <1>4, <1>5

\* So it can after a step that captures a baseline.
LEMMA CaptureGoes ==
    ASSUME IInv, IInv', Position, StoreInv, GoInv, NEW t \in Targets, CaptureStep(t)
    PROVE  GoInv'
<1>a. /\ TypeInv /\ TypeOK' /\ IsNext(t) /\ t \in todo /\ pc # "idle" /\ Phase = 3
      /\ UNCHANGED <<journal, sealHash>>
  BY DEF IInv, TypeInv, IsNext, CaptureStep, CaptureBegin, CaptureKnown, CaptureFound,
     CaptureWrite, CaptureRefuse, CaptureRecord, Pass, Refuse, OnlyRun, OnlyStage, journalVars,
     Phase, CreateLabels
<1>b. /\ t \in journal.items /\ t \in ReviewPull /\ stage[t] \in Nat /\ HasJournal
      /\ Below(t) /\ journal.items \subseteq Targets
  BY <1>a, ItemPassed DEF GoInv, ItemBelow, TypeInv, TypeOK, JournalTypeOK
<1>c. AttemptsLeft'
  BY DEF AttemptsLeft, CaptureStep, CaptureBegin, CaptureKnown, CaptureFound, CaptureWrite,
     CaptureRefuse, CaptureRecord, Pass, Refuse, Goto, ItemDone, StopRun
<1>1. CASE CaptureBegin(t)
  <2>1. /\ pc' = "snapshot" /\ todo' = todo /\ UNCHANGED <<snap, candHash>>
        /\ Announce(t, CapturingReview) /\ stage[t] < ReviewCaptured
    BY <1>1 DEF CaptureBegin, Goto, OnlyStage
  <2>2. stage'[t] = IF stage[t] < CapturingReview THEN CapturingReview ELSE stage[t]
    BY <1>a, <2>1, LoopStepKinds, NamedStages
  <2>3. ItemStep(t, CapturingReview)
    BY <1>a, <1>b, <2>1, <2>2, StageOrder DEF ItemStep, Below
  <2>4. HashesTrue'
    BY <1>a, <2>1, StageKeepsHashes, NamedStages, StageOrder DEF GoInv
  <2>5. QED BY <1>a, <1>c, <2>3, <2>4, ItemStepGoes, NamedStages DEF GoInv
<1>2. CASE CaptureKnown(t) \/ CaptureRefuse(t) \/ CaptureFound(t)
  <2>1. /\ UNCHANGED <<snap, candHash, stage>>
        /\ \/ pc' \in {"capture", "idle"}
           \/ pc = "snapshot" /\ pc' = "captured" /\ todo' = todo
    BY <1>2 DEF CaptureKnown, CaptureRefuse, CaptureFound, Pass, Refuse, ItemDone, StopRun, Goto,
       OnlyRun, OnlyStage
  <2>2. ItemStep(t, Created)
    BY <1>a, <1>b, <2>1, StageOrder DEF ItemStep, ReviewStages, LoopHeads, Below
  <2>3. QED BY <1>a, <1>c, <2>1, <2>2, ItemStepGoes, QuietKeepsHashes, NamedStages DEF GoInv
<1>3. CASE CaptureWrite(t)
  <2>1. /\ pc' = "captured" /\ pc = "snapshot" /\ todo' = todo /\ UNCHANGED <<stage, candHash>>
        /\ \A u \in Targets \ {t} : snap'[u] = snap[u]
    BY <1>3, <1>a DEF CaptureWrite, Goto, journalVars, TypeInv, TypeOK, StoreTypeOK
  <2>2. ItemStep(t, Created)
    BY <1>a, <1>b, <2>1, StageOrder DEF ItemStep, ReviewStages, LoopHeads, Below
  <2>3. stage[t] < ReviewCaptured
    BY <1>b, <2>1 DEF Below
  <2>4. HashesTrue'
    BY <1>a, <1>b, <2>1, <2>3, StageOrder DEF GoInv, HashesTrue, Snapshot
  <2>5. QED BY <1>a, <1>c, <2>2, <2>4, ItemStepGoes, NamedStages DEF GoInv
<1>4. CASE CaptureRecord(t)
  <2>1. /\ pc = "captured" /\ pc' = "capture" /\ UNCHANGED snap /\ Advance(t, ReviewCaptured)
        /\ candHash' = [candHash EXCEPT ![t] = CandidateOf(Snapshot(t))]
        /\ candHash \in [Targets -> Manifests]
    BY <1>4, <1>a DEF CaptureRecord, ItemDone, TypeInv, TypeOK, JournalTypeOK
  <2>2. /\ \A u \in Targets \ {t} : stage'[u] = stage[u]
        /\ stage'[t] = ReviewCaptured
    BY <1>a, <2>1, LoopStepKinds, NamedStages
  <2>3. ItemStep(t, ReviewCaptured)
    BY <1>a, <1>b, <2>1, StageOrder DEF ItemStep, LoopHeads
  <2>4. HashesTrue'
    <3>1. \A u \in Targets : Snapshot(u)' = Snapshot(u)
      BY <1>a, <2>1 DEF Snapshot
    <3>2. candHash'[t] = CandidateOf(Snapshot(t)) /\ \A u \in Targets \ {t} : candHash'[u] = candHash[u]
      BY <2>1
    <3>3. ~(ReviewCaptured >= ReviewSealed)
      BY StageOrder
    <3>4. QED BY <1>a, <1>b, <2>2, <3>1, <3>2, <3>3 DEF GoInv, HashesTrue
  <2>5. QED BY <1>a, <1>c, <2>3, <2>4, ItemStepGoes, NamedStages DEF GoInv
<1>5. QED BY <1>1, <1>2, <1>3, <1>4 DEF CaptureStep

\* So it can after a step that seals one.
LEMMA SealGoes ==
    ASSUME IInv, IInv', Position, StoreInv, GoInv, NEW t \in Targets, SealStep(t)
    PROVE  GoInv'
<1>a. /\ TypeInv /\ TypeOK' /\ IsNext(t) /\ t \in todo /\ pc # "idle" /\ Phase = 6
      /\ UNCHANGED <<journal, candHash>>
  BY DEF IInv, TypeInv, IsNext, SealStep, SealBegin, SealWrite, SealFound, SealRefuse, SealRecord,
     SealKnown, Refuse, OnlyRun, OnlyStage, journalVars, Phase, CreateLabels
<1>b. /\ t \in journal.items /\ t \in ReviewPull /\ stage[t] \in Nat /\ HasJournal
      /\ stage[t] >= ReviewCaptured /\ journal.items \subseteq Targets
  BY <1>a, ItemPassed DEF Through, TypeInv, TypeOK, JournalTypeOK
<1>c. AttemptsLeft'
  BY DEF AttemptsLeft, SealStep, SealBegin, SealWrite, SealFound, SealRefuse, SealRecord,
     SealKnown, Refuse, Goto, ItemDone, StopRun
<1>1. CASE SealBegin(t)
  <2>1. /\ pc' = "activate" /\ todo' = todo /\ UNCHANGED <<snap, sealHash>>
        /\ Announce(t, SealingReview)
    BY <1>1 DEF SealBegin, Goto, OnlyStage
  <2>2. ItemStep(t, SealingReview)
    BY <1>a, <1>b, <2>1, StageOrder DEF ItemStep, Below
  <2>3. HashesTrue'
    BY <1>a, <1>b, <2>1, StageKeepsHashes, NamedStages, StageOrder DEF GoInv
  <2>4. QED BY <1>a, <1>c, <2>2, <2>3, ItemStepGoes, NamedStages DEF GoInv
<1>2. CASE SealKnown(t) \/ SealRefuse(t) \/ SealFound(t)
  <2>1. /\ UNCHANGED <<snap, sealHash, stage>>
        /\ pc' \in {"seal", "idle"} \/ (pc' = "sealed" /\ todo' = todo)
    BY <1>2 DEF SealKnown, SealRefuse, SealFound, Refuse, ItemDone, StopRun, Goto, OnlyRun,
       OnlyStage
  <2>2. ItemStep(t, Created)
    BY <1>a, <2>1, StageOrder DEF ItemStep, ReviewStages, LoopHeads, Below
  <2>3. QED BY <1>a, <1>c, <2>1, <2>2, ItemStepGoes, QuietKeepsHashes, NamedStages DEF GoInv
<1>3. CASE SealWrite(t)
  <2>a. /\ journal.gen[t] \in 1..MaxOps
        /\ Snapshot(t) = snap[t][journal.gen[t]] /\ Snapshot(t) \in Manifests
        /\ snap \in [Targets -> [1..MaxOps -> Manifests]]
    BY <1>a, <1>b, SnapshotTyped DEF TypeInv, TypeOK, StoreTypeOK
  <2>1. /\ pc' = "sealed" /\ todo' = todo /\ UNCHANGED <<stage, sealHash>>
        /\ Snapshot(t).status = "candidate"
        /\ \A u \in Targets \ {t} : snap'[u] = snap[u]
        /\ snap'[t][journal.gen[t]] =
              [Snapshot(t) EXCEPT !.status = "sealed", !.act = docs[fileOf[t]].rev]
    BY <1>3, <2>a DEF SealWrite, Goto, journalVars
  <2>2. ItemStep(t, Created)
    BY <1>a, <2>1, StageOrder DEF ItemStep, ReviewStages, LoopHeads, Below
  <2>3. stage[t] < ReviewSealed
    BY <1>b, <2>1, StageOrder DEF StoreInv, SnapshotsTrue
  <2>4. CandidateOf(Snapshot(t)') = CandidateOf(Snapshot(t))
    BY <1>a, <2>a, <2>1 DEF CandidateOf, Snapshot, Manifests
  <2>5. \A u \in Targets \ {t} : Snapshot(u)' = Snapshot(u)
    BY <1>a, <2>1 DEF Snapshot
  <2>6. HashesTrue'
    BY <1>a, <1>b, <2>1, <2>3, <2>4, <2>5, StageOrder DEF GoInv, HashesTrue
  <2>7. QED BY <1>a, <1>c, <2>2, <2>6, ItemStepGoes, NamedStages DEF GoInv
<1>4. CASE SealRecord(t)
  <2>1. /\ pc' = "seal" /\ UNCHANGED snap /\ Advance(t, ReviewSealed)
        /\ sealHash' = [sealHash EXCEPT ![t] = Snapshot(t)]
        /\ sealHash \in [Targets -> Manifests]
    BY <1>4, <1>a DEF SealRecord, ItemDone, TypeInv, TypeOK, JournalTypeOK
  <2>2. \A u \in Targets \ {t} : stage'[u] = stage[u]
    BY <1>a, <2>1, LoopStepKinds, NamedStages
  <2>3. ItemStep(t, ReviewSealed)
    BY <1>a, <1>b, <2>1, StageOrder DEF ItemStep, LoopHeads
  <2>4. HashesTrue'
    <3>1. \A u \in Targets : Snapshot(u)' = Snapshot(u)
      BY <1>a, <2>1 DEF Snapshot
    <3>2. sealHash'[t] = Snapshot(t) /\ \A u \in Targets \ {t} : sealHash'[u] = sealHash[u]
      BY <2>1
    <3>3. QED BY <1>a, <1>b, <2>2, <3>1, <3>2 DEF GoInv, HashesTrue
  <2>5. QED BY <1>a, <1>c, <2>3, <2>4, ItemStepGoes, NamedStages DEF GoInv
<1>5. QED BY <1>1, <1>2, <1>3, <1>4 DEF SealStep

\* So it can after any step.
LEMMA NextGoes ==
    ASSUME IInv, IInv', Position, StoreInv, GoInv, [Next]_vars
    PROVE  GoInv'
<1>a. TypeInv /\ TypeOK' /\ journal.items \subseteq Targets /\ (pc # "idle" => journal.items # {})
  BY DEF IInv, TypeInv, TypeOK, JournalTypeOK, RunHasJournal
<1>1. ASSUME NEW t \in Targets, \/ CreateStep(t) \/ LinksStep(t) \/ CaptureStep(t)
                                \/ ReadyStep(t) \/ MoveStep(t) \/ SealStep(t)
      PROVE  GoInv'
  BY <1>1, CreateGoes, DocumentLoopsGo, CaptureGoes, SealGoes
<1>2. ASSUME NEW t \in Targets, CommitBegin(t) \/ CommitRecord(t) PROVE GoInv'
  <2>1. \E next \in {Committing, Committed} :
          /\ IsNext(t) /\ pc \in {"committing", "committed"} /\ pc' \in {"committing", "committed"}
          /\ UNCHANGED <<journal, candHash, sealHash, snap>> /\ Announce(t, next)
    BY <1>2 DEF CommitBegin, CommitRecord, ItemDone, OnlyStage
  <2>2. PICK next \in {Committing, Committed} :
          /\ IsNext(t) /\ pc \in {"committing", "committed"} /\ pc' \in {"committing", "committed"}
          /\ UNCHANGED <<journal, candHash, sealHash, snap>> /\ Announce(t, next)
    BY <2>1
  <2>3. stage[t] \in Nat /\ Through(t, Phase - 1) /\ Phase \in {7, 8}
    BY <2>2, ItemPassed DEF Phase, CreateLabels
  <2>4. t \in ReviewPull => stage[t] >= ReviewSealed /\ stage[t] >= ReviewCaptured
    BY <2>3 DEF Through
  <2>5. ItemStep(t, next)
    BY <2>2, StageOrder DEF ItemStep, ReviewStages, LoopHeads
  <2>6. HashesTrue'
    BY <1>a, <2>2, <2>4, StageKeepsHashes, NamedStages DEF GoInv
  <2>7. AttemptsLeft'
    BY <2>2 DEF AttemptsLeft
  <2>8. QED BY <1>a, <2>2, <2>5, <2>6, <2>7, ItemStepGoes, NamedStages DEF GoInv
<1>3. CASE CommitClear
  <2>1. pc' = "idle" /\ journal'.items = {} /\ \A u \in Targets : stage'[u] = Planned
    BY <1>3 DEF CommitClear, NoJournal, StopRun
  <2>2. EntryKinds'
    BY <2>1, StageOrder DEF EntryKinds, ReviewStages
  <2>3. HashesTrue' /\ AttemptsLeft'
    BY <2>1 DEF HashesTrue, AttemptsLeft
  <2>4. QED BY <2>1, <2>2, <2>3, NothingBelow DEF GoInv
<1>4. ASSUME NEW items \in SUBSET Targets, Start(items) PROVE GoInv'
  <2>1. /\ journal.items = {} /\ journal'.items = items /\ stage' = stage /\ pc' = "create"
    BY <1>4 DEF Start, IInv, TypeInv, RunHasJournal
  <2>2. \A u \in Targets : stage'[u] = Planned
    BY <2>1 DEF Position, EntriesTogether
  <2>3. EntryKinds'
    BY <2>1 DEF GoInv, EntryKinds
  <2>4. HashesTrue' /\ AttemptsLeft'
    BY <2>1, <2>2, StageOrder DEF HashesTrue, AttemptsLeft
  <2>5. QED BY <2>1, <2>3, <2>4, NothingBelow DEF GoInv, LoopHeads
<1>5. CASE NextLoop \/ Resume \/ Interrupt \/ CommitSave
  <2>1. UNCHANGED <<journal, stage, candHash, sealHash, snap>>
    BY <1>5 DEF NextLoop, Resume, Interrupt, CommitSave, SaveFrame, OnlyRun, OnlyStage, durable,
       journalVars
  <2>2. /\ pc' \in LoopHeads \cup {"idle", "save", "clear"}
        /\ pc' \in {"save", "clear"} => todo' = {}
    BY <1>5, NextLoopMoves
    DEF NextLoop, LoopItems, Resume, Interrupt, StopRun, CommitSave, SaveFrame, LoopHeads
  <2>3. ItemBelow' /\ AttemptsLeft'
    BY <2>2 DEF ItemBelow, Below, LoopHeads, AttemptsLeft
  <2>4. QED BY <2>1, <2>3, QuietKeepsHashes DEF GoInv, EntryKinds
<1>6. CASE Environment \/ UNCHANGED vars
  <2>1. UNCHANGED <<journal, stage, candHash, sealHash, snap, pc, todo, attempt>>
    BY <1>6 DEF Environment, CreateLands, ReviewerEdits, ReviewerTrashes, ReviewerActs, vars,
       durable, journalVars, runVars
  <2>2. ItemBelow' /\ AttemptsLeft'
    BY <2>1 DEF GoInv, ItemBelow, Below, IsNext, AttemptsLeft
  <2>3. QED BY <2>1, <2>2, QuietKeepsHashes DEF GoInv, EntryKinds
<1>7. QED
  BY <1>1, <1>2, <1>3, <1>4, <1>5, <1>6 DEF Next, RunStep, CommitStep

\* The first of some numbers (the loops go by the order of the source keys).
Smaller == {p \in Nat \X Nat : p[1] < p[2]}
LEMMA SmallerWellFounded == IsWellFoundedOn(Smaller, Nat)
BY NatLessThanWellFounded, Zenon DEF OpToRel, Smaller
LEMMA LeastNumber ==
    ASSUME NEW S, S \subseteq Nat, S # {}
    PROVE  \E x \in S : \A y \in S : x <= y
<1>1. \A x, y \in Nat : y < x => <<y, x>> \in Smaller
  BY DEF Smaller
<1>2. PICK x \in S : \A y \in S : ~(<<y, x>> \in Smaller)
  BY SmallerWellFounded, WFMin
<1>3. ASSUME NEW y \in S PROVE x <= y
  <2>1. x \in Nat /\ y \in Nat /\ ~(<<y, x>> \in Smaller)
    BY <1>2, <1>3
  <2>2. ~(y < x)
    BY <1>1, <2>1
  <2>3. QED BY <2>1, <2>2
<1>4. QED BY <1>2, <1>3

\* What the run is about to record of the item at hand is the stage it holds,
\* the one after it, or one over the stages it does not pass.
LEMMA AcceptedNext ==
    ASSUME IInv, Position, GoInv, NEW t \in Targets, IsNext(t), pc # "idle"
    PROVE  JournalAccepts(t)
<1>1. /\ t \in journal.items /\ t \in todo /\ stage[t] \in 0..14
      /\ Through(t, Phase - 1) /\ (Phase \in {3, 6} => t \in ReviewPull)
  <2>1. stage[t] \in Stages
    BY DEF IInv, TypeInv, TypeOK, JournalTypeOK
  <2>2. QED BY <2>1, ItemPassed, StageOrder DEF Stages, IsNext
<1>2. Below(t) /\ (t \notin ReviewPull => stage[t] \notin {5, 6, 11, 12})
  BY <1>1, StageOrder DEF GoInv, ItemBelow, EntryKinds, ReviewStages
<1>3. ASSUME pc \in DOMAIN StageBefore
      PROVE  stage[t] >= StageBefore[pc] \/ ValidTransition(stage[t], StageBefore[pc])
  <2>1. DOMAIN StageBefore = LoopHeads
    BY DEF StageBefore, LoopHeads
  <2>2. /\ pc = "create" => StageBefore[pc] = 1 /\ Phase = 1
        /\ pc = "links" => StageBefore[pc] = 3 /\ Phase = 2
        /\ pc = "capture" => StageBefore[pc] = 5 /\ Phase = 3
        /\ pc = "ready" => StageBefore[pc] = 7 /\ Phase = 4
        /\ pc = "move" => StageBefore[pc] = 9 /\ Phase = 5
        /\ pc = "seal" => StageBefore[pc] = 11 /\ Phase = 6
        /\ pc = "committing" => StageBefore[pc] = 13 /\ Phase = 7
        /\ pc = "committed" => StageBefore[pc] = 14 /\ Phase = 8
    BY StageOrder DEF StageBefore, Phase, CreateLabels
  <2>3. QED
    BY <1>1, <1>2, <1>3, <2>1, <2>2, StageOrder DEF LoopHeads, Through, ValidTransition
<1>4. ASSUME pc \in DOMAIN StageAfter
      PROVE  \/ ValidTransition(stage[t], StageAfter[pc])
             \/ pc = "sealed" /\ stage[t] >= ReviewSealed
  <2>1. DOMAIN StageAfter = {"record", "linksdone", "captured", "marked", "moved", "sealed"}
    BY DEF StageAfter
  <2>2. /\ pc = "record" => StageAfter[pc] = 2 /\ stage[t] = 1
        /\ pc = "linksdone" => StageAfter[pc] = 4 /\ stage[t] = 3
        /\ pc = "captured" => StageAfter[pc] = 6 /\ stage[t] = 5
        /\ pc = "marked" => StageAfter[pc] = 8 /\ stage[t] = 7
        /\ pc = "moved" => StageAfter[pc] = 10 /\ stage[t] = 9
        /\ pc = "sealed" => StageAfter[pc] = 12 /\ stage[t] >= 11
    BY <1>1, <1>2, StageOrder DEF StageAfter, Position, ItemAnnounced, Below
  <2>3. QED BY <1>1, <1>4, <2>1, <2>2, StageOrder DEF ValidTransition
<1>5. QED BY <1>3, <1>4 DEF JournalAccepts

\* The store accepts every stage a run records and its snapshots agree with its
\* journal, so that a run always has an item to go on with or a loop to leave.
\* What is left of NeverStuck is that such an action is ENABLED.
THEOREM RunGoesOn == Spec => [](pc # "idle" => GoesOn)
<1>1. Init => GoInv
  <2> SUFFICES ASSUME Init PROVE GoInv
    OBVIOUS
  <2>1. /\ pc = "idle" /\ journal.items = {} /\ \A t \in Targets : stage[t] = Planned
        /\ todo = {}
    BY DEF Init, NoJournal
  <2>2. QED BY <2>1, StageOrder DEF GoInv, EntryKinds, ReviewStages, ItemBelow, HashesTrue,
               AttemptsLeft
<1>2. IInv /\ Position /\ StoreInv /\ GoInv /\ [Next]_vars /\ IInv' => GoInv'
  BY NextGoes
<1>3. ASSUME IInv, Position, StoreInv, CreationsBounded, GoInv, pc # "idle"
      PROVE  GoesOn
  <2>1. /\ todo \subseteq Targets /\ todo \subseteq journal.items /\ Targets \subseteq Nat
        /\ attempt \in Nat
    BY <1>3, ConstantsOK DEF IInv, TypeInv, TypeOK, RunTypeOK, RunHasJournal
  <2>2. CASE todo = {}
    <3>1. pc \in LoopHeads \cup {"save", "clear"}
      BY <1>3, <2>2 DEF GoInv, ItemBelow
    <3>2. QED BY <2>2, <3>1, FollowingLabels DEF GoesOn, LoopHeads
  <2>3. CASE todo # {}
    <3>1. PICK t \in todo : \A u \in todo : t <= u
      BY <2>1, <2>3, LeastNumber
    <3>2. IsNext(t) /\ t \in Targets /\ t \in journal.items
      BY <2>1, <3>1 DEF IsNext
    <3>3. JournalAccepts(t)
      BY <1>3, <3>2, AcceptedNext
    <3>4. SnapshotAgrees(t)
      <4>1. Phase \in {3, 6} => t \in ReviewPull
        BY <1>3, <3>2, ItemPassed
      <4>2. pc \in {"capture", "activate", "sealed"} => t \in ReviewPull
        BY <4>1 DEF Phase, CreateLabels
      <4>3. QED BY <1>3, <3>2, <4>2 DEF SnapshotAgrees, GoInv, HashesTrue, StoreInv, SnapshotsTrue
    <3>5. IsFiniteSet(Matches(t))
      <4>1. Matches(t) \subseteq {d \in DocIds : docs[d].st # "absent"}
        BY DEF Matches
      <4>2. QED BY <1>3, <4>1, PartCounted DEF CreationsBounded
    <3>6. QED BY <1>3, <3>2, <3>3, <3>4, <3>5 DEF GoesOn, GoInv, AttemptsLeft
  <2>4. QED BY <2>2, <2>3
<1>4. IInv /\ Position /\ StoreInv /\ CreationsBounded /\ GoInv => (pc # "idle" => GoesOn)
  BY <1>3
<1>5. QED
  BY <1>1, <1>2, <1>4, InvariantHolds, DocsInvHolds, StoreInvHolds, CountsHold, PTL DEF Spec
=============================================================================
