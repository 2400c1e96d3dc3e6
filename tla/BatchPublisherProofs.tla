----------------------- MODULE BatchPublisherProofs -----------------------
(***************************************************************************)
(* Proofs about BatchPublisher for any targets, links, documents, number   *)
(* of operations, failures and reviewer actions.                           *)
(*                                                                         *)
(* TypeOK is not inductive by itself: a snapshot is looked up by its       *)
(* generation, so generations must stay within the operations started.     *)
(* The invariant below also says what a run has behind it at each of its   *)
(* labels, and that the state file holds all of the unfinished operation   *)
(* or nothing of it.                                                       *)
(*                                                                         *)
(* JournalMatchesGoogle is far from inductive: that a recorded stage is    *)
(* true depends on where the run is, and which documents can change        *)
(* depends on how far every entry of the batch is.  Two more layers say    *)
(* it, each inductive relative to the ones before: where a run and its     *)
(* entries are (Position), and what the documents of the unfinished        *)
(* operation and their links are (DocsInv).  They rest on the types and    *)
(* the run's shape alone (TypeInv), so that what recovers the state file   *)
(* can keep them, too.                                                     *)
(***************************************************************************)
EXTENDS BatchPublisher, TLAPS

-----------------------------------------------------------------------------
(* The inductive invariant *)

CreateLabels == {"create", "lookup", "issue", "record"}

GenerationsBounded ==
    /\ ops <= MaxOps
    /\ journal.op <= ops
    /\ \A t \in Targets : active[t].gen <= ops /\ active[t].op <= ops
    /\ \A t \in journal.items : journal.gen[t] \in 1..ops

RunHasJournal ==
    /\ HasJournal <=> journal.items # {}
    /\ pc # "idle" => HasJournal
    /\ todo \subseteq journal.items

\* Once the create loop has passed an item, its entry names a document; while
\* it is creating one, the entry names none yet.
FilesRecorded ==
    /\ \A t \in Targets : stage[t] >= Created => fileOf[t] \in DocIds
    /\ pc = "record" => got \in DocIds
    /\ pc # "idle" => \A t \in journal.items :
           stage[t] >= Created \/ (pc \in CreateLabels /\ t \in todo)
    /\ pc \in {"lookup", "issue", "record"} => \A t \in todo : IsNext(t) => stage[t] < Created

TypeInv == TypeOK /\ GenerationsBounded /\ RunHasJournal /\ FilesRecorded

\* The state file holds the whole unfinished operation or nothing of it, and
\* the run that is about to finish it knows which.
SavedWhole ==
    /\ \A t \in Targets : active[t] = NoTarget \/ active[t].gen >= 1
    /\ Saved => \A t \in journal.items :
          /\ active[t].op = journal.op /\ active[t].file = fileOf[t]
          /\ active[t].gen = journal.gen[t] /\ stage[t] >= Created
    /\ ~Saved => \A t \in journal.items : journal.gen[t] = active[t].gen + 1
    /\ pc \in {"committed", "clear"} => Saved
    /\ pc = "committed" => \A t \in journal.items \ todo : stage[t] = Committed
    /\ pc = "clear" => \A t \in journal.items : stage[t] = Committed

IInv == TypeInv /\ SavedWhole

-----------------------------------------------------------------------------
(* Lemmas about the data *)

\* A journal entry's stage only moves up, and only for the item at hand
\* (AdvanceJournal).
LEMMA StagesInOrder ==
    ASSUME stage \in [Targets -> Stages], NEW t \in Targets, NEW next \in Stages,
           Advance(t, next) \/ Announce(t, next)
    PROVE  /\ stage' \in [Targets -> Stages]
           /\ \A u \in Targets : stage[u] <= stage'[u]
           /\ stage'[t] >= next
           /\ \A u \in Targets \ {t} : stage'[u] = stage[u]
<1> USE DEF Stages, Planned, Creating, Created, FixingLinks, LinksFixed,
            CapturingReview, ReviewCaptured, MarkingReady, Ready, Moving, Moved,
            SealingReview, ReviewSealed, Committing, Committed
<1>1. CASE Advance(t, next)
  BY <1>1 DEF Advance, ValidTransition
<1>2. CASE Announce(t, next) /\ ~Advance(t, next)
  BY <1>2 DEF Announce
<1>3. QED BY <1>1, <1>2

\* Each change a document undergoes leaves it a document.
LEMMA DocumentUpdates ==
    ASSUME NEW r \in Documents
    PROVE  /\ \A l \in [Targets -> FileIds \cup {Placeholder}] : Revised(r, l) \in Documents
           /\ \A s \in {"pending", "ready"} : [r EXCEPT !.status = s] \in Documents
           /\ \A p \in {"staging", "review"} : [r EXCEPT !.parent = p] \in Documents
           /\ \A s \in {"absent", "inflight", "live", "trashed"} : [r EXCEPT !.st = s] \in Documents
<1>1. ASSUME NEW l \in [Targets -> FileIds \cup {Placeholder}]
      PROVE  Revised(r, l) \in Documents
  <2>1. r.rev + 1 \in Nat
    BY DEF Documents
  <2>2. \A n \in Nat : [r EXCEPT !.rev = n, !.link = l] \in Documents
    BY DEF Documents
  <2>3. QED BY <2>1, <2>2 DEF Revised
<1>2. ASSUME NEW s \in {"pending", "ready"}
      PROVE  [r EXCEPT !.status = s] \in Documents
  BY DEF Documents
<1>3. ASSUME NEW p \in {"staging", "review"}
      PROVE  [r EXCEPT !.parent = p] \in Documents
  BY DEF Documents
<1>4. ASSUME NEW s \in {"absent", "inflight", "live", "trashed"}
      PROVE  [r EXCEPT !.st = s] \in Documents
  BY DEF Documents
<1>5. QED BY <1>1, <1>2, <1>3, <1>4

\* The update of one file by a document keeps the type of docs; an update of
\* the absent file changes nothing.
LEMMA DocsTyped ==
    ASSUME DocsTypeOK, NEW e \in FileIds, NEW r,
           docs[e] \in Documents => r \in Documents,
           docs' = [docs EXCEPT ![e] = r]
    PROVE  DocsTypeOK'
<1>1. \A d \in DocIds : docs'[d] = IF d = e THEN r ELSE docs[d]
  BY DEF DocsTypeOK
<1>2. DOMAIN docs' = DocIds /\ docs' = [d \in DocIds |-> docs'[d]]
  BY DEF DocsTypeOK
<1>3. \A d \in DocIds : docs'[d] \in Documents
  BY <1>1 DEF DocsTypeOK
<1>4. QED BY <1>2, <1>3 DEF DocsTypeOK

\* What CreateDocument makes is a document.
LEMMA NewDocumentTyped ==
    ASSUME JournalTypeOK, NEW t \in Targets,
           NEW v \in {"absent", "inflight", "live", "trashed"}
    PROVE  NewDocument(t, v) \in Documents
<1> DEFINE links == [u \in Targets |-> CASE u \in PendingLinks(t) -> Placeholder
                                         [] u \in Links[t] \ journal.items -> journal.known[u]
                                         [] OTHER -> NoDoc]
<1>1. links \in [Targets -> FileIds \cup {Placeholder}]
  BY DEF JournalTypeOK, FileIds
<1>2. t \in Nat /\ journal.op \in Nat /\ journal.gen[t] \in Nat /\ 1 \in Nat
  BY ConstantsOK DEF JournalTypeOK
<1> HIDE DEF links
<1>3. QED BY <1>1, <1>2 DEF NewDocument, Documents, links

\* A snapshot becomes a candidate or is sealed, and stays a manifest.
LEMMA ManifestUpdates ==
    ASSUME NEW m \in Manifests
    PROVE  /\ CandidateOf(m) \in Manifests
           /\ \A n \in Nat : [m EXCEPT !.status = "sealed", !.act = n] \in Manifests
BY DEF Manifests, CandidateOf

\* A manifest written for an item leaves the snapshot store typed.
LEMMA SnapTyped ==
    ASSUME StoreTypeOK, NEW t \in Targets, NEW g \in 1..MaxOps, NEW m \in Manifests,
           snap' = [snap EXCEPT ![t][g] = m], UNCHANGED <<active, prior>>
    PROVE  StoreTypeOK'
BY DEF StoreTypeOK

\* The moves of a run keep the types of its local variables.
LEMMA RunTyped ==
    ASSUME RunTypeOK, NEW t \in Targets, NEW label \in Labels
    PROVE  /\ Goto(label) /\ NewCall => RunTypeOK'
           /\ Goto(label) /\ SameCall => RunTypeOK'
           /\ ItemDone(t, label) /\ finalSt' = finalSt => RunTypeOK'
           /\ StopRun => RunTypeOK'
           /\ CallFailed(label) => RunTypeOK'
<1>1. NewCall => attempt' \in Nat /\ got' \in FileIds /\ readRev' \in Nat
  BY DEF NewCall, FileIds
<1>2. Goto(label) /\ NewCall => RunTypeOK'
  BY <1>1 DEF RunTypeOK, Goto
<1>3. Goto(label) /\ SameCall => RunTypeOK'
  BY DEF RunTypeOK, Goto, SameCall
<1>4. ItemDone(t, label) /\ finalSt' = finalSt => RunTypeOK'
  BY <1>1 DEF RunTypeOK, ItemDone
<1>5. StopRun => RunTypeOK'
  BY <1>1 DEF RunTypeOK, StopRun, Labels
<1>6. CallFailed(label) => RunTypeOK'
  <2>1. ASSUME Goto(label), attempt' = attempt + 1, UNCHANGED <<got, readRev>>
        PROVE  RunTypeOK'
    BY <2>1 DEF RunTypeOK, Goto
  <2>2. QED BY <1>5, <2>1 DEF CallFailed
<1>7. QED BY <1>2, <1>3, <1>4, <1>5, <1>6

\* The snapshot of an item of the running operation is within the store.
LEMMA SnapshotTyped ==
    ASSUME TypeInv, NEW t \in journal.items
    PROVE  /\ t \in Targets /\ journal.gen[t] \in 1..MaxOps
           /\ Snapshot(t) \in Manifests
           /\ Snapshot(t) = snap[t][journal.gen[t]]
<1>1. t \in Targets
  BY DEF TypeInv, TypeOK, JournalTypeOK
<1>2. journal.gen[t] \in 1..MaxOps
  BY ConstantsOK DEF TypeInv, TypeOK, CountTypeOK, GenerationsBounded
<1>3. QED BY <1>1, <1>2 DEF Snapshot, TypeInv, TypeOK, StoreTypeOK
-----------------------------------------------------------------------------
(* Type correctness *)

\* After the create loop, the item at hand has its document.
LEMMA RecordedFile ==
    ASSUME TypeInv, NEW t \in todo, pc # "idle", pc \notin CreateLabels
    PROVE  fileOf[t] \in DocIds
BY DEF TypeInv, TypeOK, RunTypeOK, RunHasJournal, FilesRecorded

\* Every stage that an action names is a stage.
LEMMA NamedStages ==
    /\ {Planned, Creating, Created, FixingLinks, LinksFixed, CapturingReview,
        ReviewCaptured, MarkingReady, Ready, Moving, Moved, SealingReview,
        ReviewSealed, Committing, Committed} \subseteq Stages
    /\ Stages \subseteq Nat
BY DEF Stages, Planned, Creating, Created, FixingLinks, LinksFixed,
       CapturingReview, ReviewCaptured, MarkingReady, Ready, Moving, Moved,
       SealingReview, ReviewSealed, Committing, Committed

\* A step that records a stage, and a step of the run alone, keep the types of
\* all that is durable.
LEMMA StoreFramesTyped ==
    ASSUME TypeOK, NEW t \in Targets, NEW next \in Stages
    PROVE  /\ OnlyRun => JournalTypeOK' /\ StoreTypeOK' /\ DocsTypeOK' /\ CountTypeOK'
           /\ OnlyStage /\ (Advance(t, next) \/ Announce(t, next)) =>
                JournalTypeOK' /\ StoreTypeOK' /\ DocsTypeOK' /\ CountTypeOK'
           /\ OnlyDocs => JournalTypeOK' /\ StoreTypeOK'
           /\ OnlyDocs /\ (UNCHANGED failures \/ Failed) => CountTypeOK'
<1>1. OnlyStage /\ stage' \in [Targets -> Stages] =>
        JournalTypeOK' /\ StoreTypeOK' /\ DocsTypeOK' /\ CountTypeOK'
  BY DEF OnlyStage, TypeOK, JournalTypeOK, StoreTypeOK, DocsTypeOK, CountTypeOK,
         stateVars, countVars
<1>2. stage \in [Targets -> Stages]
  BY DEF TypeOK, JournalTypeOK
<1>3. OnlyRun => OnlyStage /\ stage' \in [Targets -> Stages]
  BY <1>2 DEF OnlyRun
<1>4. Advance(t, next) \/ Announce(t, next) => stage' \in [Targets -> Stages]
  BY <1>2, StagesInOrder
<1>5. OnlyDocs => JournalTypeOK' /\ StoreTypeOK'
  BY DEF OnlyDocs, TypeOK, JournalTypeOK, StoreTypeOK, durable, journalVars, stateVars
<1>6. OnlyDocs /\ (UNCHANGED failures \/ Failed) => CountTypeOK'
  BY DEF OnlyDocs, TypeOK, CountTypeOK, Failed
<1>7. QED BY <1>1, <1>3, <1>4, <1>5, <1>6

\* The create loop (publish.go:126) keeps the types.
LEMMA CreateTyped ==
    ASSUME TypeInv, NEW t \in Targets, CreateStep(t)
    PROVE  TypeOK'
<1> USE NamedStages, RunTyped, StoreFramesTyped DEF TypeInv
<1>1. CASE CreateBegin(t)
  BY <1>1 DEF CreateBegin, TypeOK, Labels
<1>2. CASE Pass("create", t, Created)
  BY <1>2 DEF Pass, TypeOK, Labels
<1>3. CASE LookupNone(t)
  BY <1>3 DEF LookupNone, TypeOK, Labels
<1>4. CASE LookupRefuse(t)
  BY <1>4 DEF LookupRefuse, Refuse, TypeOK, Labels
<1>5. ASSUME NEW d \in DocIds, LookupMatch(t, d) PROVE TypeOK'
  <2>1. RunTypeOK'
    BY <1>5 DEF LookupMatch, Goto, TypeOK, RunTypeOK, Labels, FileIds
  <2>2. QED BY <1>5, <2>1 DEF LookupMatch, TypeOK
<1>6. ASSUME NEW d \in DocIds, CreateIssue(t, d) PROVE TypeOK'
  <2>1. DocsTypeOK'
    BY <1>6, NewDocumentTyped, DocsTyped DEF CreateIssue, TypeOK, FileIds
  <2>2. RunTypeOK'
    BY <1>6 DEF CreateIssue, Goto, TypeOK, RunTypeOK, Labels, FileIds
  <2>3. QED BY <1>6, <2>1, <2>2 DEF CreateIssue, TypeOK
<1>7. CASE CreateFail(t)
  <2>1. DocsTypeOK'
    <3>1. CASE UNCHANGED docs
      BY <3>1 DEF TypeOK, DocsTypeOK
    <3>2. ASSUME NEW d \in DocIds, docs' = [docs EXCEPT ![d] = NewDocument(t, "inflight")]
          PROVE  DocsTypeOK'
      BY <3>2, NewDocumentTyped, DocsTyped DEF TypeOK, FileIds
    <3>3. QED BY <1>7, <3>1, <3>2 DEF CreateFail
  <2>2. RunTypeOK'
    BY <1>7 DEF CreateFail, Goto, TypeOK, RunTypeOK, Labels
  <2>3. CountTypeOK'
    BY <1>7 DEF CreateFail, TypeOK, CountTypeOK, Failed
  <2>4. JournalTypeOK' /\ StoreTypeOK'
    BY <1>7 DEF CreateFail, TypeOK, JournalTypeOK, StoreTypeOK, durable, journalVars, stateVars
  <2>5. QED BY <2>1, <2>2, <2>3, <2>4 DEF TypeOK
<1>8. CASE CreateRecord(t)
  <2>1. stage' \in [Targets -> Stages]
    BY <1>8, StagesInOrder DEF CreateRecord, TypeOK, JournalTypeOK
  <2>2. fileOf' \in [Targets -> FileIds]
    BY <1>8 DEF CreateRecord, TypeOK, JournalTypeOK, RunTypeOK
  <2>3. RunTypeOK'
    BY <1>8 DEF CreateRecord, TypeOK, Labels
  <2>4. QED
    BY <1>8, <2>1, <2>2, <2>3 DEF CreateRecord, TypeOK, JournalTypeOK, StoreTypeOK,
       DocsTypeOK, CountTypeOK, stateVars, countVars
<1>9. QED BY <1>1, <1>2, <1>3, <1>4, <1>5, <1>6, <1>7, <1>8 DEF CreateStep

\* The link loop (publish.go:168) keeps the types.
LEMMA LinksTyped ==
    ASSUME TypeInv, NEW t \in Targets, LinksStep(t)
    PROVE  TypeOK'
<1> USE NamedStages, RunTyped, StoreFramesTyped DEF TypeInv
<1>1. CASE LinksBegin(t)
  BY <1>1 DEF LinksBegin, TypeOK, Labels
<1>2. CASE Pass("links", t, LinksFixed)
  BY <1>2 DEF Pass, TypeOK, Labels
<1>3. CASE LinksRead(t)
  <2>1. fileOf[t] \in DocIds
    BY <1>3, RecordedFile DEF LinksRead, IsNext, CreateLabels
  <2>2. docs[fileOf[t]].rev \in Nat
    BY <2>1 DEF TypeOK, DocsTypeOK, Documents
  <2>3. RunTypeOK'
    BY <1>3, <2>2 DEF LinksRead, Goto, TypeOK, RunTypeOK, Labels
  <2>4. QED BY <1>3, <2>3 DEF LinksRead, TypeOK
<1>4. CASE LinksReadRefuse(t)
  BY <1>4 DEF LinksReadRefuse, Refuse, TypeOK, Labels
<1>5. CASE LinksUpdate(t)
  <2> DEFINE links == [u \in Targets |-> IF u \in Placeholders(t) THEN LinkURL(u)
                                         ELSE docs[fileOf[t]].link[u]]
  <2>1. ASSUME docs[fileOf[t]] \in Documents
        PROVE  links \in [Targets -> FileIds \cup {Placeholder}]
    BY <2>1 DEF LinkURL, TypeOK, JournalTypeOK, Documents
  <2>2. docs' = [docs EXCEPT ![fileOf[t]] = Revised(docs[fileOf[t]], links)]
    BY <1>5 DEF LinksUpdate
  <2>3. DocsTypeOK'
    BY <2>1, <2>2, DocumentUpdates, DocsTyped DEF TypeOK, JournalTypeOK
  <2>4. QED BY <1>5, <2>3 DEF LinksUpdate, CallFailed, TypeOK, Labels
<1>6. CASE LinksUpdateFail(t)
  BY <1>6 DEF LinksUpdateFail, CallFailed, TypeOK, DocsTypeOK, Labels
<1>7. CASE LinksUpdateRefuse(t)
  BY <1>7 DEF LinksUpdateRefuse, Refuse, TypeOK, Labels
<1>8. CASE LinksRecord(t)
  BY <1>8 DEF LinksRecord, TypeOK, Labels
<1>9. QED BY <1>1, <1>2, <1>3, <1>4, <1>5, <1>6, <1>7, <1>8 DEF LinksStep

\* Capturing the review baselines (publish.go:454) keeps the types.
LEMMA CaptureTyped ==
    ASSUME TypeInv, NEW t \in Targets, CaptureStep(t)
    PROVE  TypeOK'
<1> USE NamedStages, RunTyped, StoreFramesTyped DEF TypeInv
<1>a. IsNext(t) => t \in journal.items
  BY DEF IsNext, RunHasJournal
<1>1. CASE CaptureBegin(t)
  BY <1>1 DEF CaptureBegin, TypeOK, Labels
<1>2. CASE CaptureKnown(t)
  BY <1>2 DEF CaptureKnown, Pass, TypeOK, Labels
<1>3. CASE CaptureFound(t)
  BY <1>3 DEF CaptureFound, TypeOK, Labels
<1>4. CASE CaptureWrite(t)
  <2>1. fileOf[t] \in DocIds
    BY <1>4, RecordedFile DEF CaptureWrite, IsNext, CreateLabels
  <2> DEFINE m == [status |-> "candidate", op |-> journal.op, file |-> fileOf[t],
                   rev |-> docs[fileOf[t]].rev, act |-> 0]
  <2>2. m \in Manifests
    BY <2>1 DEF TypeOK, JournalTypeOK, DocsTypeOK, Documents, Manifests, FileIds
  <2>3. StoreTypeOK'
    <3>1. journal.gen[t] \in 1..MaxOps
      BY <1>4, <1>a, SnapshotTyped DEF CaptureWrite
    <3>2. snap' = [snap EXCEPT ![t][journal.gen[t]] = m] /\ UNCHANGED <<active, prior>>
      BY <1>4 DEF CaptureWrite, stateVars
    <3> HIDE DEF m
    <3>3. QED BY <2>2, <3>1, <3>2, SnapTyped DEF TypeOK
  <2>4. RunTypeOK'
    BY <1>4 DEF CaptureWrite, TypeOK, Labels
  <2>5. QED
    BY <1>4, <2>3, <2>4 DEF CaptureWrite, TypeOK, JournalTypeOK, DocsTypeOK,
       CountTypeOK, journalVars, countVars
<1>5. CASE CaptureRefuse(t)
  BY <1>5 DEF CaptureRefuse, Refuse, TypeOK, Labels
<1>6. CASE CaptureRecord(t)
  <2>1. stage' \in [Targets -> Stages]
    BY <1>6, StagesInOrder DEF CaptureRecord, TypeOK, JournalTypeOK
  <2>2. CandidateOf(Snapshot(t)) \in Manifests
    BY <1>6, <1>a, SnapshotTyped, ManifestUpdates DEF CaptureRecord
  <2>3. candHash' \in [Targets -> Manifests]
    BY <1>6, <2>2 DEF CaptureRecord, TypeOK, JournalTypeOK
  <2>4. RunTypeOK'
    BY <1>6 DEF CaptureRecord, TypeOK, Labels
  <2>5. QED
    BY <1>6, <2>1, <2>3, <2>4 DEF CaptureRecord, TypeOK, JournalTypeOK, StoreTypeOK,
       DocsTypeOK, CountTypeOK, stateVars, countVars
<1>7. QED BY <1>1, <1>2, <1>3, <1>4, <1>5, <1>6 DEF CaptureStep

\* The ready loop (publish.go:243) keeps the types.
LEMMA ReadyTyped ==
    ASSUME TypeInv, NEW t \in Targets, ReadyStep(t)
    PROVE  TypeOK'
<1> USE NamedStages, RunTyped, StoreFramesTyped DEF TypeInv
<1>1. CASE ReadyBegin(t)
  BY <1>1 DEF ReadyBegin, TypeOK, Labels
<1>2. CASE Pass("ready", t, Ready)
  BY <1>2 DEF Pass, TypeOK, Labels
<1>3. CASE ReadyMark(t)
  <2>1. docs' = [docs EXCEPT ![fileOf[t]] = [docs[fileOf[t]] EXCEPT !.status = "ready"]]
    BY <1>3 DEF ReadyMark
  <2>2. DocsTypeOK'
    BY <2>1, DocumentUpdates, DocsTyped DEF TypeOK, JournalTypeOK
  <2>3. QED BY <1>3, <2>2 DEF ReadyMark, CallFailed, TypeOK, Labels
<1>4. CASE ReadyFail(t)
  BY <1>4 DEF ReadyFail, CallFailed, TypeOK, DocsTypeOK, Labels
<1>5. CASE ReadyRecord(t)
  BY <1>5 DEF ReadyRecord, TypeOK, Labels
<1>6. QED BY <1>1, <1>2, <1>3, <1>4, <1>5 DEF ReadyStep

\* The move loop (publish.go:276) keeps the types.
LEMMA MoveTyped ==
    ASSUME TypeInv, NEW t \in Targets, MoveStep(t)
    PROVE  TypeOK'
<1> USE NamedStages, RunTyped, StoreFramesTyped DEF TypeInv
<1>1. CASE MoveBegin(t)
  BY <1>1 DEF MoveBegin, TypeOK, Labels
<1>2. CASE MoveKnown(t)
  BY <1>2 DEF MoveKnown, TypeOK, Labels
<1>3. CASE MoveRelocate(t)
  <2>1. docs' = [docs EXCEPT ![fileOf[t]] = [docs[fileOf[t]] EXCEPT !.parent = "review"]]
    BY <1>3 DEF MoveRelocate
  <2>2. DocsTypeOK'
    BY <2>1, DocumentUpdates, DocsTyped DEF TypeOK, JournalTypeOK
  <2>3. QED BY <1>3, <2>2 DEF MoveRelocate, CallFailed, TypeOK, Labels
<1>4. CASE MoveFail(t)
  BY <1>4 DEF MoveFail, CallFailed, TypeOK, DocsTypeOK, Labels
<1>5. CASE MoveRecord(t)
  BY <1>5 DEF MoveRecord, TypeOK, Labels
<1>6. CASE MoveFinalRead(t)
  <2>1. fileOf[t] \in DocIds
    BY <1>6, RecordedFile DEF MoveFinalRead, IsNext, CreateLabels
  <2>2. docs[fileOf[t]].st \in {"absent", "inflight", "live", "trashed"}
    BY <2>1 DEF TypeOK, DocsTypeOK, Documents
  <2>3. RunTypeOK'
    BY <1>6, <2>2 DEF MoveFinalRead, ItemDone, NewCall, TypeOK, RunTypeOK, Labels, FileIds
  <2>4. QED BY <1>6, <2>3 DEF MoveFinalRead, TypeOK
<1>7. QED BY <1>1, <1>2, <1>3, <1>4, <1>5, <1>6 DEF MoveStep

\* Sealing the snapshots (publish.go:530) keeps the types.
LEMMA SealTyped ==
    ASSUME TypeInv, NEW t \in Targets, SealStep(t)
    PROVE  TypeOK'
<1> USE NamedStages, RunTyped, StoreFramesTyped DEF TypeInv
<1>a. IsNext(t) => t \in journal.items
  BY DEF IsNext, RunHasJournal
<1>1. CASE SealBegin(t)
  BY <1>1 DEF SealBegin, TypeOK, Labels
<1>2. CASE SealWrite(t)
  <2>1. docs[fileOf[t]].rev \in Nat
    BY <1>2, RecordedFile DEF SealWrite, IsNext, CreateLabels, TypeOK, DocsTypeOK, Documents
  <2> DEFINE m == [Snapshot(t) EXCEPT !.status = "sealed", !.act = docs[fileOf[t]].rev]
  <2>2. Snapshot(t) \in Manifests /\ journal.gen[t] \in 1..MaxOps
         /\ Snapshot(t) = snap[t][journal.gen[t]]
    BY <1>2, <1>a, SnapshotTyped DEF SealWrite
  <2>3. m \in Manifests
    BY <2>1, <2>2, ManifestUpdates
  <2>4. snap' = [snap EXCEPT ![t][journal.gen[t]] = m] /\ UNCHANGED <<active, prior>>
    BY <1>2, <2>2 DEF SealWrite, stateVars
  <2> HIDE DEF m
  <2>5. StoreTypeOK'
    BY <2>2, <2>3, <2>4, SnapTyped DEF TypeOK
  <2>6. RunTypeOK'
    BY <1>2 DEF SealWrite, TypeOK, Labels
  <2>7. QED
    BY <1>2, <2>5, <2>6 DEF SealWrite, TypeOK, JournalTypeOK, DocsTypeOK,
       CountTypeOK, journalVars, countVars
<1>3. CASE SealFound(t)
  BY <1>3 DEF SealFound, TypeOK, Labels
<1>4. CASE SealRefuse(t)
  BY <1>4 DEF SealRefuse, Refuse, TypeOK, Labels
<1>5. CASE SealRecord(t)
  <2>1. stage' \in [Targets -> Stages]
    BY <1>5, StagesInOrder DEF SealRecord, TypeOK, JournalTypeOK
  <2>2. sealHash' \in [Targets -> Manifests]
    BY <1>5, <1>a, SnapshotTyped DEF SealRecord, TypeOK, JournalTypeOK
  <2>3. RunTypeOK'
    BY <1>5 DEF SealRecord, TypeOK, Labels
  <2>4. QED
    BY <1>5, <2>1, <2>2, <2>3 DEF SealRecord, TypeOK, JournalTypeOK, StoreTypeOK,
       DocsTypeOK, CountTypeOK, stateVars, countVars
<1>6. CASE SealKnown(t)
  BY <1>6 DEF SealKnown, TypeOK, Labels
<1>7. QED BY <1>1, <1>2, <1>3, <1>4, <1>5, <1>6 DEF SealStep

\* Committing the state and ending the journal (publish.go:375) keep the types.
LEMMA CommitTyped ==
    ASSUME TypeInv, CommitStep
    PROVE  TypeOK'
<1> USE NamedStages, RunTyped, StoreFramesTyped DEF TypeInv
<1>1. CASE CommitSave
  <2>1. \A t \in journal.items : NewTarget(t) \in TargetRecords
    <3>1. NoManifest \in Manifests
      BY DEF NoManifest, Manifests, FileIds
    <3>2. ASSUME NEW t \in journal.items PROVE NewTarget(t) \in TargetRecords
      BY <3>1, SnapshotTyped DEF NewTarget, TargetRecords, TypeOK, JournalTypeOK
    <3>3. QED BY <3>2
  <2>2. active' \in [Targets -> TargetRecords]
    BY <1>1, <2>1 DEF CommitSave, SaveActive, TypeOK, StoreTypeOK
  <2>3. prior' \in [Targets -> Seq(TargetRecords)]
    <3>1. \A t \in Targets : /\ prior[t] \in Seq(TargetRecords)
                             /\ Append(prior[t], active[t]) \in Seq(TargetRecords)
      BY DEF TypeOK, StoreTypeOK
    <3>2. QED BY <1>1, <3>1 DEF CommitSave
  <2>4. RunTypeOK'
    BY <1>1 DEF CommitSave, SaveFrame, SameCall, TypeOK, RunTypeOK, JournalTypeOK, Labels
  <2>5. QED
    BY <1>1, <2>2, <2>3, <2>4 DEF CommitSave, SaveFrame, TypeOK, JournalTypeOK,
       StoreTypeOK, DocsTypeOK, CountTypeOK, journalVars, countVars
<1>2. CASE CommitClear
  <2>1. NoManifest \in Manifests /\ NoJournal.op = 0
    BY DEF NoManifest, Manifests, FileIds, NoJournal
  <2>2. JournalTypeOK'
    BY <1>2, <2>1 DEF CommitClear, NoJournal, JournalTypeOK, FileIds
  <2>3. RunTypeOK'
    BY <1>2 DEF CommitClear, StopRun, NewCall, RunTypeOK, Labels, FileIds
  <2>4. QED
    BY <1>2, <2>2, <2>3 DEF CommitClear, TypeOK, StoreTypeOK, DocsTypeOK, CountTypeOK,
       stateVars, countVars
<1>3. ASSUME NEW t \in Targets, CommitBegin(t) PROVE TypeOK'
  BY <1>3 DEF CommitBegin, TypeOK, Labels
<1>4. ASSUME NEW t \in Targets, CommitRecord(t) PROVE TypeOK'
  BY <1>4 DEF CommitRecord, TypeOK, Labels
<1>5. QED BY <1>1, <1>2, <1>3, <1>4 DEF CommitStep

\* Late creates and reviewers keep the types.
LEMMA EnvironmentTyped ==
    ASSUME TypeOK, Environment
    PROVE  TypeOK'
<1>1. ASSUME NEW d \in DocIds, CreateLands(d) \/ ReviewerEdits(d) \/ ReviewerTrashes(d)
      PROVE  DocsTypeOK'
  <2>1. d \in FileIds /\ docs[d] \in Documents
    BY DEF FileIds, TypeOK, DocsTypeOK
  <2>2. CASE CreateLands(d)
    BY <2>1, <2>2, DocumentUpdates, DocsTyped DEF CreateLands, TypeOK
  <2>3. CASE ReviewerTrashes(d)
    BY <2>1, <2>3, DocumentUpdates, DocsTyped DEF ReviewerTrashes, TypeOK
  <2>4. CASE ReviewerEdits(d)
    <3>1. PICK gone \in SUBSET Targets :
            docs' = [docs EXCEPT ![d] = Revised(docs[d],
                        [u \in Targets |-> IF u \in gone THEN NoDoc ELSE docs[d].link[u]])]
      BY <2>4 DEF ReviewerEdits
    <3>2. [u \in Targets |-> IF u \in gone THEN NoDoc ELSE docs[d].link[u]]
            \in [Targets -> FileIds \cup {Placeholder}]
      BY <2>1 DEF Documents, FileIds
    <3>3. QED BY <2>1, <3>1, <3>2, DocumentUpdates, DocsTyped DEF TypeOK
  <2>5. QED BY <1>1, <2>2, <2>3, <2>4
<1>2. /\ UNCHANGED <<durable, runVars, ops, failures, late>>
      /\ reviewer' \in Nat
  BY DEF Environment, CreateLands, ReviewerEdits, ReviewerTrashes, ReviewerActs,
         countVars, TypeOK, CountTypeOK
<1>3. QED
  BY <1>1, <1>2 DEF Environment, TypeOK, JournalTypeOK, StoreTypeOK, RunTypeOK,
     CountTypeOK, durable, journalVars, stateVars, runVars

\* The loop a run goes to is one of its labels.
LEMMA FollowingLabels ==
    /\ DOMAIN Following = {"create", "links", "capture", "ready", "move", "seal",
                           "committing", "committed"}
    /\ Following["create"] = "links" /\ Following["links"] = "capture"
    /\ Following["capture"] = "ready" /\ Following["ready"] = "move"
    /\ Following["move"] = "seal" /\ Following["seal"] = "committing"
    /\ Following["committing"] = "save" /\ Following["committed"] = "clear"
BY DEF Following

\* Between two loops a run only changes its own position.
LEMMA NextLoopMoves ==
    ASSUME NextLoop
    PROVE  /\ pc' \in {"links", "capture", "ready", "move", "seal", "committing",
                       "save", "clear"}
           /\ pc' = "clear" <=> pc = "committed"
           /\ todo' \subseteq journal.items
<1>1. pc \in {"create", "links", "capture", "ready", "move", "seal", "committing",
              "committed"} /\ pc' = Following[pc]
  BY FollowingLabels DEF NextLoop
<1>2. todo' \subseteq journal.items
  BY DEF NextLoop, LoopItems
<1>3. QED BY <1>1, <1>2, FollowingLabels

\* Starting, resuming, interrupting and going to the next loop keep the types.
LEMMA OthersTyped ==
    ASSUME TypeInv,
           NextLoop \/ Interrupt \/ Resume \/ (\E items \in SUBSET Targets : Start(items))
    PROVE  TypeOK'
<1> USE DEF TypeInv
<1>a. OnlyRun => JournalTypeOK' /\ StoreTypeOK' /\ DocsTypeOK' /\ CountTypeOK'
  BY DEF OnlyRun, OnlyStage, TypeOK, JournalTypeOK, StoreTypeOK, DocsTypeOK, CountTypeOK,
         stateVars, countVars
<1>1. CASE NextLoop
  <2>1. pc' \in Labels /\ todo' \in SUBSET Targets
    BY <1>1, NextLoopMoves DEF Labels, TypeOK, JournalTypeOK
  <2>2. RunTypeOK'
    BY <1>1, <2>1 DEF NextLoop, SameCall, TypeOK, RunTypeOK
  <2>3. QED BY <1>1, <1>a, <2>2 DEF NextLoop, TypeOK
<1>2. CASE Interrupt
  <2>1. RunTypeOK'
    BY <1>2 DEF Interrupt, StopRun, NewCall, RunTypeOK, Labels, FileIds
  <2>2. QED
    BY <1>2, <2>1 DEF Interrupt, Failed, TypeOK, JournalTypeOK, StoreTypeOK, DocsTypeOK,
       CountTypeOK, durable, journalVars, stateVars
<1>3. CASE Resume
  <2>1. RunTypeOK'
    BY <1>3 DEF Resume, NewCall, TypeOK, JournalTypeOK, RunTypeOK, Labels, FileIds
  <2>2. QED BY <1>3, <1>a, <2>1 DEF Resume, TypeOK
<1>4. ASSUME NEW items \in SUBSET Targets, Start(items) PROVE TypeOK'
  <2>1. /\ ActiveURLs \in [Targets -> FileIds]
        /\ [t \in Targets |-> IF t \in items THEN active[t].gen + 1 ELSE 0] \in [Targets -> Nat]
        /\ ops + 1 \in Nat
    BY DEF ActiveURLs, TypeOK, StoreTypeOK, CountTypeOK, TargetRecords
  <2>2. JournalTypeOK'
    BY <1>4, <2>1 DEF Start, TypeOK, JournalTypeOK
  <2>3. RunTypeOK'
    BY <1>4 DEF Start, NewCall, TypeOK, RunTypeOK, Labels, FileIds
  <2>4. QED
    BY <1>4, <2>1, <2>2, <2>3 DEF Start, TypeOK, StoreTypeOK, DocsTypeOK, CountTypeOK, stateVars
<1>5. QED BY <1>1, <1>2, <1>3, <1>4

\* Every step keeps the types.
LEMMA NextTyped == TypeInv /\ [Next]_vars => TypeOK'
<1> SUFFICES ASSUME TypeInv, [Next]_vars PROVE TypeOK'
  OBVIOUS
<1>1. CASE RunStep
  <2>1. ASSUME NEW t \in Targets, \/ CreateStep(t) \/ LinksStep(t) \/ CaptureStep(t)
                                  \/ ReadyStep(t) \/ MoveStep(t) \/ SealStep(t)
        PROVE  TypeOK'
    BY <2>1, CreateTyped, LinksTyped, CaptureTyped, ReadyTyped, MoveTyped, SealTyped
  <2>2. QED BY <1>1, <2>1, CommitTyped, OthersTyped DEF RunStep
<1>2. CASE UNCHANGED vars
  BY <1>2 DEF vars, journalVars, stateVars, runVars, countVars, TypeInv, TypeOK,
     JournalTypeOK, StoreTypeOK, DocsTypeOK, RunTypeOK, CountTypeOK
<1>3. QED BY <1>1, <1>2, OthersTyped, EnvironmentTyped DEF Next, TypeInv

-----------------------------------------------------------------------------
(* The invariant: what most steps leave alone *)

\* A step after the create loop, or one that ends the run: it moves on within
\* the unfinished operation and may record a stage of the item at hand.
Quiet ==
    /\ UNCHANGED <<journal, fileOf, active, prior, ops>>
    /\ todo' \subseteq todo
    /\ \A u \in Targets : stage[u] <= stage'[u] /\ (stage[u] # stage'[u] => u \in todo)
    /\ \/ pc' = "idle" /\ stage' = stage
       \/ /\ pc \notin CreateLabels \cup {"idle"}
          /\ pc' \notin CreateLabels \cup {"committed", "clear"}

\* A quiet step that keeps the types keeps the invariant.
LEMMA QuietKeepsInvariant ==
    ASSUME TypeInv, TypeOK', Quiet
    PROVE  TypeInv' /\ (SavedWhole => SavedWhole')
<1> USE DEF Quiet
<1>1. stage \in [Targets -> Nat] /\ stage' \in [Targets -> Nat] /\ Created \in Nat
      /\ journal.items \subseteq Targets
  BY NamedStages DEF TypeInv, TypeOK, JournalTypeOK
<1>2. GenerationsBounded'
  BY DEF TypeInv, GenerationsBounded
<1>3. RunHasJournal'
  BY DEF TypeInv, RunHasJournal, HasJournal
<1>4. \A u \in Targets : stage'[u] >= Created => stage[u] >= Created
  BY <1>1 DEF TypeInv, FilesRecorded, RunHasJournal
<1>5. FilesRecorded'
  <2>1. \A u \in Targets : stage'[u] >= Created => fileOf'[u] \in DocIds
    BY <1>4 DEF TypeInv, FilesRecorded
  <2>2. pc' \notin {"lookup", "issue", "record"}
    BY DEF CreateLabels
  <2>3. pc' # "idle" => \A u \in journal'.items : stage'[u] >= Created
    BY <1>1 DEF TypeInv, FilesRecorded
  <2>4. QED BY <2>1, <2>2, <2>3 DEF FilesRecorded
<1>6. ASSUME SavedWhole PROVE SavedWhole'
  <2>1. Saved' <=> Saved
    BY DEF Saved
  <2>2. Saved => \A u \in journal.items : stage'[u] >= Created
    BY <1>6, <1>1 DEF SavedWhole
  <2>3. pc' \notin {"committed", "clear"}
    OBVIOUS
  <2>4. QED BY <1>6, <2>1, <2>2, <2>3 DEF SavedWhole
<1>7. QED BY <1>2, <1>3, <1>5, <1>6 DEF TypeInv

\* A step of the create loop that records no file yet.
QuietCreate ==
    /\ UNCHANGED <<journal, fileOf, active, prior, ops, todo>>
    /\ pc \in CreateLabels /\ pc' \in CreateLabels
    /\ pc' = "record" => got' \in DocIds
    /\ \A u \in todo : IsNext(u) => stage'[u] < Created
    /\ \A u \in Targets : stage[u] <= stage'[u] /\ (stage[u] # stage'[u] => stage'[u] < Created)

\* So does such a step of the create loop.
LEMMA QuietCreateKeepsInvariant ==
    ASSUME TypeInv, TypeOK', QuietCreate
    PROVE  TypeInv' /\ (SavedWhole => SavedWhole')
<1> USE DEF QuietCreate
<1>1. stage \in [Targets -> Nat] /\ stage' \in [Targets -> Nat] /\ Created \in Nat
      /\ journal.items \subseteq Targets
  BY NamedStages DEF TypeInv, TypeOK, JournalTypeOK
<1>2. GenerationsBounded'
  BY DEF TypeInv, GenerationsBounded
<1>3. RunHasJournal'
  BY DEF TypeInv, RunHasJournal, HasJournal, CreateLabels
<1>4. \A u \in Targets : stage'[u] >= Created <=> stage[u] >= Created
  BY <1>1
<1>5. FilesRecorded'
  BY <1>1, <1>4 DEF TypeInv, FilesRecorded, CreateLabels, IsNext
<1>6. ASSUME SavedWhole PROVE SavedWhole'
  <2>1. Saved' <=> Saved
    BY DEF Saved
  <2>2. pc' \notin {"committed", "clear"}
    BY DEF CreateLabels
  <2>3. QED BY <1>6, <1>1, <1>4, <2>1, <2>2 DEF SavedWhole
<1>7. QED BY <1>2, <1>3, <1>5, <1>6 DEF TypeInv

-----------------------------------------------------------------------------
(* The invariant: every step *)

\* Recording a stage of the item at hand is all that happens to the stages.
LEMMA ItemStage ==
    ASSUME TypeInv, NEW t \in Targets, IsNext(t), NEW next \in Stages
    PROVE  /\ Advance(t, next) \/ Announce(t, next) =>
                \A u \in Targets : stage[u] <= stage'[u] /\ (stage[u] # stage'[u] => u \in todo)
           /\ stage' = stage =>
                \A u \in Targets : stage[u] <= stage'[u] /\ (stage[u] # stage'[u] => u \in todo)
<1>1. stage \in [Targets -> Stages] /\ t \in todo
  BY DEF TypeInv, TypeOK, JournalTypeOK, IsNext
<1>2. ASSUME NEW u \in Targets PROVE stage[u] <= stage[u]
  <2>1. stage[u] \in Nat
    BY <1>1, NamedStages
  <2>2. QED BY <2>1
<1>3. QED BY <1>1, <1>2, StagesInOrder

\* A failed remote call starts over or ends the run.
LEMMA CallsQuiet ==
    ASSUME NEW label, CallFailed(label)
    PROVE  /\ pc' \in {label, "idle"}
           /\ todo' \subseteq todo
BY DEF CallFailed, Goto, StopRun

\* The link loop keeps the invariant.
LEMMA LinksQuiet ==
    ASSUME TypeInv, NEW t \in Targets, LinksStep(t)
    PROVE  Quiet
<1> USE NamedStages, ItemStage
        DEF Quiet, Goto, ItemDone, OnlyRun, OnlyStage, OnlyDocs, durable, journalVars,
            stateVars, countVars, CreateLabels
<1>1. CASE LinksBegin(t)
  BY <1>1 DEF LinksBegin
<1>2. CASE Pass("links", t, LinksFixed)
  BY <1>2 DEF Pass
<1>3. CASE LinksRead(t)
  BY <1>3 DEF LinksRead
<1>4. CASE LinksReadRefuse(t)
  BY <1>4 DEF LinksReadRefuse, Refuse, StopRun
<1>5. CASE LinksUpdate(t)
  <2>1. pc' \in {"readlinks", "idle", "linksdone"} /\ todo' \subseteq todo /\ pc \notin CreateLabels \cup {"idle"}
    BY <1>5, CallsQuiet DEF LinksUpdate
  <2>2. UNCHANGED <<durable, ops>> /\ IsNext(t)
    BY <1>5 DEF LinksUpdate
  <2>3. QED BY <2>1, <2>2
<1>6. CASE LinksUpdateFail(t)
  <2>1. pc' \in {"readlinks", "idle"} /\ todo' \subseteq todo /\ pc \notin CreateLabels \cup {"idle"}
    BY <1>6, CallsQuiet DEF LinksUpdateFail
  <2>2. UNCHANGED <<durable, ops>> /\ IsNext(t)
    BY <1>6 DEF LinksUpdateFail
  <2>3. QED BY <2>1, <2>2
<1>7. CASE LinksUpdateRefuse(t)
  BY <1>7 DEF LinksUpdateRefuse, Refuse, StopRun
<1>8. CASE LinksRecord(t)
  BY <1>8 DEF LinksRecord
<1>9. QED BY <1>1, <1>2, <1>3, <1>4, <1>5, <1>6, <1>7, <1>8 DEF LinksStep

\* Capturing keeps the invariant.
LEMMA CaptureQuiet ==
    ASSUME TypeInv, NEW t \in Targets, CaptureStep(t)
    PROVE  Quiet
<1> USE NamedStages, ItemStage
        DEF Quiet, Goto, ItemDone, OnlyRun, OnlyStage, journalVars, stateVars, countVars,
            CreateLabels
<1>1. CASE CaptureBegin(t)
  BY <1>1 DEF CaptureBegin
<1>2. CASE CaptureKnown(t)
  BY <1>2 DEF CaptureKnown, Pass
<1>3. CASE CaptureFound(t)
  BY <1>3 DEF CaptureFound
<1>4. CASE CaptureWrite(t)
  BY <1>4 DEF CaptureWrite
<1>5. CASE CaptureRefuse(t)
  BY <1>5 DEF CaptureRefuse, Refuse, StopRun
<1>6. CASE CaptureRecord(t)
  BY <1>6 DEF CaptureRecord
<1>7. QED BY <1>1, <1>2, <1>3, <1>4, <1>5, <1>6 DEF CaptureStep

\* The ready loop keeps the invariant.
LEMMA ReadyQuiet ==
    ASSUME TypeInv, NEW t \in Targets, ReadyStep(t)
    PROVE  Quiet
<1> USE NamedStages, ItemStage
        DEF Quiet, Goto, ItemDone, OnlyRun, OnlyStage, OnlyDocs, durable, journalVars,
            stateVars, countVars, CreateLabels
<1>1. CASE ReadyBegin(t)
  BY <1>1 DEF ReadyBegin
<1>2. CASE Pass("ready", t, Ready)
  BY <1>2 DEF Pass
<1>3. CASE ReadyMark(t)
  <2>1. pc' \in {"mark", "idle", "marked"} /\ todo' \subseteq todo /\ pc \notin CreateLabels \cup {"idle"}
    BY <1>3, CallsQuiet DEF ReadyMark
  <2>2. UNCHANGED <<durable, ops>> /\ IsNext(t)
    BY <1>3 DEF ReadyMark
  <2>3. QED BY <2>1, <2>2
<1>4. CASE ReadyFail(t)
  <2>1. pc' \in {"mark", "idle"} /\ todo' \subseteq todo /\ pc \notin CreateLabels \cup {"idle"}
    BY <1>4, CallsQuiet DEF ReadyFail
  <2>2. UNCHANGED <<durable, ops>> /\ IsNext(t)
    BY <1>4 DEF ReadyFail
  <2>3. QED BY <2>1, <2>2
<1>5. CASE ReadyRecord(t)
  BY <1>5 DEF ReadyRecord
<1>6. QED BY <1>1, <1>2, <1>3, <1>4, <1>5 DEF ReadyStep

\* The move loop keeps the invariant.
LEMMA MoveQuiet ==
    ASSUME TypeInv, NEW t \in Targets, MoveStep(t)
    PROVE  Quiet
<1> USE NamedStages, ItemStage
        DEF Quiet, Goto, ItemDone, OnlyRun, OnlyStage, OnlyDocs, durable, journalVars,
            stateVars, countVars, CreateLabels
<1>1. CASE MoveBegin(t)
  BY <1>1 DEF MoveBegin
<1>2. CASE MoveKnown(t)
  BY <1>2 DEF MoveKnown
<1>3. CASE MoveRelocate(t)
  <2>1. pc' \in {"relocate", "idle", "moved"} /\ todo' \subseteq todo /\ pc \notin CreateLabels \cup {"idle"}
    BY <1>3, CallsQuiet DEF MoveRelocate
  <2>2. UNCHANGED <<durable, ops>> /\ IsNext(t)
    BY <1>3 DEF MoveRelocate
  <2>3. QED BY <2>1, <2>2
<1>4. CASE MoveFail(t)
  <2>1. pc' \in {"relocate", "idle"} /\ todo' \subseteq todo /\ pc \notin CreateLabels \cup {"idle"}
    BY <1>4, CallsQuiet DEF MoveFail
  <2>2. UNCHANGED <<durable, ops>> /\ IsNext(t)
    BY <1>4 DEF MoveFail
  <2>3. QED BY <2>1, <2>2
<1>5. CASE MoveRecord(t)
  BY <1>5 DEF MoveRecord
<1>6. CASE MoveFinalRead(t)
  BY <1>6 DEF MoveFinalRead
<1>7. QED BY <1>1, <1>2, <1>3, <1>4, <1>5, <1>6 DEF MoveStep

\* Sealing keeps the invariant.
LEMMA SealQuiet ==
    ASSUME TypeInv, NEW t \in Targets, SealStep(t)
    PROVE  Quiet
<1> USE NamedStages, ItemStage
        DEF Quiet, Goto, ItemDone, OnlyRun, OnlyStage, journalVars, stateVars, countVars,
            CreateLabels
<1>1. CASE SealBegin(t)
  BY <1>1 DEF SealBegin
<1>2. CASE SealWrite(t)
  BY <1>2 DEF SealWrite
<1>3. CASE SealFound(t)
  BY <1>3 DEF SealFound
<1>4. CASE SealRefuse(t)
  BY <1>4 DEF SealRefuse, Refuse, StopRun
<1>5. CASE SealRecord(t)
  BY <1>5 DEF SealRecord
<1>6. CASE SealKnown(t)
  BY <1>6 DEF SealKnown
<1>7. QED BY <1>1, <1>2, <1>3, <1>4, <1>5, <1>6 DEF SealStep

\* The create loop keeps the invariant.
LEMMA CreateKeepsInvariant ==
    ASSUME TypeInv, TypeOK', NEW t \in Targets, CreateStep(t)
    PROVE  TypeInv' /\ (SavedWhole => SavedWhole')
<1>1. CASE CreateBegin(t)
  <2>1. Announce(t, Creating) /\ IsNext(t) /\ Creating \in Stages
    BY <1>1, NamedStages DEF CreateBegin
  <2>2. \A u \in Targets : stage[u] <= stage'[u] /\ (stage[u] # stage'[u] => stage'[u] < Created)
    <3>1. stage \in [Targets -> Stages] /\ stage' \in [Targets -> Stages] /\ stage[t] < Created
      BY <1>1 DEF CreateBegin, TypeInv, TypeOK, JournalTypeOK
    <3>2. stage' = stage \/ stage'[t] = Creating
      BY <1>1, <3>1 DEF CreateBegin, Announce, Advance
    <3>3. \A u \in Targets : stage[u] <= stage'[u] /\ (u # t => stage'[u] = stage[u])
      BY <2>1, <3>1, StagesInOrder
    <3>4. QED BY <3>2, <3>3 DEF Creating, Created
  <2>3. \A u \in todo : IsNext(u) => stage'[u] < Created
    <3>1. \A u \in todo : IsNext(u) => u = t
      BY <2>1, ConstantsOK DEF IsNext, TypeInv, TypeOK, RunTypeOK
    <3>2. stage'[t] < Created
      BY <1>1, <2>2 DEF CreateBegin
    <3>3. QED BY <3>1, <3>2
  <2>4. QuietCreate
    BY <1>1, <2>2, <2>3 DEF CreateBegin, QuietCreate, Goto, NewCall, OnlyStage, stateVars,
       countVars, CreateLabels
  <2>5. QED BY <2>4, QuietCreateKeepsInvariant
<1>2. CASE LookupNone(t) \/ CreateFail(t) \/ \E d \in DocIds : LookupMatch(t, d) \/ CreateIssue(t, d)
  <2>1. /\ UNCHANGED <<journal, fileOf, active, prior, ops, todo, stage>>
        /\ pc \in {"lookup", "issue"} /\ pc' \in CreateLabels
        /\ pc' = "record" => got' \in DocIds
    BY <1>2 DEF LookupNone, CreateFail, LookupMatch, CreateIssue, Goto, OnlyRun, OnlyStage,
       OnlyDocs, durable, journalVars, stateVars, countVars, CreateLabels
  <2>2. \A u \in Targets : stage[u] <= stage'[u]
    <3>1. \A u \in Targets : stage[u] \in Nat
      BY NamedStages DEF TypeInv, TypeOK, JournalTypeOK
    <3>2. QED BY <2>1, <3>1
  <2>3. QuietCreate
    BY <2>1, <2>2 DEF QuietCreate, TypeInv, FilesRecorded, CreateLabels
  <2>4. QED BY <2>3, QuietCreateKeepsInvariant
<1>3. CASE LookupRefuse(t)
  <2>1. Quiet
    BY <1>3, ItemStage, NamedStages DEF LookupRefuse, Refuse, StopRun, Quiet, OnlyRun,
       OnlyStage, stateVars, countVars
  <2>2. QED BY <2>1, QuietKeepsInvariant
<1>4. CASE Pass("create", t, Created)
  <2>1. /\ UNCHANGED <<journal, stage, fileOf, active, prior, ops>>
        /\ pc' = "create" /\ pc = "create" /\ todo' = todo \ {t} /\ stage[t] >= Created
    BY <1>4 DEF Pass, ItemDone, OnlyRun, OnlyStage, stateVars, countVars
  <2>2. GenerationsBounded' /\ RunHasJournal' /\ FilesRecorded'
    BY <2>1 DEF TypeInv, GenerationsBounded, RunHasJournal, HasJournal, FilesRecorded,
       CreateLabels
  <2>3. ASSUME SavedWhole PROVE SavedWhole'
    BY <2>3, <2>1 DEF SavedWhole, Saved
  <2>4. QED BY <2>2, <2>3 DEF TypeInv
<1>5. CASE CreateRecord(t)
  <2>1. /\ UNCHANGED <<journal, active, prior, ops>>
        /\ pc' = "create" /\ pc = "record" /\ todo' = todo \ {t}
        /\ fileOf' = [fileOf EXCEPT ![t] = got] /\ got \in DocIds
        /\ stage' = [stage EXCEPT ![t] = Created]
        /\ ValidTransition(stage[t], Created)
    BY <1>5 DEF CreateRecord, ItemDone, Advance, stateVars, countVars, TypeInv,
       FilesRecorded
  <2>2. stage \in [Targets -> Nat] /\ fileOf \in [Targets -> FileIds] /\ Created \in Nat
        /\ journal.items \subseteq Targets
    BY NamedStages DEF TypeInv, TypeOK, JournalTypeOK
  <2>3. GenerationsBounded' /\ RunHasJournal'
    BY <2>1 DEF TypeInv, GenerationsBounded, RunHasJournal, HasJournal
  <2>4. FilesRecorded'
    BY <2>1, <2>2 DEF TypeInv, FilesRecorded, CreateLabels
  <2>5. t \in journal.items
    BY <1>5 DEF CreateRecord, IsNext, TypeInv, RunHasJournal
  <2>6. ASSUME SavedWhole PROVE SavedWhole'
    <3>1. Saved' <=> Saved
      BY <2>1 DEF Saved
    <3>2. ~Saved
      \* the items of a saved operation have been created long ago
      <4>1. stage[t] < Created
        BY <1>5, <2>1 DEF CreateRecord, IsNext, TypeInv, FilesRecorded
      <4>2. QED BY <2>6, <2>2, <2>5, <4>1 DEF SavedWhole
    <3>3. QED BY <2>6, <2>1, <3>1, <3>2 DEF SavedWhole
  <2>7. QED BY <2>3, <2>4, <2>6 DEF TypeInv
<1>6. QED BY <1>1, <1>2, <1>3, <1>4, <1>5 DEF CreateStep

\* Committing keeps the invariant: a saved operation is saved whole.
LEMMA CommitKeepsInvariant ==
    ASSUME TypeInv, TypeOK', CommitStep
    PROVE  TypeInv' /\ (SavedWhole => SavedWhole')
<1>b. /\ stage \in [Targets -> Nat] /\ Created \in Nat /\ journal.items \subseteq Targets
      /\ active \in [Targets -> TargetRecords] /\ ops \in Nat /\ journal.op \in Nat
      /\ journal.gen \in [Targets -> Nat]
  BY NamedStages DEF TypeInv, TypeOK, JournalTypeOK, StoreTypeOK, CountTypeOK
<1>1. CASE CommitSave
  <2>1. /\ UNCHANGED <<journal, stage, fileOf, ops>>
        /\ pc = "save" /\ pc' = "committed" /\ todo' = journal.items
        /\ active' = [u \in Targets |-> IF u \in journal.items THEN NewTarget(u) ELSE active[u]]
    BY <1>1 DEF CommitSave, SaveFrame, SaveActive, journalVars, countVars
  <2>2. HasJournal /\ journal.items # {}
    BY <2>1 DEF TypeInv, RunHasJournal
  <2>3. \A u \in journal.items : /\ active'[u].file = fileOf[u] /\ active'[u].op = journal.op
                                 /\ active'[u].gen = journal.gen[u]
    BY <1>b, <2>1 DEF NewTarget
  <2>4. \A u \in Targets \ journal.items : active'[u] = active[u]
    BY <2>1
  <2>5. GenerationsBounded'
    <3>1. \A u \in Targets : active'[u].gen <= ops /\ active'[u].op <= ops
      BY <1>b, <2>3, <2>4 DEF TypeInv, GenerationsBounded
    <3>2. QED BY <2>1, <3>1 DEF TypeInv, GenerationsBounded
  <2>6. RunHasJournal'
    BY <2>1, <2>2 DEF TypeInv, RunHasJournal, HasJournal
  <2>7. FilesRecorded'
    BY <2>1 DEF TypeInv, FilesRecorded, CreateLabels
  <2>8. ASSUME SavedWhole PROVE SavedWhole'
    <3>1. Saved'
      BY <2>1, <2>2, <2>3 DEF Saved
    <3>2. \A u \in journal.items : stage[u] >= Created
      BY <2>1 DEF TypeInv, FilesRecorded, CreateLabels
    <3>3. \A u \in Targets : active'[u] = NoTarget \/ active'[u].gen >= 1
      BY <2>8, <1>b, <2>3, <2>4 DEF SavedWhole, TypeInv, GenerationsBounded
    <3>4. QED BY <2>8, <2>1, <2>3, <3>1, <3>2, <3>3 DEF SavedWhole
  <2>9. QED BY <2>5, <2>6, <2>7, <2>8 DEF TypeInv
<1>2. CASE CommitClear
  <2>1. /\ journal'.op = 0 /\ journal'.items = {} /\ UNCHANGED <<active, ops>>
        /\ stage' = [u \in Targets |-> Planned] /\ pc' = "idle" /\ todo' = {}
    BY <1>2 DEF CommitClear, NoJournal, StopRun, stateVars, countVars
  <2>2. GenerationsBounded' /\ RunHasJournal' /\ FilesRecorded'
    BY <1>b, <2>1 DEF TypeInv, GenerationsBounded, RunHasJournal, HasJournal,
       FilesRecorded, Planned, Created
  <2>3. ASSUME SavedWhole PROVE SavedWhole'
    BY <2>3, <2>1 DEF SavedWhole, Saved
  <2>4. QED BY <2>2, <2>3 DEF TypeInv
<1>3. ASSUME NEW t \in Targets, CommitBegin(t) PROVE TypeInv' /\ (SavedWhole => SavedWhole')
  <2>1. Quiet
    BY <1>3, ItemStage, NamedStages DEF CommitBegin, ItemDone, Quiet, OnlyStage,
       stateVars, countVars, CreateLabels
  <2>2. QED BY <2>1, QuietKeepsInvariant
<1>4. ASSUME NEW t \in Targets, CommitRecord(t) PROVE TypeInv' /\ (SavedWhole => SavedWhole')
  <2>1. /\ UNCHANGED <<journal, fileOf, active, ops>>
        /\ pc = "committed" /\ pc' = "committed" /\ todo' = todo \ {t} /\ IsNext(t)
    BY <1>4 DEF CommitRecord, ItemDone, OnlyStage, stateVars, countVars
  <2>2. stage \in [Targets -> Stages] /\ stage' \in [Targets -> Stages]
    BY DEF TypeInv, TypeOK, JournalTypeOK
  <2>3. /\ \A u \in Targets : stage[u] <= stage'[u]
        /\ \A u \in Targets \ {t} : stage'[u] = stage[u]
        /\ stage'[t] >= Committed
    BY <1>4, <2>2, StagesInOrder, NamedStages DEF CommitRecord
  <2>4. stage'[t] = Committed
    BY <2>2, <2>3 DEF Stages, Planned, Committed
  <2>5. GenerationsBounded' /\ RunHasJournal'
    BY <2>1 DEF TypeInv, GenerationsBounded, RunHasJournal, HasJournal
  <2>6. FilesRecorded'
    <3>1. \A u \in Targets : stage'[u] >= Created => fileOf[u] \in DocIds
      <4>1. t \in journal.items /\ stage[t] >= Created
        BY <2>1 DEF TypeInv, FilesRecorded, CreateLabels, IsNext, RunHasJournal
      <4>2. \A u \in Targets : stage'[u] >= Created => stage[u] >= Created
        BY <2>3, <4>1
      <4>3. QED BY <4>2 DEF TypeInv, FilesRecorded
    <3>2. \A u \in journal.items : stage'[u] >= Created
      <4>1. \A u \in journal.items : stage[u] >= Created
        BY <2>1 DEF TypeInv, FilesRecorded, CreateLabels
      <4>2. \A u \in Targets : stage[u] \in Nat /\ stage'[u] \in Nat
        BY <2>2, NamedStages
      <4>3. QED BY <1>b, <2>3, <4>1, <4>2
    <3>3. QED BY <2>1, <3>1, <3>2 DEF FilesRecorded
  <2>7. ASSUME SavedWhole PROVE SavedWhole'
    <3>1. Saved /\ Saved'
      BY <2>7, <2>1 DEF SavedWhole, Saved
    <3>2. \A u \in journal.items \ todo' : stage'[u] = Committed
      BY <2>7, <1>b, <2>1, <2>3, <2>4 DEF SavedWhole
    <3>3. \A u \in journal.items : stage'[u] >= Created
      BY <2>6, <2>1 DEF FilesRecorded, CreateLabels
    <3>4. QED BY <2>7, <2>1, <3>1, <3>2, <3>3 DEF SavedWhole
  <2>8. QED BY <2>5, <2>6, <2>7 DEF TypeInv
<1>5. QED BY <1>1, <1>2, <1>3, <1>4 DEF CommitStep

\* Starting, resuming, interrupting and going to the next loop keep it.
LEMMA OthersKeepInvariant ==
    ASSUME TypeInv, TypeOK',
           NextLoop \/ Interrupt \/ Resume \/ (\E items \in SUBSET Targets : Start(items))
    PROVE  TypeInv' /\ (SavedWhole => SavedWhole')
<1>b. /\ stage \in [Targets -> Nat] /\ Created \in Nat /\ journal.items \subseteq Targets
      /\ active \in [Targets -> TargetRecords] /\ ops \in Nat /\ journal.op \in Nat
  BY NamedStages DEF TypeInv, TypeOK, JournalTypeOK, StoreTypeOK, CountTypeOK
<1>1. CASE NextLoop
  <2>1. /\ UNCHANGED <<journal, stage, fileOf, active, ops>> /\ todo = {} /\ pc # "idle"
    BY <1>1, FollowingLabels DEF NextLoop, OnlyRun, OnlyStage, stateVars, countVars
  <2>2. \A u \in journal.items : stage[u] >= Created
    BY <2>1 DEF TypeInv, FilesRecorded
  <2>3. GenerationsBounded' /\ RunHasJournal'
    BY <1>1, <2>1, NextLoopMoves DEF TypeInv, GenerationsBounded, RunHasJournal, HasJournal
  <2>4. FilesRecorded'
    BY <1>1, <2>1, <2>2, NextLoopMoves DEF TypeInv, FilesRecorded, CreateLabels
  <2>5. ASSUME SavedWhole PROVE SavedWhole'
    BY <2>5, <1>1, <2>1, NextLoopMoves DEF SavedWhole, Saved
  <2>6. QED BY <2>3, <2>4, <2>5 DEF TypeInv
<1>2. CASE Interrupt
  <2>1. \A u \in Targets : stage[u] <= stage[u]
    BY <1>b
  <2>2. Quiet
    BY <1>2, <2>1 DEF Interrupt, StopRun, Quiet, durable, journalVars, stateVars
  <2>3. QED BY <2>2, QuietKeepsInvariant
<1>3. CASE Resume
  <2>1. /\ UNCHANGED <<journal, stage, fileOf, active, ops>> /\ HasJournal
        /\ pc' = "create" /\ todo' = journal.items
    BY <1>3 DEF Resume, OnlyRun, OnlyStage, stateVars, countVars
  <2>2. GenerationsBounded' /\ RunHasJournal' /\ FilesRecorded'
    BY <2>1 DEF TypeInv, GenerationsBounded, RunHasJournal, HasJournal, FilesRecorded,
       CreateLabels
  <2>3. ASSUME SavedWhole PROVE SavedWhole'
    BY <2>3, <2>1 DEF SavedWhole, Saved
  <2>4. QED BY <2>2, <2>3 DEF TypeInv
<1>4. ASSUME NEW items \in SUBSET Targets, Start(items) PROVE TypeInv' /\ (SavedWhole => SavedWhole')
  <2>1. /\ journal'.op = ops + 1 /\ journal'.items = items /\ items # {}
        /\ journal'.gen = [t \in Targets |-> IF t \in items THEN active[t].gen + 1 ELSE 0]
        /\ UNCHANGED <<stage, fileOf, active>> /\ ops' = ops + 1 /\ ops < MaxOps
        /\ pc' = "create" /\ todo' = items
    BY <1>4 DEF Start, stateVars
  <2>2. \A t \in Targets : /\ active[t].gen \in Nat /\ active[t].op \in Nat
                           /\ active[t].gen <= ops /\ active[t].op <= ops
    BY <1>b DEF TypeInv, GenerationsBounded, TargetRecords
  <2>3. MaxOps \in Nat
    BY ConstantsOK
  <2>4. \A t \in items : journal'.gen[t] = active[t].gen + 1
    BY <2>1
  <2>5. GenerationsBounded'
    BY <1>b, <2>1, <2>2, <2>3, <2>4 DEF GenerationsBounded
  <2>6. RunHasJournal' /\ FilesRecorded'
    BY <1>b, <2>1 DEF TypeInv, RunHasJournal, HasJournal, FilesRecorded, CreateLabels
  <2>7. ASSUME SavedWhole PROVE SavedWhole'
    <3>1. ~Saved'
      BY <1>b, <2>1, <2>2 DEF Saved
    <3>2. QED BY <2>7, <2>1, <2>4, <3>1 DEF SavedWhole
  <2>8. QED BY <2>5, <2>6, <2>7 DEF TypeInv
<1>5. QED BY <1>1, <1>2, <1>3, <1>4

\* Late creates and reviewers keep it.
LEMMA EnvironmentKeepsInvariant ==
    ASSUME TypeInv, TypeOK', Environment \/ UNCHANGED vars
    PROVE  TypeInv' /\ (SavedWhole => SavedWhole')
<1>1. UNCHANGED <<durable, runVars, ops>>
  BY DEF Environment, CreateLands, ReviewerEdits, ReviewerTrashes, ReviewerActs, countVars,
     vars, durable
<1>2. UNCHANGED <<journal, stage, fileOf, active, pc, todo, got, ops>>
  BY <1>1 DEF durable, journalVars, stateVars, runVars
<1>3. QED
  BY <1>2 DEF TypeInv, GenerationsBounded, RunHasJournal, HasJournal, FilesRecorded,
     IsNext, SavedWhole, Saved

\* The invariant holds initially.
LEMMA InitInvariant == Init => IInv
<1> SUFFICES ASSUME Init PROVE IInv
  OBVIOUS
<1>1. NoManifest \in Manifests
  BY DEF NoManifest, Manifests, FileIds
<1>2. NoTarget \in TargetRecords /\ NoTarget.gen = 0 /\ NoTarget.op = 0
  BY <1>1 DEF NoTarget, TargetRecords, FileIds
<1>3. NoDocument \in Documents
  BY DEF NoDocument, Documents, FileIds
<1>4. JournalTypeOK
  BY <1>1, NamedStages DEF Init, NoJournal, JournalTypeOK, FileIds
<1>5. StoreTypeOK
  BY <1>1, <1>2 DEF Init, StoreTypeOK
<1>6. DocsTypeOK
  BY <1>3 DEF Init, DocsTypeOK
<1>7. RunTypeOK /\ CountTypeOK
  BY DEF Init, RunTypeOK, CountTypeOK, Labels, FileIds
<1>8. journal.op = 0 /\ journal.items = {}
  BY DEF Init, NoJournal
<1>9. GenerationsBounded /\ RunHasJournal /\ FilesRecorded
  BY <1>2, <1>8, ConstantsOK DEF Init, GenerationsBounded, RunHasJournal, HasJournal,
     FilesRecorded, Planned, Created
<1>10. SavedWhole
  BY <1>8 DEF Init, SavedWhole, Saved
<1>11. QED BY <1>4, <1>5, <1>6, <1>7, <1>9, <1>10 DEF IInv, TypeInv, TypeOK

\* Both layers are inductive, the first one by itself.
LEMMA NextLayers ==
    ASSUME TypeInv, [Next]_vars
    PROVE  TypeInv' /\ (SavedWhole => SavedWhole')
<1>a. TypeOK'
  BY NextTyped
<1>1. CASE RunStep
  <2>1. ASSUME NEW t \in Targets, LinksStep(t) \/ CaptureStep(t) \/ ReadyStep(t)
                                  \/ MoveStep(t) \/ SealStep(t)
        PROVE  TypeInv' /\ (SavedWhole => SavedWhole')
    BY <1>a, <2>1, LinksQuiet, CaptureQuiet, ReadyQuiet, MoveQuiet, SealQuiet,
       QuietKeepsInvariant
  <2>2. QED
    BY <1>1, <1>a, <2>1, CreateKeepsInvariant, CommitKeepsInvariant, OthersKeepInvariant
    DEF RunStep
<1>2. QED
  BY <1>1, <1>a, OthersKeepInvariant, EnvironmentKeepsInvariant DEF Next

\* The invariant is inductive.
LEMMA NextInvariant == IInv /\ [Next]_vars => IInv'
BY NextLayers DEF IInv

\* TypeOK and what makes it inductive hold in every reachable state, for any
\* number of targets, operations, failures and reviewer actions.
THEOREM InvariantHolds == Spec => []IInv
BY InitInvariant, NextInvariant, PTL DEF Spec

\* Every variable of the publisher keeps its type (TypeOK).
THEOREM TypeCorrect == Spec => []TypeOK
<1>1. IInv => TypeOK
  BY DEF IInv, TypeInv
<1>2. QED BY <1>1, InvariantHolds, PTL

-----------------------------------------------------------------------------
(* What follows from the invariant *)

\* Only a new operation, a save and the end of an operation touch the state
\* file or the identity of the journal.
LEMMA MostStepsKeepState ==
    ASSUME TypeInv, [Next]_vars, ~CommitSave, ~CommitClear,
           \A items \in SUBSET Targets : ~Start(items)
    PROVE  /\ UNCHANGED <<journal, active, prior>>
           /\ \A u \in Targets : stage[u] <= stage'[u]
<1>a. stage \in [Targets -> Stages]
  BY DEF TypeInv, TypeOK, JournalTypeOK
<1>b. \A u \in Targets : stage[u] \in Nat
  BY <1>a, NamedStages
<1>1. ASSUME NEW t \in Targets, LinksStep(t) \/ CaptureStep(t) \/ ReadyStep(t)
                                \/ MoveStep(t) \/ SealStep(t)
      PROVE  Quiet
  BY <1>a, <1>1, LinksQuiet, CaptureQuiet, ReadyQuiet, MoveQuiet, SealQuiet
<1>2. ASSUME NEW t \in Targets, CreateStep(t)
      PROVE  UNCHANGED <<journal, active, prior>> /\ \A u \in Targets : stage[u] <= stage'[u]
  <2>1. UNCHANGED <<journal, active, prior>>
    BY <1>2 DEF CreateStep, CreateBegin, Pass, LookupNone, LookupRefuse, LookupMatch, CreateIssue,
       CreateFail, CreateRecord, Refuse, OnlyRun, OnlyStage, OnlyDocs, durable, journalVars,
       stateVars
  <2>2. stage' = stage \/ Announce(t, Creating) \/ Advance(t, Created)
    BY <1>2 DEF CreateStep, CreateBegin, Pass, LookupNone, LookupRefuse, LookupMatch, CreateIssue,
       CreateFail, CreateRecord, Refuse, OnlyRun, OnlyDocs, durable, journalVars
  <2>3. Announce(t, Creating) \/ Advance(t, Created) => \A u \in Targets : stage[u] <= stage'[u]
    BY <1>a, StagesInOrder, NamedStages
  <2>4. stage' = stage => \A u \in Targets : stage[u] <= stage'[u]
    BY <1>b
  <2>5. QED BY <2>1, <2>2, <2>3, <2>4
<1>3. ASSUME NEW t \in Targets, CommitBegin(t) \/ CommitRecord(t)
      PROVE  UNCHANGED <<journal, active, prior>> /\ \A u \in Targets : stage[u] <= stage'[u]
  BY <1>a, <1>3, StagesInOrder, NamedStages DEF CommitBegin, CommitRecord, OnlyStage, stateVars
<1>4. CASE NextLoop \/ Resume \/ Interrupt \/ Environment \/ UNCHANGED vars
  <2>1. UNCHANGED <<journal, active, prior, stage>>
    BY <1>4 DEF NextLoop, Resume, Interrupt, Environment, CreateLands, ReviewerEdits,
       ReviewerTrashes, ReviewerActs, OnlyRun, OnlyStage, vars, durable, journalVars, stateVars
  <2>2. QED BY <1>b, <2>1
<1>5. CASE \E t \in Targets : LinksStep(t) \/ CaptureStep(t) \/ ReadyStep(t)
                                \/ MoveStep(t) \/ SealStep(t)
  BY <1>1, <1>5 DEF Quiet
<1>6. QED BY <1>2, <1>3, <1>4, <1>5 DEF Next, RunStep, CommitStep

\* A journal entry never goes back, and only a finished operation is cleared
\* (StagesOnlyAdvance).
THEOREM StagesOnlyAdvanceHolds == Spec => StagesOnlyAdvance
<1> DEFINE Step == \/ journal'.op = journal.op /\ \A t \in Targets : stage[t] <= stage'[t]
                   \/ ~HasJournal
                   \/ \A t \in journal.items : stage[t] = Committed /\ active[t].op = journal.op
<1>1. IInv /\ [Next]_vars => Step
  <2> SUFFICES ASSUME IInv, [Next]_vars PROVE Step
    OBVIOUS
  <2>1. CASE CommitClear
    BY <2>1 DEF CommitClear, IInv, SavedWhole
  <2>2. CASE CommitSave
    <3>1. UNCHANGED <<journal, stage>>
      BY <2>2 DEF CommitSave, SaveFrame, journalVars
    <3>2. \A t \in Targets : stage[t] \in Nat
      BY NamedStages DEF IInv, TypeInv, TypeOK, JournalTypeOK
    <3>3. QED BY <3>1, <3>2
  <2>3. CASE \E items \in SUBSET Targets : Start(items)
    BY <2>3 DEF Start
  <2>4. QED BY <2>1, <2>2, <2>3, MostStepsKeepState DEF IInv
<1>2. IInv /\ [Next]_vars => [Step]_vars
  BY <1>1
<1>3. QED BY <1>2, InvariantHolds, PTL DEF Spec, StagesOnlyAdvance

\* Showing the prior targets of a state file commutes with appending one.
LEMMA ShownAppend ==
    ASSUME NEW s \in Seq(TargetRecords), NEW r \in TargetRecords
    PROVE  [i \in 1..Len(Append(s, r)) |-> Shown(Append(s, r)[i])]
             = Append([i \in 1..Len(s) |-> Shown(s[i])], Shown(r))
<1> DEFINE left == [i \in 1..Len(Append(s, r)) |-> Shown(Append(s, r)[i])]
           base == [i \in 1..Len(s) |-> Shown(s[i])]
<1>1. /\ Len(s) \in Nat /\ Len(Append(s, r)) = Len(s) + 1
      /\ \A i \in 1..Len(s) : Append(s, r)[i] = s[i]
      /\ Append(s, r)[Len(s) + 1] = r
  OBVIOUS
<1>2. base \in Seq({Shown(s[i]) : i \in 1..Len(s)}) /\ Len(base) = Len(s)
  BY <1>1
<1>3. Append(base, Shown(r)) = [i \in 1..(Len(s) + 1) |-> IF i = Len(s) + 1 THEN Shown(r) ELSE base[i]]
  BY <1>1, <1>2
<1>4. QED BY <1>1, <1>3

\* A new operation is a batch begun.
LEMMA StartBegins ==
    ASSUME IInv, NEW items \in SUBSET Targets, Start(items)
    PROVE  Sets!Begin(items)
<1>1. journal.items = {} /\ items # {} /\ journal'.items = items
  BY DEF Start, IInv, TypeInv, RunHasJournal
<1>2. UNCHANGED <<active, prior>>
  BY DEF Start, stateVars
<1>3. ~Saved'
  <2>1. journal'.op = ops + 1 /\ ops \in Nat
    BY DEF Start, IInv, TypeInv, TypeOK, CountTypeOK
  <2>2. \A t \in items : active[t].op \in Nat /\ active[t].op <= ops
    BY DEF IInv, TypeInv, TypeOK, StoreTypeOK, TargetRecords, GenerationsBounded
  <2>3. QED BY <1>1, <1>2, <2>1, <2>2 DEF Saved
<1>4. QED BY <1>1, <1>2, <1>3 DEF Sets!Begin

\* The first save of an operation publishes its batch; a repeated one, after a
\* crash between the save and the end of the journal, changes nothing shown.
LEMMA SavePublishes ==
    ASSUME IInv, CommitSave
    PROVE  Sets!Publish \/ UNCHANGED Sets!vars
<1>1. /\ UNCHANGED <<journal, fileOf>> /\ pc = "save"
      /\ active' = [u \in Targets |-> IF u \in journal.items THEN NewTarget(u) ELSE active[u]]
      /\ prior' = [u \in Targets |->
            IF u \in journal.items /\ active[u] # NoTarget /\ active[u].op # journal.op
            THEN Append(prior[u], active[u]) ELSE prior[u]]
  BY DEF CommitSave, SaveFrame, SaveActive, journalVars
<1>2. /\ journal.items # {} /\ journal.items \subseteq Targets
      /\ active \in [Targets -> TargetRecords] /\ prior \in [Targets -> Seq(TargetRecords)]
      /\ \A u \in journal.items : fileOf[u] \in DocIds
  BY <1>1 DEF IInv, TypeInv, TypeOK, JournalTypeOK, StoreTypeOK, RunHasJournal, FilesRecorded,
     CreateLabels
<1>3. \A u \in journal.items : Shown(NewTarget(u)) = [file |-> fileOf[u], gen |-> journal.gen[u]]
  BY DEF Shown, NewTarget
<1>4. \A u \in Targets : Shown(active'[u]) = IF u \in journal.items
                                            THEN [file |-> fileOf[u], gen |-> journal.gen[u]]
                                            ELSE Shown(active[u])
  BY <1>1, <1>2, <1>3
<1>5. Saved'
  BY <1>1, <1>2 DEF Saved, NewTarget
<1>6. CASE Saved
  <2>1. \A u \in journal.items : active[u].op = journal.op /\ active[u].file = fileOf[u]
                                 /\ active[u].gen = journal.gen[u]
    BY <1>6 DEF IInv, SavedWhole
  <2>2. prior' = prior
    BY <1>1, <1>2, <2>1
  <2>3. \A u \in Targets : Shown(active'[u]) = Shown(active[u])
    BY <1>4, <2>1 DEF Shown
  <2>4. QED BY <1>1, <1>5, <1>6, <2>2, <2>3 DEF Sets!vars
<1>7. CASE ~Saved
  <2>1. \A u \in journal.items : active[u].op # journal.op /\ journal.gen[u] = active[u].gen + 1
    BY <1>7 DEF Saved, IInv, SavedWhole
  <2> DEFINE new == [u \in journal.items |-> fileOf[u]]
             shown == [u \in Targets |-> Shown(active[u])]
             showPrior(q) == [i \in 1..Len(q) |-> Shown(q[i])]
             past == [u \in Targets |-> showPrior(prior[u])]
  <2>2. new \in [journal.items -> DocIds]
    BY <1>2
  <2>3. \A u \in Targets : Shown(active'[u]) = IF u \in journal.items
                            THEN [file |-> new[u], gen |-> shown[u].gen + 1] ELSE shown[u]
    BY <1>2, <1>4, <2>1 DEF Shown
  <2>4. \A u \in Targets : shown[u] # Sets!Nothing <=> active[u] # NoTarget
    <3>1. ASSUME NEW u \in Targets, active[u] = NoTarget PROVE shown[u] = Sets!Nothing
      BY <3>1 DEF Shown, NoTarget, Sets!Nothing
    <3>2. ASSUME NEW u \in Targets, active[u] # NoTarget PROVE shown[u] # Sets!Nothing
      <4>1. active[u].gen >= 1
        BY <3>2 DEF IInv, SavedWhole
      <4>2. shown[u].gen # 0
        BY <1>2, <4>1 DEF Shown, TargetRecords
      <4>3. QED BY <4>2 DEF Sets!Nothing
    <3>3. QED BY <3>1, <3>2
  <2>5. \A u \in Targets : showPrior(prior'[u]) =
            IF u \in journal.items /\ shown[u] # Sets!Nothing THEN Append(past[u], shown[u])
            ELSE past[u]
    <3>1. ASSUME NEW u \in Targets
          PROVE  showPrior(Append(prior[u], active[u])) = Append(past[u], shown[u])
      BY <1>2, ShownAppend
    <3>2. \A u \in Targets : prior'[u] = IF u \in journal.items /\ shown[u] # Sets!Nothing
                                         THEN Append(prior[u], active[u]) ELSE prior[u]
      BY <1>1, <1>2, <2>1, <2>4
    <3> HIDE DEF shown
    <3>3. QED BY <3>1, <3>2
  <2>6. /\ journal.items # {} /\ ~Saved /\ Saved' /\ journal'.items = journal.items
    BY <1>1, <1>2, <1>5, <1>7
  <2>7. [u \in Targets |-> Shown(active'[u])] =
            [u \in Targets |-> IF u \in journal.items
                               THEN [file |-> new[u], gen |-> shown[u].gen + 1] ELSE shown[u]]
    BY <2>3
  <2>8. [u \in Targets |-> showPrior(prior'[u])] =
            [u \in Targets |-> IF u \in journal.items /\ shown[u] # Sets!Nothing
                               THEN Append(past[u], shown[u]) ELSE past[u]]
    BY <2>5
  <2> HIDE DEF new
  <2>9. QED BY <2>2, <2>6, <2>7, <2>8 DEF Sets!Publish
<1>8. QED BY <1>6, <1>7

\* Clearing the journal ends a batch that is published.
LEMMA ClearEnds ==
    ASSUME IInv, CommitClear
    PROVE  Sets!End
<1>1. Saved /\ journal.items # {}
  BY DEF CommitClear, IInv, SavedWhole, Saved
<1>2. journal'.items = {} /\ UNCHANGED <<active, prior>>
  BY DEF CommitClear, NoJournal, stateVars
<1>3. ~Saved'
  BY <1>2 DEF Saved
<1>4. QED BY <1>1, <1>2, <1>3 DEF Sets!End

\* The state file changes hands one whole review set at a time, keeps every
\* set it replaces, and does so once per operation (ImplementsReviewSets),
\* wherever runs are interrupted and however often they are repeated.
THEOREM PublisherImplementsReviewSets == Spec => ImplementsReviewSets
<1>1. Init => Sets!Init
  <2> SUFFICES ASSUME Init PROVE Sets!Init
    OBVIOUS
  <2>1. journal.items = {} /\ ~Saved
    BY DEF Init, NoJournal, Saved
  <2>2. [t \in Targets |-> Shown(active[t])] = [t \in Targets |-> Sets!Nothing]
    BY DEF Init, NoTarget, Shown, Sets!Nothing
  <2>3. [t \in Targets |-> [i \in 1..Len(prior[t]) |-> Shown(prior[t][i])]]
           = [t \in Targets |-> << >>]
    BY DEF Init
  <2>4. QED BY <2>1, <2>2, <2>3 DEF Sets!Init
<1>2. IInv /\ [Next]_vars => [Sets!Next]_(Sets!vars)
  <2> SUFFICES ASSUME IInv, [Next]_vars PROVE [Sets!Next]_(Sets!vars)
    OBVIOUS
  <2>1. CASE \E items \in SUBSET Targets : Start(items)
    BY <2>1, StartBegins DEF Sets!Next
  <2>2. CASE CommitSave
    BY <2>2, SavePublishes DEF Sets!Next
  <2>3. CASE CommitClear
    BY <2>3, ClearEnds DEF Sets!Next
  <2>4. CASE /\ ~CommitSave /\ ~CommitClear
             /\ \A items \in SUBSET Targets : ~Start(items)
    <3>1. UNCHANGED <<journal, active, prior>>
      BY <2>4, MostStepsKeepState DEF IInv
    <3>2. QED BY <3>1 DEF Sets!vars, Saved
  <2>5. QED BY <2>1, <2>2, <2>3, <2>4
<1>3. QED BY <1>1, <1>2, InvariantHolds, PTL DEF Spec, Sets!Spec, ImplementsReviewSets


-----------------------------------------------------------------------------
(* Where a run is *)

\* The loops of a run by number; a label belongs to one of them.
Phase ==
    IF pc = "idle" THEN 0
    ELSE IF pc \in CreateLabels THEN 1
    ELSE IF pc \in {"links", "readlinks", "updatelinks", "linksdone"} THEN 2
    ELSE IF pc \in {"capture", "snapshot", "captured"} THEN 3
    ELSE IF pc \in {"ready", "mark", "marked"} THEN 4
    ELSE IF pc \in {"move", "relocate", "moved", "final"} THEN 5
    ELSE IF pc \in {"seal", "activate", "sealed"} THEN 6
    ELSE IF pc = "committing" THEN 7
    ELSE 8

\* Entry t has been through the first k loops.
Through(t, k) ==
    /\ k >= 1 => stage[t] >= Created
    /\ k >= 2 => stage[t] >= LinksFixed
    /\ k >= 3 => (t \in ReviewPull => stage[t] >= ReviewCaptured)
    /\ k >= 4 => stage[t] >= Ready
    /\ k >= 5 => stage[t] >= Moved
    /\ k >= 6 => (t \in ReviewPull => stage[t] >= ReviewSealed)
    /\ k >= 7 => stage[t] >= Committing

\* A run has been through the loops before its own with all items, and
\* through its own with those that are no longer to do.
LoopsDone ==
    pc # "idle" =>
        \A t \in journal.items :
            /\ Through(t, Phase - 1)
            /\ t \notin todo => Through(t, Phase)

\* An entry is in a loop only when all entries have been through the ones
\* before, in this run or in an earlier one.
EntriesTogether ==
    /\ \A t \in Targets \ journal.items : stage[t] = Planned
    /\ \A t, u \in journal.items :
          /\ stage[t] >= FixingLinks => Through(u, 1)
          /\ stage[t] >= CapturingReview => Through(u, 2)
          /\ stage[t] >= MarkingReady => Through(u, 3)
          /\ stage[t] >= Moving => Through(u, 4)
          /\ stage[t] >= SealingReview => Through(u, 5)
          /\ stage[t] >= Committing => Through(u, 6)

\* Inside a loop the item at hand has its write-ahead stage.
ItemAnnounced ==
    /\ Phase \in {3, 6} => todo \subseteq ReviewPull
    /\ \A t \in todo : IsNext(t) =>
          /\ pc \in {"lookup", "issue", "record"} => stage[t] = Creating
          /\ pc \in {"readlinks", "updatelinks", "linksdone"} => stage[t] >= FixingLinks
          /\ pc \in {"snapshot", "captured"} => stage[t] >= CapturingReview
          /\ pc \in {"mark", "marked"} => stage[t] >= MarkingReady
          /\ pc \in {"relocate", "moved"} => stage[t] >= Moving
          /\ pc = "final" => stage[t] >= Moved
          /\ pc \in {"activate", "sealed"} => stage[t] >= SealingReview

Position == LoopsDone /\ EntriesTogether /\ ItemAnnounced

-----------------------------------------------------------------------------
(* What the documents are *)

Ours(d) == HasJournal /\ docs[d].op = journal.op

OperationsNumbered ==
    /\ HasJournal => journal.op = ops
    /\ \A d \in DocIds : docs[d].op <= ops /\ (docs[d].st = "absent" <=> docs[d].op = 0)

\* Whatever there is of a document of this operation was announced.
Announced ==
    \A d \in DocIds : Ours(d) =>
        LET t == docs[d].key IN
        /\ t \in journal.items /\ stage[t] >= Creating
        /\ (\E u \in journal.items : docs[d].link[u] \in DocIds) => stage[t] >= FixingLinks
        /\ docs[d].status = "ready" => stage[t] >= MarkingReady
        /\ docs[d].parent = "review" => stage[t] >= Moving

\* A link of such a document is a placeholder or leads to the batch's own
\* document, or outside the batch to the one known, unless it was removed.
LinksKnown ==
    \A d \in DocIds : Ours(d) =>
        \A u \in Targets :
            /\ u \in journal.items => docs[d].link[u] \in {NoDoc, Placeholder, fileOf[u]}
            /\ u \notin journal.items => docs[d].link[u] \in {NoDoc, journal.known[u]}

HasNoPlaceholder(d, t) == \A u \in Links[t] : docs[d].link[u] # Placeholder

\* What an entry's stage says has been done has been done.
EntriesTrue ==
    \A t \in Targets :
        /\ stage[t] < Created => fileOf[t] = NoDoc
        /\ stage[t] >= Created => /\ fileOf[t] \in DocIds /\ Mine(fileOf[t])
                                  /\ docs[fileOf[t]].key = t
        /\ stage[t] >= LinksFixed => HasNoPlaceholder(fileOf[t], t)
        /\ stage[t] >= Ready => docs[fileOf[t]].status = "ready"
        /\ stage[t] >= Moved => docs[fileOf[t]].parent = "review"

\* What a run knows of the item at hand before it records it.
ItemTrue ==
    \A t \in todo : IsNext(t) =>
        /\ pc = "record" => Mine(got) /\ docs[got].key = t
        /\ pc = "linksdone" => HasNoPlaceholder(fileOf[t], t)
        /\ pc = "marked" => docs[fileOf[t]].status = "ready"
        /\ pc = "moved" => docs[fileOf[t]].parent = "review"

DocsInv == OperationsNumbered /\ Announced /\ LinksKnown /\ EntriesTrue /\ ItemTrue

-----------------------------------------------------------------------------
(* Position is inductive *)

\* The stages by their order.
LEMMA StageOrder ==
    /\ Planned = 0 /\ Creating = 1 /\ Created = 2 /\ FixingLinks = 3 /\ LinksFixed = 4
    /\ CapturingReview = 5 /\ ReviewCaptured = 6 /\ MarkingReady = 7 /\ Ready = 8
    /\ Moving = 9 /\ Moved = 10 /\ SealingReview = 11 /\ ReviewSealed = 12
    /\ Committing = 13 /\ Committed = 14
BY DEF Planned, Creating, Created, FixingLinks, LinksFixed, CapturingReview,
       ReviewCaptured, MarkingReady, Ready, Moving, Moved, SealingReview,
       ReviewSealed, Committing, Committed

\* The stage of entry t is one that the first k loops can record.
Within(t, k) ==
    /\ k <= 1 => stage[t] < FixingLinks
    /\ k <= 2 => stage[t] < CapturingReview
    /\ k <= 3 => stage[t] < MarkingReady
    /\ k <= 4 => stage[t] < Moving
    /\ k <= 5 => stage[t] < SealingReview
    /\ k <= 6 => stage[t] < Committing

\* The labels at which a loop takes its next item.
LoopHeads == {"create", "links", "capture", "ready", "move", "seal", "committing", "committed"}

\* What ItemAnnounced says of item t.
AnnouncedAt(t) ==
    /\ pc \in {"lookup", "issue", "record"} => stage[t] = Creating
    /\ pc \in {"readlinks", "updatelinks", "linksdone"} => stage[t] >= FixingLinks
    /\ pc \in {"snapshot", "captured"} => stage[t] >= CapturingReview
    /\ pc \in {"mark", "marked"} => stage[t] >= MarkingReady
    /\ pc \in {"relocate", "moved"} => stage[t] >= Moving
    /\ pc = "final" => stage[t] >= Moved
    /\ pc \in {"activate", "sealed"} => stage[t] >= SealingReview

\* A step of a loop at item t: it records at most a stage of this loop for t,
\* and then stops, goes on with t, or is through with t.
LoopStep(t) ==
    /\ IsNext(t) /\ pc # "idle" /\ UNCHANGED journal
    /\ \A u \in Targets \ {t} : stage'[u] = stage[u]
    /\ stage[t] <= stage'[t]
    /\ stage' = stage \/ (Phase' = Phase /\ Within(t, Phase)')
    /\ \/ pc' = "idle"
       \/ Phase' = Phase /\ todo' = todo /\ AnnouncedAt(t)'
       \/ /\ Phase' = Phase /\ pc' \in LoopHeads
          /\ todo' = todo \ {t} /\ Through(t, Phase)'

\* A stage once recorded stays behind an entry, whatever it records next.
LEMMA StaysThrough ==
    ASSUME stage \in [Targets -> Stages], stage' \in [Targets -> Stages],
           NEW t \in Targets, stage[t] <= stage'[t], NEW k \in Nat, NEW j \in Nat, j <= k,
           Through(t, k)
    PROVE  Through(t, j) /\ Through(t, j)'
<1>1. stage[t] \in Nat /\ stage'[t] \in Nat
  BY NamedStages
<1>2. QED BY <1>1, StageOrder DEF Through

\* The phase is a number.
LEMMA PhaseNumber == Phase \in 0..8 /\ (Phase = 0 <=> pc = "idle")
BY DEF Phase

\* A step of a loop keeps Position.
LEMMA LoopKeepsPosition ==
    ASSUME TypeInv, TypeOK', Position, NEW t \in Targets, LoopStep(t)
    PROVE  Position'
<1>a. /\ stage \in [Targets -> Stages] /\ stage' \in [Targets -> Stages]
      /\ \A u \in Targets : stage[u] \in Nat /\ stage'[u] \in Nat
      /\ journal.items \subseteq Targets /\ journal'.items = journal.items
      /\ todo \subseteq journal.items /\ t \in todo
  BY NamedStages DEF TypeInv, TypeOK, JournalTypeOK, RunHasJournal, LoopStep, IsNext
<1>b. Phase \in 1..8 /\ Phase - 1 \in Nat /\ Phase \in Nat
  BY PhaseNumber DEF LoopStep
<1>c. \A u \in journal.items : stage[u] <= stage'[u]
  BY <1>a DEF LoopStep
<1>d. \A u \in journal.items : Through(u, Phase - 1)
  BY DEF Position, LoopsDone, LoopStep
<1>e. ASSUME NEW u \in journal.items, NEW k \in Nat, NEW j \in Nat, j <= k, Through(u, k)
      PROVE  Through(u, j) /\ Through(u, j)'
  BY <1>a, <1>c, <1>e, StaysThrough
<1>1. EntriesTogether'
  <2>1. \A u \in Targets \ journal.items : stage'[u] = Planned
    BY <1>a DEF Position, EntriesTogether, LoopStep
  <2>2. ASSUME NEW u \in journal.items, NEW v \in journal.items
        PROVE  /\ stage'[u] >= FixingLinks => Through(v, 1)'
               /\ stage'[u] >= CapturingReview => Through(v, 2)'
               /\ stage'[u] >= MarkingReady => Through(v, 3)'
               /\ stage'[u] >= Moving => Through(v, 4)'
               /\ stage'[u] >= SealingReview => Through(v, 5)'
               /\ stage'[u] >= Committing => Through(v, 6)'
    <3>0. 1 \in Nat /\ 2 \in Nat /\ 3 \in Nat /\ 4 \in Nat /\ 5 \in Nat /\ 6 \in Nat
      OBVIOUS
    <3>1. CASE stage'[u] = stage[u]
      <4>1. /\ stage[u] >= FixingLinks => Through(v, 1)
            /\ stage[u] >= CapturingReview => Through(v, 2)
            /\ stage[u] >= MarkingReady => Through(v, 3)
            /\ stage[u] >= Moving => Through(v, 4)
            /\ stage[u] >= SealingReview => Through(v, 5)
            /\ stage[u] >= Committing => Through(v, 6)
        BY <1>a DEF Position, EntriesTogether
      <4>2. \A k \in Nat : Through(v, k) => Through(v, k)'
        BY <1>e
      <4>3. QED BY <3>0, <3>1, <4>1, <4>2
    <3>2. CASE stage'[u] # stage[u]
      <4>1. u = t /\ Phase' = Phase /\ Within(t, Phase)'
        BY <1>a, <3>2 DEF LoopStep
      <4>2. /\ Phase <= 1 => stage'[t] < FixingLinks
            /\ Phase <= 2 => stage'[t] < CapturingReview
            /\ Phase <= 3 => stage'[t] < MarkingReady
            /\ Phase <= 4 => stage'[t] < Moving
            /\ Phase <= 5 => stage'[t] < SealingReview
            /\ Phase <= 6 => stage'[t] < Committing
        BY <4>1 DEF Within
      <4>3. \A k \in Nat : k <= Phase - 1 => Through(v, k)'
        BY <1>b, <1>d, <1>e
      <4>4. QED BY <1>a, <1>b, <3>0, <4>1, <4>2, <4>3, StageOrder
    <3>3. QED BY <3>1, <3>2
  <2>3. QED BY <1>a, <2>1, <2>2 DEF EntriesTogether
<1>2. LoopsDone'
  <2>1. CASE pc' = "idle"
    BY <2>1 DEF LoopsDone
  <2>2. CASE Phase' = Phase /\ todo' = todo
    <3>1. \A u \in journal.items : Through(u, Phase - 1)'
      BY <1>b, <1>d, <1>e, <2>2
    <3>2. \A u \in journal.items \ todo : Through(u, Phase)'
      <4>1. \A u \in journal.items \ todo : Through(u, Phase)
        BY DEF Position, LoopsDone, LoopStep
      <4>2. QED BY <1>b, <1>e, <2>2, <4>1
    <3>3. QED BY <1>a, <2>2, <3>1, <3>2 DEF LoopsDone
  <2>3. CASE Phase' = Phase /\ todo' = todo \ {t} /\ Through(t, Phase)'
    <3>1. \A u \in journal.items : Through(u, Phase - 1)'
      BY <1>b, <1>d, <1>e, <2>3
    <3>2. \A u \in journal.items \ todo : Through(u, Phase)'
      <4>1. \A u \in journal.items \ todo : Through(u, Phase)
        BY DEF Position, LoopsDone, LoopStep
      <4>2. QED BY <1>b, <1>e, <2>3, <4>1
    <3>3. QED BY <1>a, <2>3, <3>1, <3>2 DEF LoopsDone
  <2>4. QED BY <2>1, <2>2, <2>3 DEF LoopStep
<1>3. ItemAnnounced'
  <2>1. CASE pc' = "idle"
    <3>1. Phase' = 0
      BY <2>1 DEF Phase
    <3>2. QED BY <2>1, <3>1 DEF ItemAnnounced
  <2>2. CASE Phase' = Phase /\ todo' = todo /\ AnnouncedAt(t)'
    <3>1. \A u \in todo' : IsNext(u)' => u = t
      BY <1>a, <2>2, ConstantsOK DEF IsNext, LoopStep
    <3>2. QED
      BY <2>2, <3>1 DEF Position, ItemAnnounced, AnnouncedAt
  <2>3. CASE Phase' = Phase /\ pc' \in LoopHeads /\ todo' = todo \ {t}
    BY <2>3 DEF Position, ItemAnnounced, LoopHeads
  <2>4. QED BY <2>1, <2>2, <2>3 DEF LoopStep
<1>4. QED BY <1>1, <1>2, <1>3 DEF Position

\* What makes a step of a loop one: it stops, stays in the loop, or is through
\* with its item, and it records no stage or one of its loop.
LEMMA LoopStepKinds ==
    ASSUME TypeInv, TypeOK', NEW t \in Targets, NEW next \in Stages,
           Advance(t, next) \/ Announce(t, next) \/ UNCHANGED stage
    PROVE  /\ \A u \in Targets \ {t} : stage'[u] = stage[u]
           /\ stage[t] <= stage'[t]
           /\ stage' = stage \/ stage'[t] = next
           /\ Advance(t, next) => stage'[t] = next
           /\ Announce(t, next) => stage'[t] = IF stage[t] < next THEN next ELSE stage[t]
<1>0. stage'[t] \in Nat /\ next \in Nat
  BY NamedStages DEF TypeOK, JournalTypeOK
<1>1. stage \in [Targets -> Stages] /\ stage[t] \in Nat
  BY NamedStages DEF TypeInv, TypeOK, JournalTypeOK
<1>2. CASE UNCHANGED stage
  <2>1. Advance(t, next) => stage'[t] = next
    BY <1>1 DEF Advance
  <2>2. Announce(t, next) => stage'[t] = IF stage[t] < next THEN next ELSE stage[t]
    BY <1>1, <2>1 DEF Announce
  <2>3. QED BY <1>1, <1>2, <2>1, <2>2
<1>3. CASE Advance(t, next)
  <2>1. stage' = [stage EXCEPT ![t] = next] /\ stage'[t] = next
    BY <1>1, <1>3 DEF Advance
  <2>2. stage[t] <= next
    BY <1>1, <1>3, <2>1, StagesInOrder
  <2>3. QED BY <1>0, <1>1, <1>3, <2>1, <2>2 DEF Announce
<1>4. CASE Announce(t, next)
  BY <1>2, <1>3, <1>4 DEF Announce
<1>5. QED BY <1>2, <1>3, <1>4

\* A failed call of a loop keeps the loop and the item at hand.
LEMMA CallKinds ==
    ASSUME NEW label, CallFailed(label)
    PROVE  pc' = "idle" \/ (pc' = label /\ UNCHANGED todo)
BY DEF CallFailed, Goto, StopRun

\* The create loop is a loop.
LEMMA CreateLoops ==
    ASSUME TypeInv, TypeOK', Position, NEW t \in Targets, CreateStep(t)
    PROVE  LoopStep(t)
<1>a. /\ IsNext(t) /\ pc \in CreateLabels /\ UNCHANGED journal /\ TypeInv
      /\ Phase = 1 /\ pc # "idle"
  BY DEF CreateStep, CreateBegin, Pass, LookupNone, LookupRefuse, LookupMatch, CreateIssue,
     CreateFail, CreateRecord, Refuse, OnlyRun, OnlyStage, OnlyDocs, durable, journalVars,
     CreateLabels, Phase
<1>b. stage[t] \in Nat /\ t \in todo
  BY <1>a, NamedStages DEF TypeInv, TypeOK, JournalTypeOK, IsNext
<1>c. pc \in {"lookup", "issue", "record"} => stage[t] = Creating
  BY <1>a, <1>b DEF Position, ItemAnnounced
<1>1. CASE CreateBegin(t)
  <2>1. Announce(t, Creating) /\ stage[t] < Created /\ pc' = "lookup" /\ todo' = todo
    BY <1>1 DEF CreateBegin, Goto
  <2>2. stage'[t] = Creating
    BY <1>a, <1>b, <2>1, LoopStepKinds, NamedStages, StageOrder
  <2>3. Phase' = 1 /\ AnnouncedAt(t)' /\ Within(t, Phase)'
    BY <2>1, <2>2, StageOrder DEF Phase, CreateLabels, AnnouncedAt, Within
  <2>4. QED BY <1>a, <2>1, <2>3, LoopStepKinds, NamedStages DEF LoopStep
<1>2. CASE Pass("create", t, Created)
  <2>1. pc' = "create" /\ todo' = todo \ {t} /\ UNCHANGED stage /\ stage[t] >= Created
    BY <1>2 DEF Pass, ItemDone, OnlyRun
  <2>2. Phase' = 1 /\ Through(t, Phase)'
    BY <1>b, <2>1, StageOrder DEF Phase, CreateLabels, Through
  <2>3. QED BY <1>a, <2>1, <2>2, LoopStepKinds, NamedStages DEF LoopStep, LoopHeads
<1>3. CASE CreateRecord(t)
  <2>1. pc' = "create" /\ todo' = todo \ {t} /\ Advance(t, Created)
    BY <1>3 DEF CreateRecord, ItemDone
  <2>2. stage'[t] = Created
    BY <1>a, <1>b, <1>c, <1>3, <2>1 DEF Advance, TypeInv, TypeOK, JournalTypeOK
  <2>3. Phase' = 1 /\ Through(t, Phase)' /\ Within(t, Phase)'
    BY <2>1, <2>2, StageOrder DEF Phase, CreateLabels, Through, Within
  <2>4. QED BY <1>a, <2>1, <2>3, LoopStepKinds, NamedStages DEF LoopStep, LoopHeads
<1>4. CASE /\ pc \in {"lookup", "issue"} /\ UNCHANGED stage
           /\ pc' = "idle" \/ (pc' \in {"lookup", "issue", "record"} /\ todo' = todo)
  <2>1. pc' # "idle" => Phase' = 1 /\ AnnouncedAt(t)'
    BY <1>c, <1>4, StageOrder DEF Phase, CreateLabels, AnnouncedAt
  <2>2. QED BY <1>a, <1>4, <2>1, LoopStepKinds, NamedStages DEF LoopStep
<1>5. CASE \/ LookupNone(t) \/ LookupRefuse(t) \/ \E d \in DocIds : LookupMatch(t, d)
           \/ (\E d \in DocIds : CreateIssue(t, d)) \/ CreateFail(t)
  BY <1>4, <1>5 DEF LookupNone, LookupRefuse, LookupMatch, CreateIssue, CreateFail, Refuse,
     StopRun, Goto, OnlyRun, OnlyDocs, durable, journalVars
<1>6. QED BY <1>1, <1>2, <1>3, <1>5 DEF CreateStep

\* The link loop is a loop.
LEMMA LinksLoops ==
    ASSUME TypeInv, TypeOK', Position, NEW t \in Targets, LinksStep(t)
    PROVE  LoopStep(t)
<1>a. /\ IsNext(t) /\ pc \in {"links", "readlinks", "updatelinks", "linksdone"}
      /\ UNCHANGED journal /\ TypeInv /\ Phase = 2 /\ pc # "idle"
  BY DEF LinksStep, LinksBegin, Pass, LinksRead, LinksReadRefuse, LinksUpdate,
     LinksUpdateFail, LinksUpdateRefuse, LinksRecord, Refuse, OnlyRun, OnlyStage, OnlyDocs,
     durable, journalVars, CreateLabels, Phase
<1>b. stage[t] \in Nat /\ stage'[t] \in Nat /\ t \in todo /\ t \in journal.items
  BY <1>a, NamedStages DEF TypeInv, TypeOK, JournalTypeOK, IsNext, RunHasJournal
<1>c. Through(t, 1)
  BY <1>a, <1>b DEF Position, LoopsDone
<1>d. pc # "links" => stage[t] >= FixingLinks
  BY <1>a, <1>b DEF Position, ItemAnnounced
<1>1. CASE LinksBegin(t)
  <2>1. Announce(t, FixingLinks) /\ stage[t] < LinksFixed /\ pc' = "readlinks" /\ todo' = todo
    BY <1>1 DEF LinksBegin, Goto
  <2>2. stage'[t] = FixingLinks
    BY <1>a, <1>b, <2>1, LoopStepKinds, NamedStages, StageOrder
  <2>3. Phase' = 2 /\ AnnouncedAt(t)' /\ Within(t, Phase)'
    BY <2>1, <2>2, StageOrder DEF Phase, CreateLabels, AnnouncedAt, Within
  <2>4. QED BY <1>a, <2>1, <2>3, LoopStepKinds, NamedStages DEF LoopStep
<1>2. CASE Pass("links", t, LinksFixed)
  <2>1. pc' = "links" /\ todo' = todo \ {t} /\ UNCHANGED stage /\ stage[t] >= LinksFixed
    BY <1>2 DEF Pass, ItemDone, OnlyRun
  <2>2. Phase' = 2 /\ Through(t, Phase)'
    BY <1>b, <1>c, <2>1, StageOrder DEF Phase, CreateLabels, Through
  <2>3. QED BY <1>a, <2>1, <2>2, LoopStepKinds, NamedStages DEF LoopStep, LoopHeads
<1>3. CASE LinksRecord(t)
  <2>1. pc' = "links" /\ todo' = todo \ {t} /\ Advance(t, LinksFixed)
    BY <1>3 DEF LinksRecord, ItemDone
  <2>2. stage'[t] = LinksFixed
    BY <1>a, <2>1 DEF Advance, TypeInv, TypeOK, JournalTypeOK
  <2>3. Phase' = 2 /\ Through(t, Phase)' /\ Within(t, Phase)'
    BY <2>1, <2>2, StageOrder DEF Phase, CreateLabels, Through, Within
  <2>4. QED BY <1>a, <2>1, <2>3, LoopStepKinds, NamedStages DEF LoopStep, LoopHeads
<1>4. CASE /\ pc # "links" /\ UNCHANGED stage
           /\ pc' = "idle" \/ (pc' \in {"readlinks", "updatelinks", "linksdone"} /\ todo' = todo)
  <2>1. pc' # "idle" => Phase' = 2 /\ AnnouncedAt(t)'
    BY <1>d, <1>4, StageOrder DEF Phase, CreateLabels, AnnouncedAt
  <2>2. QED BY <1>a, <1>4, <2>1, LoopStepKinds, NamedStages DEF LoopStep
<1>5. CASE LinksRead(t) \/ LinksReadRefuse(t) \/ LinksUpdate(t) \/ LinksUpdateFail(t)
           \/ LinksUpdateRefuse(t)
  BY <1>4, <1>5, CallKinds DEF LinksRead, LinksReadRefuse, LinksUpdate, LinksUpdateFail,
     LinksUpdateRefuse, Refuse, StopRun, Goto, OnlyRun, OnlyDocs, durable, journalVars
<1>6. QED BY <1>1, <1>2, <1>3, <1>5 DEF LinksStep

\* Capturing the baselines is a loop.
LEMMA CaptureLoops ==
    ASSUME TypeInv, TypeOK', Position, NEW t \in Targets, CaptureStep(t)
    PROVE  LoopStep(t)
<1>a. /\ IsNext(t) /\ pc \in {"capture", "snapshot", "captured"}
      /\ UNCHANGED journal /\ TypeInv /\ Phase = 3 /\ pc # "idle"
  BY DEF CaptureStep, CaptureBegin, CaptureKnown, CaptureFound, CaptureWrite, CaptureRefuse,
     CaptureRecord, Pass, Refuse, OnlyRun, OnlyStage, journalVars, CreateLabels, Phase
<1>b. stage[t] \in Nat /\ stage'[t] \in Nat /\ t \in todo /\ t \in journal.items
  BY <1>a, NamedStages DEF TypeInv, TypeOK, JournalTypeOK, IsNext, RunHasJournal
<1>c. Through(t, 2)
  BY <1>a, <1>b DEF Position, LoopsDone
<1>d. pc # "capture" => stage[t] >= CapturingReview
  BY <1>a, <1>b DEF Position, ItemAnnounced
<1>1. CASE CaptureBegin(t)
  <2>1. Announce(t, CapturingReview) /\ stage[t] < ReviewCaptured /\ pc' = "snapshot" /\ todo' = todo
    BY <1>1 DEF CaptureBegin, Goto
  <2>2. stage'[t] = CapturingReview
    BY <1>a, <1>b, <2>1, LoopStepKinds, NamedStages, StageOrder
  <2>3. Phase' = 3 /\ AnnouncedAt(t)' /\ Within(t, Phase)'
    BY <2>1, <2>2, StageOrder DEF Phase, CreateLabels, AnnouncedAt, Within
  <2>4. QED BY <1>a, <2>1, <2>3, LoopStepKinds, NamedStages DEF LoopStep
<1>2. CASE CaptureKnown(t)
  <2>1. pc' = "capture" /\ todo' = todo \ {t} /\ UNCHANGED stage /\ stage[t] >= ReviewCaptured
    BY <1>2 DEF CaptureKnown, Pass, ItemDone, OnlyRun
  <2>2. Phase' = 3 /\ Through(t, Phase)'
    BY <1>b, <1>c, <2>1, StageOrder DEF Phase, CreateLabels, Through
  <2>3. QED BY <1>a, <2>1, <2>2, LoopStepKinds, NamedStages DEF LoopStep, LoopHeads
<1>3. CASE CaptureRecord(t)
  <2>1. pc' = "capture" /\ todo' = todo \ {t} /\ Advance(t, ReviewCaptured)
    BY <1>3 DEF CaptureRecord, ItemDone
  <2>2. stage'[t] = ReviewCaptured
    BY <1>a, <2>1 DEF Advance, TypeInv, TypeOK, JournalTypeOK
  <2>3. Phase' = 3 /\ Through(t, Phase)' /\ Within(t, Phase)'
    BY <2>1, <2>2, StageOrder DEF Phase, CreateLabels, Through, Within
  <2>4. QED BY <1>a, <2>1, <2>3, LoopStepKinds, NamedStages DEF LoopStep, LoopHeads
<1>4. CASE CaptureFound(t) \/ CaptureWrite(t) \/ CaptureRefuse(t)
  <2>1. /\ pc # "capture" /\ UNCHANGED stage
        /\ pc' = "idle" \/ (pc' = "captured" /\ todo' = todo)
    BY <1>4 DEF CaptureFound, CaptureWrite, CaptureRefuse, Refuse, StopRun, Goto, OnlyRun,
       journalVars
  <2>2. pc' # "idle" => Phase' = 3 /\ AnnouncedAt(t)'
    BY <1>d, <2>1, StageOrder DEF Phase, CreateLabels, AnnouncedAt
  <2>3. QED BY <1>a, <2>1, <2>2, LoopStepKinds, NamedStages DEF LoopStep
<1>5. QED BY <1>1, <1>2, <1>3, <1>4 DEF CaptureStep

\* Marking the documents ready is a loop.
LEMMA ReadyLoops ==
    ASSUME TypeInv, TypeOK', Position, NEW t \in Targets, ReadyStep(t)
    PROVE  LoopStep(t)
<1>a. /\ IsNext(t) /\ pc \in {"ready", "mark", "marked"}
      /\ UNCHANGED journal /\ TypeInv /\ Phase = 4 /\ pc # "idle"
  BY DEF ReadyStep, ReadyBegin, Pass, ReadyMark, ReadyFail, ReadyRecord, OnlyRun, OnlyStage,
     OnlyDocs, durable, journalVars, CreateLabels, Phase
<1>b. stage[t] \in Nat /\ stage'[t] \in Nat /\ t \in todo /\ t \in journal.items
  BY <1>a, NamedStages DEF TypeInv, TypeOK, JournalTypeOK, IsNext, RunHasJournal
<1>c. Through(t, 3)
  BY <1>a, <1>b DEF Position, LoopsDone
<1>d. pc # "ready" => stage[t] >= MarkingReady
  BY <1>a, <1>b DEF Position, ItemAnnounced
<1>1. CASE ReadyBegin(t)
  <2>1. Announce(t, MarkingReady) /\ stage[t] < Ready /\ pc' = "mark" /\ todo' = todo
    BY <1>1 DEF ReadyBegin, Goto
  <2>2. stage'[t] = MarkingReady
    BY <1>a, <1>b, <2>1, LoopStepKinds, NamedStages, StageOrder
  <2>3. Phase' = 4 /\ AnnouncedAt(t)' /\ Within(t, Phase)'
    BY <2>1, <2>2, StageOrder DEF Phase, CreateLabels, AnnouncedAt, Within
  <2>4. QED BY <1>a, <2>1, <2>3, LoopStepKinds, NamedStages DEF LoopStep
<1>2. CASE Pass("ready", t, Ready)
  <2>1. pc' = "ready" /\ todo' = todo \ {t} /\ UNCHANGED stage /\ stage[t] >= Ready
    BY <1>2 DEF Pass, ItemDone, OnlyRun
  <2>2. Phase' = 4 /\ Through(t, Phase)'
    BY <1>b, <1>c, <2>1, StageOrder DEF Phase, CreateLabels, Through
  <2>3. QED BY <1>a, <2>1, <2>2, LoopStepKinds, NamedStages DEF LoopStep, LoopHeads
<1>3. CASE ReadyRecord(t)
  <2>1. pc' = "ready" /\ todo' = todo \ {t} /\ Advance(t, Ready)
    BY <1>3 DEF ReadyRecord, ItemDone
  <2>2. stage'[t] = Ready
    BY <1>a, <2>1 DEF Advance, TypeInv, TypeOK, JournalTypeOK
  <2>3. Phase' = 4 /\ Through(t, Phase)' /\ Within(t, Phase)'
    BY <2>1, <2>2, StageOrder DEF Phase, CreateLabels, Through, Within
  <2>4. QED BY <1>a, <2>1, <2>3, LoopStepKinds, NamedStages DEF LoopStep, LoopHeads
<1>4. CASE ReadyMark(t) \/ ReadyFail(t)
  <2>1. /\ pc # "ready" /\ UNCHANGED stage
        /\ pc' = "idle" \/ (pc' \in {"mark", "marked"} /\ todo' = todo)
    BY <1>4, CallKinds DEF ReadyMark, ReadyFail, Goto, OnlyDocs, durable, journalVars
  <2>2. pc' # "idle" => Phase' = 4 /\ AnnouncedAt(t)'
    BY <1>d, <2>1, StageOrder DEF Phase, CreateLabels, AnnouncedAt
  <2>3. QED BY <1>a, <2>1, <2>2, LoopStepKinds, NamedStages DEF LoopStep
<1>5. QED BY <1>1, <1>2, <1>3, <1>4 DEF ReadyStep

\* Moving the documents is a loop.
LEMMA MoveLoops ==
    ASSUME TypeInv, TypeOK', Position, NEW t \in Targets, MoveStep(t)
    PROVE  LoopStep(t)
<1>a. /\ IsNext(t) /\ pc \in {"move", "relocate", "moved", "final"}
      /\ UNCHANGED journal /\ TypeInv /\ Phase = 5 /\ pc # "idle"
  BY DEF MoveStep, MoveBegin, MoveKnown, MoveRelocate, MoveFail, MoveRecord, MoveFinalRead,
     OnlyRun, OnlyStage, OnlyDocs, durable, journalVars, CreateLabels, Phase
<1>b. stage[t] \in Nat /\ stage'[t] \in Nat /\ t \in todo /\ t \in journal.items
  BY <1>a, NamedStages DEF TypeInv, TypeOK, JournalTypeOK, IsNext, RunHasJournal
<1>c. /\ pc \in {"relocate", "moved"} => stage[t] >= Moving
      /\ pc = "final" => stage[t] >= Moved
  BY <1>a, <1>b DEF Position, ItemAnnounced
<1>1. CASE MoveBegin(t)
  <2>1. Announce(t, Moving) /\ stage[t] < Moved /\ pc' = "relocate" /\ todo' = todo
    BY <1>1 DEF MoveBegin, Goto
  <2>2. stage'[t] = Moving
    BY <1>a, <1>b, <2>1, LoopStepKinds, NamedStages, StageOrder
  <2>3. Phase' = 5 /\ AnnouncedAt(t)' /\ Within(t, Phase)'
    BY <2>1, <2>2, StageOrder DEF Phase, CreateLabels, AnnouncedAt, Within
  <2>4. QED BY <1>a, <2>1, <2>3, LoopStepKinds, NamedStages DEF LoopStep
<1>2. CASE MoveRecord(t)
  <2>1. pc' = "final" /\ todo' = todo /\ Advance(t, Moved)
    BY <1>2 DEF MoveRecord, Goto
  <2>2. stage'[t] = Moved
    BY <1>a, <2>1 DEF Advance, TypeInv, TypeOK, JournalTypeOK
  <2>3. Phase' = 5 /\ AnnouncedAt(t)' /\ Within(t, Phase)'
    BY <2>1, <2>2, StageOrder DEF Phase, CreateLabels, AnnouncedAt, Within
  <2>4. QED BY <1>a, <2>1, <2>3, LoopStepKinds, NamedStages DEF LoopStep
<1>3. CASE MoveFinalRead(t)
  <2>1. pc' = "move" /\ todo' = todo \ {t} /\ UNCHANGED stage /\ stage[t] >= Moved
    BY <1>c, <1>3 DEF MoveFinalRead, ItemDone, OnlyRun
  <2>2. Phase' = 5 /\ Through(t, Phase)'
    BY <1>b, <2>1, StageOrder DEF Phase, CreateLabels, Through
  <2>3. QED BY <1>a, <2>1, <2>2, LoopStepKinds, NamedStages DEF LoopStep, LoopHeads
<1>4. CASE MoveKnown(t) \/ MoveRelocate(t) \/ MoveFail(t)
  <2>1. /\ UNCHANGED stage
        /\ \/ pc' = "idle"
           \/ pc = "relocate" /\ pc' \in {"relocate", "moved"} /\ todo' = todo
           \/ pc' = "final" /\ stage[t] >= Moved /\ todo' = todo
    BY <1>4, CallKinds DEF MoveKnown, MoveRelocate, MoveFail, Goto, OnlyRun, OnlyDocs, durable,
       journalVars
  <2>2. pc' # "idle" => Phase' = 5 /\ AnnouncedAt(t)'
    BY <1>c, <2>1, StageOrder DEF Phase, CreateLabels, AnnouncedAt
  <2>3. QED BY <1>a, <2>1, <2>2, LoopStepKinds, NamedStages DEF LoopStep
<1>5. QED BY <1>1, <1>2, <1>3, <1>4 DEF MoveStep

\* Sealing the baselines is a loop.
LEMMA SealLoops ==
    ASSUME TypeInv, TypeOK', Position, NEW t \in Targets, SealStep(t)
    PROVE  LoopStep(t)
<1>a. /\ IsNext(t) /\ pc \in {"seal", "activate", "sealed"}
      /\ UNCHANGED journal /\ TypeInv /\ Phase = 6 /\ pc # "idle"
  BY DEF SealStep, SealBegin, SealWrite, SealFound, SealRefuse, SealRecord, SealKnown,
     Refuse, OnlyRun, OnlyStage, journalVars, CreateLabels, Phase
<1>b. stage[t] \in Nat /\ stage'[t] \in Nat /\ t \in todo /\ t \in journal.items
  BY <1>a, NamedStages DEF TypeInv, TypeOK, JournalTypeOK, IsNext, RunHasJournal
<1>c. Through(t, 5)
  BY <1>a, <1>b DEF Position, LoopsDone
<1>d. pc # "seal" => stage[t] >= SealingReview
  BY <1>a, <1>b DEF Position, ItemAnnounced
<1>1. CASE SealBegin(t)
  <2>1. Announce(t, SealingReview) /\ pc' = "activate" /\ todo' = todo
    BY <1>1 DEF SealBegin, Goto
  <2>2. /\ stage'[t] >= SealingReview
        /\ stage' = stage \/ stage'[t] = SealingReview
    BY <1>a, <1>b, <2>1, LoopStepKinds, NamedStages, StageOrder
  <2>3. Phase' = 6 /\ AnnouncedAt(t)' /\ (stage' = stage \/ Within(t, Phase)')
    BY <2>1, <2>2, StageOrder DEF Phase, CreateLabels, AnnouncedAt, Within
  <2>4. QED BY <1>a, <2>1, <2>3, LoopStepKinds, NamedStages DEF LoopStep
<1>2. CASE SealKnown(t)
  <2>1. pc' = "seal" /\ todo' = todo \ {t} /\ UNCHANGED stage /\ stage[t] >= ReviewSealed
    BY <1>2 DEF SealKnown, ItemDone, OnlyRun
  <2>2. Phase' = 6 /\ Through(t, Phase)'
    BY <1>b, <1>c, <2>1, StageOrder DEF Phase, CreateLabels, Through
  <2>3. QED BY <1>a, <2>1, <2>2, LoopStepKinds, NamedStages DEF LoopStep, LoopHeads
<1>3. CASE SealRecord(t)
  <2>1. pc' = "seal" /\ todo' = todo \ {t} /\ Advance(t, ReviewSealed)
    BY <1>3 DEF SealRecord, ItemDone
  <2>2. stage'[t] = ReviewSealed
    BY <1>a, <2>1 DEF Advance, TypeInv, TypeOK, JournalTypeOK
  <2>3. Phase' = 6 /\ Through(t, Phase)' /\ Within(t, Phase)'
    BY <2>1, <2>2, StageOrder DEF Phase, CreateLabels, Through, Within
  <2>4. QED BY <1>a, <2>1, <2>3, LoopStepKinds, NamedStages DEF LoopStep, LoopHeads
<1>4. CASE SealWrite(t) \/ SealFound(t) \/ SealRefuse(t)
  <2>1. /\ pc # "seal" /\ UNCHANGED stage
        /\ pc' = "idle" \/ (pc' = "sealed" /\ todo' = todo)
    BY <1>4 DEF SealWrite, SealFound, SealRefuse, Refuse, StopRun, Goto, OnlyRun, journalVars
  <2>2. pc' # "idle" => Phase' = 6 /\ AnnouncedAt(t)'
    BY <1>d, <2>1, StageOrder DEF Phase, CreateLabels, AnnouncedAt
  <2>3. QED BY <1>a, <2>1, <2>2, LoopStepKinds, NamedStages DEF LoopStep
<1>5. QED BY <1>1, <1>2, <1>3, <1>4 DEF SealStep

\* The two commit loops are loops.
LEMMA CommitLoops ==
    ASSUME TypeInv, TypeOK', Position, NEW t \in Targets, CommitBegin(t) \/ CommitRecord(t)
    PROVE  LoopStep(t)
<1>a. IsNext(t) /\ pc \in {"committing", "committed"} /\ UNCHANGED journal /\ TypeInv
  BY DEF CommitBegin, CommitRecord, OnlyStage
<1>b. stage[t] \in Nat /\ stage'[t] \in Nat /\ t \in todo /\ t \in journal.items
  BY <1>a, NamedStages DEF TypeInv, TypeOK, JournalTypeOK, IsNext, RunHasJournal
<1>1. CASE CommitBegin(t)
  <2>1. /\ pc = "committing" /\ pc' = "committing" /\ todo' = todo \ {t}
        /\ Announce(t, Committing)
    BY <1>1 DEF CommitBegin, ItemDone
  <2>2. stage'[t] >= Committing
    BY <1>a, <1>b, <2>1, LoopStepKinds, NamedStages, StageOrder
  <2>3. Phase = 7 /\ Phase' = 7 /\ Through(t, Phase)' /\ Within(t, Phase)'
    BY <1>b, <2>1, <2>2, StageOrder DEF Phase, CreateLabels, Through, Within
  <2>4. QED BY <1>a, <2>1, <2>3, LoopStepKinds, NamedStages DEF LoopStep, LoopHeads
<1>2. CASE CommitRecord(t)
  <2>1. /\ pc = "committed" /\ pc' = "committed" /\ todo' = todo \ {t}
        /\ Announce(t, Committed)
    BY <1>2 DEF CommitRecord, ItemDone
  <2>2. stage'[t] >= Committed
    BY <1>a, <1>b, <2>1, LoopStepKinds, NamedStages, StageOrder
  <2>3. Phase = 8 /\ Phase' = 8 /\ Through(t, Phase)' /\ Within(t, Phase)'
    BY <1>b, <2>1, <2>2, StageOrder DEF Phase, CreateLabels, Through, Within
  <2>4. QED BY <1>a, <2>1, <2>3, LoopStepKinds, NamedStages DEF LoopStep, LoopHeads
<1>3. QED BY <1>1, <1>2

\* The next loop starts with all entries through the loop that ended.
LEMMA NextLoopKeepsPosition ==
    ASSUME TypeInv, Position, NextLoop
    PROVE  Position'
<1>a. /\ pc \in DOMAIN Following /\ todo = {} /\ pc' = Following[pc]
      /\ todo' = LoopItems(pc') /\ UNCHANGED <<journal, stage>>
      /\ pc \in {"create", "links", "capture", "ready", "move", "seal", "committing", "committed"}
  BY DEF NextLoop, OnlyRun, OnlyStage, Following
<1>b. /\ \A u \in journal.items : stage[u] \in Nat
      /\ journal.items \subseteq Targets
  BY NamedStages DEF TypeInv, TypeOK, JournalTypeOK
<1>c. \A u \in journal.items : Through(u, Phase)
  BY <1>a DEF Position, LoopsDone
<1>1. /\ pc = "create"     => Phase = 1 /\ Phase' = 2 /\ pc' = "links"
      /\ pc = "links"      => Phase = 2 /\ Phase' = 3 /\ pc' = "capture"
      /\ pc = "capture"    => Phase = 3 /\ Phase' = 4 /\ pc' = "ready"
      /\ pc = "ready"      => Phase = 4 /\ Phase' = 5 /\ pc' = "move"
      /\ pc = "move"       => Phase = 5 /\ Phase' = 6 /\ pc' = "seal"
      /\ pc = "seal"       => Phase = 6 /\ Phase' = 7 /\ pc' = "committing"
      /\ pc = "committing" => Phase = 7 /\ Phase' = 8 /\ pc' = "save"
      /\ pc = "committed"  => Phase = 8 /\ Phase' = 8 /\ pc' = "clear"
  BY <1>a DEF Phase, CreateLabels, Following
<1>2. /\ pc' \in {"links", "ready", "move", "committing"} => todo' = journal.items
      /\ pc' \in {"capture", "seal"} => todo' = journal.items \cap ReviewPull
  <2>1. ASSUME pc' \in {"capture", "seal"} PROVE LoopItems(pc') = journal.items \cap ReviewPull
    BY <2>1 DEF LoopItems
  <2>2. ASSUME pc' \in {"links", "ready", "move", "committing"} PROVE LoopItems(pc') = journal.items
    BY <2>2 DEF LoopItems
  <2>3. QED BY <1>a, <2>1, <2>2
<1>3. EntriesTogether'
  BY <1>a DEF Position, EntriesTogether, Through
<1>4. ItemAnnounced'
  <2>1. Phase' \in {3, 6} => todo' \subseteq ReviewPull
    BY <1>a, <1>1, <1>2
  <2>2. QED BY <1>a, <1>1, <2>1 DEF ItemAnnounced
<1>5. LoopsDone'
  <2>1. ASSUME NEW u \in journal.items
        PROVE  Through(u, Phase - 1)' /\ (u \notin todo' => Through(u, Phase)')
    BY <1>a, <1>b, <1>c, <1>1, <1>2, <2>1, StageOrder DEF Through
  <2>2. QED BY <1>a, <2>1 DEF LoopsDone
<1>6. QED BY <1>3, <1>4, <1>5 DEF Position

\* Position holds initially.
LEMMA InitPosition == Init => Position
BY StageOrder DEF Init, NoJournal, Position, LoopsDone, EntriesTogether, ItemAnnounced, Phase

\* Position is inductive relative to the first invariant.
LEMMA NextPosition ==
    ASSUME TypeInv, TypeInv', Position, [Next]_vars
    PROVE  Position'
<1>a. TypeInv /\ TypeOK'
  BY DEF TypeInv
<1>1. ASSUME NEW t \in Targets, \/ CreateStep(t) \/ LinksStep(t) \/ CaptureStep(t)
                                \/ ReadyStep(t) \/ MoveStep(t) \/ SealStep(t)
                                \/ CommitBegin(t) \/ CommitRecord(t)
      PROVE  Position'
  BY <1>a, <1>1, CreateLoops, LinksLoops, CaptureLoops, ReadyLoops, MoveLoops, SealLoops,
     CommitLoops, LoopKeepsPosition
<1>2. CASE NextLoop
  BY <1>a, <1>2, NextLoopKeepsPosition
<1>3. CASE CommitSave
  <2>1. /\ pc = "save" /\ pc' = "committed" /\ todo' = journal.items
        /\ UNCHANGED <<journal, stage>>
    BY <1>3 DEF CommitSave, SaveFrame, journalVars
  <2>2. Phase = 8 /\ Phase' = 8
    BY <2>1 DEF Phase, CreateLabels
  <2>3. \A u \in journal.items : Through(u, Phase - 1)
    BY <2>1 DEF Position, LoopsDone
  <2>4. \A u \in journal.items : Through(u, Phase - 1)'
    BY <2>1, <2>2, <2>3 DEF Through
  <2>5. LoopsDone'
    BY <2>1, <2>4 DEF LoopsDone
  <2>6. EntriesTogether'
    BY <2>1 DEF Position, EntriesTogether, Through
  <2>7. ItemAnnounced'
    BY <2>1, <2>2 DEF ItemAnnounced
  <2>8. QED BY <2>5, <2>6, <2>7 DEF Position
<1>4. CASE CommitClear
  <2>1. /\ journal'.items = {} /\ stage' = [t \in Targets |-> Planned] /\ pc' = "idle"
        /\ todo' = {}
    BY <1>4 DEF CommitClear, NoJournal, StopRun
  <2>2. QED BY <2>1 DEF Position, LoopsDone, EntriesTogether, ItemAnnounced, Phase
<1>5. ASSUME NEW items \in SUBSET Targets, Start(items) PROVE Position'
  <2>1. /\ journal.items = {} /\ journal'.items = items /\ UNCHANGED stage
        /\ pc' = "create" /\ todo' = items
    BY <1>5 DEF Start, TypeInv, RunHasJournal
  <2>2. \A u \in Targets : stage'[u] = Planned
    BY <2>1 DEF Position, EntriesTogether
  <2>3. Phase' = 1
    BY <2>1 DEF Phase, CreateLabels
  <2>4. QED BY <2>1, <2>2, <2>3, StageOrder
            DEF Position, LoopsDone, EntriesTogether, ItemAnnounced, Through
<1>6. CASE Resume
  <2>1. /\ UNCHANGED <<journal, stage>> /\ pc' = "create" /\ todo' = journal.items
    BY <1>6 DEF Resume, OnlyRun, OnlyStage
  <2>2. Phase' = 1
    BY <2>1 DEF Phase, CreateLabels
  <2>3. QED BY <2>1, <2>2 DEF Position, LoopsDone, EntriesTogether, ItemAnnounced, Through
<1>7. CASE Interrupt
  <2>1. UNCHANGED <<journal, stage>> /\ pc' = "idle" /\ todo' = {}
    BY <1>7 DEF Interrupt, StopRun, durable, journalVars
  <2>2. QED BY <2>1 DEF Position, LoopsDone, EntriesTogether, ItemAnnounced, Phase, Through
<1>8. CASE Environment \/ UNCHANGED vars
  <2>1. UNCHANGED <<journal, stage, pc, todo>>
    BY <1>8 DEF Environment, CreateLands, ReviewerEdits, ReviewerTrashes, ReviewerActs, vars,
       durable, journalVars, runVars
  <2>2. Phase' = Phase
    BY <2>1 DEF Phase
  <2>3. QED
    BY <2>1, <2>2 DEF Position, LoopsDone, EntriesTogether, ItemAnnounced, Through, IsNext
<1>9. QED
  BY <1>1, <1>2, <1>3, <1>4, <1>5, <1>6, <1>7, <1>8 DEF Next, RunStep, CommitStep

-----------------------------------------------------------------------------
(* DocsInv is inductive *)

\* A step that touches no document keeps DocsInv when what an entry newly
\* claims is so.
LEMMA ClaimsKeepDocs ==
    ASSUME TypeInv, TypeOK', DocsInv, UNCHANGED <<journal, fileOf, docs, ops>>,
           \A u \in Targets :
               /\ stage[u] <= stage'[u]
               /\ stage'[u] >= Created => stage[u] >= Created
               /\ stage'[u] >= LinksFixed =>
                     stage[u] >= LinksFixed \/ HasNoPlaceholder(fileOf[u], u)
               /\ stage'[u] >= Ready => stage[u] >= Ready \/ docs[fileOf[u]].status = "ready"
               /\ stage'[u] >= Moved => stage[u] >= Moved \/ docs[fileOf[u]].parent = "review",
           ItemTrue'
    PROVE  DocsInv'
<1>a. /\ \A u \in Targets : stage[u] \in Nat /\ stage'[u] \in Nat
      /\ journal.items \subseteq Targets
  BY NamedStages DEF TypeInv, TypeOK, JournalTypeOK
<1>1. OperationsNumbered'
  BY DEF DocsInv, OperationsNumbered, HasJournal
<1>2. Announced'
  BY <1>a, StageOrder DEF DocsInv, Announced, Ours, HasJournal
<1>3. LinksKnown'
  BY DEF DocsInv, LinksKnown, Ours, HasJournal
<1>4. EntriesTrue'
  BY <1>a, StageOrder DEF DocsInv, EntriesTrue, Mine, Visible, HasJournal, HasNoPlaceholder
<1>5. QED BY <1>1, <1>2, <1>3, <1>4 DEF DocsInv

\* How a document of Google changes once it is there: it stays there, it keeps
\* its identity, what it gains was announced, and a link is only ever removed
\* or, from its placeholder, set to the batch's own document.
Evolves(d) ==
    /\ docs'[d].op = docs[d].op /\ docs'[d].key = docs[d].key
    /\ Visible(d) => docs'[d].st \in {"live", "trashed"}
    /\ docs'[d].st = "absent" <=> docs[d].st = "absent"
    /\ \/ docs'[d].status = docs[d].status
       \/ docs'[d].status = "ready" /\ (Ours(d) => stage[docs[d].key] >= MarkingReady)
    /\ \/ docs'[d].parent = docs[d].parent
       \/ docs'[d].parent = "review" /\ (Ours(d) => stage[docs[d].key] >= Moving)
    /\ \A u \in Targets :
          \/ docs'[d].link[u] \in {docs[d].link[u], NoDoc}
          \/ /\ Ours(d) /\ u \in journal.items /\ stage[docs[d].key] >= FixingLinks
             /\ docs'[d].link[u] = fileOf[u] /\ fileOf[u] \in DocIds

\* A document without placeholder stays without.
LEMMA NoNewPlaceholder ==
    ASSUME NEW d, Evolves(d), NEW t \in Targets, HasNoPlaceholder(d, t)
    PROVE  HasNoPlaceholder(d, t)'
<1>1. \A u \in Links[t] : u \in Targets
  BY ConstantsOK
<1>2. QED BY <1>1, ConstantsOK DEF Evolves, HasNoPlaceholder

\* A step in which every document evolves keeps DocsInv.
LEMMA EvolvingKeepsDocs ==
    ASSUME TypeInv, TypeOK', DocsInv, UNCHANGED <<journal, stage, fileOf, ops>>,
           \A d \in DocIds : Evolves(d), ItemTrue'
    PROVE  DocsInv'
<1>a. /\ \A u \in Targets : stage[u] \in Nat
      /\ journal.items \subseteq Targets
  BY NamedStages DEF TypeInv, TypeOK, JournalTypeOK
<1>b. \A d \in DocIds : Ours(d)' <=> Ours(d)
  BY DEF Ours, HasJournal, Evolves
<1>1. OperationsNumbered'
  BY DEF DocsInv, OperationsNumbered, HasJournal, Evolves
<1>2. Announced'
  <2>1. ASSUME NEW d \in DocIds, Ours(d)
        PROVE  /\ docs'[d].key \in journal.items /\ docs'[d].key = docs[d].key
               /\ stage[docs[d].key] >= Creating
               /\ docs'[d].status = "ready" => stage[docs[d].key] >= MarkingReady
               /\ docs'[d].parent = "review" => stage[docs[d].key] >= Moving
    BY <2>1 DEF DocsInv, Announced, Evolves
  <2>2. ASSUME NEW d \in DocIds, Ours(d), NEW u \in journal.items, docs'[d].link[u] \in DocIds
        PROVE  stage[docs[d].key] >= FixingLinks
    <3>1. CASE docs'[d].link[u] = docs[d].link[u]
      BY <2>2, <3>1 DEF DocsInv, Announced
    <3>2. CASE docs'[d].link[u] # docs[d].link[u]
      BY <1>a, <2>2, <3>2, ConstantsOK DEF Evolves
    <3>3. QED BY <3>1, <3>2
  <2>3. QED BY <1>b, <2>1, <2>2 DEF Announced
<1>3. LinksKnown'
  BY <1>b DEF DocsInv, LinksKnown, Evolves, HasJournal
<1>4. EntriesTrue'
  <2>1. ASSUME NEW t \in Targets, stage[t] >= Created
        PROVE  fileOf[t] \in DocIds /\ Mine(fileOf[t])' /\ docs'[fileOf[t]].key = t
    BY <2>1 DEF DocsInv, EntriesTrue, Mine, Visible, Evolves, HasJournal
  <2>2. ASSUME NEW t \in Targets, stage[t] >= LinksFixed
        PROVE  HasNoPlaceholder(fileOf[t], t)'
    <3>1. fileOf[t] \in DocIds /\ HasNoPlaceholder(fileOf[t], t)
      BY <1>a, <2>2, StageOrder DEF DocsInv, EntriesTrue
    <3>2. HasNoPlaceholder(fileOf[t], t) => \A u \in Links[t] : docs'[fileOf[t]].link[u] # Placeholder
      BY <3>1, NoNewPlaceholder DEF HasNoPlaceholder
    <3>3. QED BY <3>1, <3>2 DEF HasNoPlaceholder
  <2>3. ASSUME NEW t \in Targets
        PROVE  /\ stage[t] >= Ready => docs'[fileOf[t]].status = "ready"
               /\ stage[t] >= Moved => docs'[fileOf[t]].parent = "review"
    BY <1>a, StageOrder DEF DocsInv, EntriesTrue, Evolves
  <2>4. QED BY <2>1, <2>2, <2>3 DEF DocsInv, EntriesTrue
<1>5. QED BY <1>1, <1>2, <1>3, <1>4 DEF DocsInv

\* A document that nobody touched has evolved trivially.
LEMMA UntouchedEvolves ==
    ASSUME NEW d, docs'[d] = docs[d]
    PROVE  Evolves(d)
BY DEF Evolves, Visible

\* The links of a new document: placeholders into the batch, known documents
\* outside it.
LEMMA NewLinks ==
    ASSUME NEW t \in Targets, NEW v, NEW u \in Targets
    PROVE  /\ u \in PendingLinks(t) => NewDocument(t, v).link[u] = Placeholder
           /\ u \in Links[t] \ journal.items => NewDocument(t, v).link[u] = journal.known[u]
           /\ u \notin Links[t] => NewDocument(t, v).link[u] = NoDoc
<1> DEFINE l(w) == CASE w \in PendingLinks(t) -> Placeholder
                     [] w \in Links[t] \ journal.items -> journal.known[w]
                     [] OTHER -> NoDoc
<1>1. NewDocument(t, v).link[u] = l(u)
  BY Zenon DEF NewDocument
<1>2. CASE u \in PendingLinks(t)
  <2>1. u \notin Links[t] \ journal.items /\ u \in Links[t]
    BY <1>2 DEF PendingLinks
  <2>2. l(u) = Placeholder
    BY <1>2, <2>1, Zenon
  <2>3. QED BY <1>1, <1>2, <2>1, <2>2
<1>3. CASE u \in Links[t] \ journal.items
  <2>1. u \notin PendingLinks(t) /\ u \in Links[t]
    BY <1>3 DEF PendingLinks
  <2>2. l(u) = journal.known[u]
    BY <1>3, <2>1, Zenon
  <2>3. QED BY <1>1, <1>3, <2>1, <2>2
<1>4. CASE u \notin Links[t]
  <2>1. u \notin PendingLinks(t) /\ u \notin Links[t] \ journal.items
    BY <1>4 DEF PendingLinks
  <2>2. l(u) = NoDoc
    BY <2>1, Zenon
  <2>3. QED BY <1>1, <1>4, <2>1, <2>2
<1>5. QED BY <1>2, <1>3, <1>4 DEF PendingLinks

\* A document that CreateDocument makes for the item at hand keeps DocsInv.
LEMMA CreatedKeepsDocs ==
    ASSUME TypeInv, TypeOK', DocsInv, HasJournal, NEW t \in journal.items, stage[t] = Creating,
           NEW d \in DocIds, docs[d].st = "absent", NEW v \in {"live", "inflight"},
           docs' = [docs EXCEPT ![d] = NewDocument(t, v)],
           UNCHANGED <<journal, stage, fileOf, ops>>, ItemTrue'
    PROVE  DocsInv'
<1>a. /\ \A u \in Targets : stage[u] \in Nat /\ fileOf[u] \in FileIds
      /\ journal.items \subseteq Targets /\ t \in Targets
      /\ docs \in [DocIds -> Documents] /\ journal.op \in Nat /\ ops \in Nat
  BY NamedStages DEF TypeInv, TypeOK, JournalTypeOK, DocsTypeOK, CountTypeOK
<1>b. /\ \A e \in DocIds \ {d} : docs'[e] = docs[e]
      /\ docs'[d] = NewDocument(t, v)
  BY <1>a
<1>c. /\ docs'[d].op = journal.op /\ docs'[d].key = t /\ docs'[d].status = "pending"
      /\ docs'[d].parent = "staging" /\ docs'[d].st = v
  BY <1>b DEF NewDocument
<1>d. \A u \in Targets : /\ u \in journal.items => docs'[d].link[u] \in {NoDoc, Placeholder}
                         /\ u \notin journal.items => docs'[d].link[u] \in {NoDoc, journal.known[u]}
  BY <1>a, <1>b, NewLinks DEF PendingLinks
<1>e. docs[d].op = 0 /\ ~Mine(d) /\ journal.op # 0
  BY <1>a DEF DocsInv, OperationsNumbered, Mine, Visible, HasJournal
<1>1. OperationsNumbered'
  <2>1. journal.op <= ops
    BY <1>a DEF DocsInv, OperationsNumbered
  <2>2. ASSUME NEW e \in DocIds
        PROVE  docs'[e].op <= ops /\ (docs'[e].st = "absent" <=> docs'[e].op = 0)
    <3>1. CASE e = d
      BY <1>c, <1>e, <2>1, <3>1
    <3>2. CASE e # d
      BY <1>b, <3>2 DEF DocsInv, OperationsNumbered
    <3>3. QED BY <3>1, <3>2
  <2>3. QED BY <2>2 DEF DocsInv, OperationsNumbered, HasJournal
<1>2. Announced'
  <2>1. ASSUME NEW e \in DocIds, Ours(e)'
        PROVE  /\ docs'[e].key \in journal.items /\ stage[docs'[e].key] >= Creating
               /\ (\E u \in journal.items : docs'[e].link[u] \in DocIds) =>
                      stage[docs'[e].key] >= FixingLinks
               /\ docs'[e].status = "ready" => stage[docs'[e].key] >= MarkingReady
               /\ docs'[e].parent = "review" => stage[docs'[e].key] >= Moving
    <3>1. CASE e = d
      <4>1. ~ \E u \in journal.items : docs'[d].link[u] \in DocIds
        BY <1>a, <1>d, ConstantsOK
      <4>2. QED BY <1>a, <1>c, <3>1, <4>1, StageOrder
    <3>2. CASE e # d
      BY <1>b, <2>1, <3>2 DEF DocsInv, Announced, Ours, HasJournal
    <3>3. QED BY <3>1, <3>2
  <2>2. QED BY <2>1 DEF Announced
<1>3. LinksKnown'
  <2>1. ASSUME NEW e \in DocIds, Ours(e)', NEW u \in Targets
        PROVE  /\ u \in journal.items => docs'[e].link[u] \in {NoDoc, Placeholder, fileOf[u]}
               /\ u \notin journal.items => docs'[e].link[u] \in {NoDoc, journal.known[u]}
    <3>1. CASE e = d
      BY <1>d, <3>1
    <3>2. CASE e # d
      BY <1>b, <2>1, <3>2 DEF DocsInv, LinksKnown, Ours, HasJournal
    <3>3. QED BY <3>1, <3>2
  <2>2. QED BY <2>1 DEF DocsInv, LinksKnown, HasJournal
<1>4. EntriesTrue'
  <2>1. ASSUME NEW u \in Targets, stage[u] >= Created
        PROVE  fileOf[u] \in DocIds \ {d}
    BY <1>e, <2>1 DEF DocsInv, EntriesTrue
  <2>2. ASSUME NEW u \in Targets
        PROVE  /\ stage[u] < Created => fileOf[u] = NoDoc
               /\ stage[u] >= Created => /\ fileOf[u] \in DocIds /\ Mine(fileOf[u])'
                                         /\ docs'[fileOf[u]].key = u
               /\ stage[u] >= LinksFixed => HasNoPlaceholder(fileOf[u], u)'
               /\ stage[u] >= Ready => docs'[fileOf[u]].status = "ready"
               /\ stage[u] >= Moved => docs'[fileOf[u]].parent = "review"
    <3>1. CASE stage[u] < Created
      BY <1>a, <3>1, StageOrder DEF DocsInv, EntriesTrue
    <3>2. CASE stage[u] >= Created
      <4>1. docs'[fileOf[u]] = docs[fileOf[u]]
        BY <1>b, <2>1, <3>2
      <4>2. QED BY <1>a, <3>2, <4>1, StageOrder
                DEF DocsInv, EntriesTrue, Mine, Visible, HasJournal, HasNoPlaceholder
    <3>3. QED BY <1>a, <3>1, <3>2, StageOrder
  <2>3. QED BY <2>2 DEF EntriesTrue
<1>5. QED BY <1>1, <1>2, <1>3, <1>4 DEF DocsInv

\* Recording the file of the item at hand keeps DocsInv.
LEMMA RecordKeepsDocs ==
    ASSUME TypeInv, TypeOK', DocsInv, NEW t \in Targets, CreateRecord(t)
    PROVE  DocsInv'
<1>a. /\ \A u \in Targets : stage[u] \in Nat /\ stage'[u] \in Nat /\ fileOf[u] \in FileIds
      /\ journal.items \subseteq Targets /\ t \in journal.items
      /\ stage \in [Targets -> Stages] /\ fileOf \in [Targets -> FileIds]
      /\ got \in DocIds /\ stage[t] < Created /\ HasJournal
  BY NamedStages
     DEF TypeInv, TypeOK, JournalTypeOK, FilesRecorded, RunHasJournal, CreateRecord, IsNext
<1>b. /\ stage' = [stage EXCEPT ![t] = Created] /\ fileOf' = [fileOf EXCEPT ![t] = got]
      /\ UNCHANGED <<journal, docs, ops>> /\ pc' = "create" /\ pc = "record" /\ IsNext(t)
  BY DEF CreateRecord, Advance, ItemDone, stateVars, countVars
<1>c. /\ stage'[t] = Created /\ fileOf'[t] = got
      /\ \A u \in Targets \ {t} : stage'[u] = stage[u] /\ fileOf'[u] = fileOf[u]
  BY <1>a, <1>b
<1>d. Mine(got) /\ docs[got].key = t /\ fileOf[t] = NoDoc
  BY <1>a, <1>b DEF DocsInv, ItemTrue, IsNext, EntriesTrue
<1>1. OperationsNumbered'
  BY <1>b DEF DocsInv, OperationsNumbered, HasJournal
<1>2. Announced'
  <2>1. \A u \in Targets : stage[u] <= stage'[u]
    BY <1>a, <1>c, StageOrder
  <2>2. QED BY <1>a, <1>b, <2>1, StageOrder DEF DocsInv, Announced, Ours, HasJournal
<1>3. LinksKnown'
  <2>1. ASSUME NEW d \in DocIds, Ours(d), NEW u \in Targets, u \in journal.items
        PROVE  docs[d].link[u] \in {NoDoc, Placeholder, fileOf'[u]}
    BY <1>c, <1>d, <2>1 DEF DocsInv, LinksKnown
  <2>2. QED BY <1>b, <2>1 DEF DocsInv, LinksKnown, Ours, HasJournal
<1>4. EntriesTrue'
  <2>1. ASSUME NEW u \in Targets
        PROVE  /\ stage'[u] < Created => fileOf'[u] = NoDoc
               /\ stage'[u] >= Created => /\ fileOf'[u] \in DocIds /\ Mine(fileOf'[u])
                                          /\ docs[fileOf'[u]].key = u
               /\ stage'[u] >= LinksFixed => HasNoPlaceholder(fileOf'[u], u)
               /\ stage'[u] >= Ready => docs[fileOf'[u]].status = "ready"
               /\ stage'[u] >= Moved => docs[fileOf'[u]].parent = "review"
    <3>1. CASE u = t
      BY <1>a, <1>c, <1>d, <3>1, StageOrder
    <3>2. CASE u # t
      BY <1>c, <3>2 DEF DocsInv, EntriesTrue
    <3>3. QED BY <3>1, <3>2
  <2>2. QED BY <1>b, <2>1 DEF EntriesTrue, Mine, Visible, HasJournal, HasNoPlaceholder
<1>5. ItemTrue'
  BY <1>b DEF ItemTrue
<1>6. QED BY <1>1, <1>2, <1>3, <1>4, <1>5 DEF DocsInv

\* A stage recorded for the item at hand keeps DocsInv when what it claims is so.
LEMMA StageKeepsDocs ==
    ASSUME TypeInv, TypeOK', DocsInv, NEW t \in Targets, NEW next \in Stages,
           UNCHANGED <<journal, fileOf, docs, ops>>,
           Advance(t, next) \/ Announce(t, next) \/ UNCHANGED stage,
           next >= Created => stage[t] >= Created,
           next >= LinksFixed => stage[t] >= LinksFixed \/ HasNoPlaceholder(fileOf[t], t),
           next >= Ready => stage[t] >= Ready \/ docs[fileOf[t]].status = "ready",
           next >= Moved => stage[t] >= Moved \/ docs[fileOf[t]].parent = "review",
           ItemTrue'
    PROVE  DocsInv'
<1>1. /\ \A u \in Targets \ {t} : stage'[u] = stage[u]
      /\ stage[t] <= stage'[t]
      /\ stage' = stage \/ stage'[t] = next
  BY LoopStepKinds
<1>2. \A u \in Targets : stage[u] \in Nat /\ stage'[u] \in Nat
  BY NamedStages DEF TypeInv, TypeOK, JournalTypeOK
<1>3. \A u \in Targets :
        /\ stage[u] <= stage'[u]
        /\ stage'[u] >= Created => stage[u] >= Created
        /\ stage'[u] >= LinksFixed => stage[u] >= LinksFixed \/ HasNoPlaceholder(fileOf[u], u)
        /\ stage'[u] >= Ready => stage[u] >= Ready \/ docs[fileOf[u]].status = "ready"
        /\ stage'[u] >= Moved => stage[u] >= Moved \/ docs[fileOf[u]].parent = "review"
  <2>1. CASE stage' = stage
    BY <1>2, <2>1
  <2>2. CASE stage'[t] = next
    BY <1>1, <1>2, <2>2
  <2>3. QED BY <1>1, <2>1, <2>2
<1>4. QED BY <1>3, ClaimsKeepDocs

\* A step of a run that touches no document and records no stage keeps it.
LEMMA RunKeepsDocs ==
    ASSUME TypeInv, TypeOK', DocsInv, NEW t \in Targets,
           UNCHANGED <<journal, stage, fileOf, docs, ops>>, ItemTrue'
    PROVE  DocsInv'
<1>1. \A u \in Targets : stage[u] \in Nat
  BY NamedStages DEF TypeInv, TypeOK, JournalTypeOK
<1>2. QED BY <1>1, ClaimsKeepDocs

\* After a step to any other label nothing is claimed of the item at hand.
LEMMA NothingClaimed ==
    ASSUME pc' \notin {"record", "linksdone", "marked", "moved"}
    PROVE  ItemTrue'
BY DEF ItemTrue

\* The create loop keeps DocsInv.
LEMMA CreateKeepsDocs ==
    ASSUME TypeInv, TypeInv', Position, DocsInv, NEW t \in Targets, CreateStep(t)
    PROVE  DocsInv'
<1>a. /\ TypeInv /\ TypeOK' /\ IsNext(t) /\ t \in journal.items /\ HasJournal
      /\ pc \in CreateLabels
  BY DEF TypeInv, RunHasJournal, IsNext, CreateStep, CreateBegin, Pass, LookupNone,
     LookupRefuse, LookupMatch, CreateIssue, CreateFail, CreateRecord, Refuse, CreateLabels
<1>b. stage[t] \in Nat /\ docs \in [DocIds -> Documents]
  BY <1>a, NamedStages DEF TypeInv, TypeOK, JournalTypeOK, DocsTypeOK
<1>1. CASE CreateBegin(t)
  <2>1. /\ pc' = "lookup" /\ UNCHANGED <<journal, fileOf, docs, ops>>
        /\ Announce(t, Creating)
    BY <1>1 DEF CreateBegin, Goto, OnlyStage, stateVars, countVars
  <2>2. QED BY <1>a, <2>1, StageKeepsDocs, NothingClaimed, NamedStages, StageOrder
<1>2. CASE Pass("create", t, Created) \/ LookupNone(t) \/ LookupRefuse(t)
  <2>1. /\ pc' \in {"create", "issue", "idle"}
        /\ UNCHANGED <<journal, stage, fileOf, docs, ops>>
    BY <1>2 DEF Pass, LookupNone, LookupRefuse, Refuse, ItemDone, Goto, StopRun, OnlyRun,
       OnlyStage, stateVars, countVars
  <2>2. QED BY <1>a, <2>1, RunKeepsDocs, NothingClaimed
<1>3. ASSUME NEW d \in DocIds, LookupMatch(t, d) PROVE DocsInv'
  <2>1. /\ pc' = "record" /\ got' = d /\ todo' = todo
        /\ UNCHANGED <<journal, stage, fileOf, docs, ops>>
    BY <1>3 DEF LookupMatch, Goto, OnlyRun, OnlyStage, stateVars, countVars
  <2>2. d \in Matches(t)
    BY <1>3 DEF LookupMatch
  <2>3. Mine(d) /\ docs[d].key = t
    BY <1>a, <2>2 DEF Matches, Mine, Visible
  <2>4. \A u \in todo : IsNext(u)' => u = t
    BY <1>a, <2>1, ConstantsOK DEF IsNext, TypeInv, TypeOK, RunTypeOK
  <2>5. ItemTrue'
    BY <2>1, <2>3, <2>4 DEF ItemTrue, Mine, Visible, HasJournal
  <2>6. QED BY <1>a, <2>1, <2>5, RunKeepsDocs
<1>4. ASSUME NEW d \in DocIds, CreateIssue(t, d) PROVE DocsInv'
  <2>1. /\ docs[d].st = "absent" /\ docs' = [docs EXCEPT ![d] = NewDocument(t, "live")]
        /\ UNCHANGED <<journal, stage, fileOf, ops>> /\ pc = "issue"
        /\ (pc' = "record" /\ got' = d) \/ pc' = "lookup"
        /\ todo' = todo
    BY <1>4 DEF CreateIssue, Goto, OnlyDocs, durable, journalVars, stateVars
  <2>2. stage[t] = Creating
    BY <1>a, <2>1 DEF Position, ItemAnnounced, IsNext
  <2>3. pc' = "record" => Mine(d)' /\ docs'[d].key = t
    BY <1>a, <1>b, <2>1 DEF NewDocument, Mine, Visible, HasJournal
  <2>4. \A u \in todo : IsNext(u)' => u = t
    BY <1>a, <2>1, ConstantsOK DEF IsNext, TypeInv, TypeOK, RunTypeOK
  <2>5. ItemTrue'
    <3>1. CASE pc' = "lookup"
      BY <3>1, NothingClaimed
    <3>2. CASE pc' = "record" /\ got' = d
      BY <2>1, <2>3, <2>4, <3>2 DEF ItemTrue, Mine, Visible, HasJournal
    <3>3. QED BY <2>1, <3>1, <3>2
  <2>6. QED BY <1>a, <2>1, <2>2, <2>5, CreatedKeepsDocs
<1>5. CASE CreateFail(t)
  <2>1. /\ UNCHANGED <<journal, stage, fileOf, ops>> /\ pc = "issue" /\ pc' = "lookup"
        /\ \/ UNCHANGED docs
           \/ \E d \in DocIds : /\ docs[d].st = "absent"
                                /\ docs' = [docs EXCEPT ![d] = NewDocument(t, "inflight")]
    BY <1>5 DEF CreateFail, Goto, durable, journalVars, stateVars
  <2>2. stage[t] = Creating
    BY <1>a, <2>1 DEF Position, ItemAnnounced, IsNext
  <2>3. ItemTrue'
    BY <2>1, NothingClaimed
  <2>4. CASE UNCHANGED docs
    BY <1>a, <2>1, <2>3, <2>4, RunKeepsDocs
  <2>5. ASSUME NEW d \in DocIds, docs[d].st = "absent",
               docs' = [docs EXCEPT ![d] = NewDocument(t, "inflight")]
        PROVE  DocsInv'
    BY <1>a, <2>1, <2>2, <2>3, <2>5, CreatedKeepsDocs
  <2>6. QED BY <2>1, <2>4, <2>5
<1>6. CASE CreateRecord(t)
  BY <1>a, <1>6, RecordKeepsDocs
<1>7. QED BY <1>1, <1>2, <1>3, <1>4, <1>5, <1>6 DEF CreateStep

\* The document in the entry of the item at hand, after the create loop.
LEMMA ItemDocument ==
    ASSUME TypeInv, Position, DocsInv, NEW t \in todo, pc # "idle", pc \notin CreateLabels
    PROVE  /\ t \in journal.items /\ t \in Targets /\ Through(t, 1) /\ stage[t] \in Nat
           /\ fileOf[t] \in DocIds /\ Ours(fileOf[t]) /\ Visible(fileOf[t])
           /\ docs[fileOf[t]].key = t /\ docs[fileOf[t]].op = journal.op
           /\ docs \in [DocIds -> Documents]
<1>1. t \in journal.items /\ t \in Targets /\ stage[t] \in Nat /\ docs \in [DocIds -> Documents]
  BY NamedStages DEF TypeInv, TypeOK, JournalTypeOK, DocsTypeOK, RunHasJournal
<1>2. stage[t] >= Created
  BY <1>1 DEF TypeInv, FilesRecorded
<1>3. QED BY <1>1, <1>2, StageOrder DEF Through, DocsInv, EntriesTrue, Mine, Ours

\* A run takes its items up in order: the one at hand is the only next one.
LEMMA OneNext ==
    ASSUME TypeOK, NEW t \in Targets, IsNext(t), todo' = todo
    PROVE  \A u \in todo : (IsNext(u) => u = t) /\ (IsNext(u)' => u = t)
BY ConstantsOK DEF IsNext, TypeOK, RunTypeOK

\* Every placeholder in the document of the item at hand is found by the read.
LEMMA PlaceholdersFound ==
    ASSUME TypeInv, Position, DocsInv, NEW t \in todo, pc # "idle", pc \notin CreateLabels
    PROVE  \A u \in Links[t] : docs[fileOf[t]].link[u] = Placeholder => u \in Placeholders(t)
<1>1. t \in Targets /\ fileOf[t] \in DocIds /\ Ours(fileOf[t])
  BY ItemDocument
<1>2. ASSUME NEW u \in Links[t], docs[fileOf[t]].link[u] = Placeholder
      PROVE  u \in journal.items
  <2>1. u \in Targets
    BY <1>1, ConstantsOK
  <2>2. QED BY <1>1, <1>2, <2>1, ConstantsOK
            DEF DocsInv, LinksKnown, TypeInv, TypeOK, JournalTypeOK, FileIds
<1>3. QED BY <1>2 DEF Placeholders, PendingLinks

\* Setting the links of the item at hand leaves no placeholder there and is an
\* evolution of its document.
LEMMA UpdateEvolves ==
    ASSUME TypeInv, Position, DocsInv, NEW t \in Targets, LinksUpdate(t)
    PROVE  /\ \A d \in DocIds : Evolves(d)
           /\ \A u \in Links[t] : docs'[fileOf[t]].link[u] # Placeholder
<1> DEFINE e == fileOf[t]
           l == [u \in Targets |-> IF u \in Placeholders(t) THEN LinkURL(u) ELSE docs[e].link[u]]
<1>a. TypeInv /\ IsNext(t) /\ t \in todo /\ pc = "updatelinks" /\ pc \notin CreateLabels
  BY DEF IsNext, LinksUpdate, CreateLabels
<1>b. /\ t \in journal.items /\ fileOf[t] \in DocIds /\ Ours(fileOf[t]) /\ Visible(fileOf[t])
      /\ docs[fileOf[t]].key = t /\ docs \in [DocIds -> Documents]
  BY <1>a, ItemDocument
<1>c. \A u \in Links[t] : u \in Targets
  BY ConstantsOK
<1>1. docs' = [docs EXCEPT ![e] = Revised(docs[e], l)]
  BY DEF LinksUpdate
<1>2. docs'[e] = Revised(docs[e], l) /\ \A d \in DocIds \ {e} : docs'[d] = docs[d]
  BY <1>b, <1>1
<1>3. stage[t] >= FixingLinks
  BY <1>a DEF Position, ItemAnnounced
<1>4. \A u \in Placeholders(t) : u \in journal.items /\ LinkURL(u) = fileOf[u] /\ fileOf[u] \in DocIds
  <2>1. ASSUME NEW u \in journal.items PROVE fileOf[u] \in DocIds
    BY <1>a DEF TypeInv, FilesRecorded, TypeOK, JournalTypeOK
  <2>2. QED BY <2>1 DEF Placeholders, PendingLinks, LinkURL
<1>5. /\ docs'[e].op = docs[e].op /\ docs'[e].key = docs[e].key /\ docs'[e].st = docs[e].st
      /\ docs'[e].status = docs[e].status /\ docs'[e].parent = docs[e].parent
      /\ docs'[e].link = l
  <2>1. docs[e] \in Documents
    BY <1>b
  <2> HIDE DEF l, e
  <2>2. QED BY <1>2, <2>1 DEF Revised, Documents
<1>6. \A u \in Targets : \/ docs'[e].link[u] = docs[e].link[u]
                         \/ u \in journal.items /\ docs'[e].link[u] = fileOf[u] /\ fileOf[u] \in DocIds
  BY <1>4, <1>5
<1>7. Evolves(e)
  <2> HIDE DEF l, e
  <2>1. Ours(e) /\ docs[e].key = t /\ Visible(e)
    BY <1>b DEF e
  <2>2. QED BY <1>3, <1>5, <1>6, <2>1 DEF Evolves, Visible
<1>8. \A d \in DocIds : Evolves(d)
  BY <1>2, <1>7, UntouchedEvolves
<1>9. \A u \in Links[t] : docs[e].link[u] = Placeholder => u \in Placeholders(t)
  BY <1>a, <1>b, <1>c, PlaceholdersFound
<1>10. \A u \in Links[t] : docs'[e].link[u] # Placeholder
  BY <1>c, <1>4, <1>5, <1>9, ConstantsOK
<1>11. QED BY <1>8, <1>10

\* The link loop keeps DocsInv.
LEMMA LinksKeepDocs ==
    ASSUME TypeInv, TypeInv', Position, DocsInv, NEW t \in Targets, LinksStep(t)
    PROVE  DocsInv'
<1>a. /\ TypeInv /\ TypeOK' /\ IsNext(t) /\ t \in todo
      /\ pc \in {"links", "readlinks", "updatelinks", "linksdone"} /\ pc \notin CreateLabels
  BY DEF TypeInv, IsNext, LinksStep, LinksBegin, Pass, LinksRead, LinksReadRefuse,
     LinksUpdate, LinksUpdateFail, LinksUpdateRefuse, LinksRecord, Refuse, CreateLabels
<1>b. /\ t \in journal.items /\ stage[t] >= Created /\ stage[t] \in Nat
      /\ fileOf[t] \in DocIds /\ Ours(fileOf[t]) /\ Visible(fileOf[t])
      /\ docs[fileOf[t]].key = t /\ docs[fileOf[t]].op = journal.op
      /\ docs \in [DocIds -> Documents]
  BY <1>a, ItemDocument DEF Through
<1>c. \A u \in Links[t] : docs[fileOf[t]].link[u] = Placeholder => u \in Placeholders(t)
  BY <1>a, PlaceholdersFound
<1>1. CASE LinksBegin(t)
  <2>1. /\ pc' = "readlinks" /\ UNCHANGED <<journal, fileOf, docs, ops>>
        /\ Announce(t, FixingLinks)
    BY <1>1 DEF LinksBegin, Goto, OnlyStage, stateVars, countVars
  <2>2. QED BY <1>a, <1>b, <2>1, StageKeepsDocs, NothingClaimed, NamedStages, StageOrder
<1>2. CASE Pass("links", t, LinksFixed) \/ LinksReadRefuse(t) \/ LinksUpdateRefuse(t)
  <2>1. /\ pc' \in {"links", "idle"}
        /\ UNCHANGED <<journal, stage, fileOf, docs, ops>>
    BY <1>2 DEF Pass, LinksReadRefuse, LinksUpdateRefuse, Refuse, ItemDone, StopRun, OnlyRun,
       OnlyStage, stateVars, countVars
  <2>2. QED BY <1>a, <2>1, RunKeepsDocs, NothingClaimed
<1>3. CASE LinksRead(t)
  <2>1. /\ pc' = "updatelinks" \/ (pc' = "linksdone" /\ Placeholders(t) = {})
        /\ todo' = todo /\ UNCHANGED <<journal, stage, fileOf, docs, ops>>
    BY <1>3 DEF LinksRead, Goto, OnlyRun, OnlyStage, stateVars, countVars
  <2>2. ItemTrue'
    <3>1. CASE pc' = "updatelinks"
      BY <3>1, NothingClaimed
    <3>2. CASE pc' = "linksdone" /\ Placeholders(t) = {}
      <4>1. HasNoPlaceholder(fileOf[t], t)
        BY <1>c, <3>2 DEF HasNoPlaceholder
      <4>2. \A u \in todo : IsNext(u)' => u = t
        BY <1>a, <2>1, OneNext DEF TypeInv
      <4>3. QED BY <2>1, <3>2, <4>1, <4>2 DEF ItemTrue, HasNoPlaceholder
    <3>3. QED BY <2>1, <3>1, <3>2
  <2>3. QED BY <1>a, <2>1, <2>2, RunKeepsDocs
<1>4. CASE LinksUpdate(t)
  <2>1. /\ UNCHANGED <<journal, stage, fileOf, ops>>
        /\ \/ pc' \in {"idle", "readlinks"}
           \/ pc' = "linksdone" /\ todo' = todo
    BY <1>4, CallKinds DEF LinksUpdate, Goto, OnlyDocs, durable, journalVars, stateVars
  <2>2. /\ \A d \in DocIds : Evolves(d)
        /\ \A u \in Links[t] : docs'[fileOf[t]].link[u] # Placeholder
    BY <1>4, UpdateEvolves
  <2>3. ItemTrue'
    <3>1. CASE pc' \in {"idle", "readlinks"}
      BY <3>1, NothingClaimed
    <3>2. CASE pc' = "linksdone" /\ todo' = todo
      <4>1. \A u \in todo : IsNext(u)' => u = t
        BY <1>a, <3>2, OneNext DEF TypeInv
      <4>2. QED BY <2>1, <2>2, <3>2, <4>1 DEF ItemTrue, HasNoPlaceholder
    <3>3. QED BY <2>1, <3>1, <3>2
  <2>4. QED BY <1>a, <2>1, <2>2, <2>3, EvolvingKeepsDocs
<1>5. CASE LinksUpdateFail(t)
  <2>1. /\ pc' \in {"readlinks", "idle"}
        /\ UNCHANGED <<journal, stage, fileOf, docs, ops>>
    BY <1>5, CallKinds DEF LinksUpdateFail, OnlyDocs, durable, journalVars, stateVars
  <2>2. QED BY <1>a, <2>1, RunKeepsDocs, NothingClaimed
<1>6. CASE LinksRecord(t)
  <2>1. /\ pc = "linksdone" /\ pc' = "links" /\ UNCHANGED <<journal, fileOf, docs, ops>>
        /\ Advance(t, LinksFixed)
    BY <1>6 DEF LinksRecord, ItemDone, OnlyStage, stateVars, countVars
  <2>2. HasNoPlaceholder(fileOf[t], t)
    BY <1>a, <2>1 DEF DocsInv, ItemTrue
  <2>3. QED BY <1>a, <1>b, <2>1, <2>2, StageKeepsDocs, NothingClaimed, NamedStages, StageOrder
<1>7. QED BY <1>1, <1>2, <1>3, <1>4, <1>5, <1>6 DEF LinksStep

\* Capturing and sealing the baselines keep DocsInv.
LEMMA ReviewsKeepDocs ==
    ASSUME TypeInv, TypeInv', Position, DocsInv, NEW t \in Targets, CaptureStep(t) \/ SealStep(t)
    PROVE  DocsInv'
<1>a. /\ TypeInv /\ TypeOK' /\ IsNext(t) /\ t \in todo /\ pc \notin CreateLabels
      /\ pc \in {"capture", "snapshot", "captured", "seal", "activate", "sealed"}
  BY DEF TypeInv, IsNext, CaptureStep, CaptureBegin, CaptureKnown, CaptureFound,
     CaptureWrite, CaptureRefuse, CaptureRecord, SealStep, SealBegin, SealWrite, SealFound,
     SealRefuse, SealRecord, SealKnown, Pass, Refuse, CreateLabels
<1>b. /\ stage[t] \in Nat /\ t \in journal.items
      /\ pc \in {"capture", "snapshot", "captured"} => Through(t, 2)
      /\ pc \in {"seal", "activate", "sealed"} => Through(t, 5)
  <2>1. stage[t] \in Nat /\ t \in journal.items
    BY <1>a, ItemDocument
  <2>2. pc \in {"capture", "snapshot", "captured"} => Phase = 3
    BY DEF Phase, CreateLabels
  <2>3. pc \in {"seal", "activate", "sealed"} => Phase = 6
    BY DEF Phase, CreateLabels
  <2>4. Through(t, Phase - 1)
    BY <1>a, <2>1 DEF Position, LoopsDone
  <2>5. QED BY <2>1, <2>2, <2>3, <2>4
<1>1. CASE CaptureBegin(t) \/ CaptureRecord(t) \/ SealBegin(t) \/ SealRecord(t)
  <2>1. /\ pc' \in {"snapshot", "capture", "activate", "seal"}
        /\ UNCHANGED <<journal, fileOf, docs, ops>>
        /\ \/ /\ pc \in {"capture", "captured"}
              /\ Announce(t, CapturingReview) \/ Advance(t, ReviewCaptured)
           \/ /\ pc \in {"seal", "sealed"}
              /\ Announce(t, SealingReview) \/ Advance(t, ReviewSealed)
    BY <1>1 DEF CaptureBegin, CaptureRecord, SealBegin, SealRecord, Goto, ItemDone, OnlyStage,
       stateVars, countVars
  <2>2. ItemTrue'
    BY <2>1, NothingClaimed
  <2>3. CASE pc \in {"capture", "captured"}
    <3>1. stage[t] >= LinksFixed
      BY <1>b, <2>3 DEF Through
    <3>2. QED BY <1>a, <1>b, <2>1, <2>2, <2>3, <3>1, StageKeepsDocs, NamedStages, StageOrder
  <2>4. CASE pc \in {"seal", "sealed"}
    <3>1. stage[t] >= Moved
      BY <1>b, <2>4 DEF Through
    <3>2. QED BY <1>a, <1>b, <2>1, <2>2, <2>4, <3>1, StageKeepsDocs, NamedStages, StageOrder
  <2>5. QED BY <2>1, <2>3, <2>4
<1>2. CASE \/ CaptureKnown(t) \/ CaptureFound(t) \/ CaptureWrite(t) \/ CaptureRefuse(t)
           \/ SealWrite(t) \/ SealFound(t) \/ SealRefuse(t) \/ SealKnown(t)
  <2>1. /\ pc' \in {"capture", "captured", "idle", "sealed", "seal"}
        /\ UNCHANGED <<journal, stage, fileOf, docs, ops>>
    BY <1>2 DEF CaptureKnown, CaptureFound, CaptureWrite, CaptureRefuse, SealWrite, SealFound,
       SealRefuse, SealKnown, Pass, Refuse, Goto, ItemDone, StopRun, OnlyRun, OnlyStage,
       journalVars, stateVars, countVars
  <2>2. QED BY <1>a, <2>1, RunKeepsDocs, NothingClaimed
<1>3. QED BY <1>1, <1>2 DEF CaptureStep, SealStep

\* Marking the document of the item at hand ready is an evolution of it.
LEMMA MarkEvolves ==
    ASSUME TypeInv, Position, DocsInv, NEW t \in Targets, ReadyMark(t)
    PROVE  /\ \A d \in DocIds : Evolves(d)
           /\ docs'[fileOf[t]].status = "ready"
<1>a. IsNext(t) /\ t \in todo /\ pc = "mark" /\ pc \notin CreateLabels
  BY DEF IsNext, ReadyMark, CreateLabels
<1>b. /\ fileOf[t] \in DocIds /\ Ours(fileOf[t]) /\ Visible(fileOf[t])
      /\ docs[fileOf[t]].key = t /\ docs[fileOf[t]] \in Documents
      /\ docs \in [DocIds -> Documents]
  BY <1>a, ItemDocument
<1>1. docs' = [docs EXCEPT ![fileOf[t]].status = "ready"]
  BY DEF ReadyMark
<1>2. /\ docs'[fileOf[t]] = [docs[fileOf[t]] EXCEPT !.status = "ready"]
      /\ \A d \in DocIds \ {fileOf[t]} : docs'[d] = docs[d]
  BY <1>b, <1>1
<1>3. stage[t] >= MarkingReady
  BY <1>a DEF Position, ItemAnnounced
<1>4. Evolves(fileOf[t]) /\ docs'[fileOf[t]].status = "ready"
  BY <1>b, <1>2, <1>3 DEF Evolves, Visible, Documents
<1>5. QED BY <1>2, <1>4, UntouchedEvolves

\* Marking the documents ready keeps DocsInv.
LEMMA ReadyKeepsDocs ==
    ASSUME TypeInv, TypeInv', Position, DocsInv, NEW t \in Targets, ReadyStep(t)
    PROVE  DocsInv'
<1>a. /\ TypeInv /\ TypeOK' /\ IsNext(t) /\ t \in todo
      /\ pc \in {"ready", "mark", "marked"} /\ pc \notin CreateLabels /\ Phase = 4
  BY DEF TypeInv, IsNext, ReadyStep, ReadyBegin, Pass, ReadyMark, ReadyFail, ReadyRecord,
     CreateLabels, Phase
<1>b. t \in journal.items /\ stage[t] \in Nat
  BY <1>a, ItemDocument
<1>c. stage[t] >= LinksFixed
  BY <1>a, <1>b DEF Position, LoopsDone, Through
<1>1. CASE ReadyBegin(t)
  <2>1. /\ pc' = "mark" /\ UNCHANGED <<journal, fileOf, docs, ops>>
        /\ Announce(t, MarkingReady)
    BY <1>1 DEF ReadyBegin, Goto, OnlyStage, stateVars, countVars
  <2>2. QED BY <1>a, <1>b, <1>c, <2>1, StageKeepsDocs, NothingClaimed, NamedStages, StageOrder
<1>2. CASE Pass("ready", t, Ready) \/ ReadyFail(t)
  <2>1. /\ pc' \in {"ready", "mark", "idle"}
        /\ UNCHANGED <<journal, stage, fileOf, docs, ops>>
    BY <1>2, CallKinds DEF Pass, ReadyFail, ItemDone, OnlyRun, OnlyStage, OnlyDocs, durable,
       journalVars, stateVars, countVars
  <2>2. QED BY <1>a, <2>1, RunKeepsDocs, NothingClaimed
<1>3. CASE ReadyMark(t)
  <2>1. /\ UNCHANGED <<journal, stage, fileOf, ops>>
        /\ \/ pc' \in {"idle", "mark"}
           \/ pc' = "marked" /\ todo' = todo
    BY <1>3, CallKinds DEF ReadyMark, Goto, OnlyDocs, durable, journalVars, stateVars
  <2>2. (\A d \in DocIds : Evolves(d)) /\ docs'[fileOf[t]].status = "ready"
    BY <1>3, MarkEvolves
  <2>3. ItemTrue'
    <3>1. CASE pc' \in {"idle", "mark"}
      BY <3>1, NothingClaimed
    <3>2. CASE pc' = "marked" /\ todo' = todo
      BY <1>a, <2>1, <2>2, <3>2, OneNext DEF ItemTrue, TypeInv
    <3>3. QED BY <2>1, <3>1, <3>2
  <2>4. QED BY <1>a, <2>1, <2>2, <2>3, EvolvingKeepsDocs
<1>4. CASE ReadyRecord(t)
  <2>1. /\ pc = "marked" /\ pc' = "ready" /\ UNCHANGED <<journal, fileOf, docs, ops>>
        /\ Advance(t, Ready)
    BY <1>4 DEF ReadyRecord, ItemDone, OnlyStage, stateVars, countVars
  <2>2. docs[fileOf[t]].status = "ready"
    BY <1>a, <2>1 DEF DocsInv, ItemTrue
  <2>3. QED BY <1>a, <1>b, <1>c, <2>1, <2>2, StageKeepsDocs, NothingClaimed, NamedStages, StageOrder
<1>5. QED BY <1>1, <1>2, <1>3, <1>4 DEF ReadyStep

\* Moving the document of the item at hand is an evolution of it.
LEMMA RelocateEvolves ==
    ASSUME TypeInv, Position, DocsInv, NEW t \in Targets, MoveRelocate(t)
    PROVE  /\ \A d \in DocIds : Evolves(d)
           /\ docs'[fileOf[t]].parent = "review"
<1>a. IsNext(t) /\ t \in todo /\ pc = "relocate" /\ pc \notin CreateLabels
  BY DEF IsNext, MoveRelocate, CreateLabels
<1>b. /\ fileOf[t] \in DocIds /\ Ours(fileOf[t]) /\ Visible(fileOf[t])
      /\ docs[fileOf[t]].key = t /\ docs[fileOf[t]] \in Documents
      /\ docs \in [DocIds -> Documents]
  BY <1>a, ItemDocument
<1>1. docs' = [docs EXCEPT ![fileOf[t]].parent = "review"]
  BY DEF MoveRelocate
<1>2. /\ docs'[fileOf[t]] = [docs[fileOf[t]] EXCEPT !.parent = "review"]
      /\ \A d \in DocIds \ {fileOf[t]} : docs'[d] = docs[d]
  BY <1>b, <1>1
<1>3. stage[t] >= Moving
  BY <1>a DEF Position, ItemAnnounced
<1>4. Evolves(fileOf[t]) /\ docs'[fileOf[t]].parent = "review"
  BY <1>b, <1>2, <1>3 DEF Evolves, Visible, Documents
<1>5. QED BY <1>2, <1>4, UntouchedEvolves

\* Moving the documents keeps DocsInv.
LEMMA MoveKeepsDocs ==
    ASSUME TypeInv, TypeInv', Position, DocsInv, NEW t \in Targets, MoveStep(t)
    PROVE  DocsInv'
<1>a. /\ TypeInv /\ TypeOK' /\ IsNext(t) /\ t \in todo
      /\ pc \in {"move", "relocate", "moved", "final"} /\ pc \notin CreateLabels /\ Phase = 5
  BY DEF TypeInv, IsNext, MoveStep, MoveBegin, MoveKnown, MoveRelocate, MoveFail,
     MoveRecord, MoveFinalRead, CreateLabels, Phase
<1>b. t \in journal.items /\ stage[t] \in Nat
  BY <1>a, ItemDocument
<1>c. stage[t] >= Ready
  BY <1>a, <1>b DEF Position, LoopsDone, Through
<1>1. CASE MoveBegin(t)
  <2>1. /\ pc' = "relocate" /\ UNCHANGED <<journal, fileOf, docs, ops>>
        /\ Announce(t, Moving)
    BY <1>1 DEF MoveBegin, Goto, OnlyStage, stateVars, countVars
  <2>2. QED BY <1>a, <1>b, <1>c, <2>1, StageKeepsDocs, NothingClaimed, NamedStages, StageOrder
<1>2. CASE MoveKnown(t) \/ MoveFail(t) \/ MoveFinalRead(t)
  <2>1. /\ pc' \in {"final", "relocate", "idle", "move"}
        /\ UNCHANGED <<journal, stage, fileOf, docs, ops>>
    BY <1>2, CallKinds DEF MoveKnown, MoveFail, MoveFinalRead, Goto, ItemDone, OnlyRun, OnlyStage,
       OnlyDocs, durable, journalVars, stateVars, countVars
  <2>2. QED BY <1>a, <2>1, RunKeepsDocs, NothingClaimed
<1>3. CASE MoveRelocate(t)
  <2>1. /\ UNCHANGED <<journal, stage, fileOf, ops>>
        /\ \/ pc' \in {"idle", "relocate"}
           \/ pc' = "moved" /\ todo' = todo
    BY <1>3, CallKinds DEF MoveRelocate, Goto, OnlyDocs, durable, journalVars, stateVars
  <2>2. (\A d \in DocIds : Evolves(d)) /\ docs'[fileOf[t]].parent = "review"
    BY <1>3, RelocateEvolves
  <2>3. ItemTrue'
    <3>1. CASE pc' \in {"idle", "relocate"}
      BY <3>1, NothingClaimed
    <3>2. CASE pc' = "moved" /\ todo' = todo
      BY <1>a, <2>1, <2>2, <3>2, OneNext DEF ItemTrue, TypeInv
    <3>3. QED BY <2>1, <3>1, <3>2
  <2>4. QED BY <1>a, <2>1, <2>2, <2>3, EvolvingKeepsDocs
<1>4. CASE MoveRecord(t)
  <2>1. /\ pc = "moved" /\ pc' = "final" /\ UNCHANGED <<journal, fileOf, docs, ops>>
        /\ Advance(t, Moved)
    BY <1>4 DEF MoveRecord, Goto, OnlyStage, stateVars, countVars
  <2>2. docs[fileOf[t]].parent = "review"
    BY <1>a, <2>1 DEF DocsInv, ItemTrue
  <2>3. QED BY <1>a, <1>b, <1>c, <2>1, <2>2, StageKeepsDocs, NothingClaimed, NamedStages, StageOrder
<1>5. QED BY <1>1, <1>2, <1>3, <1>4 DEF MoveStep

\* Committing the operation keeps DocsInv.
LEMMA CommitKeepsDocs ==
    ASSUME TypeInv, TypeInv', Position, DocsInv, CommitStep
    PROVE  DocsInv'
<1>a. TypeInv /\ TypeOK'
  BY DEF TypeInv
<1>1. ASSUME NEW t \in Targets, CommitBegin(t) \/ CommitRecord(t) PROVE DocsInv'
  <2>1. /\ pc' \in {"committing", "committed"} /\ UNCHANGED <<journal, fileOf, docs, ops>>
        /\ Announce(t, Committing) \/ Announce(t, Committed)
        /\ t \in todo /\ pc \in {"committing", "committed"}
    BY <1>1 DEF CommitBegin, CommitRecord, ItemDone, OnlyStage, stateVars, countVars, IsNext
  <2>2. Phase \in {7, 8} /\ pc \notin CreateLabels
    BY <2>1 DEF Phase, CreateLabels
  <2>3. t \in journal.items /\ stage[t] \in Nat
    BY <2>1, <2>2, ItemDocument
  <2>4. stage[t] >= Moved
    BY <2>1, <2>2, <2>3 DEF Position, LoopsDone, Through
  <2>5. QED BY <1>a, <2>1, <2>3, <2>4, StageKeepsDocs, NothingClaimed, NamedStages, StageOrder
<1>2. CASE CommitSave
  <2>1. /\ pc' = "committed" /\ UNCHANGED <<journal, stage, fileOf, docs, ops>>
    BY <1>2 DEF CommitSave, SaveFrame, journalVars, countVars
  <2>2. \A u \in Targets : stage[u] \in Nat
    BY <1>a, NamedStages DEF TypeInv, TypeOK, JournalTypeOK
  <2>3. QED BY <1>a, <2>1, <2>2, ClaimsKeepDocs, NothingClaimed
<1>3. CASE CommitClear
  <2>1. /\ journal'.op = 0 /\ UNCHANGED <<docs, ops>> /\ todo' = {}
        /\ \A u \in Targets : stage'[u] = Planned /\ fileOf'[u] = NoDoc
    BY <1>3 DEF CommitClear, NoJournal, StopRun, countVars
  <2>2. OperationsNumbered' /\ Announced' /\ LinksKnown' /\ ItemTrue'
    BY <2>1 DEF DocsInv, OperationsNumbered, Announced, LinksKnown, ItemTrue, Ours, HasJournal
  <2>3. EntriesTrue'
    BY <2>1, StageOrder DEF EntriesTrue
  <2>4. QED BY <2>2, <2>3 DEF DocsInv
<1>4. QED BY <1>1, <1>2, <1>3 DEF CommitStep

\* What reviewers and late creates do to a document is an evolution of it.
LEMMA EnvironmentEvolves ==
    ASSUME TypeInv, Environment
    PROVE  \A d \in DocIds : Evolves(d)
<1>1. PICK e \in DocIds : CreateLands(e) \/ ReviewerEdits(e) \/ ReviewerTrashes(e)
  BY DEF Environment
<1>2. docs \in [DocIds -> Documents] /\ docs[e] \in Documents
  BY DEF TypeInv, TypeOK, DocsTypeOK
<1>3. \A d \in DocIds \ {e} : docs'[d] = docs[d]
  BY <1>1, <1>2 DEF CreateLands, ReviewerEdits, ReviewerTrashes
<1>4. CASE CreateLands(e)
  <2>1. docs'[e] = [docs[e] EXCEPT !.st = "live"] /\ docs[e].st = "inflight"
    BY <1>2, <1>4 DEF CreateLands
  <2>2. Evolves(e)
    BY <1>2, <2>1 DEF Evolves, Documents
  <2>3. QED BY <1>3, <2>2, UntouchedEvolves
<1>5. CASE ReviewerTrashes(e)
  <2>1. docs'[e] = [docs[e] EXCEPT !.st = "trashed"] /\ docs[e].st = "live"
    BY <1>2, <1>5 DEF ReviewerTrashes
  <2>2. Evolves(e)
    BY <1>2, <2>1 DEF Evolves, Documents
  <2>3. QED BY <1>3, <2>2, UntouchedEvolves
<1>6. CASE ReviewerEdits(e)
  <2>1. PICK gone \in SUBSET Targets :
          docs'[e] = Revised(docs[e], [u \in Targets |-> IF u \in gone THEN NoDoc ELSE docs[e].link[u]])
    BY <1>2, <1>6 DEF ReviewerEdits
  <2> DEFINE l == [u \in Targets |-> IF u \in gone THEN NoDoc ELSE docs[e].link[u]]
  <2>2. \A u \in Targets : l[u] \in {docs[e].link[u], NoDoc}
    OBVIOUS
  <2> HIDE DEF l
  <2>3. /\ docs'[e].op = docs[e].op /\ docs'[e].key = docs[e].key /\ docs'[e].st = docs[e].st
        /\ docs'[e].status = docs[e].status /\ docs'[e].parent = docs[e].parent
        /\ docs'[e].link = l
    BY <1>2, <2>1 DEF Revised, Documents, l
  <2>4. Evolves(e)
    BY <2>2, <2>3 DEF Evolves, Visible
  <2>5. QED BY <1>3, <2>4, UntouchedEvolves
<1>7. QED BY <1>1, <1>4, <1>5, <1>6

\* What reviewers and late creates do keeps DocsInv.
LEMMA EnvironmentKeepsDocs ==
    ASSUME TypeInv, TypeInv', DocsInv, Environment
    PROVE  DocsInv'
<1>a. TypeInv /\ TypeOK'
  BY DEF TypeInv
<1>1. UNCHANGED <<journal, stage, fileOf, ops, pc, todo, got>>
  BY DEF Environment, CreateLands, ReviewerEdits, ReviewerTrashes, ReviewerActs, countVars,
     durable, journalVars, stateVars, runVars
<1>2. \A d \in DocIds : Evolves(d)
  BY <1>a, EnvironmentEvolves
<1>3. ItemTrue'
  <2>1. ASSUME NEW t \in todo, IsNext(t)
        PROVE  /\ pc = "record" => /\ got \in DocIds /\ docs'[got].st \in {"live", "trashed"}
                                   /\ docs'[got].op = journal.op /\ HasJournal
                                   /\ docs'[got].key = t
               /\ pc = "linksdone" => \A u \in Links[t] : docs'[fileOf[t]].link[u] # Placeholder
               /\ pc = "marked" => docs'[fileOf[t]].status = "ready"
               /\ pc = "moved" => docs'[fileOf[t]].parent = "review"
    <3>1. t \in Targets /\ (pc = "record" => got \in DocIds)
      BY <1>a DEF TypeInv, TypeOK, RunTypeOK, FilesRecorded
    <3>2. pc \in {"linksdone", "marked", "moved"} => fileOf[t] \in DocIds
      BY <1>a, RecordedFile DEF CreateLabels
    <3>3. CASE pc = "record"
      BY <1>2, <2>1, <3>1, <3>3 DEF DocsInv, ItemTrue, Mine, Evolves
    <3>4. CASE pc = "linksdone"
      <4>1. Evolves(fileOf[t]) /\ HasNoPlaceholder(fileOf[t], t)
        BY <1>2, <2>1, <3>2, <3>4 DEF DocsInv, ItemTrue
      <4>2. \A u \in Links[t] : u \in Targets
        BY <3>1, ConstantsOK
      <4>3. QED BY <3>4, <4>1, <4>2, ConstantsOK DEF Evolves, HasNoPlaceholder
    <3>5. CASE pc \in {"marked", "moved"}
      BY <1>2, <2>1, <3>2, <3>5 DEF DocsInv, ItemTrue, Evolves
    <3>6. QED BY <3>3, <3>4, <3>5
  <2>2. QED BY <1>1, <2>1 DEF ItemTrue, IsNext, Mine, Visible, HasNoPlaceholder, HasJournal
<1>4. QED BY <1>a, <1>1, <1>2, <1>3, EvolvingKeepsDocs

\* DocsInv holds initially.
LEMMA InitDocs == Init => DocsInv
<1> SUFFICES ASSUME Init PROVE DocsInv
  OBVIOUS
<1>1. /\ journal.op = 0 /\ journal.items = {} /\ todo = {} /\ ops = 0
      /\ \A d \in DocIds : docs[d].op = 0 /\ docs[d].st = "absent"
      /\ \A t \in Targets : stage[t] = Planned /\ fileOf[t] = NoDoc
  BY DEF Init, NoJournal, NoDocument
<1>2. OperationsNumbered /\ Announced /\ LinksKnown /\ ItemTrue
  BY <1>1 DEF OperationsNumbered, Announced, LinksKnown, ItemTrue, Ours, HasJournal
<1>3. EntriesTrue
  BY <1>1, StageOrder DEF EntriesTrue
<1>4. QED BY <1>2, <1>3 DEF DocsInv

\* DocsInv is inductive relative to TypeInv and Position.
LEMMA NextDocs ==
    ASSUME TypeInv, TypeInv', Position, DocsInv, [Next]_vars
    PROVE  DocsInv'
<1>a. TypeInv /\ TypeOK' /\ \A u \in Targets : stage[u] \in Nat
  BY NamedStages DEF TypeInv, TypeOK, JournalTypeOK
<1>1. CASE RunStep /\ ~NextLoop
  <2>1. CASE CommitStep
    BY <2>1, CommitKeepsDocs
  <2>2. ASSUME NEW t \in Targets, \/ CreateStep(t) \/ LinksStep(t) \/ CaptureStep(t)
                                  \/ ReadyStep(t) \/ MoveStep(t) \/ SealStep(t)
        PROVE  DocsInv'
    BY <2>2, CreateKeepsDocs, LinksKeepDocs, ReviewsKeepDocs, ReadyKeepsDocs, MoveKeepsDocs
  <2>3. QED BY <1>1, <2>1, <2>2 DEF RunStep
<1>2. CASE NextLoop \/ Resume \/ Interrupt
  <2>1. UNCHANGED <<journal, stage, fileOf, docs, ops>>
    BY <1>2 DEF NextLoop, Resume, Interrupt, OnlyRun, OnlyStage, durable, journalVars, stateVars,
       countVars
  <2>2. pc' \notin {"record", "linksdone", "marked", "moved"}
    BY <1>2, NextLoopMoves DEF Resume, Interrupt, StopRun
  <2>3. QED BY <1>a, <2>1, <2>2, ClaimsKeepDocs, NothingClaimed
<1>3. ASSUME NEW items \in SUBSET Targets, Start(items) PROVE DocsInv'
  <2>1. /\ journal.items = {} /\ journal'.items = items /\ journal'.op = ops + 1 /\ ops' = ops + 1
        /\ UNCHANGED <<stage, fileOf, docs>> /\ pc' = "create"
    BY <1>3 DEF Start, TypeInv, RunHasJournal, stateVars, ActiveURLs
  <2>2. \A u \in Targets : stage[u] = Planned
    BY <2>1 DEF Position, EntriesTogether
  <2>3. ops \in Nat /\ \A d \in DocIds : docs[d].op \in Nat /\ docs[d].op <= ops
    BY <1>a DEF TypeInv, TypeOK, CountTypeOK, DocsTypeOK, Documents, DocsInv, OperationsNumbered
  <2>4. \A d \in DocIds : ~Ours(d)'
    BY <2>1, <2>3 DEF Ours
  <2>5. OperationsNumbered'
    <3>1. \A d \in DocIds : docs'[d].op <= ops'
      BY <2>1, <2>3
    <3>2. QED BY <2>1, <3>1 DEF DocsInv, OperationsNumbered
  <2>6. Announced' /\ LinksKnown'
    BY <2>1, <2>4 DEF Announced, LinksKnown
  <2>7. EntriesTrue'
    BY <2>1, <2>2, StageOrder DEF DocsInv, EntriesTrue
  <2>8. ItemTrue'
    BY <2>1, NothingClaimed
  <2>9. QED BY <2>5, <2>6, <2>7, <2>8 DEF DocsInv
<1>4. CASE Environment
  BY <1>4, EnvironmentKeepsDocs
<1>5. CASE UNCHANGED vars
  <2>1. UNCHANGED <<journal, stage, fileOf, docs, ops, pc, todo, got>>
    BY <1>5 DEF vars, journalVars, stateVars, runVars, countVars
  <2>2. ItemTrue'
    BY <2>1 DEF DocsInv, ItemTrue, IsNext, Mine, Visible, HasJournal, HasNoPlaceholder
  <2>3. QED BY <1>a, <2>1, <2>2, ClaimsKeepDocs
<1>6. QED BY <1>1, <1>2, <1>3, <1>4, <1>5 DEF Next

-----------------------------------------------------------------------------
(* What the journal says of Google *)

\* Position and DocsInv hold in every reachable state.
THEOREM DocsInvHolds == Spec => [](Position /\ DocsInv)
<1>1. Init => IInv /\ Position /\ DocsInv
  BY InitInvariant, InitPosition, InitDocs DEF IInv
<1>2. (IInv /\ Position /\ DocsInv) /\ [Next]_vars => (IInv /\ Position /\ DocsInv)'
  BY NextInvariant, NextPosition, NextDocs DEF IInv
<1>3. QED BY <1>1, <1>2, PTL DEF Spec

\* At every point a run can be cut short at, nothing unannounced has happened
\* to a document of the operation and nothing recorded has not
\* (JournalMatchesGoogle: the journal is written ahead and tells the truth).
THEOREM JournalMatchesGoogleHolds == Spec => []JournalMatchesGoogle
<1>1. IInv /\ Position /\ DocsInv => JournalMatchesGoogle
  <2> SUFFICES ASSUME IInv, Position, DocsInv PROVE JournalMatchesGoogle
    OBVIOUS
  <2>1. WriteAhead
    BY DEF DocsInv, Announced, Ours, WriteAhead, Mine
  <2>2. JournalTruth
    BY DEF DocsInv, EntriesTrue, HasNoPlaceholder, JournalTruth
  <2>3. QED BY <2>1, <2>2 DEF JournalMatchesGoogle
<1>2. QED BY <1>1, InvariantHolds, DocsInvHolds, PTL

\* No document shows as ready before all of the batch have their links fixed
\* and their baselines captured, and none is moved before all are ready
\* (Barriers: the loops of BatchPublisher.Run, resumed anywhere).
THEOREM BarriersHold == Spec => []Barriers
<1>1. IInv /\ Position /\ DocsInv => Barriers
  <2> SUFFICES ASSUME IInv, Position, DocsInv PROVE Barriers
    OBVIOUS
  <2>1. ASSUME NEW d \in DocIds, Mine(d), docs[d].status = "ready", NEW t \in journal.items
        PROVE  stage[t] >= LinksFixed /\ (t \in ReviewPull => stage[t] >= ReviewCaptured)
    <3>1. docs[d].key \in journal.items /\ stage[docs[d].key] >= MarkingReady
      BY <2>1 DEF DocsInv, Announced, Ours, Mine
    <3>2. Through(t, 3)
      BY <2>1, <3>1 DEF Position, EntriesTogether
    <3>3. QED BY <3>2 DEF Through
  <2>2. ASSUME NEW d \in DocIds, Mine(d), docs[d].parent = "review", NEW t \in journal.items
        PROVE  stage[t] >= Ready
    <3>1. docs[d].key \in journal.items /\ stage[docs[d].key] >= Moving
      BY <2>2 DEF DocsInv, Announced, Ours, Mine
    <3>2. Through(t, 4)
      BY <2>2, <3>1 DEF Position, EntriesTogether
    <3>3. QED BY <3>2 DEF Through
  <2>3. QED BY <2>1, <2>2 DEF Barriers, ReadyBarrier, MoveBarrier
<1>2. QED BY <1>1, InvariantHolds, DocsInvHolds, PTL

\* Outside the batch, what the journal knows is what is active: a save
\* touches the items alone.
KnownActive ==
    HasJournal => \A u \in Targets \ journal.items : journal.known[u] = active[u].file

LEMMA NextKnown ==
    ASSUME TypeInv, KnownActive, [Next]_vars
    PROVE  KnownActive'
<1>1. CASE CommitSave
  BY <1>1 DEF CommitSave, SaveFrame, SaveActive, KnownActive, HasJournal, journalVars
<1>2. CASE CommitClear
  BY <1>2 DEF CommitClear, NoJournal, KnownActive, HasJournal
<1>3. CASE \E items \in SUBSET Targets : Start(items)
  BY <1>3 DEF Start, KnownActive, ActiveURLs, stateVars
<1>4. CASE /\ ~CommitSave /\ ~CommitClear
           /\ \A items \in SUBSET Targets : ~Start(items)
  BY <1>4, MostStepsKeepState DEF KnownActive, HasJournal
<1>5. QED BY <1>1, <1>2, <1>3, <1>4

\* In every reachable state, what the journal knows of the others is active.
THEOREM KnownActiveHolds == Spec => []KnownActive
<1>1. Init => KnownActive
  BY DEF Init, NoJournal, KnownActive, HasJournal
<1>2. IInv /\ KnownActive /\ [Next]_vars => KnownActive'
  BY NextKnown DEF IInv
<1>3. QED BY <1>1, <1>2, InvariantHolds, PTL DEF Spec

\* Where links are fixed they lead to the document this operation made for
\* their target, or outside the batch to the active one (LinksInsideBatch).
THEOREM LinksInsideBatchHolds == Spec => []LinksInsideBatch
<1>1. IInv /\ Position /\ DocsInv /\ KnownActive => LinksInsideBatch
  <2> SUFFICES ASSUME IInv, Position, DocsInv, KnownActive,
                      NEW t \in journal.items, stage[t] >= LinksFixed, NEW u \in Links[t],
                      docs[fileOf[t]].link[u] # NoDoc
               PROVE  IF u \in journal.items
                      THEN /\ docs[docs[fileOf[t]].link[u]].op = journal.op
                           /\ docs[docs[fileOf[t]].link[u]].key = u
                      ELSE docs[fileOf[t]].link[u] = active[u].file
    BY DEF LinksInsideBatch
  <2>1. /\ t \in Targets /\ u \in Targets /\ journal.items \subseteq Targets
        /\ stage[t] \in Nat /\ HasJournal
    BY NamedStages, ConstantsOK DEF IInv, TypeInv, TypeOK, JournalTypeOK, RunHasJournal
  <2>2. /\ fileOf[t] \in DocIds /\ Ours(fileOf[t])
        /\ docs[fileOf[t]].link[u] # Placeholder
    BY <2>1, StageOrder DEF DocsInv, EntriesTrue, HasNoPlaceholder, Mine, Ours
  <2>3. CASE u \in journal.items
    <3>1. docs[fileOf[t]].link[u] = fileOf[u]
      BY <2>1, <2>2, <2>3 DEF DocsInv, LinksKnown
    <3>2. stage[u] >= Created
      BY <2>1, <2>3, StageOrder DEF Position, EntriesTogether, Through
    <3>3. QED BY <2>1, <2>3, <3>1, <3>2 DEF DocsInv, EntriesTrue, Mine
  <2>4. CASE u \notin journal.items
    BY <2>1, <2>2, <2>4 DEF DocsInv, LinksKnown, KnownActive
  <2>5. QED BY <2>3, <2>4
<1>2. QED BY <1>1, InvariantHolds, DocsInvHolds, KnownActiveHolds, PTL
=============================================================================
