------------------------ MODULE PublishCommandProofs ------------------------
(***************************************************************************)
(* Proofs about the publish command, for any targets, links, versions of   *)
(* the sources, edits, interrupted commands and reviewer actions.          *)
(*                                                                         *)
(* A command does to the journal, the state file and Google what           *)
(* BatchPublisher does, so what is proved of the publisher holds of the    *)
(* command.  The invariant relates it to the inputs: which version every   *)
(* document was made from, and which links lead into a batch.              *)
(***************************************************************************)
EXTENDS PublishCommand, PublisherStateProofs

-----------------------------------------------------------------------------
(* The invariant of the command *)

\* The command that runs has rendered the inputs whose hashes the journal holds.
LoadedAsFrozen == pc # "idle" => \A t \in journal.items : loaded[t] = frozen[t]

\* So has every command that made a document of the unfinished operation.
BuiltAsFrozen == \A d \in DocIds : Ours(d) => built[d] = frozen[docs[d].key]

\* No target outside the batch links into it.
BatchClosed ==
    HasJournal => \A t \in Targets \ journal.items : Links[t] \cap journal.items = {}

CommandInv ==
    LoadedAsFrozen /\ BuiltAsFrozen /\ HashOfActiveDocument /\ BatchClosed /\ ActiveLinksCurrent
-----------------------------------------------------------------------------
(* The command is a publisher *)

\* What is proved of the publisher, of every state of a command.
PublisherInv ==
    TypeInv /\ IInv /\ Position /\ DocsInv /\ KnownActive /\ StoreInv /\ RecordsTrue

\* A closure is closed: a target that links into it belongs to it.
LEMMA ClosureClosed ==
    ASSUME NEW roots
    PROVE  /\ InboundClosure(roots) \subseteq Targets
           /\ \A t \in Targets : Links[t] \cap InboundClosure(roots) # {} =>
                 t \in InboundClosure(roots)
<1>1. InboundClosure(roots) \subseteq Targets
  BY DEF InboundClosure
<1>2. ASSUME NEW t \in Targets, NEW u \in Links[t], u \in InboundClosure(roots)
      PROVE  t \in InboundClosure(roots)
  <2>1. SUFFICES ASSUME NEW closed \in SUBSET Targets, roots \subseteq closed,
                        \A v \in Targets : Links[v] \cap closed # {} => v \in closed
                 PROVE  t \in closed
    BY DEF InboundClosure
  <2>2. u \in closed
    BY <1>2, <2>1 DEF InboundClosure
  <2>3. QED BY <2>1, <2>2
<1>3. QED BY <1>1, <1>2

\* A command only answers, starts a batch or resumes one.
LEMMA PublishKinds ==
    ASSUME NEW asked, NEW newReview, Publish(asked, newReview)
    PROVE  \/ UNCHANGED <<vars, loaded, frozen, built, hashed>>
           \/ StartBatch(asked, newReview) \/ ResumeBatch(asked, newReview)
BY DEF Publish, ReportConflict, ReportBlocked, ReportNothing, StartRefused, ResumeRefused, Answer

\* Whatever a command does, the publisher does.
LEMMA CommandSteps ==
    ASSUME [NextCommand]_allVars
    PROVE  [Next]_vars
<1>1. ASSUME NEW asked, NEW newReview, Publish(asked, newReview) PROVE [Next]_vars
  <2>1. CASE StartBatch(asked, newReview)
    <3>1. PlanWrites(asked, newReview) \in SUBSET Targets
      BY ClosureClosed DEF PlanWrites
    <3>2. QED BY <2>1, <3>1 DEF StartBatch, Next
  <2>2. CASE ResumeBatch(asked, newReview)
    BY <2>2 DEF ResumeBatch, Next
  <2>3. CASE UNCHANGED <<vars, loaded, frozen, built, hashed>>
    BY <2>3
  <2>4. QED BY <1>1, <2>1, <2>2, <2>3, PublishKinds
<1>2. CASE RunCommand \/ InterruptCommand \/ EnvironmentStep
  BY <1>2 DEF RunCommand, InterruptCommand, EnvironmentStep, Next
<1>3. CASE (\E t \in Targets : EditSource(t)) \/ UNCHANGED allVars
  BY <1>3 DEF EditSource, allVars
<1>4. QED BY <1>1, <1>2, <1>3 DEF NextCommand

\* Every behaviour of the command is one of the publisher: planning, resuming
\* and refusing by the inputs only choose among the publisher's steps, so that
\* all that is proved of BatchPublisher holds of the command (publish_command.go).
THEOREM CommandImplementsPublisher == SpecCommand => Spec
<1>1. InitCommand => Init
  BY DEF InitCommand
<1>2. [NextCommand]_allVars => [Next]_vars
  BY CommandSteps
<1>3. QED BY <1>1, <1>2, PTL DEF SpecCommand, Spec

-----------------------------------------------------------------------------
(* CommandInv is inductive *)

\* A step that leaves the publisher and what was made of the inputs alone.
LEMMA QuietKeepsCommand ==
    ASSUME CommandInv, UNCHANGED <<vars, loaded, frozen, built, hashed>>
    PROVE  CommandInv'
<1>1. UNCHANGED <<pc, journal, docs, active>>
  BY DEF vars, journalVars, stateVars, runVars
<1>2. QED
  BY <1>1 DEF CommandInv, LoadedAsFrozen, BuiltAsFrozen, HashOfActiveDocument, BatchClosed,
     ActiveLinksCurrent, Ours, HasJournal

\* The links of the active documents are right as long as these only evolve.
LEMMA EvolvingKeepsLinks ==
    ASSUME PublisherInv, ActiveLinksCurrent, [Next]_vars, UNCHANGED active
    PROVE  ActiveLinksCurrent'
<1> SUFFICES ASSUME NEW t \in Targets, active[t] # NoTarget, NEW u \in Links[t]
             PROVE  docs'[active[t].file].link[u] \in {active[u].file, NoDoc}
  BY DEF ActiveLinksCurrent
<1> DEFINE d == active[t].file
<1>1. RecordTrue(t, active[t])
  BY DEF PublisherInv, RecordsTrue, Recorded
<1>2. d \in DocIds /\ docs[d].st # "absent" /\ docs[d].op = active[t].op /\ docs[d].key = t
  BY <1>1 DEF RecordTrue, Visible
<1>3. Evolves(d)
  BY <1>2, DocumentsEvolve DEF PublisherInv
<1>4. u \in Targets /\ docs[d].link[u] \in {active[u].file, NoDoc}
  BY ConstantsOK DEF ActiveLinksCurrent
<1> HIDE DEF d
<1>5. CASE docs'[d].link[u] \in {docs[d].link[u], NoDoc}
  BY <1>4, <1>5 DEF d
<1>6. CASE Ours(d) /\ u \in journal.items /\ docs'[d].link[u] = fileOf[u]
  <2>1. t \in journal.items /\ active[t].op = journal.op
    BY <1>2, <1>6 DEF PublisherInv, DocsInv, Announced, Ours
  <2>2. active[u].file = fileOf[u]
    BY <1>6, <2>1 DEF PublisherInv, IInv, SavedWhole, Saved
  <2>3. QED BY <1>6, <2>2 DEF d
<1>7. QED BY <1>3, <1>4, <1>5, <1>6 DEF Evolves, d

\* The active documents keep the version they were made from.
LEMMA BuiltStays ==
    ASSUME PublisherInv, NEW t \in Targets, active[t] # NoTarget,
           built' = [d \in DocIds |-> IF docs[d].st = "absent" /\ docs'[d].st # "absent"
                                      THEN loaded[docs'[d].key] ELSE built[d]]
    PROVE  built'[active[t].file] = built[active[t].file]
<1>1. RecordTrue(t, active[t])
  BY DEF PublisherInv, RecordsTrue, Recorded
<1>2. QED BY <1>1 DEF RecordTrue, Visible

\* A batch that starts has rendered the inputs it freezes, and is closed.
LEMMA StartKeepsCommand ==
    ASSUME PublisherInv, PublisherInv', CommandInv, NEW asked, NEW newReview,
           StartBatch(asked, newReview)
    PROVE  CommandInv'
<1> DEFINE items == PlanWrites(asked, newReview)
<1>1. /\ items \subseteq Targets
      /\ \A t \in Targets : Links[t] \cap items # {} => t \in items
  BY ClosureClosed DEF PlanWrites
<1>2. /\ UNCHANGED <<built, hashed, docs, active>> /\ loaded' = source /\ frozen' = source
      /\ journal'.items = items /\ journal'.op = ops + 1
  BY DEF StartBatch, Start, stateVars
<1> HIDE DEF items
<1>3. LoadedAsFrozen' /\ BatchClosed' /\ HashOfActiveDocument' /\ ActiveLinksCurrent'
  BY <1>1, <1>2 DEF LoadedAsFrozen, BatchClosed, CommandInv, HashOfActiveDocument,
     ActiveLinksCurrent
<1>4. \A d \in DocIds : ~Ours(d)'
  <2>1. \A d \in DocIds : docs[d].op <= ops /\ docs[d].op \in Nat /\ ops \in Nat
    BY DEF PublisherInv, DocsInv, OperationsNumbered, IInv, TypeInv, TypeOK, DocsTypeOK,
       Documents, CountTypeOK
  <2>2. \A d \in DocIds : docs[d].op # ops + 1
    BY <2>1
  <2>3. QED BY <1>2, <2>2 DEF Ours
<1>5. BuiltAsFrozen'
  BY <1>4 DEF BuiltAsFrozen
<1>6. QED BY <1>3, <1>5 DEF CommandInv

\* A command resumes with the inputs that were frozen.
LEMMA ResumeKeepsCommand ==
    ASSUME CommandInv, NEW asked, NEW newReview, ResumeBatch(asked, newReview)
    PROVE  CommandInv'
<1>1. /\ UNCHANGED <<journal, docs, active, frozen, built, hashed>> /\ loaded' = source
      /\ \A t \in journal.items : source[t] = frozen[t]
  BY DEF ResumeBatch, Resume, OnlyRun, OnlyStage, stateVars, InputsUnchanged
<1>2. QED
  BY <1>1 DEF CommandInv, LoadedAsFrozen, BuiltAsFrozen, HashOfActiveDocument, BatchClosed,
     ActiveLinksCurrent, Ours, HasJournal

\* A step of a run is taken by a running command, the save at its own place.
LEMMA RunStepRuns ==
    ASSUME RunStep
    PROVE  pc # "idle" /\ (pc = "save" => CommitSave)
<1>1. ASSUME NEW t \in Targets, CreateStep(t) PROVE pc \notin {"idle", "save"}
  BY <1>1 DEF CreateStep, CreateBegin, Pass, LookupNone, LookupRefuse, LookupMatch, CreateIssue,
     CreateFail, CreateRecord, Refuse
<1>2. ASSUME NEW t \in Targets, LinksStep(t) PROVE pc \notin {"idle", "save"}
  BY <1>2 DEF LinksStep, LinksBegin, Pass, LinksRead, LinksReadRefuse, LinksUpdate,
     LinksUpdateFail, LinksUpdateRefuse, LinksRecord, Refuse
<1>3. ASSUME NEW t \in Targets, CaptureStep(t) \/ SealStep(t) PROVE pc \notin {"idle", "save"}
  BY <1>3 DEF CaptureStep, CaptureBegin, CaptureKnown, CaptureFound, CaptureWrite,
     CaptureRefuse, CaptureRecord, SealStep, SealBegin, SealWrite, SealFound, SealRefuse,
     SealRecord, SealKnown, Pass, Refuse
<1>4. ASSUME NEW t \in Targets, ReadyStep(t) \/ MoveStep(t) PROVE pc \notin {"idle", "save"}
  BY <1>4 DEF ReadyStep, ReadyBegin, Pass, ReadyMark, ReadyFail, ReadyRecord, MoveStep, MoveBegin,
     MoveKnown, MoveRelocate, MoveFail, MoveRecord, MoveFinalRead
<1>5. CASE NextLoop
  BY <1>5, FollowingLabels DEF NextLoop
<1>6. CASE CommitStep
  BY <1>6 DEF CommitStep, CommitSave, SaveFrame, CommitClear, CommitBegin, CommitRecord
<1>7. QED BY <1>1, <1>2, <1>3, <1>4, <1>5, <1>6 DEF RunStep

\* The only documents a run makes are of the items in its journal.
LEMMA NewDocumentsOfItems ==
    ASSUME PublisherInv, RunStep, NEW d \in DocIds, docs[d].st = "absent",
           docs'[d].st # "absent"
    PROVE  docs'[d].key \in journal.items
<1>a. TypeInv /\ IInv /\ Position /\ DocsInv /\ docs \in [DocIds -> Documents]
  BY DEF PublisherInv, IInv, TypeInv, TypeOK, DocsTypeOK
<1>b. docs' # docs /\ ~(\A e \in DocIds : Evolves(e))
  BY DEF Evolves
<1>1. ASSUME NEW t \in Targets, CreateStep(t) PROVE docs'[d].key \in journal.items
  <2>1. ASSUME NEW e \in DocIds, NEW v, docs' = [docs EXCEPT ![e] = NewDocument(t, v)], t \in todo
        PROVE  docs'[d].key \in journal.items
    <3>1. d = e /\ docs'[d] = NewDocument(t, v)
      BY <1>a, <2>1
    <3>2. docs'[d].key = t
      BY <3>1 DEF NewDocument
    <3>3. QED BY <1>a, <2>1, <3>2 DEF TypeInv, RunHasJournal
  <2>2. QED
    BY <1>b, <1>1, <2>1 DEF CreateStep, CreateBegin, Pass, LookupNone, LookupRefuse, LookupMatch,
       CreateIssue, CreateFail, CreateRecord, Refuse, OnlyRun, OnlyStage, IsNext
<1>2. ASSUME NEW t \in Targets, LinksStep(t) PROVE FALSE
  <2>1. ~LinksUpdate(t)
    BY <1>a, <1>b, UpdateEvolves
  <2>2. QED
    BY <1>b, <1>2, <2>1 DEF LinksStep, LinksBegin, Pass, LinksRead, LinksReadRefuse,
       LinksUpdateFail, LinksUpdateRefuse, LinksRecord, Refuse, OnlyRun, OnlyStage
<1>3. ASSUME NEW t \in Targets, ReadyStep(t) PROVE FALSE
  <2>1. ~ReadyMark(t)
    BY <1>a, <1>b, MarkEvolves
  <2>2. QED
    BY <1>b, <1>3, <2>1 DEF ReadyStep, ReadyBegin, Pass, ReadyFail, ReadyRecord, OnlyRun, OnlyStage
<1>4. ASSUME NEW t \in Targets, MoveStep(t) PROVE FALSE
  <2>1. ~MoveRelocate(t)
    BY <1>a, <1>b, RelocateEvolves
  <2>2. QED
    BY <1>b, <1>4, <2>1 DEF MoveStep, MoveBegin, MoveKnown, MoveFail, MoveRecord, MoveFinalRead,
       OnlyRun, OnlyStage
<1>5. ASSUME NEW t \in Targets, CaptureStep(t) \/ SealStep(t) PROVE FALSE
  BY <1>b, <1>5 DEF CaptureStep, CaptureBegin, CaptureKnown, CaptureFound, CaptureWrite,
     CaptureRefuse, CaptureRecord, SealStep, SealBegin, SealWrite, SealFound, SealRefuse,
     SealRecord, SealKnown, Pass, Refuse, OnlyRun, OnlyStage
<1>6. CASE CommitStep \/ NextLoop
  BY <1>b, <1>6 DEF CommitStep, CommitSave, SaveFrame, CommitClear, CommitBegin, CommitRecord,
     NextLoop, OnlyRun, OnlyStage
<1>7. QED BY <1>1, <1>2, <1>3, <1>4, <1>5, <1>6 DEF RunStep

\* A run goes on with its journal until it ends it.
LEMMA RunKeepsJournal ==
    ASSUME PublisherInv, RunStep
    PROVE  journal' = journal \/ journal' = NoJournal
<1>1. CASE CommitSave
  BY <1>1 DEF CommitSave, SaveFrame, journalVars
<1>2. CASE CommitClear
  BY <1>2 DEF CommitClear
<1>3. CASE ~CommitSave /\ ~CommitClear
  <2>1. \A items \in SUBSET Targets : ~Start(items)
    BY RunStepRuns DEF Start
  <2>2. QED BY <1>3, <2>1, MostStepsKeepState DEF PublisherInv, Next
<1>4. QED BY <1>1, <1>2, <1>3

\* Saving puts the batch's own documents in the place of the active ones, and
\* every link to one of these is in a document that is saved with it.
LEMMA SaveKeepsLinks ==
    ASSUME PublisherInv, BatchClosed, ActiveLinksCurrent, CommitSave
    PROVE  ActiveLinksCurrent'
<1> SUFFICES ASSUME NEW t \in Targets, active'[t] # NoTarget, NEW u \in Links[t]
             PROVE  docs'[active'[t].file].link[u] \in {active'[u].file, NoDoc}
  BY DEF ActiveLinksCurrent
<1>1. u \in Targets /\ docs' = docs /\ HasJournal
  BY ConstantsOK DEF CommitSave, SaveFrame, PublisherInv, IInv, TypeInv, RunHasJournal
<1>2. /\ t \in journal.items => active'[t] = NewTarget(t)
      /\ t \notin journal.items => active'[t] = active[t]
      /\ u \in journal.items => active'[u] = NewTarget(u)
      /\ u \notin journal.items => active'[u] = active[u]
  BY <1>1, SaveRecords DEF PublisherInv
<1>3. NewTarget(t).file = fileOf[t] /\ NewTarget(u).file = fileOf[u]
  BY DEF NewTarget
<1>4. CASE t \in journal.items
  <2>1. RecordTrue(t, NewTarget(t))
    BY <1>4, SavedRecordTrue DEF PublisherInv
  <2>2. fileOf[t] \in DocIds /\ Ours(fileOf[t]) /\ docs[fileOf[t]].link[u] # Placeholder
    BY <1>1, <1>3, <2>1 DEF RecordTrue, HasNoPlaceholder, Ours, NewTarget
  <2>3. /\ u \in journal.items => docs[fileOf[t]].link[u] \in {NoDoc, fileOf[u]}
        /\ u \notin journal.items => docs[fileOf[t]].link[u] \in {NoDoc, active[u].file}
    BY <1>1, <2>2 DEF PublisherInv, DocsInv, LinksKnown, KnownActive
  <2>4. QED BY <1>1, <1>2, <1>3, <1>4, <2>3
<1>5. CASE t \notin journal.items
  <2>1. u \notin journal.items
    BY <1>1, <1>5 DEF BatchClosed
  <2>2. QED BY <1>1, <1>2, <1>5, <2>1 DEF ActiveLinksCurrent
<1>6. QED BY <1>4, <1>5

\* A step of the running command keeps CommandInv.
LEMMA RunKeepsCommand ==
    ASSUME PublisherInv, PublisherInv', CommandInv, RunCommand
    PROVE  CommandInv'
<1>a. /\ RunStep /\ loaded' = loaded
      /\ built' = [d \in DocIds |-> IF docs[d].st = "absent" /\ docs'[d].st # "absent"
                                    THEN loaded[docs'[d].key] ELSE built[d]]
      /\ hashed' = IF pc = "save"
                   THEN [t \in Targets |-> IF t \in journal.items THEN loaded[t] ELSE hashed[t]]
                   ELSE hashed
      /\ HasJournal' => frozen' = frozen
  BY DEF RunCommand
<1>b. [Next]_vars /\ pc # "idle" /\ (pc = "save" => CommitSave)
  BY <1>a, RunStepRuns DEF Next
<1>c. \/ journal' = journal
      \/ journal' = NoJournal
  BY <1>a, RunKeepsJournal
<1>d. NoJournal.items = {} /\ NoJournal.op = 0
  BY DEF NoJournal
<1>e. journal.items \subseteq Targets /\ HasJournal /\ journal.op = journal.op
  BY <1>b DEF PublisherInv, IInv, TypeInv, TypeOK, JournalTypeOK, RunHasJournal
<1>f. journal' = journal => frozen' = frozen
  BY <1>a, <1>e DEF HasJournal
<1>g. \A t \in journal.items : loaded[t] = frozen[t]
  BY <1>b DEF CommandInv, LoadedAsFrozen
<1>1. LoadedAsFrozen'
  BY <1>a, <1>c, <1>d, <1>f, <1>g DEF LoadedAsFrozen
<1>2. BuiltAsFrozen'
  <2> SUFFICES ASSUME NEW d \in DocIds, Ours(d)' PROVE built'[d] = frozen'[docs'[d].key]
    BY DEF BuiltAsFrozen
  <2>1. journal' = journal /\ frozen' = frozen /\ docs'[d].op = journal.op
    BY <1>c, <1>d, <1>f DEF Ours, HasJournal
  <2>2. docs'[d].st # "absent"
    BY <1>e, <2>1 DEF PublisherInv, DocsInv, OperationsNumbered, HasJournal
  <2>3. CASE docs[d].st = "absent"
    <3>1. docs'[d].key \in journal.items
      BY <1>a, <2>2, <2>3, NewDocumentsOfItems
    <3>2. QED BY <1>a, <1>g, <2>1, <2>2, <2>3, <3>1
  <2>4. CASE docs[d].st # "absent"
    <3>1. Evolves(d)
      BY <1>b, <2>4, DocumentsEvolve DEF PublisherInv
    <3>2. docs'[d].key = docs[d].key /\ docs'[d].op = docs[d].op
      BY <3>1 DEF Evolves
    <3>3. built[d] = frozen[docs[d].key]
      BY <1>e, <2>1, <3>2 DEF CommandInv, BuiltAsFrozen, Ours
    <3>4. QED BY <1>a, <2>1, <2>4, <3>2, <3>3
  <2>5. QED BY <2>3, <2>4
<1>3. HashOfActiveDocument'
  <2> SUFFICES ASSUME NEW t \in Targets, active'[t] # NoTarget
               PROVE  hashed'[t] = built'[active'[t].file]
    BY DEF HashOfActiveDocument
  <2>1. CASE ~CommitSave
    <3>1. active' = active /\ hashed' = hashed
      BY <1>a, <1>b, <2>1, OnlySavesChangeRecords DEF PublisherInv
    <3>2. built'[active[t].file] = built[active[t].file]
      BY <1>a, <3>1, BuiltStays
    <3>3. QED BY <3>1, <3>2 DEF CommandInv, HashOfActiveDocument
  <2>2. CASE CommitSave /\ t \notin journal.items
    <3>1. active'[t] = active[t] /\ pc = "save"
      BY <2>2, SaveRecords DEF PublisherInv, CommitSave, SaveFrame
    <3>2. built'[active[t].file] = built[active[t].file]
      BY <1>a, <3>1, BuiltStays
    <3>3. hashed'[t] = hashed[t]
      BY <1>a, <2>2, <3>1
    <3>4. QED BY <3>1, <3>2, <3>3 DEF CommandInv, HashOfActiveDocument
  <2>3. CASE CommitSave /\ t \in journal.items
    <3>1. active'[t].file = fileOf[t] /\ pc = "save" /\ docs' = docs
      <4>1. active'[t] = NewTarget(t)
        BY <2>3, SaveRecords DEF PublisherInv
      <4>2. NewTarget(t).file = fileOf[t]
        BY DEF NewTarget
      <4>3. pc = "save" /\ docs' = docs
        BY <2>3 DEF CommitSave, SaveFrame
      <4>4. QED BY <4>1, <4>2, <4>3
    <3>2. RecordTrue(t, NewTarget(t))
      BY <2>3, SavedRecordTrue DEF PublisherInv
    <3>3. fileOf[t] \in DocIds /\ Ours(fileOf[t]) /\ docs[fileOf[t]].key = t
      BY <1>e, <3>2 DEF RecordTrue, Ours, NewTarget
    <3>4. built[fileOf[t]] = frozen[t]
      BY <3>3 DEF CommandInv, BuiltAsFrozen
    <3>5. built'[fileOf[t]] = built[fileOf[t]]
      BY <1>a, <3>1, <3>3
    <3>6. hashed'[t] = loaded[t]
      BY <1>a, <2>3, <3>1
    <3>7. QED BY <1>g, <2>3, <3>1, <3>4, <3>5, <3>6
  <2>4. QED BY <2>1, <2>2, <2>3
<1>4. BatchClosed'
  BY <1>c, <1>d DEF CommandInv, BatchClosed, HasJournal
<1>5. ActiveLinksCurrent'
  <2>1. CASE CommitSave
    BY <2>1, SaveKeepsLinks DEF CommandInv
  <2>2. CASE ~CommitSave
    <3>1. UNCHANGED active
      BY <1>b, <2>2, OnlySavesChangeRecords DEF PublisherInv
    <3>2. QED BY <1>b, <3>1, EvolvingKeepsLinks DEF CommandInv
  <2>3. QED BY <2>1, <2>2
<1>6. QED BY <1>1, <1>2, <1>3, <1>4, <1>5 DEF CommandInv

\* An interrupted command leaves its journal and what was made.
LEMMA InterruptKeepsCommand ==
    ASSUME PublisherInv, CommandInv, InterruptCommand
    PROVE  CommandInv'
<1>1. /\ UNCHANGED <<journal, docs, active, loaded, frozen, built, hashed>> /\ pc' = "idle"
  BY DEF InterruptCommand, Interrupt, StopRun, commandVars, durable, journalVars, stateVars
<1>2. QED
  BY <1>1 DEF CommandInv, LoadedAsFrozen, BuiltAsFrozen, HashOfActiveDocument, BatchClosed,
     ActiveLinksCurrent, Ours, HasJournal

\* Late creates and reviewers make no document of other inputs.
LEMMA EnvironmentKeepsCommand ==
    ASSUME PublisherInv, CommandInv, EnvironmentStep
    PROVE  CommandInv'
<1>1. Environment /\ UNCHANGED <<loaded, frozen, built, hashed>> /\ [Next]_vars
  BY DEF EnvironmentStep, commandVars, Next
<1>2. UNCHANGED <<journal, active, pc>>
  BY <1>1 DEF Environment, CreateLands, ReviewerEdits, ReviewerTrashes, ReviewerActs, durable,
     journalVars, stateVars, runVars
<1>3. \A d \in DocIds : docs'[d].op = docs[d].op /\ docs'[d].key = docs[d].key
  BY <1>1, EnvironmentEvolves DEF Evolves, PublisherInv, IInv
<1>4. LoadedAsFrozen' /\ HashOfActiveDocument' /\ BatchClosed'
  BY <1>1, <1>2 DEF CommandInv, LoadedAsFrozen, HashOfActiveDocument, BatchClosed, HasJournal
<1>5. BuiltAsFrozen'
  BY <1>1, <1>2, <1>3 DEF CommandInv, BuiltAsFrozen, Ours, HasJournal
<1>6. ActiveLinksCurrent'
  BY <1>1, <1>2, EvolvingKeepsLinks DEF CommandInv
<1>7. QED BY <1>4, <1>5, <1>6 DEF CommandInv

\* CommandInv holds initially.
LEMMA InitCommandInv == InitCommand => CommandInv
<1> SUFFICES ASSUME InitCommand PROVE CommandInv
  OBVIOUS
<1>1. /\ pc = "idle" /\ journal.op = 0 /\ \A t \in Targets : active[t] = NoTarget
  BY DEF InitCommand, Init, NoJournal
<1>2. QED
  BY <1>1 DEF CommandInv, LoadedAsFrozen, BuiltAsFrozen, HashOfActiveDocument, BatchClosed,
     ActiveLinksCurrent, Ours, HasJournal

\* CommandInv is inductive relative to what is proved of the publisher.
LEMMA NextCommandInv ==
    ASSUME PublisherInv, PublisherInv', CommandInv, [NextCommand]_allVars
    PROVE  CommandInv'
<1>1. ASSUME NEW asked, NEW newReview, Publish(asked, newReview) PROVE CommandInv'
  BY <1>1, PublishKinds, QuietKeepsCommand, StartKeepsCommand, ResumeKeepsCommand
<1>2. ASSUME NEW t \in Targets, EditSource(t) PROVE CommandInv'
  BY <1>2, QuietKeepsCommand DEF EditSource
<1>3. CASE UNCHANGED allVars
  BY <1>3, QuietKeepsCommand DEF allVars, commandVars
<1>4. QED
  BY <1>1, <1>2, <1>3, RunKeepsCommand, InterruptKeepsCommand, EnvironmentKeepsCommand
  DEF NextCommand

-----------------------------------------------------------------------------
(* What the state file says of the inputs *)

\* CommandInv holds in every reachable state of a command.
THEOREM CommandInvHolds == SpecCommand => []CommandInv
<1>1. IInv /\ Position /\ DocsInv /\ KnownActive /\ StoreInv /\ RecordsTrue => PublisherInv
  BY DEF PublisherInv, IInv
<1>2. SpecCommand => []PublisherInv
  BY <1>1, CommandImplementsPublisher, InvariantHolds, DocsInvHolds, KnownActiveHolds,
     StoreInvHolds, PTL
<1>3. PublisherInv /\ PublisherInv' /\ CommandInv /\ [NextCommand]_allVars => CommandInv'
  BY NextCommandInv
<1>4. QED BY <1>2, <1>3, InitCommandInv, PTL DEF SpecCommand

\* The hash in the state file is that of the inputs the active document was
\* made from, however the sources were edited between an interrupted command
\* and the one that finished it (HashOfActiveDocument).
THEOREM HashOfActiveDocumentHolds == SpecCommand => []HashOfActiveDocument
<1>1. CommandInv => HashOfActiveDocument
  BY DEF CommandInv
<1>2. QED BY <1>1, CommandInvHolds, PTL

\* Links between published documents lead to published documents, never to a
\* replaced generation, whatever was selected (ActiveLinksCurrent).
THEOREM ActiveLinksCurrentHolds == SpecCommand => []ActiveLinksCurrent
<1>1. CommandInv => ActiveLinksCurrent
  BY DEF CommandInv
<1>2. QED BY <1>1, CommandInvHolds, PTL
=============================================================================
