---------------------------- MODULE StateRecovery ----------------------------
(***************************************************************************)
(* The publish command together with what recovers its state file:         *)
(* `state reconcile`, with and without --abandon-operation                 *)
(* (Application.Reconcile in internal/app/state_commands.go and Reconcile  *)
(* in internal/state/reconcile.go), and the user who removes orphan review *)
(* snapshots.                                                              *)
(*                                                                         *)
(* The state file can get lost between two commands.  Until a command      *)
(* writes another one, active and prior show what was lost: no command     *)
(* reads them then.                                                        *)
(*                                                                         *)
(* Reconcile reads Google, decides and saves in one step here: what        *)
(* happens in Google in between has the same effect after the save.        *)
(***************************************************************************)
EXTENDS PublishCommand

CONSTANTS
    MaxLosses,      \* bound: losses of the state file
    MaxScans,       \* bound: reconciliations of a state file that is there
    MaxRemovals     \* bound: removals of orphan snapshots

ASSUME RecoveryConstantsOK ==
    /\ {MaxLosses, MaxScans, MaxRemovals} \subseteq Nat
    /\ IsFiniteSet(Targets)     \* a review set has a size

VARIABLES
    stateFile,      \* whether the state file can be read
    size,           \* mdoc_expected_set_size of each document
    abandoning,     \* a reconcile has saved and has still to end the journal
    losses, scans, removals     \* bounded counters

fileVars == <<stateFile, abandoning, losses, scans, removals>>
recoveryVars == <<fileVars, size>>
everything == <<allVars, recoveryVars>>

StateFiles == {"present", "missing", "damaged"}

InitRecovery ==
    /\ InitCommand
    /\ stateFile = "present" /\ abandoning = FALSE
    /\ size = [d \in DocIds |-> 0]
    /\ losses = 0 /\ scans = 0 /\ removals = 0

\* Every command takes the lock of the workspace and profile.
Unlocked == pc = "idle" /\ ~abandoning

-----------------------------------------------------------------------------
(* What the scan finds *)

Live == {d \in DocIds : docs[d].st = "live"}
SetOf(o) == {d \in Live : docs[d].op = o}

\* Two documents claim the same generation of one target.
DuplicateTarget ==
    \E d, e \in Live : d # e /\ docs[d].key = docs[e].key /\ docs[d].gen = docs[e].gen

\* Mutation of CompleteSet: the members are not counted.
CompleteSet_Uncounted(o) ==
    \A d \in SetOf(o) : docs[d].status = "ready" /\ docs[d].parent = "review"

\* All members of a review set are there, ready and in the review folder.
CompleteSet(o) ==
    \A d \in SetOf(o) :
        /\ Cardinality(SetOf(o)) = size[d]
        /\ docs[d].status = "ready" /\ docs[d].parent = "review"
        /\ \A e \in SetOf(o) \ {d} : docs[e].key # docs[d].key

PendingSets == {docs[d].op : d \in {e \in Live : ~CompleteSet(docs[e].op)}}

\* Mutation of RecoveredSnapshot: a candidate is taken, too.
RecoveredSnapshot_Unsealed(d) ==
    LET kept == snap[docs[d].key][docs[d].gen] IN
    IF UseTargets /\ kept.op = docs[d].op /\ kept.file = d THEN kept ELSE NoManifest

\* The sealed snapshot on disk, when it is that of the document.
RecoveredSnapshot(d) ==
    LET kept == snap[docs[d].key][docs[d].gen] IN
    IF UseTargets /\ kept.status = "sealed" /\ kept.op = docs[d].op /\ kept.file = d
    THEN kept ELSE NoManifest

RecoveredTarget(d) ==
    [file |-> d, gen |-> docs[d].gen, op |-> docs[d].op, snap |-> RecoveredSnapshot(d)]

\* The documents of target t in complete sets, oldest generation first.
RecoveredDocs(t) == {d \in Live : docs[d].key = t /\ CompleteSet(docs[d].op)}

\* Mutation of ByGeneration: they stay in the order Google lists them.
ByGeneration_Unsorted(found) ==
    CHOOSE s \in [1..Cardinality(found) -> found] :
        \A i, j \in 1..Cardinality(found) : i < j => docs[s[i]].gen > docs[s[j]].gen

ByGeneration(found) ==
    CHOOSE s \in [1..Cardinality(found) -> found] :
        \A i, j \in 1..Cardinality(found) : i < j => docs[s[i]].gen < docs[s[j]].gen

RecoveredTargets(t) ==
    LET found == ByGeneration(RecoveredDocs(t))
    IN  [i \in 1..Cardinality(RecoveredDocs(t)) |-> RecoveredTarget(found[i])]

-----------------------------------------------------------------------------
(* Reconcile *)

Reconcilable == stateFile # "present" \/ scans < MaxScans

\* The scan is ambiguous, or the operation has pending documents.
ReconcileRefuse(abandon) ==
    /\ Unlocked /\ Reconcilable
    /\ \/ DuplicateTarget
       \/ abandon /\ HasJournal /\ PendingSets # {}
    /\ Answer("refused") /\ UNCHANGED recoveryVars

\* The recovered targets replace the state file; no source hash is recovered.
SaveRecovered(abandon) ==
    /\ LET last(t) == Cardinality(RecoveredDocs(t)) IN
       /\ active' = [t \in Targets |-> IF last(t) = 0 THEN NoTarget
                                       ELSE RecoveredTargets(t)[last(t)]]
       /\ prior' = [t \in Targets |-> SubSeq(RecoveredTargets(t), 1, last(t) - 1)]
    /\ hashed' = [t \in Targets |-> 0]
    /\ stateFile' = "present" /\ abandoning' = (abandon /\ HasJournal)
    /\ scans' = IF stateFile = "present" THEN scans + 1 ELSE scans
    /\ UNCHANGED <<journalVars, snap, docs, runVars, countVars, source, loaded, frozen,
                   built, outcome, edits, losses, removals, size>>

\* Mutations of ReconcileSave: an operation is abandoned whatever is pending;
\* nothing is recovered while an operation is unfinished.
ReconcileSave_AnyPending(abandon) ==
    Unlocked /\ Reconcilable /\ ~DuplicateTarget /\ SaveRecovered(abandon)
ReconcileSave_NoJournal(abandon) ==
    Unlocked /\ Reconcilable /\ ~DuplicateTarget /\ ~HasJournal /\ SaveRecovered(abandon)

ReconcileSave(abandon) ==
    /\ Unlocked /\ Reconcilable /\ ~DuplicateTarget
    /\ abandon /\ HasJournal => PendingSets = {}
    /\ SaveRecovered(abandon)

\* The abandoned operation's journal is removed.
AbandonClear ==
    /\ abandoning /\ abandoning' = FALSE
    /\ journal' = NoJournal
    /\ stage' = [t \in Targets |-> Planned]
    /\ fileOf' = [t \in Targets |-> NoDoc]
    /\ candHash' = [t \in Targets |-> NoManifest]
    /\ sealHash' = [t \in Targets |-> NoManifest]
    /\ frozen' = [t \in Targets |-> 0]
    /\ UNCHANGED <<stateVars, snap, docs, runVars, countVars, source, loaded, built,
                   hashed, outcome, edits, stateFile, losses, scans, removals, size>>

\* The command ends between its save and the removal of the journal.
AbandonInterrupt ==
    /\ abandoning /\ abandoning' = FALSE /\ Failed
    /\ UNCHANGED <<durable, docs, runVars, ops, late, reviewer, commandVars,
                   stateFile, losses, scans, removals, size>>

-----------------------------------------------------------------------------
(* The file system and the user *)

LoseState ==
    /\ Unlocked /\ stateFile = "present"
    /\ losses < MaxLosses /\ losses' = losses + 1
    /\ stateFile' \in {"missing", "damaged"}
    /\ UNCHANGED <<allVars, size, abandoning, scans, removals>>

\* A snapshot on disk that no active or prior target refers to.
Orphan(t, g) ==
    /\ snap[t][g] # NoManifest
    /\ \A r \in Recorded(t) : r.gen = g => r.snap # snap[t][g]

\* The user removes a snapshot that `mdoc status` lists as an orphan.
RemoveOrphan(t, g) ==
    /\ Unlocked /\ stateFile = "present" /\ Orphan(t, g)
    /\ removals < MaxRemovals /\ removals' = removals + 1
    /\ snap' = [snap EXCEPT ![t][g] = NoManifest]
    /\ UNCHANGED <<journalVars, stateVars, docs, runVars, countVars, commandVars,
                   size, stateFile, abandoning, losses, scans>>

-----------------------------------------------------------------------------
(* The other commands around them *)

PublishReady(asked, newReview) ==
    /\ stateFile = "present" /\ ~abandoning
    /\ Publish(asked, newReview) /\ UNCHANGED recoveryVars

\* "state_reconcile_required"
PublishUnready ==
    /\ Unlocked /\ stateFile # "present"
    /\ Answer("refused") /\ UNCHANGED recoveryVars

\* The snapshot that the journal says was captured is gone.
CaptureLost(t) ==
    /\ Refuse("capture", t) /\ stage[t] >= ReviewCaptured
    /\ Snapshot(t) = NoManifest
    /\ UNCHANGED <<commandVars, recoveryVars>>

\* Mutation of RunStepSized: the size of a set is that of the project.
RunStepSized_Project ==
    /\ RunCommand
    /\ size' = [d \in DocIds |-> IF docs[d].st = "absent" /\ docs'[d].st # "absent"
                                 THEN Cardinality(Targets) ELSE size[d]]
    /\ UNCHANGED fileVars

RunStepSized ==
    /\ RunCommand
    /\ size' = [d \in DocIds |-> IF docs[d].st = "absent" /\ docs'[d].st # "absent"
                                 THEN Cardinality(journal.items) ELSE size[d]]
    /\ UNCHANGED fileVars

RunRecovery == RunStepSized \/ AbandonClear

Outside == InterruptCommand \/ EnvironmentStep \/ \E t \in Targets : EditSource(t)

NextRecovery ==
    \/ \E asked \in (SUBSET Targets) \ {{}}, newReview \in BOOLEAN :
          PublishReady(asked, newReview)
    \/ PublishUnready
    \/ RunRecovery
    \/ Outside /\ UNCHANGED recoveryVars
    \/ \E abandon \in BOOLEAN : ReconcileRefuse(abandon) \/ ReconcileSave(abandon)
    \/ AbandonInterrupt \/ LoseState

\* The user recovers a lost state with reconcile and leaves orphans alone.
SpecRecovery == InitRecovery /\ [][NextRecovery]_everything

\* The user removes whatever is listed as an orphan and is neither active nor
\* prior.
NextAnyOrphan ==
    \/ NextRecovery
    \/ \E t \in Targets : CaptureLost(t) \/ \E g \in 1..MaxOps : RemoveOrphan(t, g)
SpecAnyOrphan == InitRecovery /\ [][NextAnyOrphan]_everything

\* Commands go on until they end, a lost state is reconciled, and the publish
\* command is given until no unfinished operation is reported.
FairSpecRecovery ==
    /\ SpecRecovery
    /\ WF_everything(RunRecovery)
    /\ WF_everything(stateFile # "present" /\ ReconcileSave(FALSE))
    /\ WF_everything(PublishReady(Targets, FALSE))
    /\ WF_everything(PublishReady(Targets, TRUE))
-----------------------------------------------------------------------------
(* Properties *)

\* What a reconcile recovers contains every target the state file had, or the
\* lost one, with its baseline, through any crashes of the publisher before
\* it ("Recover missing or damaged local mapping", README.md:468), as long as
\* no document of a review set is in the trash.
ReconcileRecovers ==
    [][(stateFile' = "present" /\ stateVars' # stateVars /\ pc = "idle"
        /\ \A d \in DocIds : docs[d].st # "trashed")
       => \A t \in Targets : Recorded(t) \ {NoTarget} \subseteq Recorded(t)']_everything

\* Abandoning an operation loses no document: when its journal is removed, each
\* live document it made is in the state file, whatever crashed between the
\* scan, the save and the removal; the rest are creates that took effect late
\* ("Clear an unusable publish journal only after the remote safety scan",
\* README.md:474).
AbandonLosesNothing ==
    [][abandoning /\ HasJournal /\ ~HasJournal' =>
       Cardinality({d \in Live : docs[d].op = journal.op
                      /\ \A r \in Recorded(docs[d].key) : r.file # d}) <= late]_everything

\* "Reconcile can restore a snapshot reference only from a sealed local
\* snapshot that matches the recovered target" (README.md:317): no record has
\* another baseline than the sealed snapshot of its document, as it was when
\* the document was published.
RecoveredBaseline ==
    \A t \in Targets : \A r \in Recorded(t) : r.snap # NoManifest =>
        /\ r.snap = snap[t][r.gen] /\ r.snap.status = "sealed"
        /\ r.snap.op = r.op /\ r.snap.file = r.file /\ r.snap.rev = r.snap.act

\* The journal's own captured snapshots are still there when it is taken up
\* again: what the user removes as an orphan, "only after checking that no
\* active or prior target needs it" (README.md:460), is of no use.
JournalKeepsSnapshots ==
    \A t \in journal.items \cap ReviewPull :
        stage[t] >= ReviewCaptured => Snapshot(t) # NoManifest

\* What keeps an operation from capturing its baseline, the snapshot of an
\* earlier operation for the same generation, is listed as an orphan: the user
\* can remove it and publish (publish.go:463, snapshot.go:273).
ForeignSnapshotIsOrphan ==
    \A t \in journal.items :
        Snapshot(t) # NoManifest /\ Snapshot(t).op # journal.op => Orphan(t, journal.gen[t])

\* A snapshot is taken for the baseline of the operation that made it only,
\* and one of another operation that stands in its way can be removed.
BaselinesTrusted == RecoveredBaseline /\ ForeignSnapshotIsOrphan

\* A target has one live document of each generation, but for late creates:
\* else the scan is ambiguous for ever (reconcile.go:91).
GenerationsDistinct ==
    (\A d \in DocIds : docs[d].st # "trashed") =>
    \A t \in Targets : \A g \in 1..ops :
        Cardinality({d \in Live : docs[d].key = t /\ docs[d].gen = g}) <= 1 + late

\* The generations of a target tell its documents apart and order them, in
\* the state file and in Google, whatever was abandoned or recovered.
GenerationsOrdered == HistoryOrdered /\ GenerationsDistinct

\* An interrupted operation is finished by the command it prints ("The printed
\* recovery command does not need the original field flags", README.md:464),
\* although the state file is lost and reconciled in the middle of it ("Normal
\* reconciliation and remap preserve [...] durable recovery journals",
\* README.md:490), as long as the inputs are those of the interrupted one, no
\* reviewer interferes and no create is late.
RecoveredPublishCompletes ==
    HasJournal ~> (~HasJournal \/ ~Undisturbed \/ ~InputsUnchanged)
=============================================================================
