--------------------------- MODULE BatchPublisher ---------------------------
(***************************************************************************)
(* One review set published by BatchPublisher.Run (internal/app/publish.go)*)
(* against Google Drive and Docs, through the operation journal, the       *)
(* review snapshots and the state file of one workspace and profile.       *)
(*                                                                         *)
(* Every durable write (journal, snapshot, state file) and every remote    *)
(* call is an action of its own.  Between any two of them the run can be   *)
(* interrupted by a crash or by an error it returns; the next run starts   *)
(* from the journal.  A remote call can fail without effect or lose its    *)
(* answer, a document create can also take effect later, and reviewers     *)
(* edit or trash documents at any time.                                    *)
(***************************************************************************)
EXTENDS JournalStages, Sequences, FiniteSets

CONSTANTS
    Targets,        \* publication targets: positive numbers, in source key order
    DocIds,         \* the file IDs Google can assign
    NoDoc,          \* the absent file ID
    Placeholder,    \* the pending URL a link holds before it is fixed
    Links,          \* Links[t]: the targets the source of t links to
    ReviewPull,     \* the targets whose review pull is enabled
    Attempts,       \* attempts of a remote call in one run
    MaxOps,         \* bound: publish operations started
    MaxFailures,    \* bound: interrupted runs, failed calls and lost answers
    MaxLate,        \* bound: creates that take effect after their failed answer
    MaxReviewer     \* bound: reviewer edits and trashings

ASSUME ConstantsOK ==
    /\ Targets \subseteq Nat \ {0}
    /\ NoDoc \notin DocIds
    /\ Placeholder \notin DocIds \cup {NoDoc}
    /\ Links \in [Targets -> SUBSET Targets]
    /\ ReviewPull \subseteq Targets
    /\ Attempts \in Nat \ {0}
    /\ {MaxOps, MaxFailures, MaxLate, MaxReviewer} \subseteq Nat

VARIABLES
    journal,    \* the journal's identity: operation, items, generations, known URLs
    stage,      \* journal entry stage of each target
    fileOf,     \* journal entry file ID of each target
    candHash,   \* journal entry review candidate hash
    sealHash,   \* journal entry review sealed hash
    active,     \* state file: the active target of each target key
    prior,      \* state file: the prior targets of each target key
    snap,       \* review snapshot store: one manifest per target and generation
    docs,       \* the Google documents
    pc,         \* where the running publish command is, "idle" when none runs
    todo,       \* the items its current loop has not reached
    attempt,    \* failed attempts of its current remote call
    got,        \* the file ID a create returned and the journal does not hold yet
    readRev,    \* the document revision the links were read at
    finalSt,    \* the trashed flag its last read of each file returned
    ops, failures, late, reviewer   \* bounded counters of what happened so far

journalVars  == <<journal, stage, fileOf, candHash, sealHash>>
stateVars    == <<active, prior>>
runVars      == <<pc, todo, attempt, got, readRev, finalSt>>
durable      == <<journalVars, stateVars, snap>>
countVars    == <<ops, failures, late, reviewer>>
vars == <<journalVars, stateVars, snap, docs, runVars, countVars>>

-----------------------------------------------------------------------------
(* Data *)

FileIds == DocIds \cup {NoDoc}

\* A manifest stands for its own hash: two manifests have one hash exactly
\* when they are equal.
Manifests == [status : {"none", "candidate", "sealed"}, op : Nat,
              file : FileIds, rev : Nat, act : Nat]
NoManifest == [status |-> "none", op |-> 0, file |-> NoDoc, rev |-> 0, act |-> 0]
CandidateOf(m) == [m EXCEPT !.status = "candidate", !.act = 0]

TargetRecords == [file : FileIds, gen : Nat, op : Nat, snap : Manifests]
NoTarget == [file |-> NoDoc, gen |-> 0, op |-> 0, snap |-> NoManifest]

Documents == [st : {"absent", "inflight", "live", "trashed"}, op : Nat,
              key : Nat, gen : Nat, status : {"pending", "ready"},
              parent : {"staging", "review"}, rev : Nat,
              link : [Targets -> FileIds \cup {Placeholder}]]
NoDocument == [st |-> "absent", op |-> 0, key |-> 0, gen |-> 0,
               status |-> "pending", parent |-> "staging", rev |-> 0,
               link |-> [t \in Targets |-> NoDoc]]

NoJournal == [op |-> 0, items |-> {}, gen |-> [t \in Targets |-> 0],
              known |-> [t \in Targets |-> NoDoc]]

\* Every change of the content of a document gives it a new revision.
Revised(doc, link) == [doc EXCEPT !.rev = @ + 1, !.link = link]

HasJournal == journal.op # 0
ActiveURLs == [t \in Targets |-> active[t].file]
Visible(d) == docs[d].st \in {"live", "trashed"}

\* Mutation of LinkURL: the known target wins over the batch's own document.
LinkURL_KnownFirst(u) == IF journal.known[u] # NoDoc THEN journal.known[u] ELSE fileOf[u]

\* The URL a link to target u must hold: the batch's own document, else the
\* document that was active when the operation was planned.
LinkURL(u) == IF u \in journal.items THEN fileOf[u] ELSE journal.known[u]

\* The links of item t that are rendered as placeholders: those into the
\* batch.  The other ones are rendered with the URL known at that time.
PendingLinks(t) == Links[t] \cap journal.items

\* A document as CreateDocument makes it for item t of the running operation.
NewDocument(t, visibility) ==
    [st |-> visibility, op |-> journal.op, key |-> t, gen |-> journal.gen[t],
     status |-> "pending", parent |-> "staging", rev |-> 1,
     link |-> [u \in Targets |-> CASE u \in PendingLinks(t) -> Placeholder
                                   [] u \in Links[t] \ journal.items -> journal.known[u]
                                   [] OTHER -> NoDoc]]

Init ==
    /\ journal = NoJournal
    /\ stage = [t \in Targets |-> Planned]
    /\ fileOf = [t \in Targets |-> NoDoc]
    /\ candHash = [t \in Targets |-> NoManifest]
    /\ sealHash = [t \in Targets |-> NoManifest]
    /\ active = [t \in Targets |-> NoTarget]
    /\ prior = [t \in Targets |-> << >>]
    /\ snap = [t \in Targets |-> [g \in 1..MaxOps |-> NoManifest]]
    /\ docs = [d \in DocIds |-> NoDocument]
    /\ pc = "idle" /\ todo = {} /\ attempt = 0 /\ got = NoDoc /\ readRev = 0
    /\ finalSt = [t \in Targets |-> "absent"]
    /\ ops = 0 /\ failures = 0 /\ late = 0 /\ reviewer = 0

-----------------------------------------------------------------------------
(* The loops of a run *)

IsNext(t) == t \in todo /\ \A u \in todo : t <= u
Goto(label) == pc' = label /\ UNCHANGED <<todo, finalSt>>
NewCall == attempt' = 0 /\ got' = NoDoc /\ readRev' = 0
SameCall == UNCHANGED <<attempt, got, readRev>>
ItemDone(t, loop) == pc' = loop /\ todo' = todo \ {t} /\ NewCall

Labels == {"idle", "create", "lookup", "issue", "record", "links", "readlinks",
           "updatelinks", "linksdone", "capture", "snapshot", "captured",
           "ready", "mark", "marked", "move", "relocate", "moved", "final",
           "seal", "activate", "sealed", "committing", "save", "committed",
           "clear"}

StopRun ==
    /\ pc' = "idle" /\ todo' = {} /\ NewCall
    /\ finalSt' = [t \in Targets |-> "absent"]

\* AdvanceJournal: one stage is one atomic write of the journal.
Advance(t, next) ==
    /\ ValidTransition(stage[t], next)
    /\ stage' = [stage EXCEPT ![t] = next]

\* Mutation of Announce: the stage is recorded even when an earlier run got
\* further.
Announce_Again(t, next) == stage' = [stage EXCEPT ![t] = next]

\* The stage recorded before a step, skipped when an earlier run recorded it.
Announce(t, next) ==
    IF stage[t] < next THEN Advance(t, next) ELSE UNCHANGED stage

OnlyStage == UNCHANGED <<journal, fileOf, candHash, sealHash, stateVars, snap,
                         docs, countVars>>
OnlyRun == UNCHANGED stage /\ OnlyStage
OnlyDocs == UNCHANGED <<durable, ops, late, reviewer>>

Following ==
    [create |-> "links", links |-> "capture", capture |-> "ready",
     ready |-> "move", move |-> "seal", seal |-> "committing",
     committing |-> "save", committed |-> "clear"]

LoopItems(loop) ==
    CASE loop \in {"capture", "seal"} -> journal.items \cap ReviewPull
      [] loop \in {"save", "clear"} -> {}
      [] OTHER -> journal.items

\* Mutation of NextLoop: the next loop starts when one item is left.
NextLoop_Early ==
    /\ pc \in DOMAIN Following /\ Cardinality(todo) <= 1
    /\ pc' = Following[pc]
    /\ todo' = LoopItems(Following[pc])
    /\ SameCall /\ UNCHANGED finalSt /\ OnlyRun

\* A loop has gone through all its items: the next one starts.
NextLoop ==
    /\ pc \in DOMAIN Following /\ todo = {}
    /\ pc' = Following[pc]
    /\ todo' = LoopItems(Following[pc])
    /\ SameCall /\ UNCHANGED finalSt /\ OnlyRun

\* A loop passes over item t, whose journal entry is far enough.
Pass(loop, t, reached) ==
    /\ pc = loop /\ IsNext(t) /\ stage[t] >= reached
    /\ ItemDone(t, loop) /\ UNCHANGED finalSt /\ OnlyRun

\* A remote call failed with a retryable error: the call starts over at
\* `again` until its attempts are used up, then the run returns the error.
Failed == failures < MaxFailures /\ failures' = failures + 1
CallFailed(again) ==
    /\ Failed
    /\ IF attempt + 1 < Attempts
       THEN Goto(again) /\ attempt' = attempt + 1 /\ UNCHANGED <<got, readRev>>
       ELSE StopRun

\* Anything else that ends a run early: a crash, or an error that is not
\* retried.  Nothing but what was already written or sent remains.
Interrupt ==
    /\ pc # "idle" /\ Failed /\ StopRun
    /\ UNCHANGED <<durable, docs, ops, late, reviewer>>

\* The run refuses to go on at `label`.
Refuse(label, t) ==
    /\ pc = label /\ IsNext(t)
    /\ StopRun /\ OnlyRun

-----------------------------------------------------------------------------
(* Starting a run *)

\* A new operation: the caller's items, each one generation after its active
\* target, every link to a target in the batch or known.  The journal is
\* written before anything else happens.
Start(items) ==
    /\ pc = "idle" /\ ~HasJournal /\ ops < MaxOps
    /\ items # {}
    /\ \A t \in items : Links[t] \subseteq items \cup {u \in Targets : ActiveURLs[u] # NoDoc}
    /\ ops' = ops + 1
    /\ journal' = [op |-> ops + 1, items |-> items,
                   gen |-> [t \in Targets |-> IF t \in items THEN active[t].gen + 1 ELSE 0],
                   known |-> ActiveURLs]
    /\ pc' = "create" /\ todo' = items /\ NewCall /\ UNCHANGED finalSt
    /\ UNCHANGED <<stage, fileOf, candHash, sealHash, stateVars, snap, docs,
                   failures, late, reviewer>>

\* The same request is made again: it resumes from the journal.  (Run accepts
\* no other one; which request a command makes is PublishCommand's subject.)
Resume ==
    /\ pc = "idle" /\ HasJournal
    /\ pc' = "create" /\ todo' = journal.items /\ NewCall /\ UNCHANGED finalSt
    /\ OnlyRun

-----------------------------------------------------------------------------
(* Creating the documents *)

CreateBegin(t) ==
    /\ pc = "create" /\ IsNext(t) /\ stage[t] < Created
    /\ Announce(t, Creating)
    /\ Goto("lookup") /\ NewCall /\ OnlyStage

\* FindDocuments does not list trashed files.
Matches(t) == {d \in DocIds : docs[d].st = "live" /\ docs[d].op = journal.op
                                                  /\ docs[d].key = t}
Reusable(t) == {d \in Matches(t) : /\ docs[d].parent = "staging"
                                   /\ docs[d].status = "pending"
                                   /\ docs[d].gen = journal.gen[t]}

\* Creator.reconcile, before the first attempt and after each failed one:
\* nothing is found, so the next attempt is made.
LookupNone(t) ==
    /\ pc = "lookup" /\ IsNext(t)
    /\ Matches(t) = {} /\ attempt < Attempts
    /\ Goto("issue") /\ SameCall /\ OnlyRun

\* The only match is the document of an earlier attempt.
LookupMatch(t, d) ==
    /\ pc = "lookup" /\ IsNext(t)
    /\ Matches(t) = {d} /\ Reusable(t) = {d}
    /\ Goto("record") /\ got' = d /\ UNCHANGED <<attempt, readRev>> /\ OnlyRun

\* No attempt is left, the match is not the expected file, or there are more.
LookupRefuse(t) ==
    /\ Refuse("lookup", t)
    /\ IF Matches(t) = {} THEN attempt = Attempts
       ELSE Cardinality(Matches(t)) > 1 \/ Reusable(t) = {}

\* CreateDocument takes effect, and its answer arrives or is lost.
CreateIssue(t, d) ==
    /\ pc = "issue" /\ IsNext(t)
    /\ docs[d].st = "absent"
    /\ docs' = [docs EXCEPT ![d] = NewDocument(t, "live")]
    /\ \/ /\ Goto("record") /\ got' = d /\ UNCHANGED <<attempt, readRev, failures>>
       \/ /\ Failed /\ Goto("lookup") /\ attempt' = attempt + 1
          /\ UNCHANGED <<got, readRev>>
    /\ OnlyDocs

\* CreateDocument fails: for good, or to take effect later.
CreateFail(t) ==
    /\ pc = "issue" /\ IsNext(t)
    /\ Failed /\ Goto("lookup") /\ attempt' = attempt + 1
    /\ UNCHANGED <<got, readRev>>
    /\ \/ UNCHANGED <<docs, late>>
       \/ /\ late < MaxLate /\ late' = late + 1
          /\ \E d \in DocIds :
              /\ docs[d].st = "absent"
              /\ docs' = [docs EXCEPT ![d] = NewDocument(t, "inflight")]
    /\ UNCHANGED <<durable, ops, reviewer>>

\* Mutation of CreateRecord: the file ID is not written to the journal.
CreateRecord_NoFile(t) ==
    /\ pc = "record" /\ IsNext(t)
    /\ Advance(t, Created)
    /\ ItemDone(t, "create") /\ UNCHANGED finalSt /\ OnlyStage

CreateRecord(t) ==
    /\ pc = "record" /\ IsNext(t)
    /\ Advance(t, Created)
    /\ fileOf' = [fileOf EXCEPT ![t] = got]
    /\ ItemDone(t, "create") /\ UNCHANGED finalSt
    /\ UNCHANGED <<journal, candHash, sealHash, stateVars, snap, docs, countVars>>

-----------------------------------------------------------------------------
(* Fixing the links *)

LinksBegin(t) ==
    /\ pc = "links" /\ IsNext(t) /\ stage[t] < LinksFixed
    /\ Announce(t, FixingLinks)
    /\ Goto("readlinks") /\ NewCall /\ OnlyStage

Pending(d) == docs[d].op = journal.op /\ docs[d].status = "pending"
Placeholders(t) == {u \in PendingLinks(t) : docs[fileOf[t]].link[u] = Placeholder}
LinkLost(t) == \E u \in PendingLinks(t) : docs[fileOf[t]].link[u] \notin {Placeholder, LinkURL(u)}

\* The pending document is read: some links still hold their placeholder.
LinksRead(t) ==
    /\ pc = "readlinks" /\ IsNext(t)
    /\ Pending(fileOf[t]) /\ ~LinkLost(t)
    /\ Goto(IF Placeholders(t) = {} THEN "linksdone" ELSE "updatelinks")
    /\ readRev' = docs[fileOf[t]].rev
    /\ UNCHANGED <<attempt, got>> /\ OnlyRun

\* The document is not this operation's pending one, or a link is gone.
LinksReadRefuse(t) ==
    /\ Refuse("readlinks", t)
    /\ ~Pending(fileOf[t]) \/ LinkLost(t)

\* UpdateLinks names the revision that was read: Docs applies it to no other.
LinksUpdate(t) ==
    /\ pc = "updatelinks" /\ IsNext(t)
    /\ docs[fileOf[t]].rev = readRev
    /\ docs' = [docs EXCEPT ![fileOf[t]] = Revised(@, [u \in Targets |->
                                IF u \in Placeholders(t) THEN LinkURL(u) ELSE @.link[u]])]
    /\ \/ Goto("linksdone") /\ SameCall /\ UNCHANGED failures
       \/ CallFailed("readlinks")
    /\ OnlyDocs

\* Mutation of LinksUpdateFail: the failed update is taken for done.
LinksUpdateFail_Ignored(t) ==
    /\ pc = "updatelinks" /\ IsNext(t)
    /\ Failed /\ Goto("linksdone") /\ SameCall /\ UNCHANGED docs /\ OnlyDocs

LinksUpdateFail(t) ==
    /\ pc = "updatelinks" /\ IsNext(t)
    /\ CallFailed("readlinks") /\ UNCHANGED docs /\ OnlyDocs

LinksUpdateRefuse(t) ==
    /\ Refuse("updatelinks", t)
    /\ docs[fileOf[t]].rev # readRev

LinksRecord(t) ==
    /\ pc = "linksdone" /\ IsNext(t)
    /\ Advance(t, LinksFixed)
    /\ ItemDone(t, "links") /\ UNCHANGED finalSt /\ OnlyStage

-----------------------------------------------------------------------------
(* Capturing the review baseline *)

Snapshot(t) == snap[t][journal.gen[t]]

\* An entry captured before must agree with the snapshot that was kept.
CaptureKnown(t) ==
    /\ Pass("capture", t, ReviewCaptured)
    /\ Snapshot(t).op = journal.op /\ candHash[t] = CandidateOf(Snapshot(t))

CaptureBegin(t) ==
    /\ pc = "capture" /\ IsNext(t) /\ stage[t] < ReviewCaptured
    /\ Announce(t, CapturingReview)
    /\ Goto("snapshot") /\ NewCall /\ OnlyStage

\* The candidate an interrupted run wrote is taken over.
CaptureFound(t) ==
    /\ pc = "snapshot" /\ IsNext(t) /\ Snapshot(t).op = journal.op
    /\ Goto("captured") /\ SameCall /\ OnlyRun

\* The stable read of the pending staging document, then WriteCandidate.
Capturable(d) == docs[d].st = "live" /\ Pending(d) /\ docs[d].parent = "staging"
CaptureWrite(t) ==
    /\ pc = "snapshot" /\ IsNext(t) /\ Snapshot(t) = NoManifest
    /\ Capturable(fileOf[t])
    /\ snap' = [snap EXCEPT ![t][journal.gen[t]] =
                  [status |-> "candidate", op |-> journal.op, file |-> fileOf[t],
                   rev |-> docs[fileOf[t]].rev, act |-> 0]]
    /\ Goto("captured") /\ SameCall
    /\ UNCHANGED <<journalVars, stateVars, docs, countVars>>

\* The snapshot is another operation's, or the document cannot be captured.
CaptureRefuse(t) ==
    /\ Refuse("snapshot", t)
    /\ \/ Snapshot(t) = NoManifest /\ ~Capturable(fileOf[t])
       \/ Snapshot(t) # NoManifest /\ Snapshot(t).op # journal.op

CaptureRecord(t) ==
    /\ pc = "captured" /\ IsNext(t)
    /\ Advance(t, ReviewCaptured)
    /\ candHash' = [candHash EXCEPT ![t] = CandidateOf(Snapshot(t))]
    /\ ItemDone(t, "capture") /\ UNCHANGED finalSt
    /\ UNCHANGED <<journal, fileOf, sealHash, stateVars, snap, docs, countVars>>

-----------------------------------------------------------------------------
(* Marking ready and moving to the review folder *)

ReadyBegin(t) ==
    /\ pc = "ready" /\ IsNext(t) /\ stage[t] < Ready
    /\ Announce(t, MarkingReady)
    /\ Goto("mark") /\ NewCall /\ OnlyStage

\* UpdateProperties, unless the file is ready already.
ReadyMark(t) ==
    /\ pc = "mark" /\ IsNext(t)
    /\ docs' = [docs EXCEPT ![fileOf[t]].status = "ready"]
    /\ \/ Goto("marked") /\ SameCall /\ UNCHANGED failures
       \/ docs[fileOf[t]].status # "ready" /\ CallFailed("mark")
    /\ OnlyDocs

ReadyFail(t) ==
    /\ pc = "mark" /\ IsNext(t)
    /\ CallFailed("mark") /\ UNCHANGED docs /\ OnlyDocs

ReadyRecord(t) ==
    /\ pc = "marked" /\ IsNext(t)
    /\ Advance(t, Ready)
    /\ ItemDone(t, "ready") /\ UNCHANGED finalSt /\ OnlyStage

MoveBegin(t) ==
    /\ pc = "move" /\ IsNext(t) /\ stage[t] < Moved
    /\ Announce(t, Moving)
    /\ Goto("relocate") /\ NewCall /\ OnlyStage

\* MoveFile, unless the file is in the review folder already.
MoveRelocate(t) ==
    /\ pc = "relocate" /\ IsNext(t)
    /\ docs' = [docs EXCEPT ![fileOf[t]].parent = "review"]
    /\ \/ Goto("moved") /\ SameCall /\ UNCHANGED failures
       \/ docs[fileOf[t]].parent # "review" /\ CallFailed("relocate")
    /\ OnlyDocs

MoveFail(t) ==
    /\ pc = "relocate" /\ IsNext(t)
    /\ CallFailed("relocate") /\ UNCHANGED docs /\ OnlyDocs

MoveRecord(t) ==
    /\ pc = "moved" /\ IsNext(t)
    /\ Advance(t, Moved)
    /\ Goto("final") /\ NewCall /\ OnlyStage

MoveKnown(t) ==
    /\ pc = "move" /\ IsNext(t) /\ stage[t] >= Moved
    /\ Goto("final") /\ NewCall /\ OnlyRun

\* The last read of the file, which the seal and the state record use.
MoveFinalRead(t) ==
    /\ pc = "final" /\ IsNext(t)
    /\ ItemDone(t, "move")
    /\ finalSt' = [finalSt EXCEPT ![t] = docs[fileOf[t]].st]
    /\ OnlyRun

-----------------------------------------------------------------------------
(* Sealing the review snapshot *)

SealBegin(t) ==
    /\ pc = "seal" /\ IsNext(t)
    /\ Announce(t, SealingReview)
    /\ Goto("activate") /\ NewCall /\ OnlyStage

Activatable(t) ==
    /\ Snapshot(t).op = journal.op
    /\ finalSt[t] = "live"
    /\ docs[fileOf[t]].parent = "review" /\ docs[fileOf[t]].status = "ready"

\* Mutation of SealWrite: the revision at activation is not compared with the
\* captured one.
SealWrite_AnyRevision(t) ==
    /\ pc = "activate" /\ IsNext(t) /\ Activatable(t)
    /\ Snapshot(t).status = "candidate" /\ Snapshot(t).file = fileOf[t]
    /\ snap' = [snap EXCEPT ![t][journal.gen[t]] =
                  [@ EXCEPT !.status = "sealed", !.act = docs[fileOf[t]].rev]]
    /\ Goto("sealed") /\ SameCall
    /\ UNCHANGED <<journalVars, stateVars, docs, countVars>>

\* Seal: the document must still be at the captured revision.
SealWrite(t) ==
    /\ pc = "activate" /\ IsNext(t) /\ Activatable(t)
    /\ Snapshot(t).status = "candidate"
    /\ Snapshot(t).file = fileOf[t] /\ Snapshot(t).rev = docs[fileOf[t]].rev
    /\ snap' = [snap EXCEPT ![t][journal.gen[t]] =
                  [@ EXCEPT !.status = "sealed", !.act = docs[fileOf[t]].rev]]
    /\ Goto("sealed") /\ SameCall
    /\ UNCHANGED <<journalVars, stateVars, docs, countVars>>

\* Sealed by an interrupted run: the document must be as it was then.
SealFound(t) ==
    /\ pc = "activate" /\ IsNext(t) /\ Activatable(t)
    /\ Snapshot(t).status = "sealed"
    /\ Snapshot(t).file = fileOf[t] /\ Snapshot(t).act = docs[fileOf[t]].rev
    /\ Goto("sealed") /\ SameCall /\ OnlyRun

SealRefuse(t) ==
    /\ Refuse("activate", t)
    /\ \/ ~Activatable(t)
       \/ Snapshot(t).file # fileOf[t]
       \/ Snapshot(t).status = "candidate" /\ Snapshot(t).rev # docs[fileOf[t]].rev
       \/ Snapshot(t).status = "sealed" /\ Snapshot(t).act # docs[fileOf[t]].rev

SealRecord(t) ==
    /\ pc = "sealed" /\ IsNext(t) /\ stage[t] < ReviewSealed
    /\ Advance(t, ReviewSealed)
    /\ sealHash' = [sealHash EXCEPT ![t] = Snapshot(t)]
    /\ ItemDone(t, "seal") /\ UNCHANGED finalSt
    /\ UNCHANGED <<journal, fileOf, candHash, stateVars, snap, docs, countVars>>

SealKnown(t) ==
    /\ pc = "sealed" /\ IsNext(t) /\ stage[t] >= ReviewSealed
    /\ sealHash[t] = Snapshot(t)
    /\ ItemDone(t, "seal") /\ UNCHANGED finalSt /\ OnlyRun

-----------------------------------------------------------------------------
(* Committing the state *)

CommitBegin(t) ==
    /\ pc = "committing" /\ IsNext(t)
    /\ Announce(t, Committing)
    /\ ItemDone(t, "committing") /\ UNCHANGED finalSt /\ OnlyStage

NewTarget(t) ==
    [file |-> fileOf[t], gen |-> journal.gen[t], op |-> journal.op,
     snap |-> IF t \in ReviewPull THEN Snapshot(t) ELSE NoManifest]

SaveFrame ==
    /\ pc = "save"
    /\ pc' = "committed" /\ todo' = journal.items /\ SameCall /\ UNCHANGED finalSt
    /\ UNCHANGED <<journalVars, snap, docs, countVars>>
SaveActive(items) ==
    active' = [t \in Targets |-> IF t \in items THEN NewTarget(t) ELSE active[t]]

\* Mutations of CommitSave: only the reviewed items are saved; the replaced
\* target is dropped.
CommitSave_Partial ==
    /\ SaveFrame /\ SaveActive(journal.items \cap ReviewPull) /\ UNCHANGED prior
CommitSave_NoHistory ==
    /\ SaveFrame /\ SaveActive(journal.items) /\ UNCHANGED prior

\* The active target of another operation becomes a prior target; a second
\* save of the same operation replaces its own record.
CommitSave ==
    /\ SaveFrame /\ SaveActive(journal.items)
    /\ prior' = [t \in Targets |->
                   IF t \in journal.items /\ active[t] # NoTarget /\ active[t].op # journal.op
                   THEN Append(prior[t], active[t]) ELSE prior[t]]

CommitRecord(t) ==
    /\ pc = "committed" /\ IsNext(t)
    /\ Announce(t, Committed)
    /\ ItemDone(t, "committed") /\ UNCHANGED finalSt /\ OnlyStage

CommitClear ==
    /\ pc = "clear"
    /\ journal' = NoJournal
    /\ stage' = [t \in Targets |-> Planned]
    /\ fileOf' = [t \in Targets |-> NoDoc]
    /\ candHash' = [t \in Targets |-> NoManifest]
    /\ sealHash' = [t \in Targets |-> NoManifest]
    /\ StopRun
    /\ UNCHANGED <<stateVars, snap, docs, countVars>>

-----------------------------------------------------------------------------
(* Google and the reviewers *)

\* A create whose call had failed takes effect.
CreateLands(d) ==
    /\ docs[d].st = "inflight"
    /\ docs' = [docs EXCEPT ![d].st = "live"]
    /\ UNCHANGED <<durable, runVars, countVars>>

ReviewerActs == reviewer < MaxReviewer /\ reviewer' = reviewer + 1
                /\ UNCHANGED <<durable, runVars, ops, failures, late>>

\* An edit may remove links from the document.
ReviewerEdits(d) ==
    /\ docs[d].st = "live"
    /\ \E gone \in SUBSET {u \in Targets : docs[d].link[u] # NoDoc} :
         docs' = [docs EXCEPT ![d] = Revised(@, [u \in Targets |->
                                        IF u \in gone THEN NoDoc ELSE @.link[u]])]
    /\ ReviewerActs

ReviewerTrashes(d) ==
    /\ docs[d].st = "live"
    /\ docs' = [docs EXCEPT ![d].st = "trashed"]
    /\ ReviewerActs

-----------------------------------------------------------------------------
CreateStep(t) ==
    \/ CreateBegin(t) \/ Pass("create", t, Created)
    \/ LookupNone(t) \/ LookupRefuse(t) \/ \E d \in DocIds : LookupMatch(t, d)
    \/ (\E d \in DocIds : CreateIssue(t, d)) \/ CreateFail(t) \/ CreateRecord(t)
LinksStep(t) ==
    \/ LinksBegin(t) \/ Pass("links", t, LinksFixed)
    \/ LinksRead(t) \/ LinksReadRefuse(t)
    \/ LinksUpdate(t) \/ LinksUpdateFail(t) \/ LinksUpdateRefuse(t) \/ LinksRecord(t)
CaptureStep(t) ==
    \/ CaptureBegin(t) \/ CaptureKnown(t)
    \/ CaptureFound(t) \/ CaptureWrite(t) \/ CaptureRefuse(t) \/ CaptureRecord(t)
ReadyStep(t) ==
    \/ ReadyBegin(t) \/ Pass("ready", t, Ready)
    \/ ReadyMark(t) \/ ReadyFail(t) \/ ReadyRecord(t)
MoveStep(t) ==
    \/ MoveBegin(t) \/ MoveKnown(t)
    \/ MoveRelocate(t) \/ MoveFail(t) \/ MoveRecord(t) \/ MoveFinalRead(t)
SealStep(t) ==
    \/ SealBegin(t) \/ SealWrite(t) \/ SealFound(t) \/ SealRefuse(t)
    \/ SealRecord(t) \/ SealKnown(t)
CommitStep == CommitSave \/ CommitClear \/ \E t \in Targets : CommitBegin(t) \/ CommitRecord(t)

\* What the running command does by itself.
RunStep ==
    \/ NextLoop
    \/ \E t \in Targets : \/ CreateStep(t) \/ LinksStep(t) \/ CaptureStep(t)
                          \/ ReadyStep(t) \/ MoveStep(t) \/ SealStep(t)
    \/ CommitStep

Environment ==
    \E d \in DocIds : CreateLands(d) \/ ReviewerEdits(d) \/ ReviewerTrashes(d)

Next ==
    \/ \E items \in SUBSET Targets : Start(items)
    \/ Resume
    \/ RunStep
    \/ Interrupt
    \/ Environment

Spec == Init /\ [][Next]_vars
-----------------------------------------------------------------------------
(* Type invariant *)

JournalTypeOK ==
    /\ journal \in [op : Nat, items : SUBSET Targets, gen : [Targets -> Nat],
                    known : [Targets -> FileIds]]
    /\ stage \in [Targets -> Stages]
    /\ fileOf \in [Targets -> FileIds]
    /\ candHash \in [Targets -> Manifests]
    /\ sealHash \in [Targets -> Manifests]
StoreTypeOK ==
    /\ active \in [Targets -> TargetRecords]
    /\ prior \in [Targets -> Seq(TargetRecords)]
    /\ snap \in [Targets -> [1..MaxOps -> Manifests]]
DocsTypeOK == docs \in [DocIds -> Documents]
RunTypeOK ==
    /\ pc \in Labels
    /\ todo \in SUBSET Targets
    /\ attempt \in Nat /\ got \in FileIds /\ readRev \in Nat
    /\ finalSt \in [Targets -> {"absent", "inflight", "live", "trashed"}]
CountTypeOK == ops \in Nat /\ failures \in Nat /\ late \in Nat /\ reviewer \in Nat

\* Every variable holds a value of its kind (the Go types of Journal, State,
\* SnapshotManifest and the Drive file).
TypeOK == JournalTypeOK /\ StoreTypeOK /\ DocsTypeOK /\ RunTypeOK /\ CountTypeOK

-----------------------------------------------------------------------------
(* Safety *)

Mine(d) == Visible(d) /\ docs[d].op = journal.op /\ HasJournal

\* Whatever the unfinished operation has done to a document in Google, its
\* journal announced before: no document before the entry is creating, no
\* fixed link, ready status or move before its own write-ahead stage
\* (publish.go:129, :172, :247, :280).
WriteAhead ==
    \A d \in DocIds : Mine(d) =>
        LET t == docs[d].key IN
        /\ t \in journal.items /\ stage[t] >= Creating
        /\ (\E u \in journal.items : docs[d].link[u] \in DocIds) => stage[t] >= FixingLinks
        /\ docs[d].status = "ready" => stage[t] >= MarkingReady
        /\ docs[d].parent = "review" => stage[t] >= Moving

\* What a finished journal stage says has been done holds of the recorded
\* document, in whatever order runs were interrupted and taken up again:
\* it exists, it has no placeholder left, it is ready, it is in the review
\* folder.
JournalTruth ==
    \A t \in Targets :
        /\ stage[t] >= Created => /\ fileOf[t] \in DocIds /\ Mine(fileOf[t])
                                  /\ docs[fileOf[t]].key = t
        /\ stage[t] >= LinksFixed =>
              \A u \in Links[t] : docs[fileOf[t]].link[u] # Placeholder
        /\ stage[t] >= Ready => docs[fileOf[t]].status = "ready"
        /\ stage[t] >= Moved => docs[fileOf[t]].parent = "review"

\* The journal and Google agree at every point a run can be cut short at:
\* nothing unannounced has happened, and nothing recorded has not.
JournalMatchesGoogle == WriteAhead /\ JournalTruth

\* No document of the batch shows as ready before every one of them has its
\* links fixed and every review baseline is captured (the loops at
\* publish.go:168 and :228 run before the one at :243).
ReadyBarrier ==
    (\E d \in DocIds : Mine(d) /\ docs[d].status = "ready") =>
        \A t \in journal.items :
            /\ stage[t] >= LinksFixed
            /\ t \in ReviewPull => stage[t] >= ReviewCaptured

\* No document of the batch is in the review folder before all are ready
\* (publish.go:276).
MoveBarrier ==
    (\E d \in DocIds : Mine(d) /\ docs[d].parent = "review") =>
        \A t \in journal.items : stage[t] >= Ready

\* A review set goes from loop to loop as a whole, in runs resumed anywhere.
Barriers == ReadyBarrier /\ MoveBarrier

\* The state file never shows half a review set: when it holds a target of
\* an operation, the unfinished one included, every document of that
\* operation that a target record names is ready, in the review folder and
\* without placeholder; and the unfinished operation has all of its items
\* there or none (publish.go:322-383).
Recorded(t) == {active[t]} \cup {prior[t][i] : i \in 1..Len(prior[t])}
PublishedSetsComplete ==
    /\ \A t \in Targets : \A r \in Recorded(t) : r # NoTarget =>
          /\ r.file \in DocIds /\ Visible(r.file)
          /\ docs[r.file].op = r.op /\ docs[r.file].key = t
          /\ docs[r.file].status = "ready" /\ docs[r.file].parent = "review"
          /\ \A u \in Links[t] : docs[r.file].link[u] # Placeholder
    /\ HasJournal =>
          \/ \A t \in journal.items : active[t].op = journal.op
          \/ \A t \in Targets : \A r \in Recorded(t) : r.op # journal.op

\* Inside a batch, links lead to the batch: in a document whose links are
\* fixed, the link to a target of the same batch leads to the document this
\* operation made for it, never to an older generation, and any other link to
\* the document that is active, unless an editor removed it (publish.go:193).
LinksInsideBatch ==
    \A t \in journal.items : stage[t] >= LinksFixed =>
        \A u \in Links[t] :
            LET linked == docs[fileOf[t]].link[u] IN
            linked # NoDoc =>
                IF u \in journal.items
                THEN docs[linked].op = journal.op /\ docs[linked].key = u
                ELSE linked = active[u].file

\* However often a create is retried, resumed or left without an answer, a
\* target of an operation has one live document; each further one is a create
\* that took effect after the publisher had looked for it (create.go:45, :67).
OneDocumentPerTarget ==
    \A o \in 1..ops : \A t \in Targets :
        Cardinality({d \in DocIds : docs[d].st = "live" /\ docs[d].op = o /\ docs[d].key = t})
            <= 1 + late

\* No live document is lost track of: it is in the state file, or in the
\* journal, or its entry is still creating so that the next run finds it by
\* its operation and key; the rest are creates that took effect late.
Tracked(d) ==
    LET t == docs[d].key IN
    \/ \E r \in Recorded(t) : r.file = d
    \/ docs[d].op = journal.op /\ (fileOf[t] = d \/ stage[t] = Creating)
NoLostDocuments ==
    Cardinality({d \in DocIds : docs[d].st = "live" /\ ~Tracked(d)}) <= late

\* Lost answers, retries and resumed runs leave one document of each target,
\* and it is known to the state, to the journal or to the next lookup.
DocumentsAccounted == OneDocumentPerTarget /\ NoLostDocuments

\* Generations of a target only grow, prior ones are all older, and no file
\* is recorded twice (State.Validate refuses such a state at Save).
HistoryOrdered ==
    \A t \in Targets :
        /\ \A i \in 1..Len(prior[t]) :
              /\ prior[t][i].gen < active[t].gen /\ prior[t][i].file # active[t].file
              /\ \A j \in 1..(i - 1) : prior[t][j].gen < prior[t][i].gen

\* The baseline a review pull will compare with is that of the active
\* document at the revision that was captured: the state names the sealed
\* snapshot that is on disk, of that file, and activation found the document
\* at the captured revision.
SealedBaseline ==
    \A t \in ReviewPull : \A r \in Recorded(t) : r # NoTarget =>
        /\ r.snap = snap[t][r.gen]
        /\ r.snap.status = "sealed" /\ r.snap.op = r.op
        /\ r.snap.file = r.file /\ r.snap.rev = r.snap.act

\* The stages recorded before and after the steps of an item.
StageBefore ==
    [create |-> Creating, links |-> FixingLinks, capture |-> CapturingReview,
     ready |-> MarkingReady, move |-> Moving, seal |-> SealingReview,
     committing |-> Committing, committed |-> Committed]
StageAfter ==
    [record |-> Created, linksdone |-> LinksFixed, captured |-> ReviewCaptured,
     marked |-> Ready, moved |-> Moved, sealed |-> ReviewSealed]

\* The store accepts what the run is about to record of item t, or an earlier
\* run has recorded it.
JournalAccepts(t) ==
    /\ pc \in DOMAIN StageBefore =>
          stage[t] >= StageBefore[pc] \/ ValidTransition(stage[t], StageBefore[pc])
    /\ pc \in DOMAIN StageAfter =>
          \/ ValidTransition(stage[t], StageAfter[pc])
          \/ pc = "sealed" /\ stage[t] >= ReviewSealed

\* The journal does not contradict the snapshot of item t.
SnapshotAgrees(t) ==
    /\ pc = "capture" /\ stage[t] >= ReviewCaptured =>
          Snapshot(t).op = journal.op /\ candHash[t] = CandidateOf(Snapshot(t))
    /\ pc = "activate" /\ Snapshot(t).op = journal.op =>
          Snapshot(t).status \in {"candidate", "sealed"}
    /\ pc = "sealed" /\ stage[t] >= ReviewSealed => sealHash[t] = Snapshot(t)

\* The run has an item at hand that it can go on with, or a loop to leave.
GoesOn ==
    \/ todo = {} /\ pc \in DOMAIN Following \cup {"save", "clear"}
    \/ \E t \in Targets :
          /\ IsNext(t) /\ JournalAccepts(t) /\ SnapshotAgrees(t)
          /\ pc = "lookup" => attempt <= Attempts /\ IsFiniteSet(Matches(t))
          /\ pc = "issue" => attempt < Attempts

\* The bound on documents is reached: no create can take effect.
OutOfDocuments == pc = "issue" /\ \A d \in DocIds : docs[d].st # "absent"

\* A run never meets a journal transition the store refuses, nor a snapshot
\* that its own journal contradicts: such a run could only be abandoned.
NeverStuck == pc # "idle" => GoesOn /\ (OutOfDocuments \/ ENABLED RunStep)

-----------------------------------------------------------------------------
(* Action properties *)

\* A journal entry never goes back; only a finished operation is cleared,
\* and only when the state file holds all of it.
StagesOnlyAdvance ==
    [][\/ journal'.op = journal.op /\ \A t \in Targets : stage[t] <= stage'[t]
       \/ ~HasJournal
       \/ \A t \in journal.items : stage[t] = Committed /\ active[t].op = journal.op]_vars

\* A target the state file ever held stays there, as active or as prior.
HistoryKept ==
    [][\A t \in Targets : Recorded(t) \ {NoTarget} \subseteq Recorded(t)']_vars

-----------------------------------------------------------------------------
(* Refinement *)

Shown(r) == [file |-> r.file, gen |-> r.gen]
Saved == \E t \in journal.items : active[t].op = journal.op

\* The state file is that of a publisher that shows a review set all at once
\* and keeps every set it replaces (ReviewSets), for all crashes, retries and
\* repeated saves of one operation.
Sets == INSTANCE ReviewSets WITH
    Files <- DocIds, NoFile <- NoDoc,
    batch <- journal.items, published <- Saved,
    current <- [t \in Targets |-> Shown(active[t])],
    past <- [t \in Targets |-> [i \in 1..Len(prior[t]) |-> Shown(prior[t][i])]]
ImplementsReviewSets == Sets!Spec

\* Nobody but the publisher touched a document, and no create was late.
Undisturbed == reviewer = 0 /\ late = 0
=============================================================================
