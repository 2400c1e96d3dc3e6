--------------------------- MODULE PublishCommand ---------------------------
(***************************************************************************)
(* The publish command around BatchPublisher: which request it makes of    *)
(* the publisher, from the sources, the state file, the active documents   *)
(* and the journal an interrupted command left.                            *)
(*                                                                         *)
(* Projects up to version 2 (Application.Publish and resumePublish in      *)
(* internal/app/publish_command.go) resume before they plan.  Projects of  *)
(* version 3 (publishExplicit in internal/app/publish_publications.go)     *)
(* plan first (internal/planner/planner.go) and then put the items of the  *)
(* journal in the place of those of the plan.                              *)
(*                                                                         *)
(* A version of a source stands for all the inputs that are hashed:        *)
(* content, style, assets, fields, layout.                                 *)
(***************************************************************************)
EXTENDS BatchPublisher

CONSTANTS
    UseTargets,     \* whether the project is of version 3
    Versions,       \* versions a source can have
    MaxEdits        \* bound: edits of the sources

ASSUME CommandConstantsOK ==
    /\ UseTargets \in BOOLEAN
    /\ Versions \subseteq Nat \ {0} /\ Versions # {}
    /\ MaxEdits \in Nat
    /\ ~UseTargets => ReviewPull = {}   \* only version 3 captures baselines

VARIABLES
    source,     \* the version of each source
    loaded,     \* the version of each item the running command has rendered
    frozen,     \* the hash in the journal entry of each item
    built,      \* the version each document was made from
    hashed,     \* the hash in the state file for each target
    outcome,    \* what the last command has come to
    edits       \* bounded counter

commandVars == <<source, loaded, frozen, built, hashed, outcome, edits>>
allVars == <<vars, commandVars>>

Outcomes == {"none", "nothing", "blocked", "refused", "running"}

\* Versions are only compared: which one a source starts with does not matter.
InitCommand ==
    /\ Init
    /\ source = [t \in Targets |-> CHOOSE v \in Versions : TRUE]
    /\ loaded = [t \in Targets |-> 0] /\ frozen = [t \in Targets |-> 0]
    /\ built = [d \in DocIds |-> 0] /\ hashed = [t \in Targets |-> 0]
    /\ outcome = "none" /\ edits = 0

-----------------------------------------------------------------------------
(* The plan *)

\* The documents that claim to be the active generation of t.
Claims(t) == {d \in DocIds : docs[d].st = "live" /\ docs[d].key = t
                                               /\ docs[d].gen = active[t].gen}
Trashed(t) == docs[active[t].file].st = "trashed"

\* Version 2 takes any other claim for an unavailable target; version 3 ends
\* the command (ReportConflict).
Unavailable(t) == Trashed(t) \/ (~UseTargets /\ Claims(t) # {active[t].file})

\* classify: what is to be done about one target.
Classify(t, newReview) ==
    CASE active[t] = NoTarget -> "create"
      [] active[t] # NoTarget /\ newReview -> "new_review"
      [] active[t] # NoTarget /\ ~newReview /\ Unavailable(t) -> "blocked"
      [] OTHER -> IF hashed[t] = source[t] THEN "skip" ELSE "new_review"

Writes == {"create", "new_review"}

\* Mutation of InboundClosure: the closure stops after the direct referrers.
InboundClosure_Direct(roots) == roots \cup {t \in Targets : Links[t] \cap roots # {}}

\* The roots and the targets whose links lead to them, directly or not, whose
\* documents would keep a link to the replaced one: the least set that every
\* target with a link into it belongs to.
InboundClosure(roots) ==
    {t \in Targets : \A closed \in SUBSET Targets :
        /\ roots \subseteq closed
        /\ \A u \in Targets : Links[u] \cap closed # {} => u \in closed
        => t \in closed}

\* The plan for the selected targets: whether one of them or of those that link
\* a target to write is blocked, and what is written if none is.
Roots(selected, newReview) == {t \in selected : Classify(t, newReview) \in Writes}
PlannedTargets(selected, newReview) == selected \cup InboundClosure(Roots(selected, newReview))
PlanBlocked(selected, newReview) ==
    \E t \in PlannedTargets(selected, newReview) : Classify(t, newReview) = "blocked"
PlanWrites(selected, newReview) ==
    InboundClosure(Roots(selected, newReview))

\* With a journal, its items are the ones that are selected.
Selection(asked) == IF HasJournal THEN journal.items ELSE asked

\* Version 3 looks at every target that may have to be written.
Conflict(asked) ==
    /\ UseTargets
    /\ \E t \in InboundClosure(Selection(asked)) :
         /\ active[t] # NoTarget
         /\ Claims(t) # IF Trashed(t) THEN {} ELSE {active[t].file}

\* A version 2 project resumes an interrupted command before it plans.
PlansFirst == UseTargets \/ ~HasJournal

\* The plan, where there is one, has something to write and nothing blocked.
Proceeds(asked, newReview) ==
    PlansFirst => /\ ~Conflict(asked)
                  /\ ~PlanBlocked(Selection(asked), newReview)
                  /\ PlanWrites(Selection(asked), newReview) # {}

-----------------------------------------------------------------------------
(* The outcomes of a command *)

Answer(what) == outcome' = what /\ UNCHANGED <<vars, source, loaded, frozen, built, hashed, edits>>

ReportConflict(asked) == pc = "idle" /\ Conflict(asked) /\ Answer("refused")

ReportBlocked(asked, newReview) ==
    /\ pc = "idle" /\ PlansFirst /\ ~Conflict(asked)
    /\ PlanBlocked(Selection(asked), newReview)
    /\ Answer("blocked")

\* "Nothing to publish": WriteCount is 0.
ReportNothing(asked, newReview) ==
    /\ pc = "idle" /\ PlansFirst /\ ~Conflict(asked)
    /\ ~PlanBlocked(Selection(asked), newReview)
    /\ PlanWrites(Selection(asked), newReview) = {}
    /\ Answer("nothing")

StartBatch(asked, newReview) ==
    /\ ~HasJournal /\ Proceeds(asked, newReview)
    /\ Start(PlanWrites(asked, newReview))
    /\ loaded' = source /\ frozen' = source
    /\ outcome' = "running"
    /\ UNCHANGED <<source, built, hashed, edits>>

\* A link leads to a target that has no document and gets none.
StartRefused(asked, newReview) ==
    /\ pc = "idle" /\ ~HasJournal /\ Proceeds(asked, newReview)
    /\ \E t \in PlanWrites(asked, newReview) : \E u \in Links[t] :
          u \notin PlanWrites(asked, newReview) /\ active[u] = NoTarget
    /\ Answer("refused")

InputsUnchanged == \A t \in journal.items : source[t] = frozen[t]

\* Mutation of TargetsUnchanged: the targets are compared with the pending
\* URLs of the batch in them.
TargetsUnchanged_Pending ==
    UseTargets => journal.known = [t \in Targets |-> IF t \in journal.items THEN Placeholder
                                                    ELSE active[t].file]

\* Version 3 asks with the targets known now, version 2 with the journal's.
TargetsUnchanged == UseTargets => ActiveURLs = journal.known

\* Mutation of ResumeBatch: changed inputs are taken.
ResumeBatch_AnyInputs(asked, newReview) ==
    /\ HasJournal /\ Proceeds(asked, newReview)
    /\ TargetsUnchanged
    /\ Resume
    /\ loaded' = source /\ outcome' = "running"
    /\ UNCHANGED <<source, frozen, built, hashed, edits>>

ResumeBatch(asked, newReview) ==
    /\ HasJournal /\ Proceeds(asked, newReview)
    /\ InputsUnchanged /\ TargetsUnchanged
    /\ Resume
    /\ loaded' = source /\ outcome' = "running"
    /\ UNCHANGED <<source, frozen, built, hashed, edits>>

ResumeRefused(asked, newReview) ==
    /\ pc = "idle" /\ HasJournal /\ Proceeds(asked, newReview)
    /\ ~InputsUnchanged \/ ~TargetsUnchanged
    /\ Answer("refused")

Publish(asked, newReview) ==
    \/ ReportConflict(asked)
    \/ ReportBlocked(asked, newReview) \/ ReportNothing(asked, newReview)
    \/ StartBatch(asked, newReview) \/ StartRefused(asked, newReview)
    \/ ResumeBatch(asked, newReview) \/ ResumeRefused(asked, newReview)

-----------------------------------------------------------------------------
(* The publisher with the versions it handles *)

\* A document is made from the version the command has rendered, and a save
\* records the hash of that version.
RunCommand ==
    /\ RunStep
    /\ built' = [d \in DocIds |-> IF docs[d].st = "absent" /\ docs'[d].st # "absent"
                                  THEN loaded[docs'[d].key] ELSE built[d]]
    /\ hashed' = IF pc = "save"
                 THEN [t \in Targets |-> IF t \in journal.items THEN loaded[t] ELSE hashed[t]]
                 ELSE hashed
    /\ frozen' = IF HasJournal' THEN frozen ELSE [t \in Targets |-> 0]
    /\ UNCHANGED <<source, loaded, outcome, edits>>

InterruptCommand == Interrupt /\ UNCHANGED commandVars

EnvironmentStep == Environment /\ UNCHANGED commandVars

EditSource(t) ==
    /\ edits < MaxEdits /\ edits' = edits + 1
    /\ \E v \in Versions \ {source[t]} : source' = [source EXCEPT ![t] = v]
    /\ UNCHANGED <<vars, loaded, frozen, built, hashed, outcome>>

NextCommand ==
    \/ \E asked \in (SUBSET Targets) \ {{}}, newReview \in BOOLEAN : Publish(asked, newReview)
    \/ RunCommand
    \/ InterruptCommand
    \/ EnvironmentStep
    \/ \E t \in Targets : EditSource(t)

SpecCommand == InitCommand /\ [][NextCommand]_allVars

\* A command goes on until it ends, and the user keeps giving the command
\* that the interrupted one has printed (publishResumeCommand), which has no
\* --new-review, and the one that had been given, which may have had it.
FairSpecCommand ==
    /\ SpecCommand
    /\ WF_allVars(RunCommand)
    /\ WF_allVars(Publish(Targets, FALSE))
    /\ WF_allVars(Publish(Targets, TRUE))
-----------------------------------------------------------------------------
(* Properties *)

\* The links between the published documents lead to the published documents,
\* never to a replaced generation: whatever is selected, every source whose
\* links lead to a republished target, directly or not, is republished with it
\* (inboundClosure, planner.go:303), except for links an editor removed.
ActiveLinksCurrent ==
    \A t \in Targets : active[t] # NoTarget =>
        \A u \in Links[t] : docs[active[t].file].link[u] \in {active[u].file, NoDoc}

\* The hash in the state file is that of the inputs the active document was
\* made from, however the sources were edited between an interrupted command
\* and the one that finished it: otherwise the planner would skip a stale
\* document (publish_publications.go:247, publish.go:664).
HashOfActiveDocument ==
    \A t \in Targets : active[t] # NoTarget => hashed[t] = built[active[t].file]

\* An operation interrupted before its save reaches it when the commands are
\* given again.
InterruptedPublishIsSaved ==
    HasJournal ~> (~HasJournal \/ Saved \/ ~Undisturbed \/ ~InputsUnchanged)

\* One interrupted after its save, when all that is left is to end the
\* journal, is ended.
SavedPublishCompletes ==
    (HasJournal /\ Saved) ~> (~HasJournal \/ ~Undisturbed \/ ~InputsUnchanged)
=============================================================================
