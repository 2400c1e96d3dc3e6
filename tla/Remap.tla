------------------------------- MODULE Remap -------------------------------
(***************************************************************************)
(* `state remap`, which records that a source was renamed                  *)
(* (Application.Remap in internal/app/state_commands.go), with the remap   *)
(* journal (internal/state/store.go) and the commands that are refused     *)
(* while it is there: publish, setup and reconcile.                        *)
(*                                                                         *)
(* The property mdoc_source of each generation is changed in Google one    *)
(* by one, the state file once.  A publish is one step here                *)
(* (BatchPublisher is its model), and so is a reconcile (StateRecovery).   *)
(*                                                                         *)
(* Files are numbered in the order in which they are created, which is the *)
(* order of the generations of a source.  A command that is refused        *)
(* changes nothing and is no step.                                         *)
(***************************************************************************)
EXTENDS Integers, FiniteSets

CONSTANTS
    Sources, NoSource,  \* source keys of the workspace
    MaxFiles,           \* bound: documents published
    Attempts,           \* RetryPolicy.Attempts
    MaxFailures,        \* bound: interruptions, failed calls, lost answers
    MaxLosses,          \* bound: losses of the state file
    MaxDeletions        \* bound: documents deleted for ever by an editor

ASSUME RemapConstantsOK ==
    /\ {MaxFiles, MaxFailures, MaxLosses, MaxDeletions} \subseteq Nat
    /\ Attempts \in Nat \ {0}
    /\ NoSource \notin Sources

VARIABLES
    mapped,             \* state file: the documents of each source
    stateFile,          \* whether the state file can be read
    remap, stage,       \* remap journal, with the stage of each document
    property,           \* Google: mdoc_source of each document
    existing,           \* Google: the documents there are
    onDisk,             \* the sources in the workspace
    pc, todo, attempt,  \* the running command
    published, failures, losses, deletions  \* counters

journalVars == <<remap, stage>>
localVars == <<mapped, stateFile, journalVars>>
googleVars == <<property, existing>>
runVars == <<pc, todo, attempt>>
countVars == <<published, failures, losses, deletions>>
vars == <<localVars, googleVars, onDisk, runVars, countVars>>

Files == 1..MaxFiles
RemapStages == {"planned", "updating", "updated"}
NoRemap == [from |-> NoSource, to |-> NoSource, files |-> {}]
Unfinished == remap # NoRemap

Init ==
    /\ mapped = [k \in Sources |-> {}] /\ stateFile = "present"
    /\ remap = NoRemap /\ stage = [f \in Files |-> "planned"]
    /\ property = [f \in Files |-> NoSource] /\ existing = {}
    /\ onDisk \in (SUBSET Sources) \ {{}}
    /\ pc = "idle" /\ todo = {} /\ attempt = 0
    /\ published = 0 /\ failures = 0 /\ losses = 0 /\ deletions = 0

OnlyRun == UNCHANGED <<localVars, googleVars, onDisk, countVars>>
Fails == failures < MaxFailures /\ failures' = failures + 1
Goto(label) == pc' = label /\ UNCHANGED <<todo, attempt>>
Stop == pc' = "idle" /\ todo' = {} /\ attempt' = 0

-----------------------------------------------------------------------------
(* The start of the command *)

\* Mutation of TargetsOf: the active document only.
TargetsOf_Active(k) == {f \in mapped[k] : \A g \in mapped[k] : g <= f}

\* The prior documents of a source and the active one.
TargetsOf(k) == mapped[k]

Begin(files) == pc' = "announce" /\ todo' = files /\ attempt' = 0

\* from is in the state file, to is not, and the new source is in place.
StartRemap(from, to) ==
    /\ pc = "idle" /\ stateFile = "present" /\ ~Unfinished
    /\ to \in onDisk
    /\ mapped[from] # {} /\ mapped[to] = {}
    /\ remap' = [from |-> from, to |-> to, files |-> TargetsOf(from)]
    /\ stage' = [f \in Files |-> "planned"]
    /\ Begin(TargetsOf(from))
    /\ UNCHANGED <<mapped, stateFile, googleVars, onDisk, countVars>>

\* Mutation of KeyInState: a remap that was saved is not recognised.
KeyInState_From == {k \in {remap.from} : mapped[k] # {}}

\* Which key has the documents: after a save it is the new one.
KeyInState == {k \in {remap.from, remap.to} : mapped[k] # {}}

\* The same remap again, for the same documents.
ResumeRemap ==
    /\ pc = "idle" /\ stateFile = "present" /\ Unfinished
    /\ remap.to \in onDisk
    /\ \E k \in KeyInState : KeyInState = {k} /\ TargetsOf(k) = remap.files
    /\ Begin(remap.files)
    /\ OnlyRun

-----------------------------------------------------------------------------
(* The loop over the documents, the oldest generation first.  A resumed     *)
(* command looks again at the documents that were updated.                  *)

IsNext(f) == f \in todo /\ \A g \in todo : f <= g

SetStage(f, next) ==
    /\ stage' = [stage EXCEPT ![f] = next]
    /\ UNCHANGED <<mapped, stateFile, remap, googleVars, onDisk, countVars>>

Announce(f) ==
    /\ pc = "announce" /\ IsNext(f) /\ Goto("read")
    /\ SetStage(f, IF stage[f] = "planned" THEN "updating" ELSE stage[f])

\* GetFile answers, and the key is the new one or the old one.
ReadKey(f) ==
    /\ pc = "read" /\ IsNext(f) /\ f \in existing
    /\ \/ property[f] = remap.to /\ Goto("verify")
       \/ property[f] = remap.from /\ Goto("update")
    /\ OnlyRun

UpdateKey(f) ==
    /\ pc = "update" /\ IsNext(f) /\ f \in existing
    /\ property' = [property EXCEPT ![f] = remap.to]
    /\ Goto("verify")
    /\ UNCHANGED <<localVars, existing, onDisk, countVars>>

\* The call fails, or its answer is lost; the next attempt reads again.
Retry ==
    IF attempt + 1 < Attempts
    THEN pc' = "read" /\ attempt' = attempt + 1 /\ UNCHANGED todo
    ELSE Stop

AttemptFail(f) ==
    /\ pc \in {"read", "update"} /\ IsNext(f) /\ f \in existing
    /\ \/ UNCHANGED property
       \/ pc = "update" /\ property' = [property EXCEPT ![f] = remap.to]
    /\ Fails /\ Retry
    /\ UNCHANGED <<localVars, existing, onDisk, published, losses, deletions>>

\* The document is gone, or has the key of another source.
Abort(f) ==
    /\ pc \in {"read", "update", "verify"} /\ IsNext(f)
    /\ f \in existing => pc = "read" /\ property[f] \notin {remap.from, remap.to}
    /\ Stop /\ OnlyRun

\* GetFile shows the new key.
Verify(f) ==
    /\ pc = "verify" /\ IsNext(f) /\ f \in existing /\ property[f] = remap.to
    /\ SetStage(f, "updated")
    /\ todo' = todo \ {f} /\ attempt' = 0
    /\ pc' = IF todo = {f} THEN "save" ELSE "announce"

\* The state file gets the documents under the new key in one write.
SaveRemap ==
    /\ pc = "save" /\ Goto("clear")
    /\ mapped' = [mapped EXCEPT ![remap.from] = {},
                                ![remap.to] = mapped[remap.from] \cup mapped[remap.to]]
    /\ UNCHANGED <<stateFile, journalVars, googleVars, onDisk, countVars>>

ClearRemap ==
    /\ pc = "clear" /\ Stop
    /\ remap' = NoRemap /\ stage' = [f \in Files |-> "planned"]
    /\ UNCHANGED <<mapped, stateFile, googleVars, onDisk, countVars>>

RemapStep ==
    \/ \E f \in Files : \/ Announce(f) \/ ReadKey(f) \/ UpdateKey(f)
                        \/ AttemptFail(f) \/ Abort(f) \/ Verify(f)
    \/ SaveRemap \/ ClearRemap

\* The command is killed, or a write of a local file fails.
Interrupt ==
    /\ pc # "idle" /\ Fails /\ Stop
    /\ UNCHANGED <<localVars, googleVars, onDisk, published, losses, deletions>>

-----------------------------------------------------------------------------
(* The other commands *)

\* Mutation of Blocked: the remap journal stops nobody.
Blocked_Never == FALSE

\* "remap_resume_required"
Blocked == Unfinished

\* A whole publish of one source: a new document, which becomes active.
Publish(k) ==
    /\ pc = "idle" /\ ~Blocked /\ stateFile = "present" /\ k \in onDisk
    /\ published < MaxFiles /\ published' = published + 1
    /\ mapped' = [mapped EXCEPT ![k] = @ \cup {published'}]
    /\ property' = [property EXCEPT ![published'] = k]
    /\ existing' = existing \cup {published'}
    /\ UNCHANGED <<stateFile, journalVars, onDisk, runVars, failures, losses, deletions>>

\* The state file is rebuilt from what Google shows.
Reconcile ==
    /\ pc = "idle" /\ ~Blocked
    /\ stateFile' = "present"
    /\ mapped' = [k \in Sources |-> {f \in existing : property[f] = k}]
    /\ UNCHANGED <<journalVars, googleVars, onDisk, runVars, countVars>>

\* The state file is damaged or lost between two commands.
LoseState ==
    /\ pc = "idle" /\ stateFile = "present"
    /\ losses < MaxLosses /\ losses' = losses + 1
    /\ stateFile' = "damaged"
    /\ UNCHANGED <<mapped, journalVars, googleVars, onDisk, runVars, published,
                   failures, deletions>>

\* The author renames a source.
Rename(k, l) ==
    /\ k \in onDisk /\ l \notin onDisk
    /\ onDisk' = (onDisk \ {k}) \cup {l}
    /\ UNCHANGED <<localVars, googleVars, runVars, countVars>>

\* An editor removes a document for ever.
Delete(f) ==
    /\ f \in existing /\ existing' = existing \ {f}
    /\ deletions < MaxDeletions /\ deletions' = deletions + 1
    /\ UNCHANGED <<localVars, property, onDisk, runVars, published, failures, losses>>

Next ==
    \/ \E k, l \in Sources : StartRemap(k, l) \/ Rename(k, l)
    \/ ResumeRemap \/ RemapStep \/ Interrupt
    \/ \E k \in Sources : Publish(k)
    \/ Reconcile \/ LoseState
    \/ \E f \in Files : Delete(f)

Spec == Init /\ [][Next]_vars

\* A command goes on until it ends; the user gives the remap command that is
\* printed for an unfinished remap, and reconciles a state file that is lost.
FairSpec ==
    /\ Spec
    /\ WF_vars(RemapStep) /\ WF_vars(ResumeRemap)
    /\ WF_vars(stateFile # "present" /\ Reconcile)
-----------------------------------------------------------------------------
(* Properties *)

\* The state file and Google agree on the source of every document unless a
\* remap is unfinished and can be resumed: wherever the command was killed, a
\* publish or a reconcile never sees half a rename.
MappingMatchesGoogle ==
    ~Unfinished /\ stateFile = "present" =>
        \A k \in Sources : mapped[k] \cap existing = {f \in existing : property[f] = k}

\* The generations of one source stay together in the state file: no rename,
\* interrupted anywhere, and no reconcile after it puts the prior documents
\* under another source than the active one.
GenerationsTogether ==
    [][stateFile = "present" /\ stateFile' = "present" =>
       \A k \in Sources : \E l \in Sources :
            mapped[k] \cap existing \subseteq mapped'[l]]_vars

\* "unfinished source remap [...] must be resumed" (state_commands.go:38): the
\* remap command does resume it, from wherever it was interrupted and also
\* after its save, if the state file and the documents are there and the new
\* source is in place.
Resumable ==
    stateFile = "present" /\ remap.to \in onDisk /\ remap.files \subseteq existing
RemapCompletes == Unfinished ~> (~Unfinished \/ ~Resumable)

\* "Recover missing or damaged local mapping after a safe remote scan: mdoc
\* state reconcile" (README.md:468).
LostMappingRecovered == stateFile # "present" ~> stateFile = "present"
=============================================================================
