------------------------------- MODULE Setup -------------------------------
(***************************************************************************)
(* The folders of a workspace: `setup` (Application.Setup in               *)
(* internal/app/application.go with EnsureFolders in                       *)
(* internal/googleapi/drive.go), which finds, adopts or creates the        *)
(* staging and the review folder and saves them, and the check of publish  *)
(* that they are still the ones (verifyPublishDestination).                *)
(*                                                                         *)
(* Setup holds the lock of the state.  Meanwhile the user can trash, move  *)
(* or share a folder, and between two commands edit the configuration.     *)
(***************************************************************************)
EXTENDS Naturals, FiniteSets

CONSTANTS
    Folders, NoFolder,   \* folders of the Drive
    Users,               \* those that were there before
    SetupAttempts,       \* RetryPolicy.Attempts
    MaxSetupFaults,      \* bound: failed calls, lost answers, kills
    MaxFolderChanges     \* bound: what the user does to the folders

ASSUME SetupConstantsOK ==
    /\ Users \subseteq Folders /\ NoFolder \notin Folders
    /\ SetupAttempts \in Nat \ {0} /\ {MaxSetupFaults, MaxFolderChanges} \subseteq Nat

Roles == {"staging", "review"}
Nowhere == [r \in Roles |-> NoFolder]

VARIABLES
    drive,        \* the folders: absent, or what metadata, place and state they have
    configured,   \* folder IDs of the profile, and its parent folder
    saved,        \* folder IDs of the state file
    blocking,     \* whether a publish or remap journal is there
    setup,        \* the running setup or check of the destination
    late,         \* creates without an answer that Google has yet to execute
    tooLate,      \* of no code: how many folders of a role came to be that way
    accepted,     \* the pair the last publish was given
    setupFaults, folderChanges   \* counters

setupVars == <<drive, configured, saved, blocking, setup, late, tooLate, accepted,
               setupFaults, folderChanges>>

\* A folder is absent, trashed, good - of the account, in My Drive, to be edited
\* and filled - or bad.  The metadata "other" is that of another workspace or
\* profile, or half of ours.
NoFolderYet == [state |-> "absent", metadata |-> "none", parent |-> NoFolder,
                own |-> FALSE]
Unmade(f) == drive[f].state = "absent"

NoSetup == [step |-> "idle", role |-> "staging", attempt |-> 0, seen |-> FALSE,
            matches |-> [r \in Roles |-> {}], pair |-> Nowhere,
            action |-> [r \in Roles |-> "none"]]

SetupInit ==
    /\ \E marked \in [Users -> {"none", "other"}] :
          drive = [f \in Folders |->
                     IF f \in Users
                     THEN [NoFolderYet EXCEPT !.state = "good", !.metadata = marked[f]]
                     ELSE NoFolderYet]
    /\ configured \in [Roles \cup {"parent"} -> Users \cup {NoFolder}]
    /\ saved = Nowhere /\ blocking = FALSE /\ setup = NoSetup
    /\ late = {} /\ tooLate = [r \in Roles |-> 0] /\ accepted = Nowhere
    /\ setupFaults = 0 /\ folderChanges = 0

-----------------------------------------------------------------------------
(* What a command sees *)

\* FindFolders: the query asks for the metadata of ours and for no trash.
Found(role) == {f \in Folders : ~Unmade(f) /\ drive[f].state # "trashed"
                                /\ drive[f].metadata = role}

\* validateDestinationFolder, of a folder that is to be edited.
Usable(f) ==
    /\ drive[f].state = "good"
    /\ configured.parent # NoFolder => drive[f].parent = configured.parent

\* Mutation of Requested: the folder of the state file is not asked for.
Requested_Configured(role) == configured[role]

\* The configured folder, else the saved one.
Requested(role) ==
    IF configured[role] # NoFolder THEN configured[role] ELSE saved[role]

Continue(record) ==
    /\ setup' = record
    /\ UNCHANGED <<drive, configured, saved, blocking, late, tooLate, accepted,
                   setupFaults, folderChanges>>

\* A refusal, or the end.
Leave == Continue(NoSetup)

StartSetup ==
    /\ setup.step = "idle" /\ ~blocking
    /\ Continue([NoSetup EXCEPT !.step = "find"])

\* One list for each role, staging first.
FindRole ==
    /\ setup.step = "find"
    /\ LET listed == [setup EXCEPT !.matches[setup.role] = Found(setup.role)] IN
       Continue(IF setup.role = "staging" THEN [listed EXCEPT !.role = "review"]
                ELSE [listed EXCEPT !.role = "staging", !.step = "parent"])

Ambiguous == \E r \in Roles : Cardinality(setup.matches[r]) > 1
Differing == \E r \in Roles : NoFolder \notin {configured[r], saved[r]}
                              /\ configured[r] # saved[r]

\* The parent is read, if one is configured.
CheckParent ==
    /\ setup.step = "parent"
    /\ IF \/ Ambiguous \/ Differing
          \/ configured.parent # NoFolder /\ drive[configured.parent].state # "good"
       THEN Leave
       ELSE Continue([setup EXCEPT !.step = "preflight"])

\* preflightRole: what is to be done with the folder f of a role.
ActionFor(role, f) ==
    IF drive[f].metadata = "none" THEN "adopt"
    ELSE IF drive[f].metadata = role THEN "reuse" ELSE "conflict"

Candidate(role) ==
    IF Requested(role) # NoFolder THEN Requested(role)
    ELSE IF setup.matches[role] # {} THEN CHOOSE f \in setup.matches[role] : TRUE
    ELSE NoFolder

PreflightRole ==
    /\ setup.step = "preflight"
    /\ LET role == setup.role
           f == Candidate(role)
           action == IF f = NoFolder THEN "create" ELSE ActionFor(role, f)
           next == [setup EXCEPT !.pair[role] = f, !.action[role] = action]
           pair == next.pair
       IN
       IF \/ f # NoFolder /\ (setup.matches[role] \notin {{}, {f}} \/ ~Usable(f))
          \/ action = "conflict"
          \/ role = "review" /\ f # NoFolder /\ pair["staging"] = f
          \/ role = "review" /\ configured.parent # NoFolder
             /\ configured.parent \in {pair["staging"], f}
       THEN Leave
       ELSE IF role = "staging" THEN Continue([next EXCEPT !.role = "review"])
       ELSE Continue([next EXCEPT !.step = "apply", !.role = "staging"])

-----------------------------------------------------------------------------
(* The changes, staging first.  A create looks for the folder before every   *)
(* attempt.                                                                  *)

Applied(record, f) ==
    LET done == [record EXCEPT !.pair[setup.role] = f, !.attempt = 0, !.seen = FALSE] IN
    IF setup.role = "staging" THEN [done EXCEPT !.role = "review"]
    ELSE [done EXCEPT !.step = "save"]

Reuse ==
    /\ setup.step = "apply" /\ setup.action[setup.role] = "reuse"
    /\ Continue(Applied(setup, setup.pair[setup.role]))

\* The update shows the folder as it is; a folder that is gone cannot be changed.
Adopt ==
    /\ setup.step = "apply" /\ setup.action[setup.role] = "adopt"
    /\ LET f == setup.pair[setup.role] IN
       /\ drive' = [drive EXCEPT ![f].metadata = setup.role]
       /\ setup' = Applied(setup, f)
    /\ UNCHANGED <<configured, saved, blocking, late, tooLate, accepted,
                   setupFaults, folderChanges>>

\* Mutation of MustLook: only the first attempt looks.
MustLook_First == setup.attempt = 0 /\ ~setup.seen

MustLook == ~setup.seen

LookBeforeCreate ==
    /\ setup.step = "apply" /\ setup.action[setup.role] = "create" /\ MustLook
    /\ LET found == Found(setup.role) IN
       IF found = {} THEN Continue([setup EXCEPT !.seen = TRUE])
       ELSE IF \E f \in found : found = {f} /\ Usable(f)
       THEN Continue(Applied(setup, CHOOSE f \in found : TRUE))
       ELSE Leave

Creating ==
    /\ setup.step = "apply" /\ setup.action[setup.role] = "create" /\ ~MustLook
    /\ \E f \in Folders : Unmade(f)

\* The drive with a folder that the program made.
WithNew(role) ==
    [drive EXCEPT ![CHOOSE f \in Folders : Unmade(f)] =
        [state |-> "good", metadata |-> role, parent |-> configured.parent, own |-> TRUE]]

Create ==
    /\ Creating
    /\ drive' = WithNew(setup.role)
    /\ setup' = Applied(setup, CHOOSE f \in Folders : Unmade(f))
    /\ UNCHANGED <<configured, saved, blocking, late, tooLate, accepted,
                   setupFaults, folderChanges>>

NextAttempt == IF setup.attempt + 1 < SetupAttempts
         THEN setup' = [setup EXCEPT !.attempt = @ + 1, !.seen = FALSE]
         ELSE setup' = NoSetup

\* A create without an answer: it was executed, it will be, or it will not.
CreateLost ==
    /\ Creating /\ setupFaults < MaxSetupFaults /\ setupFaults' = setupFaults + 1
    /\ NextAttempt
    /\ \/ UNCHANGED <<drive, late>>
       \/ late' = late \cup {setup.role} /\ UNCHANGED drive
       \/ drive' = WithNew(setup.role) /\ UNCHANGED late
    /\ UNCHANGED <<configured, saved, blocking, tooLate, accepted, folderChanges>>

\* Google executes it after all.
CreateLands(role) ==
    /\ role \in late /\ late' = late \ {role}
    /\ \E f \in Folders : Unmade(f)
    /\ drive' = WithNew(role)
    /\ tooLate' = [tooLate EXCEPT ![role] = @ + 1]
    /\ UNCHANGED <<configured, saved, blocking, setup, accepted, setupFaults,
                   folderChanges>>

SaveFolders ==
    /\ setup.step = "save" /\ saved' = setup.pair /\ setup' = NoSetup
    /\ UNCHANGED <<drive, configured, blocking, late, tooLate, accepted, setupFaults,
                   folderChanges>>

\* Any other call that fails after its attempts, a save that fails, a kill.
SetupStops ==
    /\ setup.step # "idle" /\ setup' = NoSetup
    /\ setupFaults < MaxSetupFaults /\ setupFaults' = setupFaults + 1
    /\ UNCHANGED <<drive, configured, saved, blocking, late, tooLate, accepted,
                   folderChanges>>

-----------------------------------------------------------------------------
(* The check of publish, and what happens between two commands *)

StartCheck ==
    /\ setup.step = "idle" /\ saved # Nowhere
    /\ Continue([NoSetup EXCEPT !.step = "check"])

\* validateMappedDestinationFolder
Mapped(role, f) == Usable(f) /\ f = saved[role]

CheckRole ==
    /\ setup.step = "check"
    /\ \/ \E f \in Found(setup.role) :
             /\ Found(setup.role) = {f} /\ Mapped(setup.role, f)
             /\ LET next == [setup EXCEPT !.pair[setup.role] = f, !.role = "review"] IN
                IF setup.role = "staging" THEN Continue(next)
                ELSE IF next.pair["staging"] = next.pair["review"] THEN Leave
                ELSE /\ accepted' = next.pair /\ setup' = NoSetup
                     /\ UNCHANGED <<drive, configured, saved, blocking, late, tooLate,
                                    setupFaults, folderChanges>>
       \/ /\ ~\E f \in Found(setup.role) : Found(setup.role) = {f} /\ Mapped(setup.role, f)
          /\ Leave

\* A publish or a remap is interrupted, or completed.
ToggleJournal ==
    /\ setup.step = "idle" /\ accepted # Nowhere /\ blocking' = ~blocking
    /\ UNCHANGED <<drive, configured, saved, setup, late, tooLate, accepted, setupFaults,
                   folderChanges>>

EditConfiguration ==
    /\ setup.step = "idle"
    /\ folderChanges < MaxFolderChanges /\ folderChanges' = folderChanges + 1
    /\ \E key \in Roles \cup {"parent"}, f \in Folders \cup {NoFolder} :
          /\ f # NoFolder => ~Unmade(f)
          /\ configured' = [configured EXCEPT ![key] = f]
    /\ UNCHANGED <<drive, saved, blocking, setup, late, tooLate, accepted, setupFaults>>

\* The user trashes, shares or moves a folder.
ChangeFolder(f) ==
    /\ ~Unmade(f)
    /\ folderChanges < MaxFolderChanges /\ folderChanges' = folderChanges + 1
    /\ drive[f].state # "trashed"
    /\ \/ \E state \in {"good", "bad", "trashed"} :
             drive' = [drive EXCEPT ![f].state = state]
       \/ \E parent \in (Users \ {f}) \cup {NoFolder} :
             drive' = [drive EXCEPT ![f].parent = parent]
    /\ UNCHANGED <<configured, saved, blocking, setup, late, tooLate, accepted, setupFaults>>

SetupNext ==
    \/ StartSetup \/ FindRole \/ CheckParent \/ PreflightRole
    \/ Reuse \/ Adopt \/ LookBeforeCreate \/ Create \/ CreateLost
    \/ SaveFolders \/ SetupStops
    \/ StartCheck \/ CheckRole \/ ToggleJournal \/ EditConfiguration
    \/ \E role \in Roles : CreateLands(role)
    \/ \E f \in Folders : ChangeFolder(f)

SetupSpec == SetupInit /\ [][SetupNext]_setupVars
-----------------------------------------------------------------------------
(* Properties *)

\* However its creates fail and wherever it is killed, setup makes no second
\* folder of a role: another one only comes from a create that Google executed
\* after the program had looked again (createFolderReconciled, drive.go:155).
OneFolderPerRole ==
    \A role \in Roles :
        Cardinality({f \in Found(role) : drive[f].own}) <= 1 + tooLate[role]

\* The documents of a workspace stay together: no setup, whatever was
\* configured, created or moved before it, saves another folder for a role, and
\* no publish is given another pair of folders than the one before.
DestinationKept ==
    [][/\ \A role \in Roles : saved[role] # NoFolder => saved'[role] = saved[role]
       /\ accepted # Nowhere => accepted' = accepted]_setupVars
=============================================================================
