------------------------------ MODULE ReviewPull ------------------------------
(***************************************************************************)
(* What status says of a publication under review, and what a pull of it   *)
(* then does: app/review_status.go with validateRemote of                  *)
(* app/application.go, and app/review_pull.go.  The two check the same     *)
(* things in code of their own.                                            *)
(*                                                                         *)
(* A pull holds the lock, which stops other mdoc commands, while reviewers *)
(* change the document and the author the sources and the patch file.  Its *)
(* read of the document is one step here; StableReader takes it apart.     *)
(***************************************************************************)
EXTENDS Naturals, FiniteSets

CONSTANT MaxMoves       \* bound: changes of what surrounds a pull

ASSUME PullConstantsOK == MaxMoves \in Nat

Classes == {"clean", "unsupported", "conflict"}
Operations == {"none", "publish", "remap", "damaged"}
SourceStates == {"valid", "invalid", "unreadable"}

\* The review set that a copy of the document names in its metadata.
CopySets == {"own", "other"}

\* What a pull and a status look at.  Each field lists its regular value first.
Surroundings ==
    [operation : Operations,                      \* the unfinished one, if any
     enabled   : BOOLEAN,                         \* review.pull.enabled
     pandoc    : BOOLEAN,                         \* Pandoc can be run
     account   : {"stored", "other"},
     state     : {"valid", "missing", "damaged", "foreign"},
     sources   : SourceStates,                    \* what Discover and Resolve find
     members   : {"kept", "removed"},             \* those of the snapshot, by the publication
     active    : {"referenced", "unreferenced", "none"},
     baseline  : {"sealed", "missing", "damaged", "unsealed", "foreign"},
     folder    : {"mapped", "unmapped"},          \* the review folder
     file      : {"there", "gone", "trashed"},
     place     : {"review", "elsewhere"},
     metadata  : {"ready", "changed"},
     copies    : SUBSET CopySets,                 \* others of its target and generation
     set       : {"whole", "broken"},             \* the other members of its review set
     suggested : BOOLEAN,                         \* open suggestions
     tabs      : {"captured", "changed"},
     edits     : SUBSET Classes,                  \* of the reviewers, by their class
     diverged  : BOOLEAN]                         \* the author edits the same text

Regular ==
    [operation |-> "none", enabled |-> TRUE, pandoc |-> TRUE, account |-> "stored",
     state |-> "valid", sources |-> "valid", members |-> "kept", active |-> "referenced",
     baseline |-> "sealed", folder |-> "mapped", file |-> "there", place |-> "review",
     metadata |-> "ready", copies |-> {}, set |-> "whole", suggested |-> FALSE,
     tabs |-> "captured", edits |-> {}, diverged |-> FALSE]

VARIABLES
    around,      \* the surroundings
    moves,       \* counter
    pull,        \* the running pull: its options, step, members and what it read
    output,      \* the patch file: nobody's, of another program, a source, the patch
    pulled       \* the result of the last pull

pullVars == <<around, moves, pull, output, pulled>>

NoPull == [step |-> "none", external |-> FALSE, local |-> FALSE, partial |-> FALSE,
           overwrite |-> FALSE, members |-> "kept", read |-> Regular]

PullInit ==
    /\ around = Regular /\ moves = 0 /\ pull = NoPull
    /\ output = "absent" /\ pulled = "none"

-----------------------------------------------------------------------------
(* Status *)

\* localReviewDiagnostics; the baseline of another target fails the comparison
\* with the reference.
LocalStatus(w) ==
    IF ~w.enabled THEN "disabled"
    ELSE IF w.state \in {"missing", "damaged"} THEN "unavailable"
    ELSE IF w.state = "foreign" THEN "blocked"
    ELSE IF w.active # "referenced" THEN "unavailable"
    ELSE IF w.baseline # "sealed" THEN "blocked"
    ELSE "baseline_available"

\* The issues of validateExplicitRemoteTargets and validateRemote that concern
\* the target.  ValidateCompleteSet is asked of the documents that name the
\* active review set: one of them is missing, too many, or not ready in the
\* review folder.  A copy that names another set is not among them.
RemoteErrors(w) ==
    \/ w.folder = "unmapped" \/ w.file # "there" \/ w.metadata = "changed"
    \/ w.place # "review" \/ w.set = "broken" \/ "own" \in w.copies

\* Mutation of StatusBlocked: suggestions are a warning like the others.
StatusBlocked_Errors(w) == RemoteErrors(w)

StatusBlocked(w) == RemoteErrors(w) \/ w.suggested

\* Changes of the document, and of its tabs, change its revision.
Changed(w) == w.edits # {} \/ w.tabs = "changed"

\* The state that `mdoc status --remote` reports.  Without Pandoc it validates
\* no source and goes on.
RemoteStatus(w) ==
    IF LocalStatus(w) # "baseline_available" THEN LocalStatus(w)
    ELSE IF w.pandoc /\ w.sources # "valid" THEN "blocked"
    ELSE IF w.account = "other" THEN "blocked"
    ELSE IF StatusBlocked(w) THEN "blocked"
    ELSE IF Changed(w) THEN "changed"
    ELSE "pull_ready"

-----------------------------------------------------------------------------
(* The checks of a pull, in their order *)

\* Before Google is asked: journals, state, account, sources, baseline.
LocalRefusal(w) ==
    IF ~w.enabled THEN "review_pull_disabled"
    ELSE IF w.operation \in {"publish", "remap"} THEN "review_conflict"
    ELSE IF w.operation = "damaged" THEN "review_snapshot_invalid"
    ELSE IF w.state \in {"missing", "damaged"} THEN "review_snapshot_invalid"
    ELSE IF w.state = "foreign" THEN "review_target_mismatch"
    ELSE IF w.account = "other" THEN "account_identity_mismatch"
    ELSE IF ~w.pandoc \/ w.sources # "valid" THEN "review_publication_invalid"
    ELSE IF w.active # "referenced" \/ w.baseline = "missing" THEN "review_baseline_missing"
    ELSE IF w.baseline \in {"damaged", "unsealed"} THEN "review_snapshot_invalid"
    ELSE "none"

\* validateReviewTargetFile
TargetMatches(w) == w.file = "there" /\ w.place = "review" /\ w.metadata = "ready"

\* reviewTargetPreflight: GetFile and then FindDocuments by target key and
\* generation, whatever review set they name and outside the trash.
Preflight(w) == IF w.copies = {} THEN "none" ELSE "review_target_mismatch"

\* Mutation of ReadRefusal: the file that was read is not looked at again.
ReadRefusal_Once(w, external) ==
    IF w.file # "there" THEN "review_target_mismatch"
    ELSE IF w.tabs = "changed" THEN "review_unsupported"
    ELSE IF w.suggested THEN "review_suggestions_open"
    ELSE "none"

\* What StableReader refuses, by reviewReadError, and the second look at the
\* file it read.
ReadRefusal(w, external) ==
    IF w.file # "there" THEN "review_target_mismatch"
    ELSE IF w.tabs = "changed" THEN "review_unsupported"
    ELSE IF w.suggested THEN "review_suggestions_open"
    ELSE IF ~external /\ ~TargetMatches(w) THEN "review_target_mismatch"
    ELSE "none"

\* currentReviewSources: each member of the snapshot is one of the publication
\* as it was resolved, and its file can still be read.
SourcesRefusal(members, sources) ==
    IF members = "removed" \/ sources = "unreadable" THEN "review_conflict" ELSE "none"

\* All checks of a pull with nothing changing in between.
Refusal(w) ==
    IF LocalRefusal(w) # "none" THEN LocalRefusal(w)
    ELSE IF ~TargetMatches(w) \/ Preflight(w) # "none" THEN "review_target_mismatch"
    ELSE IF w.baseline = "foreign" THEN "review_snapshot_invalid"
    ELSE IF ReadRefusal(w, FALSE) # "none" THEN ReadRefusal(w, FALSE)
    ELSE SourcesRefusal(w.members, w.sources)

-----------------------------------------------------------------------------
(* The pull *)

EndPull(result) == pull' = NoPull /\ pulled' = result /\ UNCHANGED <<around, moves, output>>
PullStep(next) ==
    pull' = [pull EXCEPT !.step = next] /\ UNCHANGED <<around, moves, output, pulled>>
Proceed(refusal, next) == IF refusal = "none" THEN PullStep(next) ELSE EndPull(refusal)

\* A bootstrap names another document, or gives its export as a file.
StartPull ==
    /\ pull.step = "none" /\ UNCHANGED <<around, moves, output>>
    /\ \E external, local, partial, overwrite \in BOOLEAN :
          /\ local \/ partial => external
          /\ pull' = [NoPull EXCEPT !.step = "local", !.external = external,
                        !.local = local, !.partial = partial, !.overwrite = overwrite]
    /\ pulled' = "none"

\* The publication, with its members, is resolved here.
CheckLocal ==
    /\ pull.step = "local"
    /\ IF LocalRefusal(around) # "none" THEN EndPull(LocalRefusal(around))
       ELSE /\ pull' = [pull EXCEPT !.step = IF pull.external THEN "reference" ELSE "file",
                                    !.members = around.members]
            /\ UNCHANGED <<around, moves, output, pulled>>

CheckFile ==
    /\ pull.step = "file"
    /\ Proceed(IF TargetMatches(around) THEN "none" ELSE "review_target_mismatch", "find")

CheckCopies == pull.step = "find" /\ Proceed(Preflight(around), "reference")

\* validateActiveSnapshot and validateSnapshotReference
CheckReference ==
    /\ pull.step = "reference"
    /\ Proceed(IF around.baseline = "foreign" THEN "review_snapshot_invalid" ELSE "none",
               "read")

\* The text, and the classes of its edits against the baseline.  A local
\* export is read as it is.
ReadReview ==
    /\ pull.step = "read"
    /\ LET refusal == IF pull.local THEN "none" ELSE ReadRefusal(around, pull.external) IN
       IF refusal # "none" THEN EndPull(refusal)
       ELSE /\ pull' = [pull EXCEPT !.step = "propose", !.read = around]
            /\ UNCHANGED <<around, moves, output, pulled>>

\* The result by the classes of the changes and the conflicts of the proposals
\* with the current sources.
ResultCode(edits, diverged) ==
    IF "conflict" \in edits THEN "review_conflict"
    ELSE IF "unsupported" \in edits THEN "review_unsupported"
    ELSE IF "clean" \in edits /\ diverged THEN "review_conflict"
    ELSE IF "clean" \in edits THEN "review_clean_patch"
    ELSE "review_no_changes"

BlockedResult == {"review_conflict", "review_unsupported"}

\* The current sources are read and the patch is made; a blocked pull has one
\* only when it is partial.
Propose ==
    /\ pull.step = "propose"
    /\ LET result == ResultCode(pull.read.edits, around.diverged)
           patch == "clean" \in pull.read.edits /\ ~around.diverged
                    /\ (result \in BlockedResult => pull.partial)
           refusal == SourcesRefusal(pull.members, around.sources)
       IN
       IF refusal # "none" THEN EndPull(refusal)
       ELSE /\ pulled' = result
            /\ pull' = IF patch THEN [pull EXCEPT !.step = "check"] ELSE NoPull
            /\ UNCHANGED <<around, moves, output>>

\* writeReviewPatch: the path is looked at, then a temporary file is linked or
\* renamed to it.
CheckOutput ==
    /\ pull.step = "check"
    /\ IF output = "source" \/ (output # "absent" /\ ~pull.overwrite)
       THEN EndPull("patch_refused") ELSE PullStep("write")

\* os.Link fails when the name is taken.
Placed == pull.overwrite \/ output = "absent"

WritePatch ==
    /\ pull.step = "write"
    /\ IF Placed
       THEN output' = "patch" /\ pull' = NoPull /\ UNCHANGED <<around, moves, pulled>>
       ELSE EndPull("patch_refused")

PullFails == pull.step # "none" /\ EndPull("failed")

-----------------------------------------------------------------------------
(* What surrounds it *)

\* Without the lock another command can end or begin; the author changes the
\* project, and reviewers the document and its folders, at any time.
Surround(new) ==
    /\ moves < MaxMoves /\ moves' = moves + 1 /\ around' = new
    /\ UNCHANGED <<pull, output, pulled>>

ChangeProject ==
    \/ \E b \in BOOLEAN : \/ Surround([around EXCEPT !.enabled = b])
                          \/ Surround([around EXCEPT !.pandoc = b])
                          \/ Surround([around EXCEPT !.diverged = b])
    \/ \E s \in SourceStates : Surround([around EXCEPT !.sources = s])
    \/ \E m \in {"kept", "removed"} : Surround([around EXCEPT !.members = m])

ChangeRecords ==
    /\ pull.step = "none"
    /\ \/ \E o \in Operations : Surround([around EXCEPT !.operation = o])
       \/ \E s \in {"valid", "missing", "damaged", "foreign"} :
             Surround([around EXCEPT !.state = s])
       \/ \E a \in {"stored", "other"} : Surround([around EXCEPT !.account = a])
       \/ \E a \in {"referenced", "unreferenced", "none"} :
             Surround([around EXCEPT !.active = a])
       \/ \E b \in {"sealed", "missing", "damaged", "unsealed", "foreign"} :
             Surround([around EXCEPT !.baseline = b])

ChangeRemote ==
    \/ \E f \in {"there", "gone", "trashed"} : Surround([around EXCEPT !.file = f])
    \/ \E p \in {"review", "elsewhere"} : Surround([around EXCEPT !.place = p])
    \/ \E m \in {"ready", "changed"} : Surround([around EXCEPT !.metadata = m])
    \/ \E m \in {"mapped", "unmapped"} : Surround([around EXCEPT !.folder = m])
    \/ \E c \in SUBSET CopySets : Surround([around EXCEPT !.copies = c])
    \/ \E s \in {"whole", "broken"} : Surround([around EXCEPT !.set = s])
    \/ \E s \in BOOLEAN : Surround([around EXCEPT !.suggested = s])
    \/ \E t \in {"captured", "changed"} : Surround([around EXCEPT !.tabs = t])
    \/ \E e \in SUBSET Classes : Surround([around EXCEPT !.edits = e])

\* Another program makes, or removes, the file the patch is to be written to,
\* or the path is that of a source.
ChangeOutput ==
    /\ moves < MaxMoves /\ moves' = moves + 1
    /\ output' \in {"absent", "other", "source"} \ {output}
    /\ UNCHANGED <<around, pull, pulled>>

PullNext ==
    \/ StartPull \/ CheckLocal \/ CheckFile \/ CheckCopies \/ CheckReference
    \/ ReadReview \/ Propose \/ CheckOutput \/ WritePatch \/ PullFails
    \/ ChangeProject \/ ChangeRecords \/ ChangeRemote \/ ChangeOutput

PullSpec == PullInit /\ [][PullNext]_pullVars
-----------------------------------------------------------------------------
(* Properties *)

\* What a pull refuses and status has no check for: the journals
\* (review_pull.go:53), Pandoc, a copy of the document that names another
\* review set (:344), and members that the publication no longer has (:412).
NotInStatus(w) ==
    \/ w.operation # "none" \/ ~w.pandoc \/ "other" \in w.copies
    \/ w.members = "removed"

\* These four are all: where none of them is the case, what status calls ready
\* is refused by no check of the pull, and where one is, by a check of its own.
\* review_status.go and application.go check the rest in code of their own.
StatusCoversPull ==
    RemoteStatus(around) = "pull_ready" =>
        (Refusal(around) = "none" <=> ~NotInStatus(around))

\* A patch is written over nothing, or over a file the user let it replace,
\* whatever is put there after the path was looked at; and it comes from the
\* document the state refers to, ready in the review folder and without open
\* suggestions when its text was read, wherever it was when it was found, and
\* from edits that all can be taken, if it is not partial (review_pull.go:432).
PatchFromReview ==
    [][output' = "patch" /\ output # "patch" =>
         LET read == pull.read IN
         /\ pull.overwrite \/ output = "absent"
         /\ ~pull.external =>
               /\ read.file = "there" /\ read.place = "review"
               /\ read.metadata = "ready" /\ ~read.suggested
         /\ ~pull.partial => read.edits = {"clean"}]_pullVars
=============================================================================
