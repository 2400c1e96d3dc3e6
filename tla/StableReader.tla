----------------------------- MODULE StableReader -----------------------------
(***************************************************************************)
(* A document that is read in several requests while people edit it.       *)
(* StableReader.Read, internal/googleapi/stable_export.go, asks Drive and  *)
(* Docs for the document, exports it, asks both again and starts over when *)
(* something moved; publish, status and pull use what it returns.          *)
(* Service.Capture, workingdraft/service.go, reads the document twice and  *)
(* compares everything it got.                                             *)
(*                                                                         *)
(* What an export or a document holds is told by the Docs revision.  Both  *)
(* numbers only grow.                                                      *)
(***************************************************************************)
EXTENDS Naturals, Sequences

CONSTANTS
    ReadAttempts,  \* attempts of one read
    MaxChanges     \* bound: changes of the document

ASSUME ReaderConstantsOK == {ReadAttempts, MaxChanges} \subseteq Nat \ {0}

Topologies == {"captured", "replaced", "nested"}

VARIABLES
    document,   \* the document: Drive version, Docs revision and what they are of
    moments,    \* of no code: every state the document was in
    read,       \* the read under way
    taken       \* what it returned

readerStateVars == <<document, moments, read, taken>>

NotTaken == [error |-> "not yet"]

ReaderInit ==
    /\ document = [version |-> 1, revision |-> 1, tabs |-> "captured",
                   suggestions |-> FALSE, trashed |-> FALSE]
    /\ moments = {document}
    /\ read = [kind |-> "none", step |-> 0, attempt |-> 0, strict |-> FALSE,
               answers |-> <<>>]
    /\ taken = NotTaken

-----------------------------------------------------------------------------
(* The editors *)

Become(new) ==
    /\ document.version <= MaxChanges
    /\ document' = new /\ moments' = moments \cup {new}
    /\ UNCHANGED <<read, taken>>

\* A change of the text, of a suggestion or of the tabs makes a revision, and
\* every change a version.
EditDocument ==
    \E tabs \in Topologies, suggestions \in BOOLEAN :
        /\ ~document.trashed
        /\ Become([document EXCEPT !.version = @ + 1, !.revision = @ + 1,
                                   !.tabs = tabs, !.suggestions = suggestions])

\* A rename, a move or the trash changes the file alone.
EditFile ==
    \E trashed \in BOOLEAN :
        Become([document EXCEPT !.version = @ + 1, !.trashed = trashed])

-----------------------------------------------------------------------------
(* The requests, in their order *)

\* Requests of one attempt: 1 and 4 ask Drive for the file, 2 and 5 Docs for
\* the document, 3 exports and 6 lists the comments.  A capture needs no export.
Order(kind) ==
    IF kind = "stable" THEN <<"file", "docs", "export", "file", "docs", "comments">>
    ELSE <<"file", "docs", "file", "docs">>

StartRead(kind, strict) ==
    /\ read.kind = "none"
    /\ read' = [kind |-> kind, step |-> 1, attempt |-> 1, strict |-> strict,
                answers |-> <<>>]
    /\ taken' = NotTaken /\ UNCHANGED <<document, moments>>

Finish(result) ==
    /\ taken' = result /\ UNCHANGED <<document, moments>>
    /\ read' = [read EXCEPT !.kind = "none", !.step = 0, !.answers = <<>>]

\* validateStableIdentity, ValidateSingleRootTopology and the tabs of the
\* baseline, for what a request answered; the suggestions end a stable read only.
Refused(answer, request) ==
    \/ request = "file" /\ answer.trashed
    \/ /\ request = "docs" /\ read.kind = "stable"
       /\ \/ answer.tabs = "nested"
          \/ answer.suggestions
          \/ read.strict /\ answer.tabs # "captured"

\* The place of the last answer of Drive that is compared; that of Docs follows.
Again == IF read.kind = "stable" THEN 4 ELSE 3

\* Mutation of Unchanged: only the versions of Drive are compared.
Unchanged_Version(answers) == answers[1].version = answers[Again].version

\* The first answers of Drive and Docs against the last ones.
Unchanged(answers) ==
    /\ answers[1].version = answers[Again].version
    /\ answers[2].revision = answers[Again + 1].revision

Result(answers) ==
    IF read.kind = "stable"
    THEN [error |-> "none", kind |-> "stable", version |-> answers[4].version,
          revision |-> answers[5].revision, text |-> answers[3].revision,
          suggestions |-> answers[5].suggestions]
    ELSE [error |-> "none", kind |-> "capture", version |-> answers[1].version,
          revision |-> answers[2].revision, text |-> answers[2].revision,
          suggestions |-> answers[2].suggestions]

\* The attempt is judged at the second answer of Docs.
Judges == read.step = Again + 1

\* What ends the read: an answer that is refused, or tabs that changed meanwhile.
EndsRead(answers) ==
    \/ Refused(document, Order(read.kind)[read.step])
    \/ Judges /\ read.kind = "stable" /\ answers[2].tabs # document.tabs

Moved(answers) == Judges /\ ~Unchanged(answers)

\* One request is answered with the document as it is at that moment.  A change
\* starts the next attempt, if there is one.
Request ==
    /\ read.kind # "none"
    /\ LET answers == Append(read.answers, document)
       IN
       \/ /\ EndsRead(answers)
          /\ Finish([error |-> "refused"])
       \/ /\ ~EndsRead(answers) /\ Moved(answers) /\ read.attempt < ReadAttempts
          /\ read' = [read EXCEPT !.step = 1, !.attempt = @ + 1, !.answers = <<>>]
          /\ UNCHANGED <<document, moments, taken>>
       \/ /\ ~EndsRead(answers) /\ Moved(answers) /\ read.attempt >= ReadAttempts
          /\ Finish([error |-> "unstable"])
       \/ /\ ~EndsRead(answers) /\ ~Moved(answers) /\ read.step = Len(Order(read.kind))
          /\ Finish(Result(answers))
       \/ /\ ~EndsRead(answers) /\ ~Moved(answers) /\ read.step < Len(Order(read.kind))
          /\ read' = [read EXCEPT !.step = @ + 1, !.answers = answers]
          /\ UNCHANGED <<document, moments, taken>>

RequestFails == read.kind # "none" /\ Finish([error |-> "failed"])

ReaderNext ==
    \/ EditDocument \/ EditFile \/ Request \/ RequestFails
    \/ \E kind \in {"stable", "capture"}, strict \in BOOLEAN : StartRead(kind, strict)

ReaderSpec == ReaderInit /\ [][ReaderNext]_readerStateVars
-----------------------------------------------------------------------------
(* Properties *)

\* What a read returns belongs together: the document was, at one moment, of
\* the returned version and revision, and the text is of that revision.  A
\* stable text has no suggestions in it (stable_export.go:60; service.go:166).
ReadAtOneMoment ==
    taken.error = "none" =>
        /\ taken.text = taken.revision
        /\ \E m \in moments :
              /\ m.version = taken.version /\ m.revision = taken.revision
              /\ m.suggestions = taken.suggestions /\ ~m.trashed
              /\ taken.kind = "stable" => ~m.suggestions /\ m.tabs # "nested"
=============================================================================
