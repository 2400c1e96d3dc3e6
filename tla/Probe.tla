-------------------------------- MODULE Probe --------------------------------
(***************************************************************************)
(* `mdoc probe google`: a script of Drive and Docs requests on a folder of  *)
(* its own, with the deferred cleanup that follows wherever it stops, and   *)
(* `mdoc probe cleanup` for a folder that was kept.  The owner of the Drive *)
(* has the document open and may change it while the script runs.           *)
(***************************************************************************)
EXTENDS Integers, Sequences

CONSTANT MaxNoteEdits       \* bound: changes of the document by its owner

ASSUME ProbeConstantsOK == MaxNoteEdits \in Nat

ProbeRoles == {"root", "staging", "review", "document"}

\* One request or group of requests each, in the order of Service.Google.
ProbeScript ==
    <<"root", "staging", "review", "import", "search", "read", "links", "reread",
      "baseline", "tabs", "edit", "export", "comment", "comment", "list", "compare",
      "add tab", "delete tab", "before", "ready", "move", "final">>

\* A folder the user may name to cleanup; "foreign" has the name of a probe
\* folder and no properties of one.
ProbeFolders == {"root", "staging", "review", "foreign"}
RoleProperty == [f \in ProbeFolders |-> IF f = "foreign" THEN "none" ELSE f]

NoNote == [rev |-> 0, text |-> 0, link |-> "none", marker |-> FALSE, tabs |-> 0,
           comments |-> 0, status |-> "none", parent |-> "none"]
NoRun == [at |-> 0, keep |-> FALSE, known |-> {}, rev |-> 0, text |-> 0, checks |-> TRUE,
          failed |-> {}, refused |-> FALSE, ended |-> FALSE, cleaned |-> FALSE]

VARIABLES
    probe,      \* the command: position in the script, answers, observations
    inDrive,    \* what it has made in the Drive, with or without an answer
    renamed,    \* the owner has renamed the probe folder
    trash,      \* folders that are in the trash themselves
    note,       \* the document
    noteEdits

probeVars == <<probe, inDrive, renamed, trash, note, noteEdits>>

ProbeInit ==
    /\ probe = NoRun /\ inDrive = {} /\ renamed = FALSE /\ trash = {} /\ note = NoNote
    /\ noteEdits = 0

Running == probe.at \in 1..Len(ProbeScript)
Asked == ProbeScript[probe.at]

\* renderFixture and the clients come first and leave nothing behind.
StartProbe(keep) ==
    /\ probe = NoRun /\ inDrive = {}
    /\ probe' = [NoRun EXCEPT !.at = 1, !.keep = keep]
    /\ UNCHANGED <<inDrive, renamed, trash, note, noteEdits>>

-----------------------------------------------------------------------------
(* What the requests do *)

AskedCreates ==
    IF Asked \in {"root", "staging", "review"} THEN {Asked}
    ELSE IF Asked = "import" THEN {"document"} ELSE {}

\* A Docs update names the revision that was read; Google refuses another.
Outdated == Asked \in {"links", "edit"} /\ note.rev # probe.rev

\* The import may lose the placeholder link, or keep it.
Imported(link) ==
    [NoNote EXCEPT !.rev = 1, !.link = link, !.tabs = 1, !.status = "pending",
                   !.parent = "staging"]

\* The document after the request.
AskedEffects ==
    IF Asked = "import" THEN {Imported("placeholder"), Imported("none")}
    ELSE {[note EXCEPT
              !.link = IF Asked = "links" THEN "final" ELSE @,
              !.marker = @ \/ Asked = "edit",
              !.comments = IF Asked = "comment" THEN @ + 1 ELSE @,
              !.tabs = IF Asked = "add tab" THEN @ + 1
                       ELSE IF Asked = "delete tab" THEN @ - 1 ELSE @,
              !.status = IF Asked = "ready" THEN "ready" ELSE @,
              !.parent = IF Asked = "move" THEN "review" ELSE @,
              !.rev = IF Asked \in {"links", "edit", "add tab", "delete tab"}
                      THEN @ + 1 ELSE @]}

\* What stops the script although the request is answered.
Unusable ==
    \/ Asked = "read" /\ note.link # "placeholder"
    \/ Asked = "tabs" /\ note.tabs # 1

\* What the final validation will ask of this answer.
Observed ==
    /\ Asked = "search" => probe.known = ProbeRoles
    /\ Asked = "reread" => note.link = "final" /\ note.rev # probe.rev
    /\ Asked = "export" => note.marker
    /\ Asked = "list" => note.comments >= 2
    /\ Asked = "compare" => note.text = probe.text

Answered ==
    [probe EXCEPT !.at = @ + 1, !.known = @ \cup AskedCreates, !.checks = @ /\ Observed,
                  !.rev = IF Asked \in {"read", "tabs"} THEN note.rev ELSE @,
                  !.text = IF Asked = "export" THEN note.text ELSE @]

-----------------------------------------------------------------------------
(* The script *)

\* The script stops here; the deferred cleanup follows.
Stopped(record) == [record EXCEPT !.at = Len(ProbeScript) + 1, !.refused = TRUE]

Perform ==
    /\ Running /\ ~Outdated
    /\ note' \in AskedEffects /\ inDrive' = inDrive \cup AskedCreates
    /\ probe' = IF Unusable THEN Stopped(probe) ELSE Answered
    /\ UNCHANGED <<renamed, trash, noteEdits>>

RefuseOutdated ==
    /\ Running /\ Outdated
    /\ probe' = Stopped(probe)
    /\ UNCHANGED <<inDrive, renamed, trash, note, noteEdits>>

\* Google fails, or its answer is lost.
ProbeFails ==
    /\ Running
    /\ probe' = [Stopped(probe) EXCEPT !.failed = @ \cup {Asked}]
    /\ \/ UNCHANGED <<inDrive, note>>
       \/ ~Outdated /\ note' \in AskedEffects /\ inDrive' = inDrive \cup AskedCreates
    /\ UNCHANGED <<renamed, trash, noteEdits>>

AtCleanup == probe.at = Len(ProbeScript) + 1 /\ ~probe.ended

\* validateAutomatedResult; the styles, tables and images of the import are
\* whatever Google makes of them.
Validate ==
    /\ AtCleanup /\ ~probe.refused
    /\ \E fidelity \in BOOLEAN :
          probe' = [probe EXCEPT !.at = @ + 1, !.refused = ~(fidelity /\ probe.checks)]
    /\ UNCHANGED <<inDrive, renamed, trash, note, noteEdits>>

\* Mutation of MustClean: the cleanup is deferred after all folders are made.
MustClean_Folders == "review" \in probe.known /\ ~probe.keep

MustClean == "root" \in probe.known /\ ~probe.keep

Deferred ==
    ~probe.ended /\ (probe.at = Len(ProbeScript) + 2 \/ (AtCleanup /\ probe.refused))

\* The deferred function, with a context of its own.
CleanUp ==
    /\ Deferred
    /\ \/ ~MustClean /\ probe' = [probe EXCEPT !.ended = TRUE] /\ UNCHANGED trash
       \/ /\ MustClean /\ probe' = [probe EXCEPT !.ended = TRUE, !.cleaned = TRUE]
          /\ trash' = trash \cup {"root"}
       \/ /\ MustClean
          /\ probe' = [probe EXCEPT !.ended = TRUE, !.refused = TRUE,
                                    !.failed = @ \cup {"trash"}]
          /\ trash' \in {trash, trash \cup {"root"}}
    /\ UNCHANGED <<inDrive, renamed, note, noteEdits>>

\* No signal is caught: an interrupted command does nothing more.
KillProbe ==
    /\ probe # NoRun /\ ~probe.ended /\ probe' = NoRun
    /\ UNCHANGED <<inDrive, renamed, trash, note, noteEdits>>

-----------------------------------------------------------------------------
(* `mdoc probe cleanup` and the owner of the Drive *)

\* validateProbeRoot
ProbeRoot(f) == RoleProperty[f] = "root" /\ ~renamed

CleanupFolder(f) ==
    /\ probe = NoRun \/ probe.ended
    /\ f = "foreign" \/ f \in inDrive
    /\ ProbeRoot(f) /\ trash' = trash \cup {f}
    /\ UNCHANGED <<probe, inDrive, renamed, note, noteEdits>>

OwnerActs == noteEdits < MaxNoteEdits /\ noteEdits' = noteEdits + 1

EditNote ==
    /\ OwnerActs /\ "document" \in inDrive
    /\ \/ note' = [note EXCEPT !.rev = @ + 1, !.text = @ + 1, !.marker = FALSE]
       \/ note' = [note EXCEPT !.rev = @ + 1, !.tabs = @ + 1]
       \/ note.comments > 0 /\ note' = [note EXCEPT !.comments = @ - 1]
    /\ UNCHANGED <<probe, inDrive, renamed, trash>>

RenameRoot ==
    /\ OwnerActs /\ "root" \in inDrive /\ renamed' = TRUE
    /\ UNCHANGED <<probe, inDrive, trash, note>>

ProbeNext ==
    \/ \E keep \in BOOLEAN : StartProbe(keep)
    \/ Perform \/ RefuseOutdated \/ ProbeFails \/ Validate \/ CleanUp \/ KillProbe
    \/ \E f \in ProbeFolders : CleanupFolder(f)
    \/ EditNote \/ RenameRoot

ProbeSpec == ProbeInit /\ [][ProbeNext]_probeVars
-----------------------------------------------------------------------------
(* Properties *)

\* Wherever a probe stops by itself, what it has made is in the trash with
\* its root folder, what was made by a request without an answer included,
\* unless Google failed at the root folder itself; the result that is printed
\* is of a document that is ready in the review folder; nothing else of the
\* Drive is ever put into the trash (service.go:153, :508).
ProbeLeavesNothing ==
    /\ probe.ended /\ ~probe.keep /\ probe.failed \cap {"root", "trash"} = {} =>
          "root" \in trash
    /\ probe.ended /\ ~probe.refused =>
          /\ probe.known = ProbeRoles /\ probe.cleaned = ~probe.keep
          /\ note.status = "ready" /\ note.parent = "review" /\ note.link = "final"
    /\ trash \subseteq {"root"}
=============================================================================
