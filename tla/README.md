# A TLA+ model of mdoc

`mdoc` publishes Markdown sources as Google documents, keeps a local record of
what it published, and pulls reviewed text back into the sources. This directory
holds TLA+ modules that model it, TLC configurations that check them on small
instances, and TLAPS proofs, for instances of any size, about the batch publisher
and its command, the files they keep, the recovery of a lost state, the remap, the
commands beside publish, and the reader of a document that others edit.

    tlc -config BatchFaults.cfg MCBatchPublisher     # one of the runs
    tlapm BatchPublisherProofs.tla                   # the proofs of one module

`PROJECT.json` lists the runs with what each of them shows, the source lines
every definition stands for, the mutants that each property rejects, the
findings, the hazards of the code and the theorems.

Paths below are relative to `src/internal` unless they start with `README.md`
or `workingdraft`.

## The system

| Component | State it keeps | Operations | Talks to |
|---|---|---|---|
| Batch publisher, `app/publish.go` | none of its own: all progress is in the journal | `Run`: create, fix links, capture baseline, mark ready, move, seal, commit, clear | journal, state file, snapshot store, Drive, Docs |
| Publish command, `app/publish_command.go`, `publish_publications.go`, `publish_preflight.go` | none | choose targets, render, plan, start or resume a batch | planner, publisher, state store |
| Planner, `planner/planner.go` | none (pure) | `Build`: classify, inbound closure, actions | publish command |
| State store, `state/store.go` | state file and its backup, operation journal, remap journal, lock | `Load`, `Save`, `WriteJournal`, `AdvanceJournal`, `AdvanceReviewJournal`, `LoadJournal`, `ClearJournal`, `Acquire`, `Release`, migrations | file system |
| Review snapshot store, `reviewsync/snapshot.go` | one snapshot directory per target and generation | `WriteCandidate`, `Seal`, `Load`, `Orphans` | file system |
| Google calls, `googleapi/*.go` | none; the documents are the remote state | create with reconciliation, retries, link updates, properties, moves, folders, stable export | Drive, Docs |
| Reconcile, remap, open, `app/state_commands.go`, `state/reconcile.go` | state file, remap journal | rebuild the state from Google, abandon an operation, give a source another key | state store, Drive, snapshot store |
| Setup, `app/application.go` | profile configuration file, state file | find, adopt or create folders | Drive, config |
| Review status and pull, `app/review_*.go` | none | compare the document with its sealed baseline, propose edits, write them to a bundle | snapshot store, review merge |
| Review merge, `reviewsync/align.go`, `merge.go`, `patch.go`, `sequence.go`, `source_map.go` | none (pure) | parse, align, classify, merge, patch | review pull |
| Authentication, `auth/*.go` | credentials and token in the key ring or in a file | login, callback server, refresh, logout | browser, OAuth |
| Configuration, `config/*.go` | files | discovery, layers, profiles, validation | all commands |
| Documents and publications, `document/*.go`, `publication/*.go` | none (pure over the disk) | select sources, give them keys, resolve links, resolve publications | file system, Pandoc |
| Fields, `fields/*.go`, `app/field_resolution.go` | none (pure) | merge layers, assign, compute, validate and evaluate templates | publish command, bundles |
| Bundles, `bundle/*.go` | none (pure) | assemble members into one document, check it after the filters, finish it | Pandoc, fields |
| Rendering, `render/*.go` | none (pure) | make a DOCX file | Pandoc |
| Probe, `probe/*.go` | a folder in Drive while it runs | a script of requests, cleanup | Drive, Docs |
| Working draft, `workingdraft/*.go` | optional snapshot store of the caller | read a document twice, normalise, propose | Drive, Docs |

One `publish` command reads the configuration and the sources, loads the state
file, takes the lock of its workspace and profile, plans, renders the DOCX files
and calls the publisher. The publisher is the one part that changes local and
remote state step by step, and it can die between any two of them. Its promise is
made with three stores: the operation journal (what has been announced and
done), the review snapshots (candidate, then sealed) and the state file (which
documents are active). The later commands, `review pull`, `reconcile` and
`remap`, read what the publisher left.

### What is hard

* **Crashes.** Each of the fifteen journal stages is an atomic write, and every
  remote call sits between two of them. The next run starts at the beginning of
  the first loop and has to pass over what is done.
* **Lost answers.** A create that seemed to fail may have made a document, at
  once or later. `Creator.Create` looks for it by operation and key.
* **Other writers.** Reviewers edit and trash documents at any time; the author
  edits sources between an interrupted command and the next one.
* **Barriers.** The order of the loops is the protocol: no document is shown as
  ready before all have links and baselines, none is moved before all are ready,
  the state file changes once for the batch.
* **Two sources of truth.** After a crash between `Store.Save` and
  `Store.ClearJournal` both the state file and the journal hold the operation.

### What makes each component correct

* Publisher: the journal never claims what has not happened and announces what
  will; nothing is created twice or lost; review sets change as a whole; history
  is kept, in order; baselines are those of the published text; an interrupted
  operation is finished by giving the command again.
* Publish command and planner: no published document links a replaced one; the
  recorded hash is that of the active document; resuming comes before planning.
* State store: one writer per workspace and profile; a crash leaves the old file
  or the new one; a migration is idempotent.
* Snapshot store: a sealed snapshot never changes; only an orphan is removed.
* Reconcile: what it recovers is what was there, and abandoning loses no document.
* Remap: after any crash either key leads to the documents, and repeating the
  command completes it.
* Review merge: accepted edits and local edits are both in the result, or a
  conflict is reported; a change is put where the reviewer made it.
* Review status and pull: what status shows of a pull is what the pull does, and
  its patch is the difference between the sealed baseline and the review.
* Stable export, working draft: text, revision and metadata belong together.
* Setup: one folder for each role, and never another destination than before.
* Authentication: the token file never falls back behind a login.
* Configuration: all readings of the files agree, and profiles share no state.
* Documents and publications: files, keys and links name each other one to one.
* Fields: the layer of the highest priority wins, at every depth.
* Bundles: every link, reference and entry of the contents leads somewhere, and
  to the right place.
* Probe: it leaves nothing behind unless it was asked to.

## Modules

| Module | Models |
|---|---|
| `JournalStages` | The fifteen stages of a journal entry (`state/types.go:61`) as their indices, and `ValidTransition` (`state/store.go:705`) |
| `ReviewSets` | Abstract: review sets change hands as a whole, and a replaced document is kept |
| `BatchPublisher` | One run after another of `BatchPublisher.Run` with journal, snapshots, state file, Google documents, crashes and reviewers |
| `PublishCommand` | Extends `BatchPublisher`: planner, and which batch a command starts, resumes or refuses, for projects up to version 2 and of version 3 |
| `StateRecovery` | Extends `PublishCommand`: a lost state file, `state reconcile` with and without `--abandon-operation`, orphan snapshots |
| `StateStore` | The files behind the three above: lock, atomic writes, backups, journal, with killed commands and losses of power |
| `Remap` | `state remap` and its journal, next to whole publish and reconcile commands |
| `SnapshotStore` | The directories of the review snapshots of one target: a publisher that writes and seals, readers without the lock, killed commands and losses of power |
| `StableReader` | A document read in several requests while people edit it: the stable export and the capture of a working draft |
| `ReviewPull` | What status says of a review and what a pull of it does, check by check, while everything around them changes |
| `Setup` | `setup` and the check of the destination by publish, with lost answers and people who move folders |
| `Auth` | Login, refresh and logout of several commands on the one token file |
| `Probe` | The script of `probe google` and both cleanups |
| `ReviewMerge` | Pure: source map, alignment, classification, three-way merge, patch |
| `Config` | Pure: discovery of the files, the layers of settings, validation, the format of the output |
| `Documents` | Pure: selection of sources, their keys, links, publications |
| `Fields` | Pure: layers, assignments, computed values, templates |
| `Books` | Pure: a bundle from its members to the finished document |
| `Answers` | What `Config` and `Documents` answer one input, which inputs there are, and the properties of the answers |
| `BatchPublisherProofs` | Theorems about `BatchPublisher`: types, stages, refinement of `ReviewSets`; the journal against Google |
| `PublisherStateProofs` | Extends it: state file, history and baselines; no document lost or made twice; a run always goes on |
| `PublishCommandProofs` | Theorems about `PublishCommand`, on top of `PublisherStateProofs` |
| `RecoveryProofs` | Theorems about `StateRecovery`, on top of `PublishCommandProofs` |
| `RemapProofs` | Theorems about `Remap` |
| `LocalFilesProofs` | Theorems about `StateStore` and `SnapshotStore` |
| `SideCommandsProofs` | Theorems about `StableReader`, `Auth`, `Probe`, `ReviewPull` and `Setup` |
| `AnswersProofs` | Theorems about `Answers`: configuration, sources, publications |
| `MCBatchPublisher`, `MCPublishCommand`, `MCStateRecovery` | Definitions for the configurations |
| `MCCommands` | `StateStore`, `SnapshotStore`, `StableReader`, `ReviewPull`, `Setup`, `Auth` and `Probe` side by side, one of them in each behaviour |
| `MCBooks`, `MCAlgorithms` | Inputs and properties of the pure modules: a state is an input, its step the answer |

`PublishCommand` and `StateRecovery` add variables and actions to the module
they extend and keep its own: the command's `RunStep` is the publisher's with the
new variables left alone. `BatchPublisher` implements `ReviewSets`. `StateStore`
and `Remap` look at the same state file from below and from the side; what they
take as one step (a publish, a reconcile) is what the other modules take apart,
and what those take as one write is what `StateStore` takes apart.

### BatchPublisher

The variables are the durable stores (`journal`, `stage`, `fileOf`, `candHash`,
`sealHash`; `active`, `prior`; `snap`), the Google documents (`docs`), and the
running command (`pc`, `todo`, `attempt`, `got`, `readRev`, `finalSt`), which an
interruption clears. `pc` names the loop of `Run` or the point within its body;
`todo` holds the items the loop has not reached, always taken in source key
order as `Run` does (`publish.go:107`). Targets are numbers in that order.

Every durable write and every remote call is an action; so every point where the
process can die lies between two actions, and `Interrupt` covers the crash and
every error that is returned there. An atomic write that reports an error after
its rename is the write followed by `Interrupt`. A remote call can succeed, fail,
or succeed with a lost answer (`CallFailed` after the change); the retry policy
tries `Attempts` times. A create can also take effect after the client has given
up (`CreateLands`).

Abstractions: hashes are the manifests they are hashes of; the content of a
document is its revision and what its links hold; URL and file ID are one; the
stable read of `googleapi/stable_export.go` is one step; the reads before a
check and the check are one step where nothing is written in between. The
journal's hash of the request, which `loadOrCreateJournal` compares, is the
subject of `PublishCommand`; in `BatchPublisher` the same request is made again.
The lock lets one command run at a time (`state/store.go:46`).

### PublishCommand

`Publish(asked, newReview)` is the command from its arguments to the start of
the batch; its disjuncts are the outcomes that `Application.Publish` and
`publishExplicit` return. `source` holds a version for each source, standing for
everything that is hashed; `loaded` is what the running command has rendered,
`frozen` the hashes in the journal, `hashed` the hashes in the state file and
`built` (of no code: it remembers) the version a document was really made from.
Version 2 projects publish without review baselines, hence the assumption
`~UseTargets => ReviewPull = {}`.

The inbound closure is the least set that holds the roots and every target with a
link into it, which is what the queue of `inboundClosure` (`planner/planner.go:303`)
computes; said that way it can be reasoned about without induction.

### StateRecovery

Between two commands the state file can go missing or be damaged (`LoseState`).
`active`, `prior` and `hashed` then still show what was lost, which no action
reads until the file is written again: publish is refused (`PublishUnready`), and
`ReconcileSave` replaces all three by what the scan finds. The scan is
`SetOf`, `CompleteSet`, `RecoveredDocs`, `ByGeneration` and `RecoveredSnapshot`,
after `Reconcile` in `state/reconcile.go` and `recoverReviewSnapshotReference` in
`app/review_status.go`. Scan, decision and save are one step: what an editor does
in between has the same effect after the save. An abandoned operation needs two,
the save and the removal of the journal, and `AbandonInterrupt` lies between
them. `size` is the `mdoc_expected_set_size` a document was created with.

`RemoveOrphan` is the user who removes what `mdoc status` lists. `SpecRecovery`
leaves orphans alone, `SpecAnyOrphan` removes any of them; the latter is the
larger one and the one the safety run uses.

Setup on a missing state file is left out: `Application.Setup` starts an empty
state there (`app/application.go:187`), and the documents are found again only
by the reconcile that `README.md:468` asks for.

### StateStore

`dir` is what each name shows now, `disk` what it can show after a loss of power.
A rename adds the new content to `disk`; only the sync of the directory removes
the older one, so a power loss undoes the renames that were not synced, each
independently. A command takes the lock, loads, and then writes: the journal of
a new operation first when it publishes, then the pre-version-4 backup and the
backup when they are due, then the state, and at last it removes the journal.
Each file is four steps (`WriteTemporary`, `Rename`, `SyncDirectory`, and the
choice of the next one, `AfterWrite`), and `Fail` can end the command before any
of them. `RollBack` is the user who goes back to the older mdoc, publishes with
it and returns. A content of the state file is its format, whether `decode`
accepts it, and the last operation it records.

`StateFilesKept` speaks of an old format in workspaces whose old state file was
valid. A damaged one cannot be loaded, so that `README.md:488` does not speak of
it; when its first save is killed between rename and sync and the power is lost,
its backup can be gone. `SavesReplaceTheLatest` says that a save is made from the
state that was last saved, and that the backup then holds what it replaced.

### Remap

`property` is the `mdoc_source` of each Google document, `mapped` the documents
under each key of the state file, `remap` and `stage` the remap journal. A
remap announces each document, reads its key, updates it, reads it back, and
records it; then it saves the state and removes its journal. Files are numbered in
the order of their creation, which is that of the generations. A refused command
changes nothing and is no step. `Publish` and `Reconcile` are one step each and
are refused, by `Blocked`, while the remap journal is there.

### SnapshotStore

A generation directory is what its manifest says and what its other files hold;
a hash is the text it is made of. `gens` and `target` are the directory entries
as they are shown, `gensDisk` and `targetDisk` what a loss of power can leave of
them, as in `StateStore`. `Capture`, `MakeParents`, `WriteFiles`,
`RenameCandidate` and `SyncCandidate` are `WriteCandidate`
(`reviewsync/snapshot.go:149`); `SealLoad`, `SealRename` and `SealSync` are
`Seal`; `SaveReference` stands for the save of the state. A reader, a pull or a
status, has the reference of the state, takes the manifest and then the files,
without the lock, and in the end compares the manifest with the reference
(`review_pull.go:373`). `returned` remembers
the manifests whose write came back with every rename synced. Two things are
not kept: the directory of a target made for its first snapshot, whose parents are
never synced, and a rename whose sync failed, since a retry finds the files and
passes over the sync (`snapshot.go:158`, `:225`). `SnapshotsKept` states
what holds apart from them; `LoadedBaseline` states that a reader gets the text
the state refers to, or an error. It needs the comparison: a save can refer to
a sealed snapshot whose renames were never synced, and a loss of power can then
bring back the snapshot that was there before an orphan was removed, which
`Load` alone would return. That takes four faults, so `MaxSnapFaults = 4`; the
proof of the property found it when the bound was still two.

### StableReader

`document` has a Drive version, a Docs revision and what they are of; `moments`
remembers every state it was in. A read is the list of answers it has got so
far; its steps are the requests of `StableReader.Read` and of `Service.Capture`,
and between any two of them people change text, tabs, suggestions, name or
trash. `ReadAtOneMoment` states that what is returned was all true at one
moment; `SideCommandsProofs` proves it.

### ReviewPull

`around` is everything that a pull and a status look at, reduced to what they
tell apart. A pull makes its checks in the order of the code, each at a moment
of its own (`CheckLocal`, `CheckFile`, `CheckCopies`, `CheckReference`,
`ReadReview`, `Propose`, `CheckOutput`, `WritePatch`), while `ChangeProject`,
`ChangeRecords`, `ChangeRemote` and `ChangeOutput` change what is around it.
`LocalStatus` and `RemoteStatus` are the answers of status. The two look at
copies of the document in different ways: status counts the documents that name the
active review set (`app/application.go:596`), pull those of its target key and
generation (`app/review_pull.go:344`), so a copy has the set it names (`copies`);
`set` stands for the other members of the review set, of which only status asks.
A pull resolves the publication when it begins and looks for the members of the
snapshot in it when it reads the sources (`SourcesRefusal`), by then the files may
be gone. `README.md:317` says that "status also reports ... whether pull is ready,
changed, blocked, or unavailable". That does not hold of four things that status never
looks at (`NotInStatus`): journals (`app/review_pull.go:53`), Pandoc, copies of the
document under another review set, and members that left the publication
(`app/review_pull.go:412`). `StatusCoversPull` states that a pull of what status calls
ready is refused exactly in these four cases: no other refusal of pull is missing from
status. The proposal itself is a class of edits here and
the subject of `ReviewMerge`.

### Setup

`FindRole`, `CheckParent` and `PreflightRole` settle what is to be done with each
role, then `Reuse`, `Adopt` or `LookBeforeCreate` and `Create` do it, and
`SaveFolders` is the save. A create can fail, or succeed without an answer
(`CreateLost`), or be executed after all retries (`CreateLands`).
`StartCheck` and `CheckRole` are `verifyPublishDestination`. `ChangeFolder` and
`EditConfiguration` are people.

### Auth

A command is at a step and holds the token it has loaded. Callback, server error
and timeout race into a channel of one result (`auth/service.go:123`); a refresh
loads, asks and saves without a lock. `GrantKept` leaves out one case that the
code has: a command that loaded its token before another one's login or logout,
and refreshes it afterwards, saves the older grant (`auth/service.go:168`,
`:298`). The interleaving is in the model (`overtaken`).

### Probe

`ProbeScript` is the order of the requests. An answer can be lost, a request be
refused, the owner can edit the document, and the cleanup follows wherever the
script stops (`CleanUp`, `probe/service.go:166`); `CleanupFolder` is `probe
cleanup`. Nobody catches a signal, so that a killed probe leaves its folder
(`KillProbe`), and a failing probe with `--keep` prints no folder ID
(`cli/cli.go:547`).

### ReviewMerge, Config, Documents, Fields, Books

These are pure: no variables, one operator for each function of the code. In
`Answers`, `MCBooks` and `MCAlgorithms` every input of a small domain is an initial state,
one step computes the answer, and the properties say what the answer must be
without the way in which it was found. Chains of steps are operators that hand
on what they computed, in the order of the code.

* **ReviewMerge.** A block has a text, a kind, and links or none; a source is a
  line for each block with blank lines between. `ReviewApplied`: if nothing
  conflicts and the author changed nothing, the proposals are the reviewed
  document, block by block. `MergeKeepsBothSides`: a proposal holds the edits of
  both sides, which do not overlap, and its patch turns the author's file into
  it. The source map takes the first of several places by position; the inputs
  therefore have a generated block whose text is that of a source block only at
  the start, and at most one table. All edits of a member are compared with each
  other before they are applied (`Overlapping`), those of the author, too, and two
  insertions at one place count as an overlap; the diff of the library
  (`gotextdiff`) gives each inserted line for itself, so an author who inserts two
  lines in the middle of a source always has a conflict with a review of it.
* **Config.** `SettingsAgree` joins `OutputAgrees` (errors are printed in the
  format of the settings, which another function finds) and
  `ProfilesOwnTheirState` (no two profiles keep their state in one file). The
  second one leaves out what the code does not compare: version 1, whose check is
  lexical (`config/config.go:134`), the default location, and `MDOC_STATE_FILE`,
  which all profiles share. Null values are left out, and so are the sources of
  publications that come from the global `profile_defaults`. `ConfigInput` says what
  an input is: profiles and the project give no other keys than their types in
  `config/schema.go` have (a file with another one has unknown keys and is refused),
  and the flags those of `cli/cli.go`. The user's file may give any.
* **Documents.** A path is the sequence of its names; the disk has symbolic links
  and a volume that ignores case. `DocumentsFound` joins `KeysNameFiles` and
  `LinksFindDocuments`: keys, files and links name each other. `PublicationsComplete`:
  a publication without an issue has the documents its configuration names.
  `DocumentsInput` says what a disk is: the normal form of a name is its own normal
  form, a link says where it leads in one step, a file is found under its own path, a
  root is no file, and a name in the wrong case stays in the wrong case through a link.
  `MCAlgorithms` assumes of its inputs that they are such (`DocumentInputsWellFormed`,
  `ConfigInputsWellFormed`), and TLC checks it.
* **Fields.** A value is its type and what it holds, a template a sequence of
  nodes. `FieldsByPriority` says which leaf of which layer is in the result, away
  from assignments, and that the last assignment is in it. What else is below an
  assigned map it leaves open, for there the code and its README disagree: `assign`
  puts the value of a `--field` in the place of what is at its pointer
  (`fields/fields.go:357`), so that `--field '/client={"c":1}'` drops the other keys
  of `client`, while `README.md:136`, after a list of five sources whose last is
  `--field`, says "Maps merge recursively". The model replaces, as the code does. A null hides
  what lower layers give, and the function `field` takes it for missing. A template
  stands in a place: those of `CheckedPlaces` are checked, page fields are known in
  `PagePlaces`. `TemplatesValidated`: in a place that is checked, what the check
  accepts can be made and the other way round, unless the template compares a value
  that only the operation knows. `EveryTemplateValidated` asks the first half of
  every place, and is violated. A prefix of an appendix is checked as well, but
  printed as it is (`bundle/boundary.go:25`); it has no place here. Left out: `ne`,
  formats of dates and numbers, origins, hashes.
* **Books.** A member is a sequence of headings and paragraphs, a text a sequence
  of words with links; names are parts of a hash that can collide. `LinksLand`
  compares where links, references and entries of the contents lead with what the
  authors wrote. It also states that the check after the filters refuses, of
  documents the filters left alone, only those with a title to be removed that
  is nested in another block: it is dropped from the headings but not from the
  blocks (`bundle/headings.go:121`). Left out: how formatted text is cut, letters
  and length of labels, title and prose of a cover.

## Runs

| Run | Question |
|---|---|
| `BatchFaults` | Two operations one after the other, two targets that link each other, one with a baseline; three faults, a late create, a reviewer action. What is announced and done (`JournalMatchesGoogle`), the order of the loops (`Barriers`), no second or lost document (`DocumentsAccounted`), no run that cannot go on (`NeverStuck`), links of a batch (`LinksInsideBatch`), sealed baselines, history, refinement of `ReviewSets` |
| `PublishChain` | Version 3, three targets in a chain of links, every selection, two operations, an edit of a source and one of a reviewer: no link to a replaced document |
| `PublishTargets` | Version 3 with sources edited between commands and a late create: recorded hash and active document belong together, and an operation interrupted before its save gets saved |
| `RecoverySafe` | Two operations, one fault, one loss, one scan of a state that is there, one removed orphan, one reviewer action: what is recovered is whole (`PublishedSetsComplete`), in order (`GenerationsOrdered`), complete (`ReconcileRecovers`), with its own baselines (`BaselinesTrusted`) |
| `PublishRecovers` | Version 2 with two faults, a loss and a scan: the printed command completes an interrupted operation |
| `RemapSafe` | Three sources, three documents, two faults, a loss, a deletion: state and Google agree when no remap is unfinished, generations stay together, and the remap completes when the command is repeated |
| `CommandsSafe` | The state store, the snapshot store, the reader, pull, setup, login and probe, one of them in each behaviour, with the interleavings and faults of each |
| `Algorithms` | The pure modules on 114,000 inputs |
| `SavedNeverEnds` | A finding: version 3 never ends an operation interrupted after its save |
| `OrphanNeeded` | A finding: an orphan can be the baseline an unfinished operation needs |
| `RemapLost` | A finding: a state file lost during a remap cannot be recovered |
| `DefaultTemplates` | A finding: the templates of default headers and footers are not checked |

Properties of one subject are conjunctions of named parts: `JournalMatchesGoogle` is
what the journal announces before a change and claims after it, `Barriers` are those of
ready status and move, `DocumentsAccounted` says that a target gets one document and none is
forgotten, `GenerationsOrdered` and `BaselinesTrusted` cover a recovered state,
`StateFilesKept` the journal and the old format. Their parts are defined next to them.

**Bounds.** Two targets are the least that makes barriers, partial batches and
link cycles possible; `PublishChain` has three, because a chain of two cannot tell
direct from indirect referrers, and no faults, because the closure is computed
between operations. One of the two is pulled from review, so that a batch mixes
both kinds of journal path. Three faults in `BatchFaults` let a run be
interrupted, its retry fail and its resumption be interrupted; `Attempts = 2` lets
a retry happen and be exhausted. Five document IDs
leave `BatchFaults` room for two whole operations and one repeated or late create; a
run that needs a sixth stops at its create, which `NeverStuck` excuses
(`OutOfDocuments`). Two operations are the least with a history, and in `StateStore`
the least in which an older journal or backup can stand in for a newer one. Two
losses of power let one hit what the recovery from the other has left unsynced.
Three sources are the least in which a rename can meet the key of an unrelated
document, and three files let a source have two generations while another one has
one. Versions of a source are only compared with each other, so both commands of
a run start from one version and an edit changes to the other.
`MaxOps`, `MaxFailures`, `MaxLate`, `MaxReviewer`, `MaxEdits`, `MaxLosses`,
`MaxScans`, `MaxRemovals`, `MaxSaves`, `MaxOutages`, `MaxDamages`, `MaxFiles` and
`MaxDeletions` bound what users and the environment do, never what the code does.

In `CommandsSafe`, two generations and two texts let a snapshot be taken for another
one, and four faults let an earlier one come back under a reference; `MaxChanges = 3` lets a document change in each gap of a read that is tried twice;
`MaxMoves = 3` lets three things change between the checks of a pull; four folders, two of them
there before, let every role be found, adopted, made twice or late; two
commands and two logins let a login come between a load and a save; two edits
of the note let the owner change it before and after the reading that the probe
compares. `MaxSnapFaults`, `MaxSnapDamages`, `MaxSetupFaults`, `MaxFolderChanges`, `MaxLogins`,
`MaxTokens`, `MaxAuthFaults` and `MaxNoteEdits` bound faults and people likewise.
In `Algorithms`, three blocks are the least with a middle, two members the
least with a boundary, two profiles and three layers the least in which one can take
from another, three nodes let a template nest a condition in a range.

**Symmetry.** Document IDs are only compared for equality, so the safety runs
use them as a symmetry set; the liveness runs do not.

**Deadlock.** `CHECK_DEADLOCK FALSE` everywhere: when all operations are done
and the faults used up, nothing is left to do. `NeverStuck` says instead that a
running command always has a step.

**Fairness.** Weak, and of two kinds. A process that runs goes on until it ends
(`RunStep`, `RunRecovery`, `RemapStep`). `CommandsSafe` and `Algorithms` check safety
only and assume none. The user keeps giving the command that
the code prints for an unfinished operation or remap (`Publish(...)`,
`PublishReady(...)`, `ResumeRemap`; `README.md:466`) and reconciles a state file
that cannot be read (`README.md:468`). Nothing is assumed of Google beyond the
bound on its failures. The properties excuse what rightly makes a command refuse:
a reviewer's interference, a late create, sources that were edited, a document
that is gone. In `RemapLost` the same fairness holds and the command still never
succeeds.

## Findings

* **Version 3 never ends a saved operation** (`SavedNeverEnds`). After a crash
  between `Store.Save` and `Store.ClearJournal` the request carries the URLs
  active now (`app/publish_publications.go:120`), and `publish.go:652` compares
  them with those frozen before the save. Every further command has nothing to
  publish or is refused, until the operation is abandoned. The plan that
  `publishExplicit` makes before it looks at the journal
  (`app/publish_publications.go:176`) has a like effect earlier: an interrupted
  `publish --new-review` of unchanged sources is resumed by a printed command
  without `--new-review` (`app/publish_command.go:333`), which reports that there
  is nothing to publish; `InterruptedPublishIsSaved` therefore lets the user repeat
  the original command, too. `README.md:464`: "An interrupted publish resumes from
  its local operation journal before it creates a new plan"; `README.md:466`: "A
  partial failure prints the safe resume command".
* **An orphan can still be needed** (`OrphanNeeded`). `SnapshotStore.Orphans`
  asks only the state file (`reviewsync/snapshot.go:319`), and the captured
  baseline of an unfinished operation is known to its journal alone. Once it is
  removed, the operation stops at `app/publish.go:516` each time it is resumed.
  `README.md:460`: "Remove an orphan manually only after checking that no active
  or prior target needs it."
* **A lost state file and an unfinished remap wait for each other**
  (`RemapLost`). `state remap` fails with "run `mdoc state reconcile`"
  (`app/state_commands.go:248`, `state/store.go:92`); `state reconcile` is refused
  until the remap is resumed (`app/state_commands.go:37`). Setup and publish are
  refused as well, and `--abandon-operation` clears only the publish journal.
* **Default headers and footers are not checked** (`DefaultTemplates`). The list of
  `validatePublicationTemplates` (`app/field_resolution.go:50`) has the flat
  templates and those of a first page, not those of `header.default` and
  `footer.default` (`README.md:216`), which the renderer takes instead
  (`render/headers.go:300`, `:137`). `app/application_test.go:443` says what the
  validation is for: "RejectsMissingAndMisplacedPageFields".

## Proofs

`BatchPublisherProofs` proves, for all targets, documents, links and bounds that
satisfy `ConstantsOK`:

* `InvariantHolds`: `Spec => []IInv`, where `IInv` is `TypeInv /\ SavedWhole`.
  `TypeInv` adds to `TypeOK` that generations lie within the operations started
  (the snapshot store is a function on `1..MaxOps`, so types alone are not
  inductive: `CaptureWrite` updates it at the generation of the journal), that a
  run has a journal, and that an entry past `Creating` has recorded a file.
  `SavedWhole` says that the unfinished operation is in the state file with all of
  its items or not at all, that it is not saved before every item has come to
  `Committing`, and that the generation the journal holds is the next one of the
  active target until the save.
* `TypeCorrect`: `Spec => []TypeOK`.
* `StagesOnlyAdvanceHolds`: no journal entry goes back, and only a finished
  operation that is in the state file is cleared.
* `PublisherImplementsReviewSets`: `Spec => Sets!Spec`. `Start`, the first
  `CommitSave` and `CommitClear` are `Begin`, `Publish` and `End`; every other
  step, a repeated `CommitSave` included, is a stutter.

Each step of the invariant is one action. Most actions leave what the invariant
speaks of alone; lemmas on quiet steps say so once, and the proof of an action
shows only what it disturbs.

The safety properties of the publisher need much more than their own statements:
whether a recorded stage is true depends on where the run is, on what else was
recorded, and on which documents anyone can still change. The invariant has four
layers, each inductive relative to those before it:

* `BatchPublisherProofs`, `DocsInvHolds`: `Spec => [](Position /\ DocsInv)`.
  `Position` says what lies behind a run: all items have been through the loops
  before the present one, those no longer in `todo` through this one
  (`LoopsDone`); an entry is in a loop only when all entries are through the ones
  before, in this run or an earlier one (`EntriesTogether`); the item at hand has
  its write-ahead stage (`ItemAnnounced`). `DocsInv` says what the documents of
  the operation are at that point. Its proof rests on `Evolves`: whatever the
  publisher, a late create or a reviewer does, a document keeps its identity, gains
  only what was announced, and its links are only removed or set to the batch's
  documents. From it follow `JournalMatchesGoogleHolds`, `BarriersHold` and
  `LinksInsideBatchHolds`.
* `PublisherStateProofs`, `StoreInvHolds`: `Spec => [](StoreInv /\ RecordsTrue)`.
  The snapshots of the operation are of the documents in the journal
  (`SnapshotsTrue`), a repeated save would write what is there (`SavedForGood`), the
  records of a target belong to growing operations and generations
  (`RecordsOrdered`), and each names a document that is as it was published
  (`RecordsTrue`). From it `SealedBaselineHolds`, `HistoryOrderedHolds`,
  `PublishedSetsCompleteHolds` and `HistoryKeptHolds`.
* `CountsHold`, in the same module: entries are created in order, so at most one
  document at a time is on its way, and those that neither the state file nor the
  journal names number at most one more than the late creates, none more while a
  create is about to be issued. From it `DocumentsAccountedHolds`.

`PublishCommandProofs` first shows `CommandImplementsPublisher`: `SpecCommand => Spec`,
a command only chooses among the steps of the publisher, so all of the above holds
of it. `CommandInv` adds that the running command has rendered the inputs whose
hashes the journal holds (`LoadedAsFrozen`), that every document of the operation
was made of them, by whichever command (`BuiltAsFrozen`), and that no target outside
the batch links into it (`BatchClosed`, from `ClosureClosed`). Then
`HashOfActiveDocumentHolds` and `ActiveLinksCurrentHolds`: a save moves the active
documents of the whole batch, so a link from outside cannot be left behind, and
inside the batch `DocsInv` says where the links lead.

`RecoveryProofs` proves all safety properties of `StateRecovery`, under
`SpecAnyOrphan`, the specification of the run `RecoverySafe`: of any commands that
publish, reconcile, abandon an operation or remove orphan snapshots, killed
anywhere, while the state file is lost and reviewers change documents. Here
`SavedWhole` and `StoreInv` do not hold any more: a state file can be lost after the
save, and a snapshot removed before it. `Position`, `DocsInv` and `RecordsTrue` do,
and `RecoveryInvHolds` adds four layers to them, each inductive relative to those
before it:

* `MadeInv`: what each document was made as. Its key and generation are those of
  an item of its operation, only one that the journal names gets ready or into the
  review folder (`DocumentsMade`), and the documents of an operation agree on the
  size of its review set (`SizesTrue`).
* `RecordsInv`: which sets are recorded. The lemmas `CompleteIsWhole` and
  `WholeIsComplete` are its centre: a set that a scan finds complete is whole, and
  once its journal has ended a set does not become whole any more. So every
  document that a reconcile would find of an ended operation is recorded
  (`WholeInState`), the history is sorted by generation (`HistorySorted`), and the
  unfinished operation is newer than all recorded ones (`JournalNewer`) and
  recorded with all its items or with none (`AllOrNone`).
* `SnapshotsInv`: the baseline of a record is what a reconcile would take for it
  (`BaselineExact`), because no operation writes at a generation that another one
  recorded, and a run saves only snapshots that it has found sealed
  (`SealedInRun`), although a user removes orphans between two runs.
* `CountInv`: documents that are live and not recorded when an operation has been
  abandoned are at most the late creates (`StrayedBounded`); as long as nothing is
  in the trash, a recorded set stays whole (`RecordedWhole`) and a generation of a
  target has one document but for late creates (`CreationsBounded`).

Then `RecoveredSetsComplete`, `BaselinesTrustedHolds`, `GenerationsOrderedHolds`,
`ReconcileRecoversHolds` and `AbandonLosesNothingHolds`. The state that a reconcile
builds lists a set of documents in the order of their generations, stated with
`CHOOSE`; `SortedExists` and `SortedCovers` show that there is such a sequence and
that it lists all of them. The only assumption added for the proofs is that there
are finitely many targets (`RecoveryConstantsOK`), since the code compares a
count of documents with the size of the review set (`state/reconcile.go`).

`RemapProofs` proves `MappingMatchesGoogleHolds` and `GenerationsTogetherHolds` for
any sources and documents. Neither is inductive: what counts is the time when the
remap journal is there. `RemapInv` says that its documents are those with the old
or the new key in Google, that the state file has all of them under one of the two,
and that those the loop has passed have the new one.

`LocalFilesProofs` proves `StateFilesKeptHolds`, `SavesReplaceTheLatestHolds`,
`SnapshotsKeptHolds` and `LoadedBaselineHolds` for any number of commands,
operations, kills and losses of power. Its invariants `StoreInv` and `SnapInv` relate
every content one name can show after a loss of power to every content of another,
since each rename is undone independently, and say at each step of a write what
the command may rely on.

`SideCommandsProofs` proves, for any number of attempts and of changes,
`ReadAtOneMomentHolds`: `ReaderSpec => []ReadAtOneMoment`. The property speaks of
a finished read alone, so it is not inductive. `ReaderInv` adds what the answers
of a read under way are (`ReadUnderWay`): states the document was in, each no
later than the next and than the document now, each accepted by its request, and
`Unchanged` once the attempt was judged. Versions tell states apart and only
grow, so two answers of Drive of one version are one state, and so is every
answer between them (`OneState`); the stable read's last answer of Docs, which
comes after the last one of Drive, is tied to them by its revision
(`ResultOfOneMoment`). The proof does not use `ReaderConstantsOK`.

`SideCommandsProofs` also proves the safety properties of the other commands beside
publish, for any number of commands, folders, faults and changes. Each property
speaks of one moment of a command, and its invariant says what is true on the way:

* `GrantKeptHolds`: `AuthInv` adds that a token about to be saved is of a login, or a
  refreshed one of the grant the user is signed in with, or was overtaken by a login
  or a logout (`HeldToken`).
* `ProbeLeavesNothingHolds`: `ProbeInv` adds what a script that goes on has behind it,
  place by place (`ScriptDone`), that without an answer at the root folder the request
  for it has failed (`RootAsked`), and that the cleanup is the last thing a probe does
  (`CleanupLast`).
* `StatusCoversPullHolds` holds in any surroundings (`StatusCovers`): the checks of
  pull are gone through one by one, in both directions, so `NotInStatus` is neither
  too wide nor too narrow. `PatchFromReviewHolds` needs that a review that
  was read was fit when it was read (`ReadFromReview`) and that a patch about to be
  written leaves no edit out, if it is not partial (`PatchOfAllEdits`).
* `OneFolderPerRoleHolds` and `DestinationKeptHolds`: `SetupInv` says that the folders
  of a role that the program made are at most one and the late ones (`OwnCounted`),
  that after a look that found none there are only late ones (`SeenNone`), that only
  what others made is adopted (`AdoptsOthers`), that decisions are for the saved
  folders (`PairOfSaved`), and that what a publish was given is saved
  (`AcceptedSaved`).

Proving changed the model where it was wrong or too narrow. `LoadedBaseline` was
not provable, because it was false beyond the bound of faults that was checked: the
model of a reader had left out its last comparison (see SnapshotStore). The reader's
answer is now a choice in the order of the code, and the inbound closure is stated as
a least set. Checks that the code makes in an order were written with `CASE`, whose
guards are in no order: TLC takes the first that holds, a proof may take any. Where
the guards overlap they are `IF` chains now (`ReviewPull`, `Setup`, `Books`,
`Documents`, `Fields`, `ReviewMerge`). The assumptions on the constants are those the
modules declare.

`PublisherStateProofs` also proves `RunGoesOn`: `Spec => [](pc # "idle" => GoesOn)`. A
run finds its next item or the end of its loop, the stage that it writes next is one
that `ValidateTransition` accepts (`JournalAccepts`), and a snapshot that is there
already is the one it would write (`SnapshotAgrees`), for any batch and any history of
crashes. That is what `NeverStuck` says of the data; the other half of it, that the
action is then `ENABLED`, is left to TLC.

`AnswersProofs` proves what is configured and selected, for any number of files, links,
profiles, roots and publications. The invariants only say that an answer is that of its
input; the work is in the lemmas about the operators.

* `SettingsResolved`: `ConfigSpec => []SettingsAgree`. A merged setting is that of the
  last layer that gives it (`LastLayer`: the greatest of a set of numbers, by the well
  foundedness of `Nat`). The reading for the encoding has five layers and the settings
  have seven; the other two cannot give a format, by the keys of a profile
  (`ProjectAgrees`, `DirectAgrees`). The state file of a profile that another command
  resolves is the one the check of this command finds in the files (`StateSettled`,
  `StatesApart`), and the check compares the keys of all.
* `SourcesFound`: `DocumentsSpec => []DocumentsFound`. Two documents of an accepted
  selection are two files under two keys; a path leads to a file and the file to its
  document, under whatever link.
* `PublicationsWhole`: `DocumentsSpec => []PublicationsComplete`. Without an issue every
  member is new (`NewMembers` is all of them), so the nth document is that of the nth
  member.

The operators that these proofs need are written without recursion: the members of a
publication by their number (`NthOf`), a merge as a function of its keys (`Merge`).

Model-checked only: the liveness properties and the `ENABLED` in `NeverStuck`
(fairness and `ENABLED` are out of the prover's reach), and of the pure modules
`ReviewApplied`, `MergeKeepsBothSides`, `FieldsByPriority`, `TemplatesValidated` and
`LinksLand`: alignment, merge, fields, templates and the assembly of a bundle recurse
over sequences and trees, and what they compute needs induction over data. Every other property of a passing run is a theorem.
`TypeCorrect` and `HistoryOrderedHolds` are proved and no property of a run of the
publisher: other properties would fail first.

## Not modelled, and why

* **Rendering** makes one DOCX file of one document through Pandoc and the parts
  of its archive: a function of its input without state, whose correctness is one
  of layout. One order is worth knowing: the type of a section is applied to the
  properties of the section before it (`render/layout.go:155`; `README.md:207`).
* **Command line and reports**: arguments, wording, exit codes, dry runs.
* **Open** prints or opens a URL and changes nothing.
* In modelled components: the fields that a migration of the state fills in;
  syntax of metadata and accounts in a reconcile; how a request for links is put
  together from the paragraphs of a document; the normalisation of a working
  draft's text; PKCE and the pages of the browser; styles and page layout of the
  configuration; the hash of a publication; what is named under each module above.
* A document without review pull that is trashed while its batch is published
  becomes active (`app/publish.go:301`); the code has no check that a property
  could be about.

## Plan

1. *Done*: the publisher and its commands, recovery, remap, the stores, the
   commands beside publish, the pure algorithms, the proofs of the publisher's
   invariant and refinement and of the stable read.
2. *Done*: the safety properties of the publisher and its command, of the remap, of
   the local files, of recovery, of the commands beside publish, of the
   configuration, the sources and the publications, proved for instances of any size.
3. Refinement: the capture and seal of `BatchPublisher` by `SnapshotStore`, and
   its journal writes by `StateStore`.
4. The fields that migrations fill in (`state/store.go`), and a request for links
   against a document with several runs of text (`googleapi/links.go`).
