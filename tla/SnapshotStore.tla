---------------------------- MODULE SnapshotStore ----------------------------
(***************************************************************************)
(* The review snapshots of one target on disk: SnapshotStore in            *)
(* internal/reviewsync/snapshot.go.  A generation is a directory with a    *)
(* baseline, the sources and a manifest.  WriteCandidate makes it under    *)
(* another name and renames it; Seal replaces its manifest; Load, which    *)
(* status and pull run without the lock, reads the manifest and then the   *)
(* other files and compares their hashes.                                  *)
(*                                                                         *)
(* The publisher, which holds the lock, is the only writer.  It can be     *)
(* killed at every step, and the machine can lose its power: a rename that *)
(* no sync of its directory follows can then be undone.                    *)
(***************************************************************************)
EXTENDS Integers, FiniteSets

CONSTANTS
    Generations,    \* generations of the target
    Texts,          \* texts that a read of the document can return
    NoSnapshot,     \* no directory, no answer
    BadFile,        \* a file that is not what somebody wrote
    MaxSnapFaults,  \* bound: killed commands and losses of power
    MaxSnapDamages  \* bound: files somebody damages

ASSUME SnapshotConstantsOK ==
    /\ Generations \subseteq Nat \ {0} /\ {NoSnapshot, BadFile} \cap Texts = {}
    /\ {MaxSnapFaults, MaxSnapDamages} \subseteq Nat

\* A manifest with its integrity hash: the text whose hashes it holds and the
\* activation, which is there when it is sealed.
Manifests == [text : Texts, status : {"candidate", "sealed"}]

\* A generation directory: its manifest and what the other files hold, which
\* is Torn when they are not what somebody wrote.
Directories == [manifest : Manifests \cup {BadFile}, files : Texts \cup {BadFile}]

ASSUME NoFilesOK ==
    /\ NoSnapshot # BadFile
    /\ {NoSnapshot, BadFile} \cap (Manifests \cup Directories) = {}

VARIABLES
    target,      \* what the directory of the target shows: {"there"} or {}
    targetDisk,  \* what it can be after a loss of power
    gens,        \* what each generation shows
    gensDisk,    \* what it can be after a loss of power
    step,        \* the step of the publisher
    gen, made,   \* its generation, and the text it has read for it
    temps,       \* temporary directories that were left behind
    returned,    \* the manifests whose write has returned with the sync of every
                 \* rename, since the directory of the target was last lost
    referenced,  \* the manifests the saved state refers to
    reader,      \* a pull or status: its generation, and the manifest it has
                 \* read after the one the state refers to
    answer,      \* what it was then told of that generation
    snapFaults, snapDamages

dirVars == <<target, targetDisk, gens, gensDisk, temps>>
publisherVars == <<step, gen, made, returned, referenced>>
readerVars == <<reader, answer>>
snapCounts == <<snapFaults, snapDamages>>
snapVars == <<dirVars, publisherVars, readerVars, snapCounts>>

IdleReader == [step |-> "idle", gen |-> 1, reference |-> NoSnapshot,
               manifest |-> NoSnapshot]

SnapInit ==
    /\ target = {} /\ targetDisk = {{}}
    /\ gens = [g \in Generations |-> NoSnapshot]
    /\ gensDisk = [g \in Generations |-> {NoSnapshot}]
    /\ temps = 0 /\ step = "idle" /\ gen = 1 /\ made = NoSnapshot
    /\ returned = [g \in Generations |-> NoSnapshot]
    /\ referenced = [g \in Generations |-> NoSnapshot]
    /\ reader = IdleReader /\ answer = NoSnapshot
    /\ snapFaults = 0 /\ snapDamages = 0

-----------------------------------------------------------------------------
(* Load *)

\* readManifestFile with validateManifest, whose integrity hash tells every
\* damage; and the hashes of the baseline and of each source.
Verified(manifest, files) == manifest \in Manifests /\ files = manifest.text

\* The answer of Load for a manifest and the files that were read after it.
LoadAnswer(manifest, files, sealedOnly) ==
    IF manifest = NoSnapshot THEN [error |-> "not found"]
    ELSE IF manifest = BadFile THEN [error |-> "damaged"]
    ELSE IF sealedOnly /\ manifest.status # "sealed" THEN [error |-> "unsealed"]
    ELSE IF ~Verified(manifest, files) THEN [error |-> "damaged"]
    ELSE [error |-> "none", text |-> files, status |-> manifest.status]

ManifestOf(g) == IF gens[g] = NoSnapshot THEN NoSnapshot ELSE gens[g].manifest
FilesOf(g) == IF gens[g] = NoSnapshot THEN BadFile ELSE gens[g].files

\* The publisher holds the lock: nobody writes between its two reads.
Loaded(g) == LoadAnswer(ManifestOf(g), FilesOf(g), FALSE)

\* The state, read before, has a baseline; it is loaded sealed.
StartLoad(g) ==
    /\ reader.step = "idle" /\ referenced[g] # NoSnapshot
    /\ reader' = [step |-> "files", gen |-> g, reference |-> referenced[g],
                  manifest |-> ManifestOf(g)]
    /\ answer' = NoSnapshot
    /\ UNCHANGED <<dirVars, publisherVars, snapCounts>>

\* Mutation of SameAsReferred: the sealed manifest is taken whatever it is.
SameAsReferred_Any(manifest, reference) == TRUE

\* validateSnapshotReference compares the manifest with the reference.
SameAsReferred(manifest, reference) == manifest = reference

Baseline(loaded) ==
    IF loaded.error = "none" /\ ~SameAsReferred(reader.manifest, reader.reference)
    THEN [error |-> "not the active one"] ELSE loaded

FinishLoad ==
    /\ reader.step = "files" /\ reader' = IdleReader
    /\ answer' = [gen |-> reader.gen,
                  loaded |-> Baseline(LoadAnswer(reader.manifest, FilesOf(reader.gen), TRUE))]
    /\ UNCHANGED <<dirVars, publisherVars, snapCounts>>

-----------------------------------------------------------------------------
(* WriteCandidate *)

GotoStep(label) == step' = label /\ UNCHANGED <<gen, made, returned, referenced>>

\* captureReviewSnapshot takes the snapshot that is there and, when there is
\* none, reads the document.  A damaged one ends the command.
Capture(g, text) ==
    /\ step = "idle" /\ gen' = g
    /\ referenced[g] = NoSnapshot /\ \A h \in Generations : h < g => referenced[h] # NoSnapshot
    /\ \/ /\ Loaded(g).error = "none" /\ step' = "captured" /\ made' = NoSnapshot
       \/ /\ Loaded(g).error = "not found" /\ step' = "parents" /\ made' = text
    /\ UNCHANGED <<dirVars, returned, referenced, readerVars, snapCounts>>

\* ensurePrivateSnapshotDir makes the root and the directory of the target.
MakeParents ==
    /\ step = "parents" /\ GotoStep("write")
    /\ target' = {"there"} /\ targetDisk' = targetDisk \cup {{"there"}}
    /\ UNCHANGED <<gens, gensDisk, temps, readerVars, snapCounts>>

\* The temporary directory with its files, written and synced.
WriteFiles ==
    /\ step = "write" /\ GotoStep("rename") /\ temps' = temps + 1
    /\ UNCHANGED <<target, targetDisk, gens, gensDisk, readerVars, snapCounts>>

\* Mutation of RenamedOnDisk: the files are not synced before the rename.
RenamedOnDisk_Torn(g, directory) ==
    gensDisk[g] \cup {directory, [directory EXCEPT !.files = BadFile]}

RenamedOnDisk(g, directory) == gensDisk[g] \cup {directory}

Show(g, directory) ==
    /\ gens' = [gens EXCEPT ![g] = directory]
    /\ gensDisk' = [gensDisk EXCEPT ![g] = RenamedOnDisk(g, directory)]

RenameCandidate ==
    /\ step = "rename" /\ GotoStep("sync") /\ temps' = temps - 1
    /\ Show(gen, [manifest |-> [text |-> made, status |-> "candidate"], files |-> made])
    /\ UNCHANGED <<target, targetDisk, readerVars, snapCounts>>

\* The sync of the directory of the target; the root is never synced.
SyncedEntry ==
    [gensDisk EXCEPT ![gen] =
        {d \in @ : d # NoSnapshot /\ d.manifest = gens[gen].manifest}]

\* WriteCandidate returns the manifest, and the journal records its hash.
SyncCandidate ==
    /\ step = "sync" /\ step' = "captured" /\ gensDisk' = SyncedEntry
    /\ returned' = [returned EXCEPT ![gen] = gens[gen].manifest]
    /\ UNCHANGED <<target, targetDisk, gens, temps, gen, made, referenced, readerVars,
                   snapCounts>>

-----------------------------------------------------------------------------
(* Seal *)

\* Seal loads the candidate; one that is sealed with the same activation is
\* returned as it is, and the caller does not seal with another one.
SealLoad ==
    /\ step = "captured"
    /\ LET loaded == Loaded(gen) IN
       CASE loaded.error # "none" -> GotoStep("idle")
         [] loaded.error = "none" /\ loaded.status = "sealed" -> GotoStep("sealed")
         [] OTHER -> GotoStep("manifest")
    /\ UNCHANGED <<dirVars, readerVars, snapCounts>>

\* atomicSnapshotWrite of the manifest.
SealRename ==
    /\ step = "manifest" /\ GotoStep("syncManifest")
    /\ Show(gen, [gens[gen] EXCEPT !.manifest.status = "sealed"])
    /\ UNCHANGED <<target, targetDisk, temps, readerVars, snapCounts>>

\* The sync of the generation, not of the directory that holds it.
SealSync ==
    /\ step = "syncManifest" /\ step' = "sealed"
    /\ gensDisk' = [gensDisk EXCEPT ![gen] = (@ \cap {NoSnapshot}) \cup {gens[gen]}]
    /\ returned' = [returned EXCEPT ![gen] =
                        IF @ = NoSnapshot THEN @ ELSE gens[gen].manifest]
    /\ UNCHANGED <<target, targetDisk, gens, temps, gen, made, referenced, readerVars,
                   snapCounts>>

\* The state is saved with a reference to the sealed manifest.
SaveReference ==
    /\ step = "sealed" /\ step' = "idle" /\ made' = NoSnapshot
    /\ referenced' = [referenced EXCEPT ![gen] = gens[gen].manifest]
    /\ UNCHANGED <<dirVars, gen, returned, readerVars, snapCounts>>

-----------------------------------------------------------------------------
(* Orphans, and what goes wrong *)

\* A generation the state does not refer to, or with another hash, or with a
\* manifest that cannot be read.  Temporary directories are orphans too.
OrphanGenerations ==
    {g \in Generations : gens[g] # NoSnapshot /\ gens[g].manifest # referenced[g]}

\* With no operation under way, the user removes the orphans that status
\* lists.
RemoveOrphans ==
    /\ step = "idle" /\ (temps > 0 \/ OrphanGenerations # {}) /\ temps' = 0
    /\ gens' = [g \in Generations |-> IF g \in OrphanGenerations THEN NoSnapshot ELSE gens[g]]
    /\ gensDisk' = [g \in Generations |->
                     IF g \in OrphanGenerations THEN gensDisk[g] \cup {NoSnapshot}
                     ELSE gensDisk[g]]
    /\ returned' = [g \in Generations |->
                     IF g \in OrphanGenerations THEN NoSnapshot ELSE returned[g]]
    /\ UNCHANGED <<target, targetDisk, step, gen, made, referenced, readerVars, snapCounts>>

\* A killed command leaves its temporary directory; an error removes it.
KillPublisher ==
    /\ step # "idle" /\ step' = "idle" /\ made' = NoSnapshot
    /\ temps' \in IF step = "rename" THEN {temps - 1, temps} ELSE {temps}
    /\ snapFaults < MaxSnapFaults /\ snapFaults' = snapFaults + 1
    /\ UNCHANGED <<target, targetDisk, gens, gensDisk, gen, returned, referenced,
                   readerVars, snapDamages>>

\* Without the directory of the target its generations are gone as well.
LoseSnapshotPower ==
    /\ snapFaults < MaxSnapFaults /\ snapFaults' = snapFaults + 1
    /\ target' \in targetDisk /\ targetDisk' = {target'}
    /\ LET kept(g) == IF target' = {} THEN {NoSnapshot} ELSE gensDisk[g] IN
       gens' \in {f \in [Generations -> UNION {kept(g) : g \in Generations}] :
                     \A g \in Generations : f[g] \in kept(g)}
    /\ gensDisk' = [g \in Generations |-> {gens'[g]}]
    /\ returned' = IF target' = target THEN returned
                   ELSE [g \in Generations |-> NoSnapshot]
    /\ temps' \in IF target' = {} THEN {0} ELSE 0..temps
    /\ step' = "idle" /\ made' = NoSnapshot /\ reader' = IdleReader
    /\ UNCHANGED <<gen, referenced, answer, snapDamages>>

\* Somebody changes the files or the manifest of a generation.
DamageSnapshot(g) ==
    /\ snapDamages < MaxSnapDamages /\ snapDamages' = snapDamages + 1
    /\ step = "idle" /\ gens[g] # NoSnapshot /\ gensDisk[g] = {gens[g]}
    /\ gens' \in {[gens EXCEPT ![g].files = BadFile], [gens EXCEPT ![g].manifest = BadFile]}
    /\ gensDisk' = [gensDisk EXCEPT ![g] = {gens'[g]}]
    /\ UNCHANGED <<target, targetDisk, temps, publisherVars, readerVars, snapFaults>>

SnapNext ==
    \/ \E g \in Generations : StartLoad(g)
    \/ FinishLoad
    \/ \E g \in Generations, text \in Texts : Capture(g, text)
    \/ MakeParents \/ WriteFiles \/ RenameCandidate \/ SyncCandidate
    \/ SealLoad \/ SealRename \/ SealSync \/ SaveReference
    \/ RemoveOrphans \/ KillPublisher \/ LoseSnapshotPower
    \/ \E g \in Generations : DamageSnapshot(g)

SnapSpec == SnapInit /\ [][SnapNext]_snapVars
-----------------------------------------------------------------------------
(* Properties *)

\* A generation is on disk whole or not at all, and what WriteCandidate and
\* Seal returned after their sync stays, candidate or sealed: no killed command,
\* repeated capture or seal, removal of orphans, or loss of power that leaves
\* the directory of the target takes it back (snapshot.go:149, 215).
SnapshotsKept ==
    snapDamages = 0 =>
    \A g \in Generations :
        /\ \A d \in gensDisk[g] \ {NoSnapshot} :
              /\ d.files = d.manifest.text
              /\ returned[g] # NoSnapshot =>
                    /\ d.manifest.text = returned[g].text
                    /\ returned[g].status = "sealed" => d.manifest.status = "sealed"
        /\ returned[g] # NoSnapshot => NoSnapshot \notin gensDisk[g]

\* A pull or status loads a baseline without the lock, while it is damaged, and
\* after a loss of power that brought back an earlier snapshot of the generation.
\* It never works with another text than that of the snapshot the state refers to
\* (Load, snapshot.go:257; validateSnapshotReference, review_pull.go:373).
LoadedBaseline ==
    [][answer' # answer /\ answer' # NoSnapshot /\ answer'.loaded.error = "none" =>
          /\ answer'.loaded.text \in Texts
          /\ answer'.loaded.text = referenced[answer'.gen].text]_snapVars
=============================================================================
