----------------------------- MODULE StateStore -----------------------------
(***************************************************************************)
(* The files of one workspace and profile: the state file, its backups and *)
(* the operation journal, written by Store in internal/state/store.go      *)
(* under a lock, through atomicWrite, by commands that can run at the same *)
(* time and be killed, on a machine that can lose its power.               *)
(*                                                                         *)
(* A command that publishes writes its journal, saves the state and        *)
(* removes the journal; setup, remap and reconcile only save.  A content   *)
(* of the state file is told by its format, by whether decode accepts it   *)
(* and by the last operation it records.                                   *)
(*                                                                         *)
(* A rename, or a removal, that is not followed by a sync of its directory *)
(* can be undone by a loss of power, each one independently.                *)
(***************************************************************************)
EXTENDS Integers, FiniteSets

CONSTANTS
    Commands,       \* commands that run at the same time
    Absent,         \* no file
    MaxOps,         \* bound: publish operations
    MaxSaves,       \* bound: saves by setup, remap and reconcile
    MaxFailures,    \* bound: failed file operations and killed commands
    MaxOutages,     \* bound: losses of power
    MaxDamages      \* bound: damages and rollbacks of the state file

ASSUME StoreConstantsOK ==
    {MaxOps, MaxSaves, MaxFailures, MaxOutages, MaxDamages} \subseteq Nat

CurrentVersion == 5
OldVersion == 3

Names == {"state", "bak", "pre-v4", "journal"}
States == [version : {OldVersion, CurrentVersion}, valid : BOOLEAN, op : 0..MaxOps]
Journals == [op : 1..MaxOps]
ASSUME AbsentIsNoFile == Absent \notin States \cup Journals
Valid(content) == content \in States /\ content.valid
Old(content) == content \in States /\ content.version < 4

VARIABLES
    first,      \* the state file mdoc found at its first command
    dir,        \* what each name shows
    disk,       \* what each name can show after a loss of power
    lock,       \* the commands that hold the lock
    pc, file,   \* the step each command is at, and the file it writes
    work,       \* whether it publishes
    loaded,     \* the state it has loaded
    ops, acked, \* operations started, and with a journal known to be written
    saves, failures, outages, damages   \* counters

fileVars == <<dir, disk>>
runVars == <<lock, pc, file, work, loaded>>
countVars == <<saves, failures, outages, damages>>
vars == <<first, fileVars, runVars, ops, acked, countVars>>

\* A workspace that was never published, or published by an older mdoc.
Init ==
    /\ first \in {Absent} \cup {s \in States : s.op = 0}
    /\ dir = [n \in Names |-> IF n = "state" THEN first ELSE Absent]
    /\ disk = [n \in Names |-> {dir[n]}]
    /\ lock = {} /\ pc = [c \in Commands |-> "free"]
    /\ file = [c \in Commands |-> "state"] /\ work = [c \in Commands |-> "none"]
    /\ loaded = [c \in Commands |-> Absent]
    /\ ops = 0 /\ acked = 0
    /\ saves = 0 /\ failures = 0 /\ outages = 0 /\ damages = 0

At(c, label) == pc[c] = label
Goto(c, label, name) ==
    pc' = [pc EXCEPT ![c] = label] /\ file' = [file EXCEPT ![c] = name]

-----------------------------------------------------------------------------
(* The lock and the start of a command *)

\* flock with LOCK_EX and LOCK_NB
Free == lock = {}

Acquire(c) ==
    /\ At(c, "free") /\ Free
    /\ lock' = lock \cup {c} /\ Goto(c, "load", "state")
    /\ UNCHANGED <<first, fileVars, work, loaded, ops, acked, countVars>>

Load(c, kind) ==
    /\ At(c, "load")
    /\ loaded' = [loaded EXCEPT ![c] = dir["state"]]
    /\ work' = [work EXCEPT ![c] = kind]
    /\ UNCHANGED <<first, fileVars, lock, acked>>

\* A publish needs a valid state.  It writes the journal of a new operation,
\* or goes on with the operation of the journal that is there.
LoadForPublish(c) ==
    /\ Load(c, "publish") /\ Valid(dir["state"])
    /\ IF dir["journal"] = Absent
       THEN ops < MaxOps /\ ops' = ops + 1 /\ Goto(c, "write", "journal")
       ELSE UNCHANGED ops /\ Goto(c, "save", "state")
    /\ UNCHANGED countVars

\* Setup, remap and reconcile end with a save; reconcile needs no valid state.
LoadForSave(c) ==
    /\ Load(c, "other")
    /\ saves < MaxSaves /\ saves' = saves + 1
    /\ Goto(c, "save", "state")
    /\ UNCHANGED <<ops, failures, outages, damages>>

End(c) ==
    /\ Goto(c, "free", "state") /\ lock' = lock \ {c}
    /\ work' = [work EXCEPT ![c] = "none"] /\ loaded' = [loaded EXCEPT ![c] = Absent]

-----------------------------------------------------------------------------
(* Save and atomicWrite *)

\* Mutation of NextBackup: an existing backup is kept.
NextBackup_Once == IF Valid(dir["state"]) /\ dir["bak"] = Absent THEN "bak" ELSE "state"

\* A valid state is backed up before it is replaced.
NextBackup == IF Valid(dir["state"]) THEN "bak" ELSE "state"

\* One of an old format also goes to the backup of that format, the first time.
FirstBackup ==
    IF Old(dir["state"]) /\ dir["pre-v4"] = Absent THEN "pre-v4" ELSE NextBackup

Save(c) ==
    /\ At(c, "save") /\ Goto(c, "write", FirstBackup)
    /\ UNCHANGED <<first, fileVars, lock, work, loaded, ops, acked, countVars>>

\* The operation the loaded state records.
LastOp(c) == IF loaded[c] \in States THEN loaded[c].op ELSE 0

\* A publish records its operation; a scan finds the loaded operation, or the
\* unfinished one when all its documents are there.
NewStates(c) ==
    {s \in States :
        /\ s.version = CurrentVersion /\ s.valid
        /\ IF work[c] = "publish" THEN s.op = dir["journal"].op
           ELSE LastOp(c) <= s.op /\ s.op <= acked}

Written(c) ==
    CASE file[c] = "journal" -> {[op |-> ops]}
      [] file[c] = "state" -> NewStates(c)
      [] OTHER -> {dir["state"]}

\* The temporary file is created, written, synced and closed.
WriteTemporary(c) ==
    /\ At(c, "write") /\ Goto(c, "rename", file[c])
    /\ UNCHANGED <<first, fileVars, lock, work, loaded, ops, acked, countVars>>

OnDisk(name, content) == [disk EXCEPT ![name] = @ \cup {content}]

Rename(c) ==
    /\ At(c, "rename") /\ Goto(c, "sync", file[c])
    /\ \E content \in Written(c) :
          /\ dir' = [dir EXCEPT ![file[c]] = content]
          /\ disk' = OnDisk(file[c], content)
    /\ UNCHANGED <<first, lock, work, loaded, ops, acked, countVars>>

\* Mutation of Synced: the directory is not synced.
Synced_Never == disk

\* syncDir
Synced == [n \in Names |-> {dir[n]}]

\* What a command does after a file has been written.
AfterWrite(c) ==
    CASE file[c] = "journal" -> <<"save", "state">>
      [] file[c] = "pre-v4" -> <<"write", NextBackup>>
      [] file[c] = "bak" -> <<"write", "state">>
      [] file[c] = "state" -> IF work[c] = "publish" THEN <<"remove", "journal">>
                              ELSE <<"free", "state">>

SyncDirectory(c) ==
    /\ At(c, "sync") /\ disk' = Synced
    /\ acked' = IF file[c] = "journal" THEN ops ELSE acked
    /\ LET after == AfterWrite(c) IN
       IF after[1] = "free" THEN End(c)
       ELSE Goto(c, after[1], after[2]) /\ UNCHANGED <<lock, work, loaded>>
    /\ UNCHANGED <<first, dir, ops, countVars>>

\* ClearJournal removes the file, syncs the directory, and the command ends.
RemoveJournal(c) ==
    /\ At(c, "remove") /\ Goto(c, "removed", "journal")
    /\ dir' = [dir EXCEPT !["journal"] = Absent]
    /\ disk' = OnDisk("journal", Absent)
    /\ UNCHANGED <<first, lock, work, loaded, ops, acked, countVars>>

SyncRemoval(c) ==
    /\ At(c, "removed") /\ disk' = Synced /\ End(c)
    /\ UNCHANGED <<first, dir, ops, acked, countVars>>

-----------------------------------------------------------------------------
(* Failures *)

\* A file operation fails, or the command is killed: the kernel, or the
\* deferred Release, gives the lock back.
Fail(c) ==
    /\ pc[c] # "free" /\ End(c)
    /\ failures < MaxFailures /\ failures' = failures + 1
    /\ UNCHANGED <<first, fileVars, ops, acked, saves, outages, damages>>

LosePower ==
    /\ outages < MaxOutages /\ outages' = outages + 1
    /\ dir' \in {d \in [Names -> UNION {disk[n] : n \in Names}] :
                    \A n \in Names : d[n] \in disk[n]}
    /\ disk' = [n \in Names |-> {dir'[n]}]
    /\ lock' = {} /\ pc' = [c \in Commands |-> "free"]
    /\ file' = [c \in Commands |-> "state"] /\ work' = [c \in Commands |-> "none"]
    /\ loaded' = [c \in Commands |-> Absent]
    /\ UNCHANGED <<first, ops, acked, saves, failures, damages>>

Replace(content) ==
    /\ lock = {} /\ damages < MaxDamages /\ damages' = damages + 1
    /\ dir' = [dir EXCEPT !["state"] = content]
    /\ disk' = [disk EXCEPT !["state"] = {content}]
    /\ UNCHANGED <<first, runVars, ops, acked, saves, failures, outages>>

\* Somebody damages the state file.  One of an old format may be damaged from
\* the start.
Damage ==
    /\ Valid(dir["state"]) /\ ~Old(dir["state"])
    /\ Replace([dir["state"] EXCEPT !.valid = FALSE])

\* The user goes back to the older mdoc, which needs no unfinished operation,
\* publishes with it, and comes back.
RollBack ==
    /\ Valid(dir["pre-v4"]) /\ dir["journal"] = Absent
    /\ Replace([version |-> OldVersion, valid |-> TRUE, op |-> acked])

Next ==
    \/ \E c \in Commands :
          \/ Acquire(c) \/ LoadForPublish(c) \/ LoadForSave(c) \/ Save(c)
          \/ WriteTemporary(c) \/ Rename(c) \/ SyncDirectory(c)
          \/ RemoveJournal(c) \/ SyncRemoval(c) \/ Fail(c)
    \/ LosePower \/ Damage \/ RollBack

Spec == Init /\ [][Next]_vars
-----------------------------------------------------------------------------
(* Properties *)

\* "durable recovery journals" (README.md:490): once the journal of an
\* operation is written, and documents are made, no loss of power or killed
\* command leaves neither the journal nor a state that records the operation.
JournalOrState ==
    acked > 0 =>
    \A j \in disk["journal"], s \in disk["state"] :
        (j # Absent /\ j.op >= acked) \/ (s # Absent /\ s.op >= acked)

\* "The first save after loading state older than version 4 writes one
\* protected .pre-v4.bak file.  It never overwrites that backup"
\* (README.md:488): wherever that save was cut short, and however often the
\* user goes back to the older format.
OldFormatKept ==
    Valid(first) /\ Old(first) =>
    \A s \in disk["state"] :
        s \in States /\ s.version = CurrentVersion => disk["pre-v4"] = {first}

\* What the files of the store promise together, through losses of power.
StateFilesKept == JournalOrState /\ OldFormatKept

\* A save replaces a valid state only when the backup is that state, for good
\* (store.go:181), and never with one a command has made from an older state:
\* the lock covers the load (application.go:187, publish_command.go:36).
SavesReplaceTheLatest ==
    [][outages' = outages /\ damages' = damages /\ dir'["state"] # dir["state"] =>
       /\ Valid(dir["state"]) => disk["bak"] = {dir["state"]}
       /\ {dir["state"], dir'["state"]} \subseteq States => dir'["state"].op >= dir["state"].op]_vars
=============================================================================
