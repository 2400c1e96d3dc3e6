--------------------------- MODULE LocalFilesProofs ---------------------------
(***************************************************************************)
(* Proofs about the files of a workspace, for any commands, operations,    *)
(* generations, failures and losses of power: what StateStore promises of  *)
(* the state file, its backups and the journal, and SnapshotStore of the   *)
(* review snapshots.                                                       *)
(*                                                                         *)
(* A file may show one content and keep several: after a loss of power any *)
(* of them, independently of the other files, is the content.  So the      *)
(* invariants speak of all contents a name can show, and relate every      *)
(* content of one file to every content of another.                        *)
(***************************************************************************)
EXTENDS StateStore, SnapshotStore, TLAPS

-----------------------------------------------------------------------------
(* StateStore: the inductive invariant *)

Labels == {"free", "load", "save", "write", "rename", "sync", "remove", "removed"}
Saved == {Absent} \cup States
Journaled == {Absent} \cup Journals
Contents == Saved \cup Journaled

FilesTyped ==
    /\ dir \in [Names -> Contents] /\ disk \in [Names -> SUBSET Contents]
    /\ \A n \in Names : dir[n] \in disk[n]
    /\ \A n \in {"state", "bak", "pre-v4"} : disk[n] \subseteq Saved
    /\ disk["journal"] \subseteq Journaled
    /\ first \in Saved /\ (first # Absent => first.op = 0)

CommandsTyped ==
    /\ lock \in SUBSET Commands
    /\ pc \in [Commands -> Labels] /\ file \in [Commands -> Names]
    /\ work \in [Commands -> {"none", "publish", "other"}]
    /\ loaded \in [Commands -> Saved]
    /\ ops \in 0..MaxOps /\ acked \in 0..ops

\* The lock is held by the one command that is at work.
OneCommand ==
    /\ \A c \in Commands : c \in lock <=> pc[c] # "free"
    /\ \A c, e \in lock : c = e

\* Every journal that may come back is of an operation after which no other was
\* known to be journaled, and that no state is ahead of; if none may, every
\* state that may come back records the last operation known to be journaled.
JournalsInv ==
    /\ \A j \in disk["journal"] \ {Absent} :
          /\ acked <= j.op /\ j.op <= ops
          /\ \A s \in disk["state"] \ {Absent} : s.op <= j.op
    /\ \A s \in disk["state"] \ {Absent} : s.op <= ops
    /\ Absent \in disk["journal"] /\ acked > 0 =>
          \A s \in disk["state"] : s # Absent /\ s.op >= acked

OldFirst == Valid(first) /\ Old(first)

\* The state file of the older mdoc is untouched until its backup is sure.
OldInv ==
    OldFirst =>
        /\ disk["pre-v4"] \subseteq {Absent, first}
        /\ Absent \in disk["pre-v4"] => disk["state"] = {first}

Writing(c) == pc[c] \in {"write", "rename", "sync"}
Unsaved(c) ==
    pc[c] \in {"save", "write", "rename"} \/ (pc[c] = "sync" /\ file[c] # "state")

\* What the command at work knows.
KnowsState(c) ==
    /\ pc[c] = "save" \/ Writing(c) => work[c] # "none"
    /\ pc[c] \in {"remove", "removed"} => work[c] = "publish"
    /\ Writing(c) /\ file[c] = "journal" => work[c] = "publish" /\ ops > 0
    /\ Unsaved(c) =>
          loaded[c] = dir["state"] /\ (work[c] = "publish" => Valid(dir["state"]))

KnowsJournal(c) ==
    /\ work[c] = "publish" /\ (pc[c] = "save" \/ (Writing(c) /\ file[c] # "journal")) =>
          dir["journal"] # Absent
    /\ pc[c] = "sync" /\ file[c] = "journal" => dir["journal"] = [op |-> ops]
    /\ Writing(c) /\ file[c] = "state" /\ work[c] = "publish" =>
          disk["journal"] = {dir["journal"]}
    /\ pc[c] = "sync" /\ file[c] = "state" /\ work[c] = "publish" =>
          dir["state"] # Absent /\ dir["state"].op = dir["journal"].op
    /\ pc[c] = "remove" => \A s \in disk["state"] : s # Absent /\ s.op >= acked

KnowsBackup(c) ==
    /\ pc[c] = "sync" /\ file[c] = "bak" => dir["bak"] = dir["state"]
    /\ pc[c] \in {"write", "rename"} /\ file[c] = "state" /\ Valid(dir["state"]) =>
          disk["bak"] = {dir["state"]}

KnowsOld(c) ==
    OldFirst =>
        /\ pc[c] \in {"write", "rename"} /\ file[c] = "pre-v4" => dir["state"] = first
        /\ pc[c] = "sync" /\ file[c] = "pre-v4" => dir["pre-v4"] = first
        /\ Writing(c) /\ file[c] = "bak" => dir["pre-v4"] = first
        /\ Writing(c) /\ file[c] = "state" => disk["pre-v4"] = {first}

Knows(c) == KnowsState(c) /\ KnowsJournal(c) /\ KnowsBackup(c) /\ KnowsOld(c)

StoreInv ==
    /\ FilesTyped /\ CommandsTyped /\ OneCommand
    /\ JournalsInv /\ OldInv
    /\ \A c \in Commands : Knows(c)

-----------------------------------------------------------------------------
(* Lemmas *)

\* What the contents of files are.
LEMMA StateContents ==
    /\ MaxOps \in Nat
    /\ \A s \in Saved : s # Absent => s \in States /\ s.op \in 0..MaxOps
    /\ \A s \in States : s # Absent /\ s.op \in 0..MaxOps /\ s.op >= 0
    /\ \A j \in Journaled : j # Absent => j \in Journals /\ j.op \in 1..MaxOps
    /\ \A j \in Journals : j # Absent /\ j.op \in 1..MaxOps
    /\ \A n \in 1..MaxOps : [op |-> n] \in Journals
BY StoreConstantsOK, AbsentIsNoFile DEF Saved, Journaled, States, Journals

\* Each file shows one of the contents it can show after a loss of power.
LEMMA FilesShown ==
    ASSUME FilesTyped
    PROVE  /\ \A n \in {"state", "bak", "pre-v4"} : dir[n] \in Saved
           /\ dir["journal"] \in Journaled
           /\ \A n \in Names : dir[n] \in disk[n]
BY DEF FilesTyped, Names

\* The state file is the one the older mdoc left, as long as the backup of it
\* may be missing.
LEMMA OldFirstShape ==
    ASSUME FilesTyped, OldFirst
    PROVE  /\ first = [version |-> OldVersion, valid |-> TRUE, op |-> 0]
           /\ first \in States /\ first # Absent
BY StateContents DEF FilesTyped, OldFirst, Valid, Old, States, OldVersion, CurrentVersion

\* A command that is not at work knows nothing.
LEMMA FreeKnows ==
    ASSUME NEW c \in Commands, pc[c] \in {"free", "load"}
    PROVE  Knows(c)
BY DEF Knows, KnowsState, KnowsJournal, KnowsBackup, KnowsOld, Writing, Unsaved

\* One command is at work.
LEMMA ThisCommand ==
    ASSUME StoreInv, NEW c \in Commands, pc[c] # "free"
    PROVE  lock = {c} /\ \A e \in Commands : e # c => pc[e] = "free"
BY DEF StoreInv, OneCommand, CommandsTyped

\* Goto, within a command.
LEMMA GotoTyped ==
    ASSUME StoreInv, NEW c \in Commands, pc[c] # "free",
           NEW label \in Labels \ {"free"}, NEW name \in Names, Goto(c, label, name),
           lock' = lock, work' \in [Commands -> {"none", "publish", "other"}],
           loaded' \in [Commands -> Saved], ops' \in 0..MaxOps, acked' \in 0..ops',
           Knows(c)'
    PROVE  CommandsTyped' /\ OneCommand' /\ \A e \in Commands : Knows(e)'
<1>1. /\ pc \in [Commands -> Labels] /\ file \in [Commands -> Names]
      /\ pc' = [pc EXCEPT ![c] = label] /\ file' = [file EXCEPT ![c] = name]
  BY DEF StoreInv, CommandsTyped, Goto
<1>2. /\ pc' \in [Commands -> Labels] /\ file' \in [Commands -> Names]
      /\ \A e \in Commands : e # c => pc'[e] = pc[e]
      /\ pc'[c] = label
  BY <1>1
<1>3. CommandsTyped'
  BY <1>2 DEF StoreInv, CommandsTyped
<1>4. OneCommand'
  BY <1>2 DEF StoreInv, OneCommand, CommandsTyped
<1>5. ASSUME NEW e \in Commands, e # c PROVE Knows(e)'
  <2>1. pc'[e] = "free"
    BY <1>2, <1>5, ThisCommand
  <2> QED BY <2>1 DEF Knows, KnowsState, KnowsJournal, KnowsBackup, KnowsOld, Writing, Unsaved
<1> QED BY <1>3, <1>4, <1>5

\* End, and a loss of power, leave no command at work.
LEMMA IdleKnows ==
    ASSUME lock' = {}, \A c \in Commands : pc'[c] = "free"
    PROVE  OneCommand' /\ \A c \in Commands : Knows(c)'
<1>1. \A c \in Commands : Knows(c)'
  BY DEF Knows, KnowsState, KnowsJournal, KnowsBackup, KnowsOld, Writing, Unsaved
<1> QED BY <1>1 DEF OneCommand

LEMMA EndTyped ==
    ASSUME StoreInv, NEW c \in Commands, pc[c] # "free", End(c),
           ops' = ops, acked' = acked
    PROVE  CommandsTyped' /\ OneCommand' /\ \A e \in Commands : Knows(e)'
<1>1. /\ pc \in [Commands -> Labels] /\ file \in [Commands -> Names]
      /\ work \in [Commands -> {"none", "publish", "other"}]
      /\ loaded \in [Commands -> Saved]
      /\ pc' = [pc EXCEPT ![c] = "free"] /\ file' = [file EXCEPT ![c] = "state"]
      /\ work' = [work EXCEPT ![c] = "none"] /\ loaded' = [loaded EXCEPT ![c] = Absent]
      /\ lock' = lock \ {c}
  BY DEF StoreInv, CommandsTyped, Goto, End
<1>2. /\ pc' \in [Commands -> Labels] /\ file' \in [Commands -> Names]
      /\ work' \in [Commands -> {"none", "publish", "other"}]
      /\ loaded' \in [Commands -> Saved]
  BY <1>1 DEF Labels, Names, Saved
<1>3. lock' = {} /\ \A e \in Commands : pc'[e] = "free"
  BY <1>1, ThisCommand
<1>4. CommandsTyped'
  BY <1>2, <1>3 DEF StoreInv, CommandsTyped
<1> QED BY <1>3, <1>4, IdleKnows

\* Files that are left alone; an operation may be started.
LEMMA FilesLeftAlone ==
    ASSUME StoreInv, UNCHANGED <<first, fileVars>>, acked' = acked,
           ops' \in Nat, ops <= ops'
    PROVE  FilesTyped' /\ JournalsInv' /\ OldInv'
<1>1. FilesTyped' /\ OldInv'
  BY DEF StoreInv, FilesTyped, OldInv, OldFirst, Valid, Old, fileVars
<1>2. /\ dir' = dir /\ disk' = disk /\ ops \in Nat /\ JournalsInv
      /\ disk["state"] \subseteq Saved /\ disk["journal"] \subseteq Journaled
  BY StateContents DEF StoreInv, FilesTyped, CommandsTyped, fileVars
<1>3. \A s \in disk["state"] \ {Absent} : s.op <= ops'
  BY <1>2, StateContents DEF JournalsInv
<1>4. \A j \in disk["journal"] \ {Absent} : j.op <= ops'
  BY <1>2, StateContents DEF JournalsInv
<1>5. JournalsInv'
  BY <1>2, <1>3, <1>4 DEF JournalsInv
<1> QED BY <1>1, <1>5

\* syncDir: every file shows what it will show.
LEMMA SyncKeepsFiles ==
    ASSUME StoreInv, dir' = dir, disk' = Synced, first' = first, ops' = ops,
           \/ acked' = acked
           \/ acked' = ops /\ ops > 0 /\ dir["journal"] = [op |-> ops]
    PROVE  FilesTyped' /\ JournalsInv' /\ OldInv'
<1>1. /\ FilesTyped /\ \A n \in Names : disk'[n] = {dir[n]} /\ dir[n] \in disk[n]
      /\ disk' = [n \in Names |-> {dir[n]}] /\ dir \in [Names -> Contents]
  BY DEF StoreInv, FilesTyped, Synced
<1>2. FilesTyped'
  <2>1. disk' \in [Names -> SUBSET Contents]
    BY <1>1
  <2>2. \A n \in {"state", "bak", "pre-v4"} : disk'[n] \subseteq Saved
    BY <1>1, FilesShown DEF Names
  <2>3. disk'["journal"] \subseteq Journaled
    BY <1>1, FilesShown DEF Names
  <2> QED BY <1>1, <2>1, <2>2, <2>3 DEF FilesTyped
<1>3. /\ disk'["journal"] = {dir["journal"]} /\ dir["journal"] \in disk["journal"]
      /\ disk'["state"] = {dir["state"]} /\ dir["state"] \in disk["state"]
      /\ disk'["pre-v4"] = {dir["pre-v4"]} /\ dir["pre-v4"] \in disk["pre-v4"]
  BY <1>1 DEF Names
<1>4. JournalsInv'
  <2>1. CASE acked' = acked
    BY <1>3, <2>1 DEF StoreInv, JournalsInv
  <2>2. CASE acked' = ops /\ ops > 0 /\ dir["journal"] = [op |-> ops]
    <3>1. ops \in Nat /\ dir["journal"].op = ops /\ dir["journal"] # Absent
      BY <2>2, StateContents DEF StoreInv, CommandsTyped
    <3>2. \A s \in disk["state"] \ {Absent} : s.op <= ops
      BY DEF StoreInv, JournalsInv
    <3> QED BY <1>3, <2>2, <3>1, <3>2 DEF JournalsInv
  <2> QED BY <2>1, <2>2
<1>5. OldInv'
  BY <1>3 DEF StoreInv, OldInv, OldFirst, Valid, Old
<1> QED BY <1>2, <1>4, <1>5

-----------------------------------------------------------------------------
(* The start of a command *)

\* Acquire: nobody was at work.
LEMMA AcquireKeeps ==
    ASSUME StoreInv, NEW c \in Commands, Acquire(c)
    PROVE  StoreInv'
<1>1. /\ lock = {} /\ lock' = {c}
      /\ pc' = [pc EXCEPT ![c] = "load"] /\ file' = [file EXCEPT ![c] = "state"]
      /\ UNCHANGED <<first, fileVars, work, loaded, ops, acked>>
  BY DEF Acquire, Free, Goto
<1>2. FilesTyped' /\ JournalsInv' /\ OldInv'
  BY <1>1, FilesLeftAlone DEF StoreInv, CommandsTyped
<1>3. /\ pc \in [Commands -> Labels] /\ \A e \in Commands : pc[e] = "free"
      /\ file \in [Commands -> Names]
  BY <1>1 DEF StoreInv, OneCommand, CommandsTyped
<1>4. /\ pc' \in [Commands -> Labels] /\ pc'[c] = "load"
      /\ \A e \in Commands : e # c => pc'[e] = "free"
      /\ file' \in [Commands -> Names]
  BY <1>1, <1>3 DEF Labels, Names
<1>5. CommandsTyped'
  BY <1>1, <1>4 DEF StoreInv, CommandsTyped
<1>6. OneCommand'
  BY <1>1, <1>4 DEF OneCommand
<1>7. \A e \in Commands : pc'[e] \in {"free", "load"}
  BY <1>4
<1>8. \A e \in Commands : Knows(e)'
  BY <1>7 DEF Knows, KnowsState, KnowsJournal, KnowsBackup, KnowsOld, Writing, Unsaved
<1> QED BY <1>2, <1>5, <1>6, <1>8 DEF StoreInv

\* What a command knows of the state file when it has loaded it.
LEMMA LoadKnows ==
    ASSUME StoreInv, NEW c \in Commands, NEW kind \in {"publish", "other"}, Load(c, kind),
           kind = "publish" => Valid(dir["state"])
    PROVE  /\ loaded'[c] = dir["state"] /\ work'[c] = kind
           /\ loaded' \in [Commands -> Saved]
           /\ work' \in [Commands -> {"none", "publish", "other"}]
           /\ dir' = dir /\ disk' = disk /\ first' = first /\ acked' = acked /\ lock' = lock
           /\ pc[c] = "load"
<1>1. dir["state"] \in Saved
  BY FilesShown DEF StoreInv
<1> QED BY <1>1 DEF Load, StoreInv, CommandsTyped, At, fileVars

LEMMA LoadForPublishKeeps ==
    ASSUME StoreInv, NEW c \in Commands, LoadForPublish(c)
    PROVE  StoreInv'
<1>1. /\ loaded'[c] = dir["state"] /\ work'[c] = "publish" /\ Valid(dir["state"])
      /\ loaded' \in [Commands -> Saved]
      /\ work' \in [Commands -> {"none", "publish", "other"}]
      /\ dir' = dir /\ disk' = disk /\ first' = first /\ acked' = acked /\ lock' = lock
      /\ pc[c] = "load"
  BY LoadKnows DEF LoadForPublish
<1>2. ops \in 0..MaxOps /\ acked \in 0..ops /\ MaxOps \in Nat
  BY StateContents DEF StoreInv, CommandsTyped
<1>3. \/ dir["journal"] = Absent /\ ops < MaxOps /\ ops' = ops + 1
         /\ Goto(c, "write", "journal")
      \/ dir["journal"] # Absent /\ ops' = ops /\ Goto(c, "save", "state")
  BY DEF LoadForPublish
<1>4. ops' \in 0..MaxOps /\ ops <= ops' /\ acked' \in 0..ops'
  BY <1>1, <1>2, <1>3
<1>5. FilesTyped' /\ JournalsInv' /\ OldInv'
  BY <1>1, <1>4, FilesLeftAlone DEF fileVars
<1>6. pc \in [Commands -> Labels] /\ file \in [Commands -> Names]
  BY DEF StoreInv, CommandsTyped
<1>7. Valid(dir["state"])'
  BY <1>1 DEF Valid
<1>8. CASE Goto(c, "write", "journal") /\ ops' = ops + 1
  <2>1. pc'[c] = "write" /\ file'[c] = "journal" /\ ops' > 0
    BY <1>2, <1>6, <1>8 DEF Goto
  <2>2. Knows(c)'
    BY <1>1, <1>7, <2>1
    DEF Knows, KnowsState, KnowsJournal, KnowsBackup, KnowsOld, Writing, Unsaved
  <2>3. CommandsTyped' /\ OneCommand' /\ \A e \in Commands : Knows(e)'
    BY <1>1, <1>4, <1>8, <2>2, GotoTyped DEF Labels, Names
  <2> QED BY <1>5, <2>3 DEF StoreInv
<1>9. CASE Goto(c, "save", "state") /\ dir["journal"] # Absent
  <2>1. pc'[c] = "save" /\ file'[c] = "state"
    BY <1>6, <1>9 DEF Goto
  <2>2. Knows(c)'
    BY <1>1, <1>7, <1>9, <2>1
    DEF Knows, KnowsState, KnowsJournal, KnowsBackup, KnowsOld, Writing, Unsaved
  <2>3. CommandsTyped' /\ OneCommand' /\ \A e \in Commands : Knows(e)'
    BY <1>1, <1>4, <1>9, <2>2, GotoTyped DEF Labels, Names
  <2> QED BY <1>5, <2>3 DEF StoreInv
<1> QED BY <1>3, <1>8, <1>9

LEMMA LoadForSaveKeeps ==
    ASSUME StoreInv, NEW c \in Commands, LoadForSave(c)
    PROVE  StoreInv'
<1>1. /\ loaded'[c] = dir["state"] /\ work'[c] = "other"
      /\ loaded' \in [Commands -> Saved]
      /\ work' \in [Commands -> {"none", "publish", "other"}]
      /\ dir' = dir /\ disk' = disk /\ first' = first /\ acked' = acked /\ lock' = lock
      /\ pc[c] = "load"
  BY LoadKnows DEF LoadForSave
<1>2. Goto(c, "save", "state") /\ ops' = ops
  BY DEF LoadForSave
<1>3. ops' \in 0..MaxOps /\ ops' \in Nat /\ ops <= ops' /\ acked' \in 0..ops'
  BY <1>1, <1>2, StateContents DEF StoreInv, CommandsTyped
<1>4. FilesTyped' /\ JournalsInv' /\ OldInv'
  BY <1>1, <1>3, FilesLeftAlone DEF fileVars
<1>5. pc'[c] = "save" /\ file'[c] = "state"
  BY <1>2 DEF StoreInv, CommandsTyped, Goto
<1>6. Knows(c)'
  BY <1>1, <1>5
  DEF Knows, KnowsState, KnowsJournal, KnowsBackup, KnowsOld, Writing, Unsaved
<1>7. CommandsTyped' /\ OneCommand' /\ \A e \in Commands : Knows(e)'
  BY <1>1, <1>2, <1>3, <1>6, GotoTyped DEF Labels, Names
<1> QED BY <1>4, <1>7 DEF StoreInv

\* Save and WriteTemporary change no file.
LEMMA SameFiles ==
    ASSUME StoreInv, UNCHANGED <<first, fileVars, lock, work, loaded, ops, acked>>
    PROVE  /\ FilesTyped' /\ JournalsInv' /\ OldInv'
           /\ work' \in [Commands -> {"none", "publish", "other"}]
           /\ loaded' \in [Commands -> Saved] /\ ops' \in 0..MaxOps /\ acked' \in 0..ops'
           /\ lock' = lock
<1>1. ops' \in Nat /\ ops <= ops'
  BY StateContents DEF StoreInv, CommandsTyped
<1> QED BY <1>1, FilesLeftAlone DEF StoreInv, CommandsTyped

LEMMA SaveCmdKeeps ==
    ASSUME StoreInv, NEW c \in Commands, Save(c)
    PROVE  StoreInv'
<1>1. /\ pc[c] = "save" /\ Goto(c, "write", FirstBackup)
      /\ UNCHANGED <<first, fileVars, lock, work, loaded, ops, acked>>
  BY DEF Save, At
<1>2. /\ FilesTyped' /\ JournalsInv' /\ OldInv'
      /\ work' \in [Commands -> {"none", "publish", "other"}]
      /\ loaded' \in [Commands -> Saved] /\ ops' \in 0..MaxOps /\ acked' \in 0..ops'
      /\ lock' = lock
  BY <1>1, SameFiles
<1>3. \/ Old(dir["state"]) /\ dir["pre-v4"] = Absent /\ FirstBackup = "pre-v4"
      \/ /\ ~(Old(dir["state"]) /\ dir["pre-v4"] = Absent) /\ Valid(dir["state"])
         /\ FirstBackup = "bak"
      \/ /\ ~(Old(dir["state"]) /\ dir["pre-v4"] = Absent) /\ ~Valid(dir["state"])
         /\ FirstBackup = "state"
  BY DEF FirstBackup, NextBackup
<1>4. /\ pc'[c] = "write" /\ file'[c] = FirstBackup
      /\ FirstBackup \in {"pre-v4", "bak", "state"}
  BY <1>1, <1>3 DEF StoreInv, CommandsTyped, Goto
<1>5. /\ dir' = dir /\ disk' = disk /\ work' = work /\ loaded' = loaded /\ first' = first
      /\ Valid(dir["state"])' = Valid(dir["state"]) /\ OldFirst' = OldFirst
  BY <1>1 DEF fileVars, Valid, OldFirst, Old
<1>6. Knows(c)
  BY DEF StoreInv
<1>7. KnowsState(c)' /\ KnowsJournal(c)'
  <2>1. /\ loaded[c] = dir["state"] /\ work[c] # "none"
        /\ work[c] = "publish" => Valid(dir["state"]) /\ dir["journal"] # Absent
    BY <1>1, <1>6 DEF Knows, KnowsState, KnowsJournal, Unsaved
  <2>2. work[c] = "publish" => FirstBackup # "state"
    BY <1>3, <2>1
  <2> QED BY <1>4, <1>5, <2>1, <2>2 DEF KnowsState, KnowsJournal, Writing, Unsaved
<1>8. KnowsBackup(c)'
  BY <1>3, <1>4, <1>5 DEF KnowsBackup
<1>9. KnowsOld(c)'
  <2> SUFFICES ASSUME OldFirst
               PROVE  /\ FirstBackup = "pre-v4" => dir["state"] = first
                      /\ FirstBackup = "bak" => dir["pre-v4"] = first
                      /\ FirstBackup = "state" => disk["pre-v4"] = {first}
    BY <1>4, <1>5 DEF KnowsOld, Writing
  <2>1. /\ dir["state"] \in disk["state"] /\ dir["pre-v4"] \in disk["pre-v4"]
        /\ disk["pre-v4"] \subseteq {Absent, first}
        /\ Absent \in disk["pre-v4"] => disk["state"] = {first}
    BY FilesShown DEF StoreInv, OldInv, Names
  <2>2. dir["state"] = first => Old(dir["state"]) /\ Valid(dir["state"])
    BY DEF OldFirst, Old, Valid
  <2> QED BY <1>3, <2>1, <2>2
<1>10. Knows(c)'
  BY <1>7, <1>8, <1>9 DEF Knows
<1>11. CommandsTyped' /\ OneCommand' /\ \A e \in Commands : Knows(e)'
  BY <1>1, <1>2, <1>4, <1>10, GotoTyped DEF Labels, Names
<1> QED BY <1>2, <1>11 DEF StoreInv

LEMMA WriteTemporaryKeeps ==
    ASSUME StoreInv, NEW c \in Commands, WriteTemporary(c)
    PROVE  StoreInv'
<1>1. /\ pc[c] = "write" /\ Goto(c, "rename", file[c]) /\ file[c] \in Names
      /\ UNCHANGED <<first, fileVars, lock, work, loaded, ops, acked>>
  BY DEF WriteTemporary, At, StoreInv, CommandsTyped
<1>2. /\ FilesTyped' /\ JournalsInv' /\ OldInv'
      /\ work' \in [Commands -> {"none", "publish", "other"}]
      /\ loaded' \in [Commands -> Saved] /\ ops' \in 0..MaxOps /\ acked' \in 0..ops'
      /\ lock' = lock
  BY <1>1, SameFiles
<1>3. pc'[c] = "rename" /\ file'[c] = file[c]
  BY <1>1 DEF StoreInv, CommandsTyped, Goto
<1>4. /\ dir' = dir /\ disk' = disk /\ work' = work /\ loaded' = loaded /\ first' = first
      /\ ops' = ops /\ acked' = acked
      /\ Valid(dir["state"])' = Valid(dir["state"]) /\ OldFirst' = OldFirst
  BY <1>1 DEF fileVars, Valid, OldFirst, Old
<1>5. Knows(c)
  BY DEF StoreInv
<1>6. Knows(c)'
  BY <1>1, <1>3, <1>4, <1>5
  DEF Knows, KnowsState, KnowsJournal, KnowsBackup, KnowsOld, Writing, Unsaved
<1>7. CommandsTyped' /\ OneCommand' /\ \A e \in Commands : Knows(e)'
  BY <1>1, <1>2, <1>6, GotoTyped DEF Labels, Names
<1> QED BY <1>2, <1>7 DEF StoreInv

-----------------------------------------------------------------------------
(* atomicWrite *)

\* Written, for each file.
LEMMA WrittenContents ==
    ASSUME NEW c \in Commands
    PROVE  /\ file[c] = "journal" => Written(c) = {[op |-> ops]}
           /\ file[c] = "state" => Written(c) = NewStates(c)
           /\ file[c] \in {"bak", "pre-v4"} => Written(c) = {dir["state"]}
<1>1. "journal" # "state" /\ "journal" # "bak" /\ "journal" # "pre-v4" /\ "state" # "bak"
      /\ "state" # "pre-v4"
  OBVIOUS
<1> QED BY <1>1, Zenon DEF Written

\* Rename: the content, the file that shows it, and what the others show.
LEMMA RenameChanges ==
    ASSUME StoreInv, NEW c \in Commands, Rename(c)
    PROVE  /\ pc[c] = "rename" /\ pc'[c] = "sync" /\ file'[c] = file[c]
           /\ file[c] \in Names /\ Goto(c, "sync", file[c])
           /\ UNCHANGED <<first, lock, work, loaded, ops, acked>>
           /\ \E content \in Written(c) :
                 /\ dir' = [dir EXCEPT ![file[c]] = content]
                 /\ disk' = [disk EXCEPT ![file[c]] = @ \cup {content}]
                 /\ dir'[file[c]] = content
                 /\ disk'[file[c]] = disk[file[c]] \cup {content}
                 /\ \A n \in Names : n # file[c] => dir'[n] = dir[n] /\ disk'[n] = disk[n]
<1>1. /\ file[c] \in Names /\ dir \in [Names -> Contents]
      /\ disk \in [Names -> SUBSET Contents]
      /\ pc \in [Commands -> Labels] /\ file \in [Commands -> Names]
  BY DEF StoreInv, FilesTyped, CommandsTyped
<1>2. \A content :
        /\ [dir EXCEPT ![file[c]] = content][file[c]] = content
        /\ [disk EXCEPT ![file[c]] = @ \cup {content}][file[c]] = disk[file[c]] \cup {content}
        /\ \A n \in Names : n # file[c] =>
              /\ [dir EXCEPT ![file[c]] = content][n] = dir[n]
              /\ [disk EXCEPT ![file[c]] = @ \cup {content}][n] = disk[n]
  BY <1>1
<1>3. PICK content \in Written(c) :
        /\ dir' = [dir EXCEPT ![file[c]] = content]
        /\ disk' = [disk EXCEPT ![file[c]] = @ \cup {content}]
  BY DEF Rename, OnDisk
<1>4. pc[c] = "rename" /\ pc'[c] = "sync" /\ file'[c] = file[c] /\ Goto(c, "sync", file[c])
      /\ UNCHANGED <<first, lock, work, loaded, ops, acked>>
  BY <1>1 DEF Rename, Goto, At
<1> QED BY <1>1, <1>2, <1>3, <1>4

\* A content of the right kind leaves the files typed.
LEMMA RenameTyped ==
    ASSUME StoreInv, NEW n \in Names, NEW content,
           n = "journal" => content \in Journaled,
           n # "journal" => content \in Saved,
           dir' = [dir EXCEPT ![n] = content],
           disk' = [disk EXCEPT ![n] = @ \cup {content}], first' = first
    PROVE  FilesTyped'
<1>1. /\ dir \in [Names -> Contents] /\ disk \in [Names -> SUBSET Contents]
      /\ content \in Contents
  BY DEF StoreInv, FilesTyped, Contents
<1>2. dir' \in [Names -> Contents] /\ disk' \in [Names -> SUBSET Contents]
  BY <1>1
<1>3. \A m \in Names : dir'[m] \in disk'[m]
  BY <1>1 DEF StoreInv, FilesTyped
<1>4. \A m \in {"state", "bak", "pre-v4"} : disk'[m] \subseteq Saved
  BY <1>1 DEF StoreInv, FilesTyped, Names
<1>5. disk'["journal"] \subseteq Journaled
  BY <1>1 DEF StoreInv, FilesTyped, Names
<1> QED BY <1>2, <1>3, <1>4, <1>5 DEF StoreInv, FilesTyped

\* What a step within a command has to show (GotoTyped, for UNCHANGED counters).
LEMMA StepInside ==
    ASSUME StoreInv, NEW c \in Commands, pc[c] # "free",
           NEW label \in Labels \ {"free"}, NEW name \in Names, Goto(c, label, name),
           UNCHANGED <<lock, work, loaded, ops>>, acked' \in 0..ops,
           FilesTyped', JournalsInv', OldInv', Knows(c)'
    PROVE  StoreInv'
<1>1. /\ lock' = lock /\ work' \in [Commands -> {"none", "publish", "other"}]
      /\ loaded' \in [Commands -> Saved] /\ ops' \in 0..MaxOps /\ acked' \in 0..ops'
  BY DEF StoreInv, CommandsTyped
<1>2. CommandsTyped' /\ OneCommand' /\ \A e \in Commands : Knows(e)'
  BY <1>1, GotoTyped
<1> QED BY <1>2 DEF StoreInv

\* The journal of a new operation.
LEMMA RenameJournalKeeps ==
    ASSUME StoreInv, NEW c \in Commands, Rename(c), file[c] = "journal"
    PROVE  StoreInv'
<1> DEFINE new == [op |-> ops]
<1>1. /\ pc[c] = "rename" /\ pc'[c] = "sync" /\ file'[c] = "journal"
      /\ Goto(c, "sync", "journal")
      /\ UNCHANGED <<first, lock, work, loaded, ops, acked>>
      /\ dir' = [dir EXCEPT !["journal"] = new]
      /\ disk' = [disk EXCEPT !["journal"] = @ \cup {new}]
      /\ dir'["journal"] = new /\ disk'["journal"] = disk["journal"] \cup {new}
      /\ \A n \in Names : n # "journal" => dir'[n] = dir[n] /\ disk'[n] = disk[n]
  BY RenameChanges, WrittenContents
<1>2. /\ dir'["state"] = dir["state"] /\ disk'["state"] = disk["state"]
      /\ dir'["pre-v4"] = dir["pre-v4"] /\ disk'["pre-v4"] = disk["pre-v4"]
  BY <1>1 DEF Names
<1>3. Knows(c) /\ Writing(c) /\ ops > 0 /\ work[c] = "publish"
  BY <1>1 DEF StoreInv, Knows, KnowsState, Writing
<1>4. new \in Journals /\ new # Absent /\ new.op = ops /\ acked <= ops /\ acked \in Nat
      /\ ops \in Nat
  BY <1>3, StateContents DEF StoreInv, CommandsTyped
<1>5. FilesTyped'
  BY <1>1, <1>4, RenameTyped DEF Journaled, Names
<1>6. JournalsInv'
  <2>1. \A s \in disk["state"] \ {Absent} : s.op <= ops
    BY DEF StoreInv, JournalsInv
  <2>2. Absent \in disk'["journal"] => Absent \in disk["journal"]
    BY <1>1, <1>4
  <2>3. ASSUME NEW j \in disk'["journal"] \ {Absent}
        PROVE  /\ acked <= j.op /\ j.op <= ops
               /\ \A s \in disk["state"] \ {Absent} : s.op <= j.op
    BY <1>1, <1>4, <2>1 DEF StoreInv, JournalsInv
  <2> QED BY <1>1, <1>2, <2>1, <2>2, <2>3 DEF StoreInv, JournalsInv
<1>7. OldInv'
  BY <1>1, <1>2 DEF StoreInv, OldInv, OldFirst, Valid, Old
<1>8. Knows(c)'
  <2>1. loaded[c] = dir["state"] /\ Valid(dir["state"])
    BY <1>1, <1>3 DEF Knows, KnowsState, Unsaved
  <2> QED BY <1>1, <1>2, <1>3, <2>1
          DEF Knows, KnowsState, KnowsJournal, KnowsBackup, KnowsOld, Writing, Unsaved, Valid
<1> QED BY <1>1, <1>5, <1>6, <1>7, <1>8, StepInside DEF Labels, Names, StoreInv, CommandsTyped

\* A backup, of the last state or of the old format.
LEMMA RenameBackupKeeps ==
    ASSUME StoreInv, NEW c \in Commands, Rename(c), file[c] \in {"bak", "pre-v4"}
    PROVE  StoreInv'
<1> DEFINE n == file[c]
<1>1. /\ pc[c] = "rename" /\ pc'[c] = "sync" /\ file'[c] = n
      /\ Goto(c, "sync", n)
      /\ UNCHANGED <<first, lock, work, loaded, ops, acked>>
      /\ dir' = [dir EXCEPT ![n] = dir["state"]]
      /\ disk' = [disk EXCEPT ![n] = @ \cup {dir["state"]}]
      /\ dir'[n] = dir["state"] /\ disk'[n] = disk[n] \cup {dir["state"]}
      /\ \A m \in Names : m # n => dir'[m] = dir[m] /\ disk'[m] = disk[m]
  BY RenameChanges, WrittenContents
<1>2. /\ dir'["state"] = dir["state"] /\ disk'["state"] = disk["state"]
      /\ dir'["journal"] = dir["journal"] /\ disk'["journal"] = disk["journal"]
  BY <1>1 DEF Names
<1>3. dir["state"] \in Saved /\ n \in Names /\ n # "journal"
  BY FilesShown DEF StoreInv, Names
<1>4. FilesTyped'
  BY <1>1, <1>3, RenameTyped
<1>5. JournalsInv'
  BY <1>1, <1>2 DEF StoreInv, JournalsInv
<1>6. Knows(c)
  BY DEF StoreInv
<1>7. OldInv'
  <2> SUFFICES ASSUME OldFirst
               PROVE  /\ disk'["pre-v4"] \subseteq {Absent, first}
                      /\ Absent \in disk'["pre-v4"] => disk["state"] = {first}
    BY <1>1, <1>2 DEF OldInv, OldFirst, Valid, Old
  <2>1. /\ disk["pre-v4"] \subseteq {Absent, first}
        /\ Absent \in disk["pre-v4"] => disk["state"] = {first}
    BY DEF StoreInv, OldInv
  <2>2. CASE n = "pre-v4"
    <3>1. dir["state"] = first /\ first # Absent
      BY <1>1, <1>6, <2>2, OldFirstShape DEF Knows, KnowsOld, StoreInv
    <3> QED BY <1>1, <2>1, <2>2, <3>1
  <2>3. CASE n = "bak"
    BY <1>1, <2>1, <2>3 DEF Names
  <2> QED BY <2>2, <2>3
<1>8. KnowsState(c)' /\ KnowsJournal(c)'
  BY <1>1, <1>2, <1>3, <1>6
  DEF Knows, KnowsState, KnowsJournal, Writing, Unsaved, Valid
<1>9. KnowsBackup(c)'
  BY <1>1, <1>2 DEF KnowsBackup
<1>10. KnowsOld(c)'
  <2> SUFFICES ASSUME OldFirst
               PROVE  /\ n = "pre-v4" => dir'["pre-v4"] = first
                      /\ n = "bak" => dir'["pre-v4"] = first
    BY <1>1 DEF KnowsOld, OldFirst, Valid, Old
  <2>1. CASE n = "pre-v4"
    BY <1>1, <1>6, <2>1 DEF Knows, KnowsOld
  <2>2. CASE n = "bak"
    BY <1>1, <1>6, <2>2 DEF Knows, KnowsOld, Writing, Names
  <2> QED BY <2>1, <2>2
<1>11. Knows(c)'
  BY <1>8, <1>9, <1>10 DEF Knows
<1> QED BY <1>1, <1>3, <1>4, <1>5, <1>7, <1>11, StepInside DEF Labels, StoreInv, CommandsTyped

\* What a command saves is not behind what was there, nor behind what a lost
\* journal leaves to the state.
LEMMA NewStateFollows ==
    ASSUME StoreInv, NEW c \in Commands, pc[c] \in {"write", "rename"}, file[c] = "state",
           NEW new \in NewStates(c)
    PROVE  /\ new \in States /\ new # Absent /\ new.op \in Nat
           /\ dir["state"] # Absent => dir["state"].op <= new.op
           /\ new.op <= ops
           /\ \A j \in disk["journal"] \ {Absent} : new.op <= j.op
           /\ Absent \in disk["journal"] /\ acked > 0 => acked <= new.op
           /\ work[c] = "publish" => new.op = dir["journal"].op
           /\ new.version = CurrentVersion
<1>1. /\ new \in States /\ new # Absent /\ new.op \in Nat /\ new.version = CurrentVersion
  BY StateContents DEF NewStates
<1>2. /\ Knows(c) /\ Writing(c) /\ JournalsInv
      /\ dir["state"] \in Saved /\ dir["state"] \in disk["state"]
      /\ dir["journal"] \in Journaled /\ dir["journal"] \in disk["journal"]
      /\ acked \in Nat /\ ops \in Nat /\ acked <= ops
      /\ disk["journal"] \subseteq Journaled
  BY FilesShown, StateContents DEF StoreInv, Writing, Names, CommandsTyped, FilesTyped
<1>3. loaded[c] = dir["state"]
  BY <1>2 DEF Knows, KnowsState, Unsaved
<1>4. CASE work[c] = "publish"
  <2>1. dir["journal"] # Absent /\ disk["journal"] = {dir["journal"]}
    BY <1>2, <1>4 DEF Knows, KnowsJournal
  <2>2. new.op = dir["journal"].op
    BY <1>4 DEF NewStates
  <2>3. /\ dir["journal"].op <= ops
        /\ dir["state"] # Absent => dir["state"].op <= dir["journal"].op
    BY <1>2, <2>1 DEF JournalsInv
  <2>4. \A j \in disk["journal"] \ {Absent} : new.op <= j.op
    BY <1>1, <2>1, <2>2
  <2> QED BY <1>1, <2>1, <2>2, <2>3, <2>4
<1>5. CASE work[c] # "publish"
  <2>1. LastOp(c) <= new.op /\ new.op <= acked
    BY <1>5 DEF NewStates
  <2>2. dir["state"] # Absent => LastOp(c) = dir["state"].op /\ dir["state"].op \in Nat
    BY <1>2, <1>3, StateContents DEF LastOp
  <2>3. ASSUME NEW j \in disk["journal"] \ {Absent} PROVE new.op <= j.op
    <3>1. acked <= j.op /\ j.op \in Nat
      BY <1>2, StateContents DEF JournalsInv
    <3> QED BY <1>1, <1>2, <2>1, <3>1
  <2>4. Absent \in disk["journal"] /\ acked > 0 => acked <= new.op
    <3> SUFFICES ASSUME Absent \in disk["journal"], acked > 0 PROVE acked <= new.op
      OBVIOUS
    <3>1. dir["state"] # Absent /\ dir["state"].op >= acked
      BY <1>2 DEF JournalsInv
    <3> QED BY <1>1, <1>2, <2>1, <2>2, <3>1
  <2>5. new.op <= ops
    BY <1>1, <1>2, <2>1
  <2>6. dir["state"] # Absent => dir["state"].op <= new.op
    BY <2>1, <2>2
  <2> QED BY <1>1, <1>5, <2>3, <2>4, <2>5, <2>6
<1> QED BY <1>4, <1>5

LEMMA RenameStateKeeps ==
    ASSUME StoreInv, NEW c \in Commands, Rename(c), file[c] = "state"
    PROVE  StoreInv'
<1>1. /\ pc[c] = "rename" /\ pc'[c] = "sync" /\ file'[c] = "state"
      /\ Goto(c, "sync", "state")
      /\ UNCHANGED <<first, lock, work, loaded, ops, acked>>
  BY RenameChanges
<1>2. PICK new \in NewStates(c) :
        /\ dir' = [dir EXCEPT !["state"] = new]
        /\ disk' = [disk EXCEPT !["state"] = @ \cup {new}]
        /\ dir'["state"] = new /\ disk'["state"] = disk["state"] \cup {new}
        /\ \A n \in Names : n # "state" => dir'[n] = dir[n] /\ disk'[n] = disk[n]
  BY RenameChanges, WrittenContents
<1>3. /\ new \in States /\ new # Absent /\ new.op \in Nat
      /\ new.op <= ops
      /\ \A j \in disk["journal"] \ {Absent} : new.op <= j.op
      /\ Absent \in disk["journal"] /\ acked > 0 => acked <= new.op
      /\ work[c] = "publish" => new.op = dir["journal"].op
  BY <1>1, NewStateFollows
<1>4. /\ dir'["journal"] = dir["journal"] /\ disk'["journal"] = disk["journal"]
      /\ disk'["pre-v4"] = disk["pre-v4"]
  BY <1>2 DEF Names
<1>5. FilesTyped'
  BY <1>1, <1>2, <1>3, RenameTyped DEF Names, Saved
<1>6. Knows(c) /\ Writing(c) /\ acked \in Nat
  BY <1>1, StateContents DEF StoreInv, Writing, CommandsTyped
<1>7. JournalsInv'
  <2>1. JournalsInv
    BY DEF StoreInv
  <2>2. \A s \in disk'["state"] \ {Absent} : s.op <= ops
    BY <1>2, <1>3, <2>1 DEF JournalsInv
  <2>3. \A j \in disk["journal"] \ {Absent} :
          /\ acked <= j.op /\ j.op <= ops
          /\ \A s \in disk'["state"] \ {Absent} : s.op <= j.op
    BY <1>2, <1>3, <2>1 DEF JournalsInv
  <2>4. Absent \in disk["journal"] /\ acked > 0 =>
          \A s \in disk'["state"] : s # Absent /\ s.op >= acked
    BY <1>2, <1>3, <1>6, <2>1 DEF JournalsInv
  <2> QED BY <1>1, <1>4, <2>2, <2>3, <2>4 DEF JournalsInv
<1>8. OldFirst => disk["pre-v4"] = {first} /\ first # Absent
  BY <1>1, <1>6, OldFirstShape DEF Knows, KnowsOld, Writing, StoreInv
<1>9. OldInv'
  BY <1>1, <1>4, <1>8 DEF OldInv, OldFirst, Valid, Old
<1>10. Knows(c)'
  <2>1. KnowsState(c)'
    BY <1>1, <1>6 DEF Knows, KnowsState, Writing, Unsaved
  <2>2. KnowsJournal(c)'
    BY <1>1, <1>2, <1>3, <1>4, <1>6 DEF Knows, KnowsJournal, Writing
  <2>3. KnowsBackup(c)'
    BY <1>1 DEF KnowsBackup
  <2>4. KnowsOld(c)'
    BY <1>1, <1>4, <1>8 DEF KnowsOld, Writing, OldFirst, Valid, Old
  <2> QED BY <2>1, <2>2, <2>3, <2>4 DEF Knows
<1> QED BY <1>1, <1>5, <1>7, <1>9, <1>10, StepInside DEF Labels, Names, StoreInv, CommandsTyped

\* AfterWrite, for each file.
LEMMA SyncLeads ==
    ASSUME NEW c \in Commands, SyncDirectory(c)
    PROVE  /\ file[c] = "journal" => Goto(c, "save", "state") /\ UNCHANGED <<lock, work, loaded>>
           /\ file[c] = "pre-v4" => Goto(c, "write", NextBackup) /\ UNCHANGED <<lock, work, loaded>>
           /\ file[c] = "bak" => Goto(c, "write", "state") /\ UNCHANGED <<lock, work, loaded>>
           /\ file[c] = "state" /\ work[c] = "publish" =>
                 Goto(c, "remove", "journal") /\ UNCHANGED <<lock, work, loaded>>
           /\ file[c] = "state" /\ work[c] # "publish" => End(c)
<1>1. "journal" # "state" /\ "journal" # "bak" /\ "journal" # "pre-v4" /\ "state" # "bak"
      /\ "state" # "pre-v4" /\ "bak" # "pre-v4"
  OBVIOUS
<1>2. /\ file[c] = "journal" => AfterWrite(c) = <<"save", "state">>
      /\ file[c] = "pre-v4" => AfterWrite(c) = <<"write", NextBackup>>
      /\ file[c] = "bak" => AfterWrite(c) = <<"write", "state">>
      /\ file[c] = "state" => AfterWrite(c) = IF work[c] = "publish" THEN <<"remove", "journal">>
                                              ELSE <<"free", "state">>
  BY <1>1, Zenon DEF AfterWrite
<1>3. IF AfterWrite(c)[1] = "free" THEN End(c)
      ELSE Goto(c, AfterWrite(c)[1], AfterWrite(c)[2]) /\ UNCHANGED <<lock, work, loaded>>
  BY DEF SyncDirectory
<1> QED BY <1>2, <1>3

\* syncDir, for each file that was renamed.
LEMMA SyncDirectoryKeeps ==
    ASSUME StoreInv, NEW c \in Commands, SyncDirectory(c)
    PROVE  StoreInv'
<1>1. /\ pc[c] = "sync" /\ dir' = dir /\ disk' = Synced /\ first' = first /\ ops' = ops
      /\ acked' = IF file[c] = "journal" THEN ops ELSE acked
      /\ file[c] \in Names /\ pc[c] # "free"
  BY DEF SyncDirectory, At, StoreInv, CommandsTyped
<1>2. /\ Knows(c) /\ Writing(c) /\ ops \in Nat /\ acked \in 0..ops /\ FilesTyped
  BY <1>1, StateContents DEF StoreInv, Writing, CommandsTyped
<1>3. acked' = acked \/ (acked' = ops /\ ops > 0 /\ dir["journal"] = [op |-> ops])
  BY <1>1, <1>2 DEF Knows, KnowsState, KnowsJournal
<1>4. FilesTyped' /\ JournalsInv' /\ OldInv'
  BY <1>1, <1>3, SyncKeepsFiles
<1>5. acked' \in 0..ops
  BY <1>2, <1>3
<1>6. \A n \in Names : disk'[n] = {dir[n]}
  BY <1>1 DEF Synced
<1>7. /\ disk'["journal"] = {dir["journal"]} /\ disk'["state"] = {dir["state"]}
      /\ disk'["bak"] = {dir["bak"]} /\ disk'["pre-v4"] = {dir["pre-v4"]}
  BY <1>6 DEF Names
<1>8. pc \in [Commands -> Labels] /\ file \in [Commands -> Names]
  BY DEF StoreInv, CommandsTyped
<1>9. /\ Valid(dir["state"])' = Valid(dir["state"]) /\ OldFirst' = OldFirst
  BY <1>1 DEF Valid, OldFirst, Old
<1>10. CASE file[c] = "journal"
  <2>1. Goto(c, "save", "state") /\ UNCHANGED <<lock, work, loaded>>
    BY <1>10, SyncLeads
  <2>2. pc'[c] = "save" /\ file'[c] = "state"
    BY <1>8, <2>1 DEF Goto
  <2>3. /\ loaded[c] = dir["state"] /\ Valid(dir["state"]) /\ work[c] = "publish"
        /\ dir["journal"] # Absent
    <3>1. dir["journal"] = [op |-> ops] /\ ops > 0
      BY <1>1, <1>2, <1>10 DEF Knows, KnowsJournal, KnowsState
    <3>2. dir["journal"] # Absent
      BY <3>1, StateContents DEF StoreInv, CommandsTyped
    <3> QED BY <1>1, <1>2, <1>10, <3>2 DEF Knows, KnowsState, Unsaved
  <2>4. Knows(c)'
    BY <1>1, <1>9, <2>1, <2>2, <2>3
    DEF Knows, KnowsState, KnowsJournal, KnowsBackup, KnowsOld, Writing, Unsaved
  <2> QED BY <1>1, <1>4, <1>5, <2>1, <2>4, StepInside DEF Labels, Names
<1>11. CASE file[c] = "pre-v4"
  <2>1. Goto(c, "write", NextBackup) /\ UNCHANGED <<lock, work, loaded>>
    BY <1>11, SyncLeads
  <2>2. /\ pc'[c] = "write" /\ file'[c] = NextBackup
        /\ (Valid(dir["state"]) /\ NextBackup = "bak")
           \/ (~Valid(dir["state"]) /\ NextBackup = "state")
        /\ NextBackup \in {"bak", "state"}
    BY <1>8, <2>1 DEF Goto, NextBackup
  <2>3. /\ loaded[c] = dir["state"] /\ work[c] # "none"
        /\ work[c] = "publish" => Valid(dir["state"]) /\ dir["journal"] # Absent
    BY <1>1, <1>2, <1>11 DEF Knows, KnowsState, KnowsJournal, Unsaved
  <2>4. OldFirst => dir["pre-v4"] = first
    BY <1>1, <1>2, <1>11 DEF Knows, KnowsOld
  <2>5. KnowsState(c)' /\ KnowsJournal(c)'
    BY <1>1, <1>9, <2>1, <2>2, <2>3 DEF KnowsState, KnowsJournal, Writing, Unsaved
  <2>6. KnowsBackup(c)' /\ KnowsOld(c)'
    BY <1>1, <1>7, <1>9, <2>2, <2>4 DEF KnowsBackup, KnowsOld, Writing
  <2>7. Knows(c)'
    BY <2>5, <2>6 DEF Knows
  <2> QED BY <1>1, <1>4, <1>5, <2>1, <2>2, <2>7, StepInside DEF Labels, Names
<1>12. CASE file[c] = "bak"
  <2>1. Goto(c, "write", "state") /\ UNCHANGED <<lock, work, loaded>>
    BY <1>12, SyncLeads
  <2>2. pc'[c] = "write" /\ file'[c] = "state"
    BY <1>8, <2>1 DEF Goto
  <2>3. /\ loaded[c] = dir["state"] /\ work[c] # "none"
        /\ work[c] = "publish" => Valid(dir["state"]) /\ dir["journal"] # Absent
    BY <1>1, <1>2, <1>12 DEF Knows, KnowsState, KnowsJournal, Unsaved
  <2>4. dir["bak"] = dir["state"] /\ (OldFirst => dir["pre-v4"] = first)
    BY <1>1, <1>2, <1>12 DEF Knows, KnowsBackup, KnowsOld
  <2>5. KnowsState(c)' /\ KnowsJournal(c)'
    BY <1>1, <1>7, <1>9, <2>1, <2>2, <2>3 DEF KnowsState, KnowsJournal, Writing, Unsaved
  <2>6. KnowsBackup(c)' /\ KnowsOld(c)'
    BY <1>1, <1>7, <1>9, <2>2, <2>4 DEF KnowsBackup, KnowsOld, Writing
  <2>7. Knows(c)'
    BY <2>5, <2>6 DEF Knows
  <2> QED BY <1>1, <1>4, <1>5, <2>1, <2>7, StepInside DEF Labels, Names
<1>13. CASE file[c] = "state" /\ work[c] = "publish"
  <2>1. Goto(c, "remove", "journal") /\ UNCHANGED <<lock, work, loaded>>
    BY <1>13, SyncLeads
  <2>2. pc'[c] = "remove" /\ file'[c] = "journal"
    BY <1>8, <2>1 DEF Goto
  <2>3. /\ dir["state"] # Absent /\ dir["state"].op = dir["journal"].op
        /\ dir["journal"] # Absent /\ dir["journal"] \in disk["journal"]
    BY <1>1, <1>2, <1>13, FilesShown DEF Knows, KnowsJournal, Names
  <2>4. acked <= dir["state"].op
    BY <2>3 DEF StoreInv, JournalsInv
  <2>5. acked' = acked
    BY <1>1, <1>13
  <2>6. dir["state"].op >= acked
    <3>1. dir["state"].op \in Nat
      BY <1>2, <2>3, FilesShown, StateContents
    <3> QED BY <1>2, <2>4, <3>1
  <2>7. Knows(c)'
    BY <1>1, <1>7, <1>9, <1>13, <2>1, <2>2, <2>3, <2>5, <2>6
    DEF Knows, KnowsState, KnowsJournal, KnowsBackup, KnowsOld, Writing, Unsaved
  <2> QED BY <1>1, <1>4, <1>5, <2>1, <2>7, StepInside DEF Labels, Names
<1>14. CASE file[c] = "state" /\ work[c] # "publish"
  <2>1. End(c) /\ acked' = acked
    BY <1>1, <1>14, SyncLeads
  <2>2. CommandsTyped' /\ OneCommand' /\ \A e \in Commands : Knows(e)'
    BY <1>1, <2>1, EndTyped
  <2> QED BY <1>4, <2>2 DEF StoreInv
<1> QED BY <1>1, <1>10, <1>11, <1>12, <1>13, <1>14 DEF Names

\* RemoveJournal: every state that may come back records the operation.
LEMMA RemoveJournalKeeps ==
    ASSUME StoreInv, NEW c \in Commands, RemoveJournal(c)
    PROVE  StoreInv'
<1>1. /\ pc[c] = "remove" /\ Goto(c, "removed", "journal")
      /\ dir' = [dir EXCEPT !["journal"] = Absent]
      /\ disk' = [disk EXCEPT !["journal"] = @ \cup {Absent}]
      /\ UNCHANGED <<first, lock, work, loaded, ops, acked>>
  BY DEF RemoveJournal, At, OnDisk
<1>2. FilesTyped'
  BY <1>1, RenameTyped DEF Names, Journaled
<1>3. /\ disk'["state"] = disk["state"] /\ disk'["pre-v4"] = disk["pre-v4"]
      /\ disk'["journal"] = disk["journal"] \cup {Absent}
      /\ dir'["state"] = dir["state"]
  BY <1>1 DEF StoreInv, FilesTyped, Names
<1>4. /\ Knows(c) /\ acked \in 0..ops
  BY DEF StoreInv, CommandsTyped
<1>5. \A s \in disk["state"] : s # Absent /\ s.op >= acked
  BY <1>1, <1>4 DEF Knows, KnowsJournal
<1>6. JournalsInv'
  BY <1>1, <1>3, <1>5 DEF StoreInv, JournalsInv
<1>7. OldInv'
  BY <1>1, <1>3 DEF StoreInv, OldInv, OldFirst, Valid, Old
<1>8. pc'[c] = "removed"
  BY <1>1 DEF Goto, StoreInv, CommandsTyped
<1>9. Knows(c)'
  BY <1>1, <1>4, <1>8
  DEF Knows, KnowsState, KnowsJournal, KnowsBackup, KnowsOld, Writing, Unsaved
<1> QED BY <1>1, <1>2, <1>4, <1>6, <1>7, <1>9, StepInside DEF Labels, Names

\* SyncRemoval and Fail end the command.
LEMMA EndingKeeps ==
    ASSUME StoreInv, NEW c \in Commands, SyncRemoval(c) \/ Fail(c)
    PROVE  StoreInv'
<1>1. /\ pc[c] # "free" /\ End(c) /\ UNCHANGED <<first, dir, ops, acked>>
      /\ disk' = disk \/ disk' = Synced
  BY DEF SyncRemoval, Fail, At, fileVars
<1>2. CommandsTyped' /\ OneCommand' /\ \A e \in Commands : Knows(e)'
  BY <1>1, EndTyped
<1>3. CASE disk' = disk
  <2>1. ops' \in Nat /\ ops <= ops'
    BY <1>1, StateContents DEF StoreInv, CommandsTyped
  <2>2. FilesTyped' /\ JournalsInv' /\ OldInv'
    BY <1>1, <1>3, <2>1, FilesLeftAlone DEF fileVars
  <2> QED BY <1>2, <2>2 DEF StoreInv
<1>4. CASE disk' = Synced
  BY <1>1, <1>2, <1>4, SyncKeepsFiles DEF StoreInv
<1> QED BY <1>1, <1>3, <1>4

-----------------------------------------------------------------------------
(* What happens to the files *)

\* LosePower: every file shows one of its contents, each independently.
LEMMA LosePowerKeeps ==
    ASSUME StoreInv, LosePower
    PROVE  StoreInv'
<1>1. /\ dir' \in [Names -> UNION {disk[n] : n \in Names}]
      /\ \A n \in Names : dir'[n] \in disk[n]
      /\ disk' = [n \in Names |-> {dir'[n]}]
      /\ lock' = {} /\ pc' = [c \in Commands |-> "free"]
      /\ file' = [c \in Commands |-> "state"] /\ work' = [c \in Commands |-> "none"]
      /\ loaded' = [c \in Commands |-> Absent]
      /\ UNCHANGED <<first, ops, acked>>
  BY DEF LosePower
<1>2. /\ disk \in [Names -> SUBSET Contents]
      /\ \A n \in {"state", "bak", "pre-v4"} : disk[n] \subseteq Saved
      /\ disk["journal"] \subseteq Journaled
  BY DEF StoreInv, FilesTyped
<1>3. \A n \in Names : disk'[n] = {dir'[n]} /\ disk'[n] \subseteq disk[n]
  BY <1>1
<1>4. FilesTyped'
  <2>1. \A n \in Names : dir'[n] \in Contents
    BY <1>1, <1>2
  <2>2. dir' \in [Names -> Contents] /\ disk' \in [Names -> SUBSET Contents]
    BY <1>1, <2>1
  <2>3. \A n \in {"state", "bak", "pre-v4"} : disk'[n] \subseteq Saved
    BY <1>2, <1>3 DEF Names
  <2>4. disk'["journal"] \subseteq Journaled
    BY <1>2, <1>3 DEF Names
  <2> QED BY <1>1, <1>3, <2>2, <2>3, <2>4 DEF StoreInv, FilesTyped
<1>5. /\ disk'["journal"] \subseteq disk["journal"]
      /\ disk'["state"] \subseteq disk["state"] /\ disk'["state"] = {dir'["state"]}
      /\ disk'["pre-v4"] \subseteq disk["pre-v4"]
  BY <1>3 DEF Names
<1>6. JournalsInv'
  BY <1>1, <1>5 DEF StoreInv, JournalsInv
<1>7. OldInv'
  BY <1>1, <1>5 DEF StoreInv, OldInv, OldFirst, Valid, Old
<1>8. CommandsTyped'
  BY <1>1 DEF StoreInv, CommandsTyped, Labels, Names, Saved
<1>9. OneCommand' /\ \A c \in Commands : Knows(c)'
  BY <1>1, IdleKnows
<1> QED BY <1>4, <1>6, <1>7, <1>8, <1>9 DEF StoreInv

\* Replace, by a state of the same operation or of the last known journaled one.
LEMMA ReplaceKeeps ==
    ASSUME StoreInv, NEW content \in States, Replace(content),
           \/ dir["state"] # Absent /\ content.op = dir["state"].op
           \/ dir["journal"] = Absent /\ content.op = acked,
           OldFirst => disk["pre-v4"] = {first} \/ content = first
    PROVE  StoreInv'
<1>1. /\ lock = {}
      /\ dir' = [dir EXCEPT !["state"] = content]
      /\ disk' = [disk EXCEPT !["state"] = {content}]
      /\ UNCHANGED <<first, lock, pc, file, work, loaded, ops, acked>>
  BY DEF Replace, runVars
<1>2. /\ dir \in [Names -> Contents] /\ disk \in [Names -> SUBSET Contents]
      /\ content \in Saved /\ content \in Contents /\ content # Absent /\ content.op \in Nat
      /\ dir["state"] \in Saved /\ dir["state"] \in disk["state"]
      /\ dir["journal"] \in disk["journal"] /\ acked \in Nat /\ ops \in Nat /\ acked <= ops
      /\ disk["journal"] \subseteq Journaled
  BY FilesShown, StateContents DEF StoreInv, FilesTyped, CommandsTyped, Saved, Contents, Names
<1>3. /\ disk'["state"] = {content} /\ dir'["state"] = content
      /\ disk'["journal"] = disk["journal"] /\ disk'["pre-v4"] = disk["pre-v4"]
      /\ disk'["bak"] = disk["bak"]
      /\ \A n \in Names : n # "state" => disk'[n] = disk[n] /\ dir'[n] = dir[n]
  BY <1>1, <1>2 DEF Names
<1>4. FilesTyped'
  <2>1. dir' \in [Names -> Contents] /\ disk' \in [Names -> SUBSET Contents]
    BY <1>1, <1>2
  <2>2. \A n \in Names : dir'[n] \in disk'[n]
    BY <1>3 DEF StoreInv, FilesTyped
  <2> QED BY <1>1, <1>2, <1>3, <2>1, <2>2 DEF StoreInv, FilesTyped
<1>5. JournalsInv'
  <2>1. JournalsInv
    BY DEF StoreInv
  <2>2. content.op <= ops
    <3>1. CASE dir["state"] # Absent /\ content.op = dir["state"].op
      BY <1>2, <2>1, <3>1 DEF JournalsInv
    <3>2. CASE content.op = acked
      BY <1>2, <3>2
    <3> QED BY <3>1, <3>2
  <2>3. ASSUME NEW j \in disk["journal"] \ {Absent} PROVE content.op <= j.op
    <3>1. CASE dir["state"] # Absent /\ content.op = dir["state"].op
      BY <1>2, <2>1, <3>1 DEF JournalsInv
    <3>2. CASE content.op = acked
      BY <1>2, <2>1, <3>2 DEF JournalsInv
    <3> QED BY <3>1, <3>2
  <2>4. ASSUME Absent \in disk["journal"], acked > 0 PROVE content.op >= acked
    <3>1. CASE dir["state"] # Absent /\ content.op = dir["state"].op
      BY <1>2, <2>1, <2>4, <3>1 DEF JournalsInv
    <3>2. CASE content.op = acked
      BY <1>2, <3>2
    <3> QED BY <3>1, <3>2
  <2>5. /\ \A j \in disk'["journal"] \ {Absent} :
              /\ acked' <= j.op /\ j.op <= ops'
              /\ \A s \in disk'["state"] \ {Absent} : s.op <= j.op
        /\ \A s \in disk'["state"] \ {Absent} : s.op <= ops'
        /\ Absent \in disk'["journal"] /\ acked' > 0 =>
              \A s \in disk'["state"] : s # Absent /\ s.op >= acked'
    BY <1>1, <1>2, <1>3, <2>1, <2>2, <2>3, <2>4 DEF JournalsInv
  <2> QED BY <2>5 DEF JournalsInv
<1>6. OldInv'
  <2> SUFFICES ASSUME OldFirst
               PROVE  /\ disk["pre-v4"] \subseteq {Absent, first}
                      /\ Absent \in disk["pre-v4"] => content = first
    BY <1>1, <1>3 DEF OldInv, OldFirst, Valid, Old
  <2>1. disk["pre-v4"] \subseteq {Absent, first} /\ first # Absent
    BY OldFirstShape DEF StoreInv, OldInv
  <2> QED BY <2>1
<1>7. CommandsTyped' /\ OneCommand'
  BY <1>1 DEF StoreInv, CommandsTyped, OneCommand
<1>8. \A c \in Commands : Knows(c)'
  <2>1. \A c \in Commands : pc'[c] = "free"
    BY <1>1 DEF StoreInv, OneCommand
  <2> QED BY <1>1, <2>1, IdleKnows
<1> QED BY <1>4, <1>5, <1>6, <1>7, <1>8 DEF StoreInv

\* Damage: the state is of the current format, so its backup is sure.
LEMMA DamageKeeps ==
    ASSUME StoreInv, Damage
    PROVE  StoreInv'
<1>1. /\ Valid(dir["state"]) /\ ~Old(dir["state"])
      /\ Replace([dir["state"] EXCEPT !.valid = FALSE])
  BY DEF Damage
<1>2. PICK content : content = [dir["state"] EXCEPT !.valid = FALSE]
  OBVIOUS
<1>3. /\ content \in States /\ content.op = dir["state"].op /\ dir["state"] # Absent
      /\ Replace(content)
  BY <1>1, <1>2, StateContents DEF Valid, States
<1>4. OldFirst => disk["pre-v4"] = {first}
  <2> SUFFICES ASSUME OldFirst PROVE disk["pre-v4"] = {first}
    OBVIOUS
  <2>1. dir["state"] # first
    BY <1>1 DEF OldFirst
  <2>2. /\ dir["state"] \in disk["state"] /\ dir["pre-v4"] \in disk["pre-v4"]
        /\ disk["pre-v4"] \subseteq {Absent, first}
        /\ Absent \in disk["pre-v4"] => disk["state"] = {first}
    BY FilesShown DEF StoreInv, OldInv, Names
  <2> QED BY <2>1, <2>2
<1> QED BY <1>3, <1>4, ReplaceKeeps

\* RollBack: before the backup is sure there is nothing to go back from.
LEMMA RollBackKeeps ==
    ASSUME StoreInv, RollBack
    PROVE  StoreInv'
<1>1. PICK content :
        /\ content = [version |-> OldVersion, valid |-> TRUE, op |-> acked]
        /\ dir["journal"] = Absent /\ Replace(content)
  BY DEF RollBack
<1>2. content \in States /\ content.op = acked /\ acked \in 0..ops
  <2>1. acked \in 0..ops /\ ops \in 0..MaxOps /\ MaxOps \in Nat
    BY StateContents DEF StoreInv, CommandsTyped
  <2>2. acked \in 0..MaxOps
    BY <2>1
  <2> QED BY <1>1, <2>1, <2>2 DEF States
<1>3. OldFirst => disk["pre-v4"] = {first} \/ content = first
  <2> SUFFICES ASSUME OldFirst, disk["pre-v4"] # {first} PROVE content = first
    OBVIOUS
  <2>1. /\ dir["pre-v4"] \in disk["pre-v4"] /\ disk["pre-v4"] \subseteq {Absent, first}
        /\ Absent \in disk["pre-v4"] => disk["state"] = {first}
        /\ Absent \in disk["journal"]
    BY <1>1, FilesShown DEF StoreInv, OldInv, Names
  <2>2. disk["state"] = {first} /\ first.op = 0
    BY <2>1, OldFirstShape DEF StoreInv
  <2>3. acked > 0 => first.op >= acked
    BY <2>1, <2>2 DEF StoreInv, JournalsInv
  <2>4. acked = 0
    <3>1. acked \in Nat
      BY StateContents DEF StoreInv, CommandsTyped
    <3> QED BY <2>2, <2>3, <3>1
  <2> QED BY <1>1, <2>4, OldFirstShape DEF StoreInv
<1> QED BY <1>1, <1>2, <1>3, ReplaceKeeps

-----------------------------------------------------------------------------
(* The theorems about the state files *)

LEMMA InitStoreInv == Init => StoreInv
<1> SUFFICES ASSUME Init PROVE StoreInv
  OBVIOUS
<1>1. /\ first \in Saved /\ (first # Absent => first.op = 0)
      /\ \A n \in Names : disk[n] = {dir[n]}
      /\ dir["state"] = first /\ dir["journal"] = Absent /\ dir["pre-v4"] = Absent
      /\ dir["bak"] = Absent
      /\ dir = [n \in Names |-> IF n = "state" THEN first ELSE Absent]
      /\ disk = [n \in Names |-> {dir[n]}]
      /\ ops = 0 /\ acked = 0 /\ MaxOps \in Nat
  BY StateContents DEF Init, Saved, Names
<1>2. FilesTyped
  <2>1. \A n \in Names : dir[n] \in Contents
    BY <1>1 DEF Contents, Saved
  <2>2. dir \in [Names -> Contents] /\ disk \in [Names -> SUBSET Contents]
    BY <1>1, <2>1
  <2>3. Absent \in Saved /\ Absent \in Journaled
    BY DEF Saved, Journaled
  <2> QED BY <1>1, <2>2, <2>3 DEF FilesTyped, Names
<1>3. CommandsTyped /\ OneCommand
  BY <1>1 DEF Init, CommandsTyped, OneCommand, Labels, Names, Saved
<1>4. JournalsInv
  <2>1. disk["journal"] = {Absent} /\ disk["state"] = {first}
    BY <1>1 DEF Names
  <2> QED BY <1>1, <2>1 DEF JournalsInv
<1>5. OldInv
  <2>1. disk["pre-v4"] = {Absent} /\ disk["state"] = {first}
    BY <1>1 DEF Names
  <2> QED BY <2>1 DEF OldInv
<1>6. \A c \in Commands : Knows(c)
  BY FreeKnows DEF Init
<1> QED BY <1>2, <1>3, <1>4, <1>5, <1>6 DEF StoreInv

LEMMA RenameKeeps ==
    ASSUME StoreInv, NEW c \in Commands, Rename(c)
    PROVE  StoreInv'
<1>1. file[c] \in {"journal", "state", "bak", "pre-v4"}
  BY DEF StoreInv, CommandsTyped, Names
<1> QED BY <1>1, RenameJournalKeeps, RenameStateKeeps, RenameBackupKeeps

LEMMA NextStoreInv ==
    ASSUME StoreInv, [Next]_vars
    PROVE  StoreInv'
<1>1. CASE UNCHANGED vars
  <2>1. /\ FilesTyped' /\ CommandsTyped' /\ OneCommand' /\ JournalsInv' /\ OldInv'
    BY <1>1 DEF vars, fileVars, runVars, StoreInv, FilesTyped, CommandsTyped, OneCommand,
       JournalsInv, OldInv, OldFirst, Valid, Old
  <2>2. ASSUME NEW c \in Commands PROVE Knows(c)'
    <3>1. Knows(c)
      BY DEF StoreInv
    <3> QED BY <1>1, <3>1 DEF vars, fileVars, runVars, Knows, KnowsState, KnowsJournal,
            KnowsBackup, KnowsOld, Writing, Unsaved, OldFirst, Valid, Old
  <2> QED BY <2>1, <2>2 DEF StoreInv
<1>2. CASE Next
  BY <1>2, AcquireKeeps, LoadForPublishKeeps, LoadForSaveKeeps, SaveCmdKeeps,
     WriteTemporaryKeeps, RenameKeeps, SyncDirectoryKeeps, RemoveJournalKeeps, EndingKeeps,
     LosePowerKeeps, DamageKeeps, RollBackKeeps DEF Next
<1> QED BY <1>1, <1>2

\* What the files can show, and what the command at work knows of them.
THEOREM StoreInvHolds == Spec => []StoreInv
<1>1. StoreInv /\ [Next]_vars => StoreInv'
  BY NextStoreInv
<1> QED BY InitStoreInv, <1>1, PTL DEF Spec

\* Once an operation is journaled, no loss of power leaves neither its journal
\* nor a state that records it; and the backup of the old format is not lost
\* (Store.Save and atomicWrite, internal/state/store.go).
THEOREM StateFilesKeptHolds == Spec => []StateFilesKept
<1>1. ASSUME StoreInv PROVE StateFilesKept
  <2>1. JournalOrState
    <3> SUFFICES ASSUME acked > 0, NEW j \in disk["journal"], NEW s \in disk["state"]
                 PROVE  (j # Absent /\ j.op >= acked) \/ (s # Absent /\ s.op >= acked)
      BY DEF JournalOrState
    <3>1. CASE j = Absent
      BY <1>1, <3>1 DEF StoreInv, JournalsInv
    <3>2. CASE j # Absent
      <4>1. acked <= j.op /\ j.op \in Nat /\ acked \in Nat
        BY <1>1, <3>2, StateContents DEF StoreInv, JournalsInv, FilesTyped, CommandsTyped
      <4> QED BY <3>2, <4>1
    <3> QED BY <3>1, <3>2
  <2>2. OldFormatKept
    <3> SUFFICES ASSUME OldFirst, NEW s \in disk["state"], s.version = CurrentVersion
                 PROVE  disk["pre-v4"] = {first}
      BY DEF OldFormatKept, OldFirst
    <3>1. s # first
      BY <1>1, OldFirstShape DEF StoreInv, OldVersion, CurrentVersion
    <3>2. /\ dir["pre-v4"] \in disk["pre-v4"] /\ disk["pre-v4"] \subseteq {Absent, first}
          /\ Absent \in disk["pre-v4"] => disk["state"] = {first}
      BY <1>1, FilesShown DEF StoreInv, OldInv, Names
    <3> QED BY <3>1, <3>2
  <2> QED BY <2>1, <2>2 DEF StateFilesKept
<1> QED BY <1>1, StoreInvHolds, PTL

\* One step replaces the state file only by a later state, over a sure backup.
LEMMA StepReplacesTheLatest ==
    ASSUME StoreInv, [Next]_vars, ~LosePower, ~Damage, ~RollBack,
           dir'["state"] # dir["state"]
    PROVE  /\ Valid(dir["state"]) => disk["bak"] = {dir["state"]}
           /\ {dir["state"], dir'["state"]} \subseteq States =>
                 dir'["state"].op >= dir["state"].op
<1>1. \A c \in Commands : RemoveJournal(c) => dir'["state"] = dir["state"]
  BY DEF RemoveJournal, StoreInv, FilesTyped, Names
<1>2. PICK c \in Commands : Rename(c)
  BY <1>1 DEF Next, vars, fileVars, Acquire, LoadForPublish, LoadForSave, Load, Save,
     WriteTemporary, SyncDirectory, SyncRemoval, Fail
<1>3. /\ file[c] = "state" /\ pc[c] = "rename"
      /\ \E content \in Written(c) : dir'["state"] = content
  BY <1>2, RenameChanges DEF Names
<1>4. PICK new \in NewStates(c) : dir'["state"] = new
  BY <1>3, WrittenContents
<1>5. /\ dir["state"] # Absent => dir["state"].op <= new.op
      /\ new.op \in Nat
  BY <1>3, NewStateFollows
<1>6. dir["state"] \in States => dir["state"] # Absent /\ dir["state"].op \in Nat
  BY StateContents
<1>7. Valid(dir["state"]) => disk["bak"] = {dir["state"]}
  BY <1>3 DEF StoreInv, Knows, KnowsBackup
<1> QED BY <1>4, <1>5, <1>6, <1>7

\* Only the bounded disasters change their counters.
LEMMA DisastersCount ==
    ASSUME outages \in Nat, damages \in Nat, outages' = outages, damages' = damages
    PROVE  ~LosePower /\ ~Damage /\ ~RollBack
BY DEF LosePower, Damage, RollBack, Replace

CountersTyped == outages \in Nat /\ damages \in Nat

LEMMA CountersHold == Spec => []CountersTyped
<1>1. Init => CountersTyped
  BY DEF Init, CountersTyped
<1>2. CountersTyped /\ [Next]_vars => CountersTyped'
  BY DEF CountersTyped, Next, vars, countVars, Acquire, LoadForPublish, LoadForSave, Save,
     WriteTemporary, Rename, SyncDirectory, RemoveJournal, SyncRemoval, Fail, LosePower,
     Damage, RollBack, Replace
<1> QED BY <1>1, <1>2, PTL DEF Spec

\* A save replaces a valid state only when the backup is that state, for good,
\* and never with one a command has made from an older state (Store.Save).
THEOREM SavesReplaceTheLatestHolds == Spec => SavesReplaceTheLatest
<1>1. StoreInv /\ CountersTyped /\ [Next]_vars =>
        [outages' = outages /\ damages' = damages /\ dir'["state"] # dir["state"] =>
           /\ Valid(dir["state"]) => disk["bak"] = {dir["state"]}
           /\ {dir["state"], dir'["state"]} \subseteq States =>
                 dir'["state"].op >= dir["state"].op]_vars
  BY DisastersCount, StepReplacesTheLatest DEF CountersTyped
<1> QED BY StoreInvHolds, CountersHold, <1>1, PTL DEF Spec, SavesReplaceTheLatest

-----------------------------------------------------------------------------
(* SnapshotStore: the inductive invariant *)

Entries == Directories \cup {NoSnapshot}
PublisherSteps ==
    {"idle", "parents", "write", "rename", "sync", "captured", "manifest", "syncManifest",
     "sealed"}

SnapTyped ==
    /\ target \in {{}, {"there"}}
    /\ gens \in [Generations -> Entries] /\ gensDisk \in [Generations -> SUBSET Entries]
    /\ \A g \in Generations : gens[g] \in gensDisk[g]
    /\ returned \in [Generations -> Manifests \cup {NoSnapshot}]
    /\ referenced \in [Generations -> Manifests \cup {NoSnapshot}]
    /\ step \in PublisherSteps /\ snapDamages \in Nat

\* SnapshotsKept, of one generation.
KeptAt(g) ==
    /\ \A d \in gensDisk[g] \ {NoSnapshot} :
          /\ d.files = d.manifest.text
          /\ returned[g] # NoSnapshot =>
                /\ d.manifest.text = returned[g].text
                /\ returned[g].status = "sealed" => d.manifest.status = "sealed"
    /\ returned[g] # NoSnapshot => NoSnapshot \notin gensDisk[g]

AllKept == snapDamages = 0 => \A g \in Generations : KeptAt(g)

\* What the publisher has found and made at each of its steps.
PublisherInv ==
    /\ target = {} => \A g \in Generations : returned[g] = NoSnapshot
    /\ step \in {"write", "rename", "sync"} => target = {"there"}
    /\ step # "idle" => gen \in Generations /\ referenced[gen] = NoSnapshot
    /\ step \in {"parents", "write", "rename"} => made \in Texts
    /\ step \in {"parents", "write", "rename", "sync"} /\ snapDamages = 0 =>
          returned[gen] = NoSnapshot
    /\ step \in {"sync", "manifest", "syncManifest", "sealed"} =>
          gens[gen] \in Directories /\ gens[gen].manifest \in Manifests

\* The reference a reader has got is still the one of the state.
LoadUnderWay ==
    reader.step = "files" =>
        /\ reader.gen \in Generations
        /\ reader.reference = referenced[reader.gen] /\ reader.reference # NoSnapshot

SnapInv == SnapTyped /\ AllKept /\ PublisherInv /\ LoadUnderWay

-----------------------------------------------------------------------------
(* Lemmas about Load *)

\* What directories and manifests are.
LEMMA Shapes ==
    /\ NoSnapshot \notin Directories /\ NoSnapshot \notin Manifests
    /\ \A d \in Directories : d.manifest \in Manifests \cup {BadFile} /\ d.manifest # NoSnapshot
    /\ \A m \in Manifests : m.text \in Texts /\ m.status \in {"candidate", "sealed"}
    /\ \A m \in Manifests, f \in Texts \cup {BadFile} :
          [manifest |-> m, files |-> f] \in Directories
    /\ \A x \in Texts : [text |-> x, status |-> "candidate"] \in Manifests
BY NoFilesOK DEF Directories, Manifests

\* What the two reads of the publisher tell of a generation.
LEMMA PublisherLoads ==
    ASSUME SnapTyped, NEW g \in Generations
    PROVE  /\ Loaded(g).error = "none" => gens[g] \in Directories /\ gens[g].manifest \in Manifests
           /\ Loaded(g).error = "not found" => gens[g] = NoSnapshot
<1>1. /\ Loaded(g).error = "none" => ManifestOf(g) \in Manifests
      /\ Loaded(g).error = "not found" => ManifestOf(g) = NoSnapshot
  <2>1. ASSUME NEW m, NEW f
        PROVE  /\ LoadAnswer(m, f, FALSE).error = "not found" => m = NoSnapshot
               /\ LoadAnswer(m, f, FALSE).error = "none" => m \in Manifests
    BY DEF LoadAnswer, Verified
  <2> QED BY <2>1 DEF Loaded
<1>2. gens[g] \in Directories \cup {NoSnapshot}
  BY DEF SnapTyped, Entries
<1> QED BY <1>1, <1>2, Shapes DEF ManifestOf

-----------------------------------------------------------------------------
(* The steps of a snapshot *)

\* A step that changes no directory and nothing that was returned.
LEMMA DirectoriesSame ==
    ASSUME SnapInv, UNCHANGED <<gens, gensDisk, returned, snapDamages>>,
           target' \in {target, {"there"}},
           referenced' \in [Generations -> Manifests \cup {NoSnapshot}],
           step' \in PublisherSteps
    PROVE  SnapTyped' /\ AllKept' /\ (target' = {} => target = {})
<1>1. SnapTyped'
  BY DEF SnapInv, SnapTyped
<1>2. AllKept'
  BY DEF SnapInv, AllKept, KeptAt
<1> QED BY <1>1, <1>2

LEMMA ReaderKeeps ==
    ASSUME SnapInv, FinishLoad \/ \E g \in Generations : StartLoad(g)
    PROVE  SnapInv'
<1>1. UNCHANGED <<dirVars, publisherVars, snapCounts>>
  BY DEF FinishLoad, StartLoad
<1>2. SnapTyped' /\ AllKept' /\ PublisherInv'
  BY <1>1 DEF SnapInv, SnapTyped, AllKept, KeptAt, PublisherInv, dirVars, publisherVars,
     snapCounts
<1>3. LoadUnderWay'
  <2>1. CASE FinishLoad
    BY <2>1 DEF FinishLoad, LoadUnderWay, IdleReader
  <2>2. ASSUME NEW g \in Generations, StartLoad(g) PROVE LoadUnderWay'
    BY <1>1, <2>2 DEF StartLoad, LoadUnderWay, publisherVars
  <2> QED BY <2>1, <2>2
<1> QED BY <1>2, <1>3 DEF SnapInv

\* Capture: a generation that is not found was never returned.
LEMMA CaptureKeeps ==
    ASSUME SnapInv, NEW g \in Generations, NEW text \in Texts, Capture(g, text)
    PROVE  SnapInv'
<1>1. /\ UNCHANGED <<target, gens, gensDisk, returned, referenced, reader, snapDamages>>
      /\ gen' = g /\ referenced[g] = NoSnapshot
      /\ \/ step' = "captured"
         \/ Loaded(g).error = "not found" /\ step' = "parents" /\ made' = text
  BY DEF Capture, dirVars, readerVars, snapCounts
<1>2. SnapTyped' /\ AllKept'
  BY <1>1, DirectoriesSame DEF SnapInv, SnapTyped, PublisherSteps
<1>3. step' = "parents" /\ snapDamages = 0 => returned[g] = NoSnapshot
  <2> SUFFICES ASSUME step' = "parents", snapDamages = 0 PROVE returned[g] = NoSnapshot
    OBVIOUS
  <2>1. gens[g] = NoSnapshot
    BY <1>1, PublisherLoads DEF SnapInv
  <2> QED BY <2>1 DEF SnapInv, SnapTyped, AllKept, KeptAt
<1>4. PublisherInv'
  BY <1>1, <1>3 DEF SnapInv, PublisherInv
<1>5. LoadUnderWay'
  BY <1>1 DEF SnapInv, LoadUnderWay
<1> QED BY <1>2, <1>4, <1>5 DEF SnapInv

LEMMA MakeParentsKeeps ==
    ASSUME SnapInv, MakeParents
    PROVE  SnapInv'
<1>1. /\ UNCHANGED <<gens, gensDisk, gen, made, returned, referenced, reader, snapDamages>>
      /\ step = "parents" /\ step' = "write" /\ target' = {"there"}
  BY DEF MakeParents, GotoStep, readerVars, snapCounts
<1>2. SnapTyped' /\ AllKept'
  BY <1>1, DirectoriesSame DEF SnapInv, SnapTyped, PublisherSteps
<1>3. PublisherInv' /\ LoadUnderWay'
  BY <1>1 DEF SnapInv, PublisherInv, LoadUnderWay
<1> QED BY <1>2, <1>3 DEF SnapInv

LEMMA WriteFilesKeeps ==
    ASSUME SnapInv, WriteFiles
    PROVE  SnapInv'
<1>1. /\ UNCHANGED <<target, gens, gensDisk, gen, made, returned, referenced, reader,
                     snapDamages>>
      /\ step = "write" /\ step' = "rename"
  BY DEF WriteFiles, GotoStep, readerVars, snapCounts
<1>2. SnapTyped' /\ AllKept'
  BY <1>1, DirectoriesSame DEF SnapInv, SnapTyped, PublisherSteps
<1>3. PublisherInv' /\ LoadUnderWay'
  BY <1>1 DEF SnapInv, PublisherInv, LoadUnderWay
<1> QED BY <1>2, <1>3 DEF SnapInv

\* Show: a directory that agrees with what was returned may be shown.
LEMMA ShowKeeps ==
    ASSUME SnapInv, gen \in Generations, NEW d \in Directories, Show(gen, d),
           UNCHANGED <<target, returned, referenced, snapDamages>>, step' \in PublisherSteps,
           snapDamages = 0 =>
              /\ d.files = d.manifest.text
              /\ returned[gen] # NoSnapshot =>
                    d.manifest.text = returned[gen].text /\ d.manifest.status = "sealed"
    PROVE  SnapTyped' /\ AllKept' /\ gens'[gen] = d
<1>1. /\ gens \in [Generations -> Entries] /\ gensDisk \in [Generations -> SUBSET Entries]
      /\ gens' = [gens EXCEPT ![gen] = d]
      /\ gensDisk' = [gensDisk EXCEPT ![gen] = gensDisk[gen] \cup {d}]
      /\ d \in Entries /\ d # NoSnapshot
  BY Shapes DEF Show, RenamedOnDisk, SnapInv, SnapTyped, Entries
<1>2. /\ gens' \in [Generations -> Entries] /\ gensDisk' \in [Generations -> SUBSET Entries]
      /\ gens'[gen] = d /\ gensDisk'[gen] = gensDisk[gen] \cup {d}
      /\ \A g \in Generations : g # gen => gens'[g] = gens[g] /\ gensDisk'[g] = gensDisk[g]
  BY <1>1
<1>3. \A g \in Generations : gens'[g] \in gensDisk'[g]
  BY <1>2 DEF SnapInv, SnapTyped
<1>4. SnapTyped'
  BY <1>2, <1>3 DEF SnapInv, SnapTyped
<1>5. AllKept'
  <2> SUFFICES ASSUME snapDamages = 0, NEW g \in Generations PROVE KeptAt(g)'
    BY DEF AllKept
  <2>1. KeptAt(g)
    BY DEF SnapInv, AllKept
  <2>2. CASE g # gen
    BY <1>2, <2>1, <2>2 DEF KeptAt
  <2>3. CASE g = gen
    BY <1>1, <1>2, <2>1, <2>3 DEF KeptAt
  <2> QED BY <2>2, <2>3
<1> QED BY <1>2, <1>4, <1>5

LEMMA RenameCandidateKeeps ==
    ASSUME SnapInv, RenameCandidate
    PROVE  SnapInv'
<1>1. PICK d : /\ d = [manifest |-> [text |-> made, status |-> "candidate"], files |-> made]
               /\ Show(gen, d)
  BY DEF RenameCandidate
<1>2. /\ UNCHANGED <<target, gen, made, returned, referenced, reader, snapDamages>>
      /\ step = "rename" /\ step' = "sync"
  BY DEF RenameCandidate, GotoStep, readerVars, snapCounts
<1>3. /\ made \in Texts /\ gen \in Generations /\ referenced[gen] = NoSnapshot
      /\ target = {"there"} /\ (snapDamages = 0 => returned[gen] = NoSnapshot)
  BY <1>2 DEF SnapInv, PublisherInv
<1>4. /\ d \in Directories /\ d.files = d.manifest.text /\ d.manifest \in Manifests
  BY <1>1, <1>3, Shapes
<1>5. SnapTyped' /\ AllKept' /\ gens'[gen] = d
  BY <1>1, <1>2, <1>3, <1>4, ShowKeeps DEF PublisherSteps
<1>6. PublisherInv'
  BY <1>2, <1>3, <1>4, <1>5 DEF SnapInv, PublisherInv
<1>7. LoadUnderWay'
  BY <1>2 DEF SnapInv, LoadUnderWay
<1> QED BY <1>5, <1>6, <1>7 DEF SnapInv

\* SyncCandidate: only the directory that was renamed can come back.
LEMMA SyncCandidateKeeps ==
    ASSUME SnapInv, SyncCandidate
    PROVE  SnapInv'
<1> DEFINE synced == {d \in gensDisk[gen] : d # NoSnapshot /\ d.manifest = gens[gen].manifest}
<1>1. /\ UNCHANGED <<target, gens, gen, made, referenced, reader, snapDamages>>
      /\ step = "sync" /\ step' = "captured"
      /\ gensDisk' = [gensDisk EXCEPT ![gen] = synced]
      /\ returned' = [returned EXCEPT ![gen] = gens[gen].manifest]
  BY DEF SyncCandidate, SyncedEntry, readerVars, snapCounts
<1>2. /\ gen \in Generations /\ referenced[gen] = NoSnapshot /\ target = {"there"}
      /\ gens[gen] \in Directories /\ gens[gen].manifest \in Manifests
      /\ gens[gen] \in gensDisk[gen] /\ gens[gen] # NoSnapshot
      /\ gensDisk \in [Generations -> SUBSET Entries]
      /\ returned \in [Generations -> Manifests \cup {NoSnapshot}]
  BY <1>1, Shapes DEF SnapInv, PublisherInv, SnapTyped
<1>3. synced \subseteq gensDisk[gen] /\ gens[gen] \in synced /\ NoSnapshot \notin synced
      /\ \A d \in synced : d.manifest = gens[gen].manifest
  BY <1>2
<1> HIDE DEF synced
<1>4. /\ gensDisk' \in [Generations -> SUBSET Entries] /\ gensDisk'[gen] = synced
      /\ \A g \in Generations : g # gen => gensDisk'[g] = gensDisk[g] /\ returned'[g] = returned[g]
      /\ returned' \in [Generations -> Manifests \cup {NoSnapshot}]
      /\ returned'[gen] = gens[gen].manifest
  BY <1>1, <1>2, <1>3
<1>5. SnapTyped'
  <2>1. \A g \in Generations : gens'[g] \in gensDisk'[g]
    BY <1>1, <1>3, <1>4 DEF SnapInv, SnapTyped
  <2> QED BY <1>1, <1>4, <2>1 DEF SnapInv, SnapTyped, PublisherSteps
<1>6. AllKept'
  <2> SUFFICES ASSUME snapDamages = 0, NEW g \in Generations PROVE KeptAt(g)'
    BY <1>1 DEF AllKept
  <2>1. KeptAt(g) /\ KeptAt(gen)
    BY <1>2 DEF SnapInv, AllKept
  <2>2. CASE g # gen
    BY <1>4, <2>1, <2>2 DEF KeptAt
  <2>3. CASE g = gen
    BY <1>3, <1>4, <2>1, <2>3 DEF KeptAt
  <2> QED BY <2>2, <2>3
<1>7. PublisherInv'
  BY <1>1, <1>2 DEF PublisherInv
<1>8. LoadUnderWay'
  BY <1>1 DEF SnapInv, LoadUnderWay
<1> QED BY <1>5, <1>6, <1>7, <1>8 DEF SnapInv

LEMMA SealLoadKeeps ==
    ASSUME SnapInv, SealLoad
    PROVE  SnapInv'
<1>1. /\ UNCHANGED <<target, gens, gensDisk, reader, snapDamages>> /\ step = "captured"
      /\ gen \in Generations /\ referenced[gen] = NoSnapshot
  BY DEF SealLoad, dirVars, readerVars, snapCounts, SnapInv, PublisherInv
<1>2. \/ GotoStep("idle")
      \/ Loaded(gen).error = "none" /\ GotoStep("sealed")
      \/ Loaded(gen).error = "none" /\ GotoStep("manifest")
  <2>1. LET found == Loaded(gen) IN
        CASE found.error # "none" -> GotoStep("idle")
          [] found.error = "none" /\ found.status = "sealed" -> GotoStep("sealed")
          [] OTHER -> GotoStep("manifest")
    BY DEF SealLoad
  <2> QED BY <2>1, Zenon
<1>3. /\ UNCHANGED <<gen, made, returned, referenced>>
      /\ step' \in {"idle", "sealed", "manifest"}
      /\ step' # "idle" => Loaded(gen).error = "none"
  BY <1>2 DEF GotoStep
<1>4. SnapTyped' /\ AllKept'
  BY <1>1, <1>3, DirectoriesSame DEF SnapInv, SnapTyped, PublisherSteps
<1>5. step' # "idle" => gens[gen] \in Directories /\ gens[gen].manifest \in Manifests
  BY <1>1, <1>3, PublisherLoads DEF SnapInv
<1>6. PublisherInv'
  BY <1>1, <1>3, <1>5 DEF SnapInv, PublisherInv
<1>7. LoadUnderWay'
  BY <1>1, <1>3 DEF SnapInv, LoadUnderWay
<1> QED BY <1>4, <1>6, <1>7 DEF SnapInv

\* SealRename: the candidate that was returned, sealed.
LEMMA SealRenameKeeps ==
    ASSUME SnapInv, SealRename
    PROVE  SnapInv'
<1>1. PICK d : /\ d = [gens[gen] EXCEPT !.manifest.status = "sealed"]
               /\ Show(gen, d)
  BY DEF SealRename
<1>2. /\ UNCHANGED <<target, gen, made, returned, referenced, reader, snapDamages>>
      /\ step = "manifest" /\ step' = "syncManifest"
  BY DEF SealRename, GotoStep, readerVars, snapCounts
<1>3. /\ gen \in Generations /\ referenced[gen] = NoSnapshot
      /\ gens[gen] \in Directories /\ gens[gen].manifest \in Manifests
      /\ gens[gen] \in gensDisk[gen] /\ gens[gen] # NoSnapshot
  BY <1>2, Shapes DEF SnapInv, PublisherInv, SnapTyped
<1>4. /\ d \in Directories /\ d.manifest \in Manifests /\ d.manifest.status = "sealed"
      /\ d.files = gens[gen].files /\ d.manifest.text = gens[gen].manifest.text
  BY <1>1, <1>3 DEF Directories, Manifests
<1>5. snapDamages = 0 =>
        /\ d.files = d.manifest.text
        /\ returned[gen] # NoSnapshot =>
              d.manifest.text = returned[gen].text /\ d.manifest.status = "sealed"
  BY <1>3, <1>4 DEF SnapInv, AllKept, KeptAt
<1>6. SnapTyped' /\ AllKept' /\ gens'[gen] = d
  BY <1>1, <1>2, <1>3, <1>4, <1>5, ShowKeeps DEF PublisherSteps
<1>7. PublisherInv'
  BY <1>2, <1>3, <1>4, <1>6 DEF SnapInv, PublisherInv
<1>8. LoadUnderWay'
  BY <1>2 DEF SnapInv, LoadUnderWay
<1> QED BY <1>6, <1>7, <1>8 DEF SnapInv

\* SealSync: the generation is sealed for good, if its directory is there.
LEMMA SealSyncKeeps ==
    ASSUME SnapInv, SealSync
    PROVE  SnapInv'
<1> DEFINE synced == (gensDisk[gen] \cap {NoSnapshot}) \cup {gens[gen]}
<1>1. /\ UNCHANGED <<target, gens, gen, made, referenced, reader, snapDamages>>
      /\ step = "syncManifest" /\ step' = "sealed"
      /\ gensDisk' = [gensDisk EXCEPT ![gen] = synced]
      /\ returned' = [returned EXCEPT ![gen] = IF returned[gen] = NoSnapshot THEN returned[gen]
                                               ELSE gens[gen].manifest]
  BY DEF SealSync, readerVars, snapCounts
<1>2. /\ gen \in Generations /\ referenced[gen] = NoSnapshot
      /\ gens[gen] \in Directories /\ gens[gen].manifest \in Manifests
      /\ gens[gen] \in gensDisk[gen] /\ gens[gen] # NoSnapshot
      /\ gensDisk \in [Generations -> SUBSET Entries]
      /\ returned \in [Generations -> Manifests \cup {NoSnapshot}]
  BY <1>1, Shapes DEF SnapInv, PublisherInv, SnapTyped
<1>3. /\ gensDisk' \in [Generations -> SUBSET Entries] /\ gensDisk'[gen] = synced
      /\ \A g \in Generations : g # gen => gensDisk'[g] = gensDisk[g] /\ returned'[g] = returned[g]
      /\ returned' \in [Generations -> Manifests \cup {NoSnapshot}]
      /\ returned[gen] = NoSnapshot => returned'[gen] = NoSnapshot
      /\ returned[gen] # NoSnapshot => returned'[gen] = gens[gen].manifest
  <2>1. synced \in SUBSET Entries
    BY <1>2 DEF Entries
  <2> QED BY <1>1, <1>2, <2>1
<1>4. SnapTyped'
  <2>1. \A g \in Generations : gens'[g] \in gensDisk'[g]
    BY <1>1, <1>3 DEF SnapInv, SnapTyped
  <2> QED BY <1>1, <1>3, <2>1 DEF SnapInv, SnapTyped, PublisherSteps
<1>5. AllKept'
  <2> SUFFICES ASSUME snapDamages = 0, NEW g \in Generations PROVE KeptAt(g)'
    BY <1>1 DEF AllKept
  <2>1. KeptAt(g) /\ KeptAt(gen)
    BY <1>2 DEF SnapInv, AllKept
  <2>2. CASE g # gen
    BY <1>3, <2>1, <2>2 DEF KeptAt
  <2>3. CASE g = gen
    BY <1>2, <1>3, <2>1, <2>3 DEF KeptAt
  <2> QED BY <2>2, <2>3
<1>6. PublisherInv'
  BY <1>1, <1>2, <1>3 DEF SnapInv, PublisherInv
<1>7. LoadUnderWay'
  BY <1>1 DEF SnapInv, LoadUnderWay
<1> QED BY <1>4, <1>5, <1>6, <1>7 DEF SnapInv

\* SaveReference: nobody has loaded this generation by its reference yet.
LEMMA SaveReferenceKeeps ==
    ASSUME SnapInv, SaveReference
    PROVE  SnapInv'
<1>1. /\ UNCHANGED <<target, gens, gensDisk, gen, returned, reader, snapDamages>>
      /\ step = "sealed" /\ step' = "idle"
      /\ referenced' = [referenced EXCEPT ![gen] = gens[gen].manifest]
  BY DEF SaveReference, dirVars, readerVars, snapCounts
<1>2. /\ gen \in Generations /\ referenced[gen] = NoSnapshot
      /\ gens[gen].manifest \in Manifests
      /\ referenced \in [Generations -> Manifests \cup {NoSnapshot}]
  BY <1>1 DEF SnapInv, PublisherInv, SnapTyped
<1>3. referenced' \in [Generations -> Manifests \cup {NoSnapshot}]
  BY <1>1, <1>2
<1>4. SnapTyped' /\ AllKept'
  BY <1>1, <1>3, DirectoriesSame DEF PublisherSteps
<1>5. PublisherInv'
  BY <1>1 DEF SnapInv, PublisherInv
<1>6. LoadUnderWay'
  BY <1>1, <1>2 DEF SnapInv, LoadUnderWay
<1> QED BY <1>4, <1>5, <1>6 DEF SnapInv


\* RemoveOrphans: what it removes was returned, and is returned no more.
LEMMA RemoveOrphansKeeps ==
    ASSUME SnapInv, RemoveOrphans
    PROVE  SnapInv'
<1>1. /\ UNCHANGED <<target, step, gen, made, referenced, reader, snapDamages>> /\ step = "idle"
      /\ gens' = [g \in Generations |-> IF g \in OrphanGenerations THEN NoSnapshot ELSE gens[g]]
      /\ gensDisk' = [g \in Generations |->
                       IF g \in OrphanGenerations THEN gensDisk[g] \cup {NoSnapshot}
                       ELSE gensDisk[g]]
      /\ returned' = [g \in Generations |->
                       IF g \in OrphanGenerations THEN NoSnapshot ELSE returned[g]]
  BY DEF RemoveOrphans, readerVars, snapCounts
<1>2. \A g \in Generations :
         \/ /\ gens'[g] = NoSnapshot /\ returned'[g] = NoSnapshot
            /\ gensDisk'[g] = gensDisk[g] \cup {NoSnapshot}
         \/ gens'[g] = gens[g] /\ returned'[g] = returned[g] /\ gensDisk'[g] = gensDisk[g]
  BY <1>1
<1>3. SnapTyped'
  <2>1. /\ gens' \in [Generations -> Entries] /\ gensDisk' \in [Generations -> SUBSET Entries]
        /\ returned' \in [Generations -> Manifests \cup {NoSnapshot}]
    BY <1>1 DEF SnapInv, SnapTyped, Entries
  <2>2. \A g \in Generations : gens'[g] \in gensDisk'[g]
    BY <1>2 DEF SnapInv, SnapTyped
  <2> QED BY <1>1, <2>1, <2>2 DEF SnapInv, SnapTyped
<1>4. AllKept'
  <2> SUFFICES ASSUME snapDamages = 0, NEW g \in Generations PROVE KeptAt(g)'
    BY <1>1 DEF AllKept
  <2>1. KeptAt(g)
    BY DEF SnapInv, AllKept
  <2> QED BY <1>2, <2>1 DEF KeptAt
<1>5. PublisherInv'
  BY <1>1, <1>2 DEF SnapInv, PublisherInv
<1>6. LoadUnderWay'
  BY <1>1 DEF SnapInv, LoadUnderWay
<1> QED BY <1>3, <1>4, <1>5, <1>6 DEF SnapInv

LEMMA KillPublisherKeeps ==
    ASSUME SnapInv, KillPublisher
    PROVE  SnapInv'
<1>1. /\ UNCHANGED <<target, gens, gensDisk, gen, returned, referenced, reader, snapDamages>>
      /\ step' = "idle"
  BY DEF KillPublisher, readerVars
<1>2. SnapTyped' /\ AllKept'
  BY <1>1, DirectoriesSame DEF SnapInv, SnapTyped, PublisherSteps
<1>3. PublisherInv' /\ LoadUnderWay'
  BY <1>1 DEF SnapInv, PublisherInv, LoadUnderWay
<1> QED BY <1>2, <1>3 DEF SnapInv

\* LoseSnapshotPower: each generation shows one of the directories it could be.
\* When the directory of the target goes, nothing counts as returned any more.
LEMMA LoseSnapshotPowerKeeps ==
    ASSUME SnapInv, LoseSnapshotPower, target' \in {{}, {"there"}}
    PROVE  SnapInv'
<1> DEFINE Kept(g) == IF target' = {} THEN {NoSnapshot} ELSE gensDisk[g]
<1>1. /\ UNCHANGED <<gen, referenced, snapDamages>> /\ step' = "idle" /\ reader' = IdleReader
      /\ gens' \in {f \in [Generations -> UNION {Kept(g) : g \in Generations}] :
                       \A g \in Generations : f[g] \in Kept(g)}
      /\ gensDisk' = [g \in Generations |-> {gens'[g]}]
      /\ returned' = IF target' = target THEN returned ELSE [g \in Generations |-> NoSnapshot]
  BY DEF LoseSnapshotPower
<1>2. \A g \in Generations : gens'[g] \in Kept(g) /\ Kept(g) \subseteq Entries
  BY <1>1 DEF SnapInv, SnapTyped, Entries
<1>3. /\ gens' \in [Generations -> Entries] /\ gensDisk' \in [Generations -> SUBSET Entries]
      /\ \A g \in Generations : gensDisk'[g] = {gens'[g]} /\ gens'[g] \in Kept(g)
  <2>1. gens' = [g \in Generations |-> gens'[g]]
    BY <1>1
  <2>2. gens' \in [Generations -> Entries]
    BY <1>2, <2>1
  <2> QED BY <1>1, <1>2, <2>2
<1>4. /\ returned' \in [Generations -> Manifests \cup {NoSnapshot}]
      /\ \A g \in Generations : returned'[g] # NoSnapshot =>
            target' = target /\ returned'[g] = returned[g]
  BY <1>1 DEF SnapInv, SnapTyped
<1>5. SnapTyped'
  BY <1>1, <1>3, <1>4 DEF SnapInv, SnapTyped, PublisherSteps
<1>6. \A g \in Generations : target' = {} => returned'[g] = NoSnapshot
  BY <1>4 DEF SnapInv, PublisherInv
<1>7. AllKept'
  <2> SUFFICES ASSUME snapDamages = 0, NEW g \in Generations PROVE KeptAt(g)'
    BY <1>1 DEF AllKept
  <2>1. KeptAt(g)
    BY DEF SnapInv, AllKept
  <2>2. CASE target' = {}
    BY <1>3, <1>6, <2>2 DEF KeptAt
  <2>3. CASE target' # {}
    BY <1>3, <1>4, <2>1, <2>3 DEF KeptAt
  <2> QED BY <2>2, <2>3
<1>8. PublisherInv' /\ LoadUnderWay'
  BY <1>1, <1>6 DEF PublisherInv, LoadUnderWay, IdleReader
<1> QED BY <1>5, <1>7, <1>8 DEF SnapInv

\* DamageSnapshot: with damaged files only the types are left to keep.
LEMMA DamageSnapshotKeeps ==
    ASSUME SnapInv, NEW g \in Generations, DamageSnapshot(g)
    PROVE  SnapInv'
<1>1. /\ UNCHANGED <<target, step, gen, made, returned, referenced, reader>> /\ step = "idle"
      /\ snapDamages' = snapDamages + 1 /\ gens[g] # NoSnapshot
      /\ gens' \in {[gens EXCEPT ![g].files = BadFile], [gens EXCEPT ![g].manifest = BadFile]}
      /\ gensDisk' = [gensDisk EXCEPT ![g] = {gens'[g]}]
  BY DEF DamageSnapshot, publisherVars, readerVars
<1>2. /\ gens \in [Generations -> Entries] /\ gensDisk \in [Generations -> SUBSET Entries]
      /\ gens[g] \in Directories /\ snapDamages \in Nat
  BY <1>1 DEF SnapInv, SnapTyped, Entries
<1>3. PICK d \in Directories : gens' = [gens EXCEPT ![g] = d]
  <2>1. /\ [gens[g] EXCEPT !.files = BadFile] \in Directories
        /\ [gens[g] EXCEPT !.manifest = BadFile] \in Directories
    BY <1>2 DEF Directories
  <2>2. \/ gens' = [gens EXCEPT ![g] = [gens[g] EXCEPT !.files = BadFile]]
        \/ gens' = [gens EXCEPT ![g] = [gens[g] EXCEPT !.manifest = BadFile]]
    BY <1>1
  <2> QED BY <2>1, <2>2
<1>4. /\ gens' \in [Generations -> Entries] /\ gensDisk' \in [Generations -> SUBSET Entries]
      /\ gens'[g] = d /\ gensDisk'[g] = {d}
      /\ \A h \in Generations : h # g => gens'[h] = gens[h] /\ gensDisk'[h] = gensDisk[h]
  BY <1>1, <1>2, <1>3 DEF Entries
<1>5. \A h \in Generations : gens'[h] \in gensDisk'[h]
  BY <1>4 DEF SnapInv, SnapTyped
<1>6. SnapTyped' /\ AllKept'
  <2>1. snapDamages' \in Nat /\ snapDamages' # 0
    BY <1>1, <1>2
  <2> QED BY <1>1, <1>4, <1>5, <2>1 DEF SnapInv, SnapTyped, AllKept
<1>7. PublisherInv' /\ LoadUnderWay'
  BY <1>1 DEF SnapInv, PublisherInv, LoadUnderWay
<1> QED BY <1>6, <1>7 DEF SnapInv

-----------------------------------------------------------------------------
(* The theorems about the snapshots *)

\* What the directory of the target can be after a loss of power.
TargetKnown == targetDisk \subseteq {{}, {"there"}}

\* The last loss of power aside, no step makes the directory anything else.
LEMMA TargetStaysKnown ==
    ASSUME TargetKnown, [SnapNext]_snapVars
    PROVE  TargetKnown'
<1>1. CASE MakeParents
  BY <1>1 DEF MakeParents, TargetKnown
<1>2. CASE LoseSnapshotPower
  BY <1>2 DEF LoseSnapshotPower, TargetKnown
<1>3. ASSUME UNCHANGED targetDisk PROVE TargetKnown'
  BY <1>3 DEF TargetKnown
<1>4. MakeParents \/ LoseSnapshotPower \/ UNCHANGED targetDisk
  BY DEF SnapNext, StartLoad, FinishLoad, Capture, WriteFiles, RenameCandidate, SyncCandidate,
     SealLoad, SealRename, SealSync, SaveReference, RemoveOrphans, KillPublisher,
     DamageSnapshot, snapVars, dirVars
<1> QED BY <1>1, <1>2, <1>3, <1>4

LEMMA InitSnapInv == SnapInit => SnapInv /\ TargetKnown
<1> SUFFICES ASSUME SnapInit PROVE SnapInv /\ TargetKnown
  OBVIOUS
<1>1. SnapTyped
  BY DEF SnapInit, SnapTyped, Entries, PublisherSteps
<1>2. AllKept /\ PublisherInv /\ LoadUnderWay
  BY DEF SnapInit, AllKept, KeptAt, PublisherInv, LoadUnderWay, IdleReader
<1> QED BY <1>1, <1>2 DEF SnapInit, SnapInv, TargetKnown

LEMMA NextSnapInv == SnapInv /\ TargetKnown /\ [SnapNext]_snapVars => SnapInv'
<1> SUFFICES ASSUME SnapInv, TargetKnown, [SnapNext]_snapVars PROVE SnapInv'
  OBVIOUS
<1>1. CASE FinishLoad \/ \E g \in Generations : StartLoad(g)
  BY <1>1, ReaderKeeps
<1>2. CASE \E g \in Generations, text \in Texts : Capture(g, text)
  BY <1>2, CaptureKeeps
<1>3. CASE MakeParents
  BY <1>3, MakeParentsKeeps
<1>4. CASE WriteFiles
  BY <1>4, WriteFilesKeeps
<1>5. CASE RenameCandidate
  BY <1>5, RenameCandidateKeeps
<1>6. CASE SyncCandidate
  BY <1>6, SyncCandidateKeeps
<1>7. CASE SealLoad
  BY <1>7, SealLoadKeeps
<1>8. CASE SealRename
  BY <1>8, SealRenameKeeps
<1>9. CASE SealSync
  BY <1>9, SealSyncKeeps
<1>10. CASE SaveReference
  BY <1>10, SaveReferenceKeeps
<1>11. CASE RemoveOrphans
  BY <1>11, RemoveOrphansKeeps
<1>12. CASE KillPublisher
  BY <1>12, KillPublisherKeeps
<1>13. CASE LoseSnapshotPower
  <2>1. target' \in {{}, {"there"}}
    BY <1>13 DEF LoseSnapshotPower, TargetKnown
  <2> QED BY <1>13, <2>1, LoseSnapshotPowerKeeps
<1>14. CASE \E g \in Generations : DamageSnapshot(g)
  BY <1>14, DamageSnapshotKeeps
<1>15. CASE UNCHANGED snapVars
  <2>1. UNCHANGED <<target, gens, gensDisk, step, gen, made, returned, referenced, reader,
                    snapDamages>>
    BY <1>15 DEF snapVars, dirVars, publisherVars, readerVars, snapCounts
  <2> QED BY <2>1 DEF SnapInv, SnapTyped, AllKept, KeptAt, PublisherInv, LoadUnderWay
<1> QED
  BY <1>1, <1>2, <1>3, <1>4, <1>5, <1>6, <1>7, <1>8, <1>9, <1>10, <1>11, <1>12, <1>13, <1>14,
     <1>15 DEF SnapNext

\* Every directory a generation can show agrees with what was returned for it,
\* and the steps of WriteCandidate, Seal and Load find what they rely on, after
\* any failures (snapshot.go:149, 215, 257).
THEOREM SnapInvHolds == SnapSpec => []SnapInv
<1>1. SnapInit => SnapInv /\ TargetKnown
  BY InitSnapInv
<1>2. SnapInv /\ TargetKnown /\ [SnapNext]_snapVars => (SnapInv /\ TargetKnown)'
  BY NextSnapInv, TargetStaysKnown
<1> QED BY <1>1, <1>2, PTL DEF SnapSpec

\* What WriteCandidate and Seal have returned stays, whole, whatever loss of
\* power leaves the directory of the target (snapshot.go:149, 215).
THEOREM SnapshotsKeptHolds == SnapSpec => []SnapshotsKept
<1>1. SnapInv => SnapshotsKept
  BY DEF SnapInv, AllKept, KeptAt, SnapshotsKept
<1> QED BY <1>1, SnapInvHolds, PTL

\* A reader that is answered without an error has read a manifest, and the
\* files with that text.
LEMMA SealedAnswer ==
    ASSUME NEW manifest, NEW files, LoadAnswer(manifest, files, TRUE).error = "none"
    PROVE  /\ manifest \in Manifests /\ files = manifest.text
           /\ LoadAnswer(manifest, files, TRUE).text = files
BY DEF LoadAnswer, Verified

\* A pull or status never works with another text than that of the snapshot
\* the state refers to, although the publisher, losses of power and damages go
\* on between its two reads (snapshot.go:257, review_pull.go:373).
THEOREM LoadedBaselineHolds == SnapSpec => LoadedBaseline
<1>1. LoadUnderWay /\ [SnapNext]_snapVars =>
        (answer' # answer /\ answer' # NoSnapshot /\ answer'.loaded.error = "none" =>
            /\ answer'.loaded.text \in Texts
            /\ answer'.loaded.text = referenced[answer'.gen].text)
  <2> SUFFICES ASSUME LoadUnderWay, [SnapNext]_snapVars, answer' # answer,
                      answer' # NoSnapshot, answer'.loaded.error = "none"
               PROVE  /\ answer'.loaded.text \in Texts
                      /\ answer'.loaded.text = referenced[answer'.gen].text
    OBVIOUS
  <2>1. ~UNCHANGED readerVars /\ \A g \in Generations : ~StartLoad(g)
    BY DEF readerVars, StartLoad
  <2>2. FinishLoad
    <3>1. FinishLoad \/ UNCHANGED answer
      BY <2>1 DEF SnapNext, Capture, MakeParents, WriteFiles, RenameCandidate, SyncCandidate,
         SealLoad, SealRename, SealSync, SaveReference, RemoveOrphans, KillPublisher,
         LoseSnapshotPower, DamageSnapshot, snapVars, readerVars
    <3> QED BY <3>1
  <2>3. PICK found : found = LoadAnswer(reader.manifest, FilesOf(reader.gen), TRUE)
    OBVIOUS
  <2>4. PICK told : told = IF found.error = "none"
                              /\ ~SameAsReferred(reader.manifest, reader.reference)
                           THEN [error |-> "not the active one"] ELSE found
    OBVIOUS
  <2>5. answer' = [gen |-> reader.gen, loaded |-> told]
    BY <2>2, <2>3, <2>4 DEF FinishLoad, Baseline
  <2>6. told = found /\ found.error = "none" /\ reader.manifest = reader.reference
    <3>1. told.error = "none"
      BY <2>5
    <3> QED BY <2>4, <3>1 DEF SameAsReferred
  <2>7. /\ reader.manifest \in Manifests /\ found.text = reader.manifest.text
    <3>1. LoadAnswer(reader.manifest, FilesOf(reader.gen), TRUE).error = "none"
      BY <2>3, <2>6
    <3>2. /\ reader.manifest \in Manifests /\ FilesOf(reader.gen) = reader.manifest.text
          /\ LoadAnswer(reader.manifest, FilesOf(reader.gen), TRUE).text = FilesOf(reader.gen)
      BY <3>1, SealedAnswer
    <3> QED BY <2>3, <3>2
  <2>8. reader.reference = referenced[reader.gen]
    BY <2>2 DEF FinishLoad, LoadUnderWay
  <2>9. reader.manifest.text \in Texts
    BY <2>7, Shapes
  <2> QED BY <2>5, <2>6, <2>7, <2>8, <2>9
<1>2. SnapInv => LoadUnderWay
  BY DEF SnapInv
<1> QED BY <1>1, <1>2, SnapInvHolds, PTL DEF SnapSpec, LoadedBaseline
=============================================================================
