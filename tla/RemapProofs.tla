----------------------------- MODULE RemapProofs -----------------------------
(***************************************************************************)
(* Proofs that a rename of a source is never seen half done, for any       *)
(* sources, documents, failures, losses and deletions.                     *)
(*                                                                         *)
(* MappingMatchesGoogle only speaks of the states without a remap journal. *)
(* That it holds again when the journal is removed follows from what holds *)
(* while it is there: the documents of the journal are those that have its *)
(* old or its new key in Google, the state file has all of them under one  *)
(* of the two, and a command that goes through the loop leaves the new key *)
(* on every document it has passed.                                        *)
(***************************************************************************)
EXTENDS Remap, TLAPS

-----------------------------------------------------------------------------
(* The inductive invariant *)

Remaps == [from : Sources, to : Sources, files : SUBSET Files]
LoopLabels == {"announce", "read", "update", "verify"}

RemapTypes ==
    /\ mapped \in [Sources -> SUBSET Files]
    /\ stateFile \in {"present", "damaged"}
    /\ remap \in {NoRemap} \cup Remaps
    /\ stage \in [Files -> RemapStages]
    /\ property \in [Files -> Sources \cup {NoSource}]
    /\ existing \in SUBSET Files
    /\ pc \in LoopLabels \cup {"idle", "save", "clear"}
    /\ todo \in SUBSET Files
    /\ published \in 0..MaxFiles

\* A document that is still to be published is nowhere.
OnlyPublished ==
    /\ existing \subseteq 1..published
    /\ \A k \in Sources : mapped[k] \subseteq 1..published

\* What the state file and Google say of the documents of a source.
Agree(k) == mapped[k] \cap existing = {f \in existing : property[f] = k}

\* Whether the state file has been saved under the new key or not.
BeforeSave == mapped[remap.from] = remap.files /\ mapped[remap.to] = {}
AfterSave == mapped[remap.from] = {} /\ mapped[remap.to] = remap.files

\* The journal and what it speaks of.
JournalCovers ==
    Unfinished =>
        /\ remap.from # remap.to /\ remap.files # {}
        /\ BeforeSave \/ AfterSave
        /\ \A f \in existing : property[f] \in {remap.from, remap.to} <=> f \in remap.files

\* How far the running command is.
Passed ==
    pc # "idle" =>
        /\ Unfinished /\ todo \subseteq remap.files
        /\ \A f \in (remap.files \ todo) \cap existing : property[f] = remap.to
        /\ pc \in {"save", "clear"} => todo = {}
        /\ pc = "clear" => AfterSave

OthersAgree ==
    \A k \in Sources : (Unfinished => k \notin {remap.from, remap.to}) => Agree(k)

RemapInv == RemapTypes /\ OnlyPublished /\ JournalCovers /\ Passed /\ OthersAgree

-----------------------------------------------------------------------------
(* Lemmas *)

\* A journal that is there names two sources and some documents.
LEMMA JournalShape ==
    ASSUME RemapTypes, Unfinished
    PROVE  remap \in Remaps /\ remap.from \in Sources /\ remap.to \in Sources
           /\ remap.files \in SUBSET Files
BY DEF RemapTypes, Unfinished, Remaps

\* What a step needs to leave alone to keep every part that does not speak of
\* the running command.
LEMMA DocumentsUndisturbed ==
    ASSUME RemapInv, UNCHANGED <<mapped, remap, property>>,
           existing' \subseteq existing, published' = published
    PROVE  OnlyPublished' /\ JournalCovers' /\ OthersAgree'
<1>1. OnlyPublished'
  BY DEF RemapInv, OnlyPublished
<1>2. JournalCovers'
  BY DEF RemapInv, JournalCovers, Unfinished, BeforeSave, AfterSave
<1>3. ASSUME NEW k \in Sources, Agree(k) PROVE Agree(k)'
  BY <1>3 DEF Agree
<1>4. OthersAgree'
  BY <1>3 DEF RemapInv, OthersAgree, Unfinished
<1> QED BY <1>1, <1>2, <1>4

\* A command that has stopped leaves nothing to say of it.
LEMMA StopPasses ==
    ASSUME RemapInv, Stop
    PROVE  Passed' /\ pc' \in LoopLabels \cup {"idle", "save", "clear"} /\ todo' \in SUBSET Files
BY DEF Stop, Passed

\* A document the command works on is one of the journal, which names both keys.
LEMMA NextOfJournal ==
    ASSUME RemapInv, NEW f \in Files, IsNext(f), pc # "idle"
    PROVE  /\ Unfinished /\ remap \in Remaps
           /\ remap.from \in Sources /\ remap.to \in Sources
           /\ f \in todo /\ f \in remap.files /\ todo \subseteq remap.files
<1>1. Unfinished /\ todo \subseteq remap.files
  BY DEF RemapInv, Passed
<1> QED BY <1>1, JournalShape DEF RemapInv, IsNext

\* Giving the new key to the document the loop is at disturbs no part.
LEMMA NewKeyKeeps ==
    ASSUME RemapInv, NEW f \in Files, IsNext(f), pc \in LoopLabels, f \in existing,
           property' = [property EXCEPT ![f] = remap.to],
           UNCHANGED <<mapped, remap, existing, published>>
    PROVE  /\ property' \in [Files -> Sources \cup {NoSource}]
           /\ OnlyPublished' /\ JournalCovers' /\ OthersAgree'
           /\ \A g \in (remap.files \ todo) \cap existing : property'[g] = remap.to
<1>1. /\ Unfinished /\ remap.to \in Sources /\ f \in remap.files
      /\ property \in [Files -> Sources \cup {NoSource}] /\ existing \in SUBSET Files
      /\ property[f] \in {remap.from, remap.to}
  <2>1. pc # "idle"
    BY DEF LoopLabels
  <2> QED BY <2>1, NextOfJournal DEF RemapInv, RemapTypes, JournalCovers
<1>2. /\ property' \in [Files -> Sources \cup {NoSource}] /\ property'[f] = remap.to
      /\ \A g \in existing : g # f => property'[g] = property[g]
  BY <1>1
<1>3. OnlyPublished'
  BY DEF RemapInv, OnlyPublished
<1>4. JournalCovers'
  BY <1>1, <1>2 DEF RemapInv, JournalCovers, Unfinished, BeforeSave, AfterSave
<1>5. OthersAgree'
  <2> SUFFICES ASSUME NEW k \in Sources, k \notin {remap.from, remap.to}
               PROVE  Agree(k)'
    BY <1>1 DEF OthersAgree, Unfinished
  <2>1. Agree(k)
    BY DEF RemapInv, OthersAgree
  <2> QED BY <1>1, <1>2, <2>1 DEF Agree
<1>6. \A g \in (remap.files \ todo) \cap existing : property'[g] = remap.to
  <2>1. pc # "idle"
    BY DEF LoopLabels
  <2> QED BY <1>2, <2>1 DEF RemapInv, Passed
<1> QED BY <1>2, <1>3, <1>4, <1>5, <1>6

-----------------------------------------------------------------------------
(* The steps of the command *)

\* StartRemap: the state file is still as it was, and agreed with Google.
LEMMA StartKeeps ==
    ASSUME RemapInv, NEW from \in Sources, NEW to \in Sources, StartRemap(from, to)
    PROVE  RemapInv'
<1>1. /\ ~Unfinished /\ mapped[from] # {} /\ mapped[to] = {}
      /\ remap' = [from |-> from, to |-> to, files |-> mapped[from]]
      /\ stage' = [f \in Files |-> "planned"]
      /\ pc' = "announce" /\ todo' = mapped[from]
      /\ UNCHANGED <<mapped, stateFile, property, existing, published>>
  BY DEF StartRemap, TargetsOf, Begin, googleVars, countVars
<1>2. remap' \in Remaps /\ Unfinished' /\ mapped[from] \in SUBSET Files
  BY <1>1, RemapConstantsOK DEF RemapInv, RemapTypes, Remaps, Unfinished, NoRemap
<1>3. RemapTypes'
  BY <1>1, <1>2 DEF RemapInv, RemapTypes, LoopLabels, RemapStages
<1>4. OnlyPublished'
  BY <1>1 DEF RemapInv, OnlyPublished
<1>5. Agree(from) /\ Agree(to)
  BY <1>1 DEF RemapInv, OthersAgree
<1>6. JournalCovers'
  <2>1. \A f \in existing : property[f] \in {from, to} <=> f \in mapped[from]
    BY <1>1, <1>5 DEF Agree
  <2> QED BY <1>1, <2>1 DEF JournalCovers, BeforeSave
<1>7. Passed'
  BY <1>1, <1>2 DEF Passed
<1>8. OthersAgree'
  <2>1. \A k \in Sources : Agree(k)
    BY <1>1 DEF RemapInv, OthersAgree
  <2> QED BY <1>1, <2>1 DEF OthersAgree, Agree
<1> QED BY <1>3, <1>4, <1>6, <1>7, <1>8 DEF RemapInv

LEMMA ResumeKeeps ==
    ASSUME RemapInv, ResumeRemap
    PROVE  RemapInv'
<1>1. /\ Unfinished /\ pc' = "announce" /\ todo' = remap.files
      /\ UNCHANGED <<localVars, googleVars, countVars>>
  BY DEF ResumeRemap, Begin, OnlyRun
<1>2. OnlyPublished' /\ JournalCovers' /\ OthersAgree'
  BY <1>1, DocumentsUndisturbed DEF localVars, journalVars, googleVars, countVars
<1>3. RemapTypes'
  BY <1>1, JournalShape
  DEF RemapInv, RemapTypes, LoopLabels, localVars, journalVars, googleVars, countVars
<1>4. Passed'
  BY <1>1 DEF Passed, Unfinished, localVars, journalVars
<1> QED BY <1>2, <1>3, <1>4 DEF RemapInv

\* A step that changes nothing but the label, and stays in the loop.
LEMMA GotoKeeps ==
    ASSUME RemapInv, pc \in LoopLabels, NEW label \in LoopLabels, Goto(label),
           UNCHANGED <<mapped, stateFile, remap, googleVars, countVars>>,
           stage' \in [Files -> RemapStages]
    PROVE  RemapInv'
<1>1. OnlyPublished' /\ JournalCovers' /\ OthersAgree'
  BY DocumentsUndisturbed DEF googleVars, countVars
<1>2. RemapTypes'
  BY DEF RemapInv, RemapTypes, googleVars, countVars, Goto
<1>3. Passed'
  BY DEF RemapInv, Passed, Goto, googleVars, LoopLabels, Unfinished
<1> QED BY <1>1, <1>2, <1>3 DEF RemapInv

LEMMA AnnounceKeeps ==
    ASSUME RemapInv, NEW f \in Files, Announce(f)
    PROVE  RemapInv'
<1>1. stage' \in [Files -> RemapStages]
  BY DEF RemapInv, RemapTypes, Announce, SetStage, RemapStages
<1> QED BY <1>1, GotoKeeps DEF Announce, SetStage, LoopLabels

LEMMA ReadKeeps ==
    ASSUME RemapInv, NEW f \in Files, ReadKey(f)
    PROVE  RemapInv'
<1>1. stage' \in [Files -> RemapStages]
      /\ UNCHANGED <<mapped, stateFile, remap, googleVars, countVars>>
  BY DEF RemapInv, RemapTypes, ReadKey, OnlyRun, localVars, journalVars
<1> QED BY <1>1, GotoKeeps DEF ReadKey, LoopLabels

LEMMA UpdateKeeps ==
    ASSUME RemapInv, NEW f \in Files, UpdateKey(f)
    PROVE  RemapInv'
<1>1. /\ pc = "update" /\ IsNext(f) /\ f \in existing /\ pc' = "verify" /\ todo' = todo
      /\ property' = [property EXCEPT ![f] = remap.to]
      /\ UNCHANGED <<mapped, stateFile, remap, stage, existing, published>>
  BY DEF UpdateKey, Goto, localVars, journalVars, countVars
<1>2. /\ property' \in [Files -> Sources \cup {NoSource}]
      /\ OnlyPublished' /\ JournalCovers' /\ OthersAgree'
      /\ \A g \in (remap.files \ todo) \cap existing : property'[g] = remap.to
  BY <1>1, NewKeyKeeps DEF LoopLabels
<1>3. RemapTypes'
  BY <1>1, <1>2 DEF RemapInv, RemapTypes, LoopLabels
<1>4. Passed'
  BY <1>1, <1>2 DEF RemapInv, Passed, Unfinished
<1> QED BY <1>2, <1>3, <1>4 DEF RemapInv

\* AttemptFail: the update may have been made without an answer.
LEMMA AttemptFailKeeps ==
    ASSUME RemapInv, NEW f \in Files, AttemptFail(f)
    PROVE  RemapInv'
<1>1. /\ pc \in LoopLabels /\ pc # "idle" /\ IsNext(f) /\ f \in existing
      /\ property' = property \/ property' = [property EXCEPT ![f] = remap.to]
      /\ UNCHANGED <<mapped, stateFile, remap, stage, existing, published>>
      /\ (pc' = "read" /\ todo' = todo) \/ (pc' = "idle" /\ todo' = {})
  BY DEF AttemptFail, Retry, Stop, localVars, journalVars, LoopLabels
<1>2. /\ property' \in [Files -> Sources \cup {NoSource}]
      /\ OnlyPublished' /\ JournalCovers' /\ OthersAgree'
      /\ \A g \in (remap.files \ todo) \cap existing : property'[g] = remap.to
  <2>1. CASE property' = property
    <3>1. OnlyPublished' /\ JournalCovers' /\ OthersAgree'
      BY <1>1, <2>1, DocumentsUndisturbed
    <3> QED BY <1>1, <2>1, <3>1 DEF RemapInv, RemapTypes, Passed
  <2>2. CASE property' = [property EXCEPT ![f] = remap.to]
    BY <1>1, <2>2, NewKeyKeeps
  <2> QED BY <1>1, <2>1, <2>2
<1>3. RemapTypes'
  BY <1>1, <1>2 DEF RemapInv, RemapTypes, LoopLabels
<1>4. Passed'
  BY <1>1, <1>2 DEF RemapInv, Passed, Unfinished, LoopLabels
<1> QED BY <1>2, <1>3, <1>4 DEF RemapInv

\* A step of the command that only stops it.
LEMMA StopKeeps ==
    ASSUME RemapInv, Stop, UNCHANGED <<localVars, googleVars, published>>
    PROVE  RemapInv'
<1>1. OnlyPublished' /\ JournalCovers' /\ OthersAgree'
  BY DocumentsUndisturbed DEF localVars, journalVars, googleVars
<1>2. RemapTypes'
  BY StopPasses DEF RemapInv, RemapTypes, localVars, journalVars, googleVars
<1> QED BY <1>1, <1>2, StopPasses DEF RemapInv

\* Verify: the new key is seen, and the document is done.
LEMMA VerifyKeeps ==
    ASSUME RemapInv, NEW f \in Files, Verify(f)
    PROVE  RemapInv'
<1>1. /\ pc = "verify" /\ IsNext(f) /\ f \in existing /\ property[f] = remap.to
      /\ stage' = [stage EXCEPT ![f] = "updated"] /\ todo' = todo \ {f}
      /\ (todo = {f} /\ pc' = "save") \/ (todo # {f} /\ pc' = "announce")
      /\ UNCHANGED <<mapped, stateFile, remap, property, existing, published>>
  BY DEF Verify, SetStage, googleVars, countVars
<1>2. OnlyPublished' /\ JournalCovers' /\ OthersAgree'
  BY <1>1, DocumentsUndisturbed
<1>3. RemapTypes'
  BY <1>1 DEF RemapInv, RemapTypes, LoopLabels, RemapStages
<1>4. Passed'
  <2>1. Unfinished /\ todo \subseteq remap.files
        /\ \A g \in (remap.files \ todo) \cap existing : property[g] = remap.to
    BY <1>1 DEF RemapInv, Passed
  <2>2. \A g \in (remap.files \ todo') \cap existing : property[g] = remap.to
    BY <1>1, <2>1
  <2> QED BY <1>1, <2>1, <2>2 DEF Passed, Unfinished
<1> QED BY <1>2, <1>3, <1>4 DEF RemapInv

\* SaveRemap: before it or, after an interruption, already done.
LEMMA SaveKeeps ==
    ASSUME RemapInv, SaveRemap
    PROVE  RemapInv'
<1>1. /\ pc = "save" /\ pc' = "clear" /\ todo' = todo
      /\ mapped' = [mapped EXCEPT ![remap.from] = {},
                                  ![remap.to] = mapped[remap.from] \cup mapped[remap.to]]
      /\ UNCHANGED <<stateFile, remap, stage, property, existing, published>>
  BY DEF SaveRemap, Goto, journalVars, googleVars, countVars
<1>2. Unfinished /\ todo = {}
  BY <1>1 DEF RemapInv, Passed
<1>3. /\ remap.from \in Sources /\ remap.to \in Sources /\ remap.from # remap.to
      /\ remap.files \in SUBSET Files /\ (BeforeSave \/ AfterSave)
      /\ mapped \in [Sources -> SUBSET Files]
  BY <1>2, JournalShape DEF RemapInv, RemapTypes, JournalCovers
<1>4. /\ mapped' \in [Sources -> SUBSET Files]
      /\ mapped'[remap.from] = {} /\ mapped'[remap.to] = remap.files
      /\ \A k \in Sources : k \notin {remap.from, remap.to} => mapped'[k] = mapped[k]
  BY <1>1, <1>3 DEF BeforeSave, AfterSave
<1>5. RemapTypes'
  BY <1>1, <1>4 DEF RemapInv, RemapTypes
<1>6. OnlyPublished'
  <2>1. remap.files \subseteq 1..published
    BY <1>3 DEF RemapInv, OnlyPublished, BeforeSave, AfterSave
  <2>2. \A k \in Sources : mapped'[k] \subseteq 1..published
    BY <1>4, <2>1 DEF RemapInv, OnlyPublished
  <2> QED BY <1>1, <2>2 DEF RemapInv, OnlyPublished
<1>7. AfterSave'
  BY <1>1, <1>4 DEF AfterSave
<1>8. JournalCovers'
  BY <1>1, <1>2, <1>7 DEF RemapInv, JournalCovers, Unfinished
<1>9. Passed'
  BY <1>1, <1>2, <1>7 DEF RemapInv, Passed, Unfinished
<1>10. OthersAgree'
  BY <1>1, <1>2, <1>4 DEF RemapInv, OthersAgree, Agree, Unfinished
<1> QED BY <1>5, <1>6, <1>8, <1>9, <1>10 DEF RemapInv

\* ClearRemap: all documents of the journal have the new key on both sides.
LEMMA ClearKeeps ==
    ASSUME RemapInv, ClearRemap
    PROVE  RemapInv'
<1>1. /\ pc = "clear" /\ Stop /\ ~Unfinished'
      /\ remap' = NoRemap /\ stage' = [f \in Files |-> "planned"]
      /\ UNCHANGED <<mapped, stateFile, property, existing, published>>
  BY DEF ClearRemap, Unfinished, googleVars, countVars
<1>2. /\ Unfinished /\ todo = {} /\ AfterSave
      /\ \A f \in remap.files \cap existing : property[f] = remap.to
  BY <1>1 DEF RemapInv, Passed
<1>3. RemapTypes'
  BY <1>1, StopPasses DEF RemapInv, RemapTypes, RemapStages
<1>4. OnlyPublished'
  BY <1>1 DEF RemapInv, OnlyPublished
<1>5. \A k \in Sources : Agree(k)
  <2>1. /\ remap.from # remap.to
        /\ \A f \in existing : property[f] \in {remap.from, remap.to} <=> f \in remap.files
    BY <1>2 DEF RemapInv, JournalCovers
  <2>2. Agree(remap.from) /\ Agree(remap.to)
    BY <1>2, <2>1 DEF Agree, AfterSave
  <2> QED BY <2>2 DEF RemapInv, OthersAgree
<1>6. OthersAgree'
  BY <1>1, <1>5 DEF OthersAgree, Agree
<1> QED BY <1>1, <1>3, <1>4, <1>6, StopPasses DEF RemapInv, JournalCovers

\* One step of the running command (RemapStep).
LEMMA RemapStepKeeps ==
    ASSUME RemapInv, RemapStep
    PROVE  RemapInv'
<1>1. ASSUME NEW f \in Files, Abort(f) PROVE RemapInv'
  BY <1>1, StopKeeps DEF Abort, OnlyRun, countVars
<1> QED BY <1>1, AnnounceKeeps, ReadKeeps, UpdateKeeps, AttemptFailKeeps, VerifyKeeps,
           SaveKeeps, ClearKeeps DEF RemapStep

-----------------------------------------------------------------------------
(* The other steps *)

\* Publish: no remap is unfinished, and the new document is nowhere yet.
LEMMA PublishKeeps ==
    ASSUME RemapInv, NEW k \in Sources, Publish(k)
    PROVE  RemapInv'
<1> DEFINE new == published + 1
<1>1. /\ pc = "idle" /\ pc' = "idle" /\ ~Unfinished /\ ~Unfinished'
      /\ published < MaxFiles /\ published' = new
      /\ mapped' = [mapped EXCEPT ![k] = mapped[k] \cup {new}]
      /\ property' = [property EXCEPT ![new] = k]
      /\ existing' = existing \cup {new}
      /\ UNCHANGED <<stateFile, remap, stage, todo>>
  BY DEF Publish, Blocked, Unfinished, journalVars, runVars
<1>2. /\ new \in Files /\ new \in 0..MaxFiles
      /\ \A f \in 1..published : f # new /\ f \in 1..new
  BY <1>1, RemapConstantsOK DEF RemapInv, RemapTypes, Files
<1> HIDE DEF new
<1>3. /\ mapped \in [Sources -> SUBSET Files] /\ existing \in SUBSET Files
      /\ property \in [Files -> Sources \cup {NoSource}]
  BY DEF RemapInv, RemapTypes
<1>4. /\ mapped' \in [Sources -> SUBSET Files] /\ mapped'[k] = mapped[k] \cup {new}
      /\ \A l \in Sources : l # k => mapped'[l] = mapped[l]
      /\ property' \in [Files -> Sources \cup {NoSource}] /\ property'[new] = k
      /\ \A f \in Files : f # new => property'[f] = property[f]
  BY <1>1, <1>2, <1>3
<1>5. new \notin existing /\ \A l \in Sources : new \notin mapped[l]
  BY <1>2 DEF RemapInv, OnlyPublished
<1>6. RemapTypes'
  BY <1>1, <1>2, <1>4 DEF RemapInv, RemapTypes
<1>7. OnlyPublished'
  <2>1. new \in 1..new
    BY <1>2 DEF Files
  <2>2. existing' \subseteq 1..new /\ \A l \in Sources : mapped'[l] \subseteq 1..new
    BY <1>1, <1>2, <1>4, <2>1 DEF RemapInv, OnlyPublished
  <2> QED BY <1>1, <2>2 DEF OnlyPublished
<1>8. \A l \in Sources : Agree(l)'
  <2> SUFFICES ASSUME NEW l \in Sources PROVE Agree(l)'
    OBVIOUS
  <2>1. Agree(l)
    BY <1>1 DEF RemapInv, OthersAgree
  <2> QED BY <1>1, <1>3, <1>4, <1>5, <2>1 DEF Agree
<1> QED BY <1>1, <1>6, <1>7, <1>8 DEF RemapInv, JournalCovers, Passed, OthersAgree

\* Reconcile: the state file says what Google says.
LEMMA ReconcileKeeps ==
    ASSUME RemapInv, Reconcile
    PROVE  RemapInv'
<1>1. /\ pc = "idle" /\ pc' = "idle" /\ ~Unfinished /\ ~Unfinished'
      /\ stateFile' = "present"
      /\ mapped' = [k \in Sources |-> {f \in existing : property[f] = k}]
      /\ UNCHANGED <<remap, stage, property, existing, todo, published>>
  BY DEF Reconcile, Blocked, Unfinished, journalVars, googleVars, runVars, countVars
<1>2. RemapTypes'
  BY <1>1 DEF RemapInv, RemapTypes
<1>3. OnlyPublished' /\ \A k \in Sources : Agree(k)'
  BY <1>1 DEF RemapInv, OnlyPublished, Agree
<1> QED BY <1>1, <1>2, <1>3 DEF RemapInv, JournalCovers, Passed, OthersAgree

\* Interrupt, LoseState, Rename and Delete disturb no key and no mapping.
LEMMA OthersKeep ==
    ASSUME RemapInv,
           \/ Interrupt \/ LoseState
           \/ \E k, l \in Sources : Rename(k, l)
           \/ \E f \in Files : Delete(f)
    PROVE  RemapInv'
<1>1. CASE Interrupt
  BY <1>1, StopKeeps DEF Interrupt
<1>2. /\ UNCHANGED <<mapped, remap, stage, property, pc, todo, published>>
      /\ existing' \subseteq existing /\ stateFile' \in {stateFile, "damaged"}
      => RemapInv'
  <2> SUFFICES ASSUME UNCHANGED <<mapped, remap, stage, property, pc, todo, published>>,
                      existing' \subseteq existing, stateFile' \in {stateFile, "damaged"}
               PROVE  RemapInv'
    OBVIOUS
  <2>1. OnlyPublished' /\ JournalCovers' /\ OthersAgree'
    BY DocumentsUndisturbed
  <2>2. RemapTypes'
    BY DEF RemapInv, RemapTypes
  <2>3. Passed'
    BY DEF RemapInv, Passed, Unfinished, AfterSave
  <2> QED BY <2>1, <2>2, <2>3 DEF RemapInv
<1>3. CASE LoseState
  BY <1>2, <1>3 DEF LoseState, journalVars, googleVars, runVars
<1>4. ASSUME NEW k \in Sources, NEW l \in Sources, Rename(k, l) PROVE RemapInv'
  BY <1>2, <1>4 DEF Rename, localVars, journalVars, googleVars, runVars, countVars
<1>5. ASSUME NEW f \in Files, Delete(f) PROVE RemapInv'
  BY <1>2, <1>5 DEF Delete, localVars, journalVars, runVars
<1> QED BY <1>1, <1>3, <1>4, <1>5

LEMMA InitRemapInv == Init => RemapInv
<1> SUFFICES ASSUME Init PROVE RemapInv
  OBVIOUS
<1>1. RemapTypes
  BY RemapConstantsOK DEF Init, RemapTypes, RemapStages
<1> QED BY <1>1 DEF Init, RemapInv, OnlyPublished, JournalCovers, Passed, OthersAgree, Agree,
           Unfinished

LEMMA NextRemapInv ==
    ASSUME RemapInv, [Next]_vars
    PROVE  RemapInv'
<1>1. CASE UNCHANGED vars
  BY <1>1 DEF vars, localVars, journalVars, googleVars, runVars, countVars, RemapInv,
     RemapTypes, OnlyPublished, JournalCovers, Passed, OthersAgree, Agree, Unfinished,
     BeforeSave, AfterSave
<1>2. CASE Next
  BY <1>2, StartKeeps, ResumeKeeps, RemapStepKeeps, PublishKeeps, ReconcileKeeps, OthersKeep
     DEF Next
<1> QED BY <1>1, <1>2

-----------------------------------------------------------------------------
(* The theorems *)

\* In every state the journal, the mapping and Google are as RemapInv says.
THEOREM RemapInvHolds == Spec => []RemapInv
<1>1. RemapInv /\ [Next]_vars => RemapInv'
  BY NextRemapInv
<1> QED BY InitRemapInv, <1>1, PTL DEF Spec

\* The state file and Google agree whenever no remap is unfinished
\* (Application.Remap, internal/app/state_commands.go).
THEOREM MappingMatchesGoogleHolds == Spec => []MappingMatchesGoogle
<1>1. RemapInv => MappingMatchesGoogle
  BY DEF RemapInv, OthersAgree, Agree, MappingMatchesGoogle
<1> QED BY RemapInvHolds, <1>1, PTL

\* One step leaves the generations of a source under one source.
LEMMA StepKeepsTogether ==
    ASSUME RemapInv, [Next]_vars, stateFile = "present", stateFile' = "present",
           NEW k \in Sources
    PROVE  \E l \in Sources : mapped[k] \cap existing \subseteq mapped'[l]
<1>1. CASE mapped' = mapped
  BY <1>1
<1>2. CASE SaveRemap
  <2>1. Unfinished /\ mapped \in [Sources -> SUBSET Files]
    BY <1>2 DEF SaveRemap, RemapInv, RemapTypes, Passed
  <2>2. remap.from \in Sources /\ remap.to \in Sources
    BY <2>1, JournalShape DEF RemapInv
  <2>3. mapped' = [mapped EXCEPT ![remap.from] = {},
                                 ![remap.to] = mapped[remap.from] \cup mapped[remap.to]]
    BY <1>2 DEF SaveRemap
  <2>4. CASE k \in {remap.from, remap.to}
    <3>1. mapped[k] \subseteq mapped'[remap.to]
      BY <2>1, <2>2, <2>3, <2>4
    <3> QED BY <2>2, <3>1
  <2>5. CASE k \notin {remap.from, remap.to}
    BY <2>1, <2>3, <2>5
  <2> QED BY <2>4, <2>5
<1>3. CASE Reconcile
  <2>1. Agree(k)
    BY <1>3 DEF Reconcile, Blocked, RemapInv, OthersAgree
  <2> QED BY <1>3, <2>1 DEF Reconcile, Agree
<1>4. ASSUME NEW l \in Sources, Publish(l)
      PROVE  \E m \in Sources : mapped[k] \cap existing \subseteq mapped'[m]
  <2>1. mapped \in [Sources -> SUBSET Files]
    BY DEF RemapInv, RemapTypes
  <2> QED BY <1>4, <2>1 DEF Publish
<1>5. \/ mapped' = mapped \/ SaveRemap \/ Reconcile
      \/ \E l \in Sources : Publish(l)
  BY DEF Next, RemapStep, StartRemap, ResumeRemap, OnlyRun, Announce, SetStage, ReadKey,
     UpdateKey, AttemptFail, Abort, Verify, ClearRemap, Interrupt, LoseState, Rename, Delete,
     vars, localVars
<1> QED BY <1>1, <1>2, <1>3, <1>4, <1>5

\* The prior documents of a source and its active one stay together in the
\* state file, whatever remap, publish or reconcile does.
THEOREM GenerationsTogetherHolds == Spec => GenerationsTogether
<1>1. RemapInv /\ [Next]_vars =>
        [stateFile = "present" /\ stateFile' = "present" =>
            \A k \in Sources : \E l \in Sources : mapped[k] \cap existing \subseteq mapped'[l]]_vars
  BY StepKeepsTogether
<1> QED BY RemapInvHolds, <1>1, PTL DEF Spec, GenerationsTogether
=============================================================================
