----------------------------- MODULE ReviewSets -----------------------------
(***************************************************************************)
(* What publishing promises the readers of the state file, whatever        *)
(* happens to the command: review sets change hands as a whole.            *)
(*                                                                         *)
(* A batch of targets is begun; at one moment every target of the batch    *)
(* gets its next generation and the document it showed before becomes the  *)
(* last of its past documents; then the batch ends.  Nothing else changes  *)
(* what is current or past.                                                *)
(***************************************************************************)
EXTENDS Naturals, Sequences

CONSTANTS Targets, Files, NoFile

VARIABLES
    batch,      \* the targets of the unfinished batch
    published,  \* whether the batch is current already
    current,    \* the current document of each target
    past        \* its past documents, oldest first

vars == <<batch, published, current, past>>

Nothing == [file |-> NoFile, gen |-> 0]

Init ==
    /\ batch = {} /\ published = FALSE
    /\ current = [t \in Targets |-> Nothing]
    /\ past = [t \in Targets |-> << >>]

Begin(items) ==
    /\ batch = {} /\ items # {}
    /\ batch' = items /\ published' = FALSE
    /\ UNCHANGED <<current, past>>

Publish ==
    /\ batch # {} /\ ~published
    /\ \E new \in [batch -> Files] :
        current' = [t \in Targets |->
            IF t \in batch THEN [file |-> new[t], gen |-> current[t].gen + 1]
            ELSE current[t]]
    /\ past' = [t \in Targets |->
            IF t \in batch /\ current[t] # Nothing THEN Append(past[t], current[t])
            ELSE past[t]]
    /\ published' = TRUE
    /\ UNCHANGED batch

End ==
    /\ batch # {} /\ published
    /\ batch' = {} /\ published' = FALSE
    /\ UNCHANGED <<current, past>>

Next == (\E items \in SUBSET Targets : Begin(items)) \/ Publish \/ End

Spec == Init /\ [][Next]_vars
=============================================================================
