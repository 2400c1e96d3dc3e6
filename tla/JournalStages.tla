--------------------------- MODULE JournalStages ---------------------------
(***************************************************************************)
(* The stages a publish journal entry passes through, by rank, and the     *)
(* transitions the state store accepts (internal/state/store.go).          *)
(***************************************************************************)
EXTENDS Naturals

Planned         == 0
Creating        == 1
Created         == 2
FixingLinks     == 3
LinksFixed      == 4
CapturingReview == 5
ReviewCaptured  == 6
MarkingReady    == 7
Ready           == 8
Moving          == 9
Moved           == 10
SealingReview   == 11
ReviewSealed    == 12
Committing      == 13
Committed       == 14

Stages == Planned..Committed

\* Mutation of ValidTransition: the jump over the seal is forgotten.
ValidTransition_NoJump(current, next) ==
    \/ next = current
    \/ next = current + 1
    \/ current = LinksFixed /\ next = MarkingReady

\* One step at a time, repeating a stage allowed; an entry without review
\* pull jumps over the capture and over the seal.
ValidTransition(current, next) ==
    \/ next = current
    \/ next = current + 1
    \/ current = LinksFixed /\ next = MarkingReady
    \/ current = Moved /\ next = Committing
=============================================================================
