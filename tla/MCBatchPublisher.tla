------------------------- MODULE MCBatchPublisher -------------------------
EXTENDS BatchPublisher, TLC

\* Document identities are interchangeable: no action compares or orders them.
DocSymmetry == Permutations(DocIds)

\* Two targets that link each other, a cycle: each waits for the other's URL.
LinkCycle == [t \in Targets |-> Targets \ {t}]

\* Only the second target is pulled from review.
SecondReviewed == {2}
NoneReviewed == {}
=============================================================================
