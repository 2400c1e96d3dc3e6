------------------------ MODULE MCPublishCommand ------------------------
EXTENDS PublishCommand, TLC

DocSymmetry == Permutations(DocIds)
LinkCycle == [t \in Targets |-> Targets \ {t}]

\* Each target links the one before it: a change of the first concerns all.
LinkChain == [t \in Targets |-> Targets \cap {t - 1}]

NoReview == {}
SecondReviewed == {2}
=========================================================================
