------------------------- MODULE MCStateRecovery -------------------------
EXTENDS StateRecovery, TLC

DocSymmetry == Permutations(DocIds)
LinkChain == [t \in Targets |-> Targets \cap {t - 1}]
NoReview == {}
SecondReviewed == {2}
==========================================================================
