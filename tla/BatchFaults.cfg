SPECIFICATION Spec
CONSTANTS
    Targets = {1, 2}
    DocIds = {d1, d2, d3, d4, d5}
    NoDoc = NoDoc
    Placeholder = Placeholder
    Links <- LinkCycle
    ReviewPull <- SecondReviewed
    Attempts = 2
    MaxOps = 2
    MaxFailures = 3
    MaxLate = 1
    MaxReviewer = 1
SYMMETRY DocSymmetry
INVARIANTS
    JournalMatchesGoogle
    Barriers
    DocumentsAccounted
    NeverStuck
    LinksInsideBatch
    SealedBaseline
PROPERTIES
    StagesOnlyAdvance
    HistoryKept
    ImplementsReviewSets
CHECK_DEADLOCK FALSE
