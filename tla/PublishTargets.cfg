SPECIFICATION FairSpecCommand
CONSTANTS
    Targets = {1, 2}
    DocIds = {d1, d2, d3, d4}
    NoDoc = NoDoc
    Placeholder = Placeholder
    Links <- LinkCycle
    ReviewPull <- NoReview
    Attempts = 1
    MaxOps = 2
    MaxFailures = 1
    MaxLate = 1
    MaxReviewer = 0
    UseTargets = TRUE
    Versions = {1, 2}
    MaxEdits = 1
INVARIANTS
    HashOfActiveDocument
PROPERTIES
    InterruptedPublishIsSaved
CHECK_DEADLOCK FALSE
