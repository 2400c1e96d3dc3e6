SPECIFICATION FairSpecRecovery
CONSTANTS
    Targets = {1, 2}
    DocIds = {d1, d2, d3}
    NoDoc = NoDoc
    Placeholder = Placeholder
    Links <- LinkChain
    ReviewPull <- NoReview
    Attempts = 1
    MaxOps = 1
    MaxFailures = 2
    MaxLate = 0
    MaxReviewer = 0
    UseTargets = FALSE
    Versions = {1, 2}
    MaxEdits = 1
    MaxLosses = 1
    MaxScans = 1
    MaxRemovals = 0
PROPERTIES
    RecoveredPublishCompletes
CHECK_DEADLOCK FALSE
