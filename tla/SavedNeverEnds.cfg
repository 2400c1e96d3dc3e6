SPECIFICATION FairSpecCommand
CONSTANTS
    Targets = {1, 2}
    DocIds = {d1, d2}
    NoDoc = NoDoc
    Placeholder = Placeholder
    Links <- LinkCycle
    ReviewPull <- NoReview
    Attempts = 1
    MaxOps = 1
    MaxFailures = 1
    MaxLate = 0
    MaxReviewer = 0
    UseTargets = TRUE
    Versions = {1}
    MaxEdits = 0
PROPERTIES
    SavedPublishCompletes
CHECK_DEADLOCK FALSE
