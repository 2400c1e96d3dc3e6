SPECIFICATION SpecCommand
CONSTANTS
    Targets = {1, 2, 3}
    DocIds = {d1, d2, d3, d4, d5, d6}
    NoDoc = NoDoc
    Placeholder = Placeholder
    Links <- LinkChain
    ReviewPull <- NoReview
    Attempts = 1
    MaxOps = 2
    MaxFailures = 0
    MaxLate = 0
    MaxReviewer = 1
    UseTargets = TRUE
    Versions = {1, 2}
    MaxEdits = 1
SYMMETRY DocSymmetry
INVARIANTS
    ActiveLinksCurrent
CHECK_DEADLOCK FALSE
