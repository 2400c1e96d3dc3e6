SPECIFICATION SpecAnyOrphan
CONSTANTS
    Targets = {1, 2}
    DocIds = {d1, d2}
    NoDoc = NoDoc
    Placeholder = Placeholder
    Links <- LinkChain
    ReviewPull <- SecondReviewed
    Attempts = 1
    MaxOps = 1
    MaxFailures = 1
    MaxLate = 0
    MaxReviewer = 0
    UseTargets = TRUE
    Versions = {1}
    MaxEdits = 0
    MaxLosses = 0
    MaxScans = 0
    MaxRemovals = 1
SYMMETRY DocSymmetry
INVARIANTS
    JournalKeepsSnapshots
CHECK_DEADLOCK FALSE
