SPECIFICATION SpecAnyOrphan
CONSTANTS
    Targets = {1, 2}
    DocIds = {d1, d2, d3, d4}
    NoDoc = NoDoc
    Placeholder = Placeholder
    Links <- LinkChain
    ReviewPull <- SecondReviewed
    Attempts = 1
    MaxOps = 2
    MaxFailures = 1
    MaxLate = 0
    MaxReviewer = 1
    UseTargets = TRUE
    Versions = {1}
    MaxEdits = 0
    MaxLosses = 1
    MaxScans = 1
    MaxRemovals = 1
SYMMETRY DocSymmetry
INVARIANTS
    PublishedSetsComplete
    GenerationsOrdered
    BaselinesTrusted
PROPERTIES
    ReconcileRecovers
    AbandonLosesNothing
CHECK_DEADLOCK FALSE
