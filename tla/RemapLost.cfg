SPECIFICATION FairSpec
CONSTANTS
    Sources = {a, b, c}
    NoSource = NoSource
    MaxFiles = 1
    Attempts = 2
    MaxFailures = 1
    MaxLosses = 1
    MaxDeletions = 0
PROPERTIES
    LostMappingRecovered
CHECK_DEADLOCK FALSE
