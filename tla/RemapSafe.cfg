SPECIFICATION FairSpec
CONSTANTS
    Sources = {a, b, c}
    NoSource = NoSource
    MaxFiles = 3
    Attempts = 2
    MaxFailures = 2
    MaxLosses = 1
    MaxDeletions = 1
INVARIANTS
    MappingMatchesGoogle
PROPERTIES
    GenerationsTogether
    RemapCompletes
CHECK_DEADLOCK FALSE
