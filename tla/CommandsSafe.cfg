SPECIFICATION CommandsSpec
CONSTANTS
    Commands = {c1, c2}
    Absent = Absent
    MaxOps = 2
    MaxSaves = 2
    MaxFailures = 2
    MaxOutages = 2
    MaxDamages = 2
    Generations = {1, 2}
    Texts = {x, y}
    NoSnapshot = NoSnapshot
    BadFile = BadFile
    MaxSnapFaults = 4
    MaxSnapDamages = 1
    ReadAttempts = 2
    MaxChanges = 3
    MaxMoves = 3
    Folders = {1, 2, 3, 4}
    NoFolder = 0
    Users = {1, 2}
    SetupAttempts = 2
    MaxSetupFaults = 2
    MaxFolderChanges = 1
    Clients = {k1, k2}
    MaxLogins = 2
    MaxTokens = 4
    MaxAuthFaults = 1
    MaxNoteEdits = 2
INVARIANTS
    StateFilesKept
    SnapshotsKept
    ReadAtOneMoment
    StatusCoversPull
    OneFolderPerRole
    GrantKept
    ProbeLeavesNothing
PROPERTIES
    SavesReplaceTheLatest
    LoadedBaseline
    PatchFromReview
    DestinationKept
CHECK_DEADLOCK FALSE
