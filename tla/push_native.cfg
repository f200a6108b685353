SPECIFICATION Spec
CONSTANTS
    Single = {}
    Bracket = {b}
    Misnamed = {}
    Label <- MapLabel
    SourceId <- Leg
    FollowerId <- Leg
    NoRecord = NoRecord
    NoId = NoId
    NativeOco = TRUE
    IdsInEvents = TRUE
    SyntheticLabels = FALSE
    ChildReplies <- FullReplies
    SaveMayFail = FALSE
    MaxFaults = 1
    MaxVer = 1
    MaxCancels = 1
    MaxCrashes = 1
CHECK_DEADLOCK FALSE
INVARIANTS
    TypeOK
    NoOrphan
    CancelsArrive
    ModificationsArrive
