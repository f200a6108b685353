SPECIFICATION Spec
CONSTANTS
    Single = {}
    Bracket = {b}
    Misnamed = {}
    Label <- MapLabel
    SourceId <- Leg
    FollowerId <- Leg
    NoRecord = NoRecord
    NoId = NoId
    NativeOco = TRUE
    IdsInEvents = TRUE
    SyntheticLabels = FALSE
    ChildReplies <- FullReplies
    SaveMayFail = FALSE
    MaxFaults = 0
    MaxVer = 0
    MaxCancels = 1
    MaxCrashes = 0
CHECK_DEADLOCK FALSE
INVARIANT
    ProtectionKept
