SPECIFICATION FairSpec
CONSTANTS
    Single = {x}
    Bracket = {}
    Misnamed = {}
    Label <- MapLabel
    SourceId <- Leg
    FollowerId <- Leg
    NoRecord = NoRecord
    NoId = NoId
    NativeOco = FALSE
    IdsInEvents = FALSE
    SyntheticLabels = TRUE
    ChildReplies <- FullReplies
    SaveMayFail = FALSE
    MaxFaults = 1
    MaxVer = 2
    MaxCancels = 2
    MaxCrashes = 1
    Cancellable <- Leg
    SourceFills = {}
CHECK_DEADLOCK FALSE
INVARIANT
    ModificationsArrive
PROPERTY
    CancelMirrored
