SPECIFICATION Spec
CONSTANTS
    Single = {x}
    Bracket = {b}
    Misnamed <- StopLimitExits
    Label <- MapLabel
    SourceId <- Leg
    FollowerId <- Leg
    NoRecord = NoRecord
    NoId = NoId
    NativeOco = FALSE
    IdsInEvents = FALSE
    SyntheticLabels = TRUE
    ChildReplies <- FullReplies
    SaveMayFail = FALSE
    MaxFaults = 0
    MaxVer = 0
    MaxCancels = 1
    MaxCrashes = 1
    Cancellable <- SingleLegs
    SourceFills <- SingleLegs
CHECK_DEADLOCK FALSE
INVARIANTS
    MappingFaithful
    NoResurrection
    SettledIsDurable
