SPECIFICATION Spec
CONSTANTS
    Single = {}
    Bracket = {b}
    Misnamed = {}
    Label <- MapLabel
    SourceId <- Leg
    FollowerId <- Leg
    NoRecord = NoRecord
    NoId = NoId
    NativeOco = FALSE
    IdsInEvents = FALSE
    SyntheticLabels = TRUE
    ChildReplies <- FullReplies
    SaveMayFail = FALSE
    MaxFaults = 1
    MaxVer = 0
    MaxCancels = 1
    MaxCrashes = 1
    Cancellable <- Leg
    SourceFills = {}
CONSTRAINT OneTrouble
CHECK_DEADLOCK FALSE
INVARIANTS
    TypeOK
    NoOrphan
    NoSpuriousCancel
    TimelyCancelLands
