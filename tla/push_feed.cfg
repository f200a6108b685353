SPECIFICATION PushFairSpec
CONSTANTS
    Single = {f}
    Bracket = {b}
    Misnamed = {}
    MaxVer = 1
    MaxUnresolved = 1
    MaxUnread = 0
    Modifiable <- SinglesAndStops
    Executable = {b}
    Delays = 1
    MaxTroubles = 1
CHECK_DEADLOCK FALSE
INVARIANTS
    FeedTypeOK
    BracketWhole
    FollowsAccount
PROPERTIES
    FeedImplemented
    Recovers
