SPECIFICATION EnginesSpec
CONSTANTS
    Env = {"demo", "live"}
    Config <- Saved
    OwnAccounts <- Logins
    ShownAs <- Shown
    Named = {"dn"}
    Pinned <- Settings
    Traded = {"i3", "i4"}
    Manages <- Gateways
    Default = "g1"
    Nil = Nil
    MaxStarts = 2
    MaxSaves = 1
    MaxQuits = 1
CHECK_DEADLOCK FALSE
INVARIANTS
    StoppedIsDead
    MirroredOnce
