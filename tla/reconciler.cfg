SPECIFICATION FairSpec
CONSTANTS
    Pair = {p}
    Ratios <- OneOrThird
    Tolerance = 1
    Sizes <- BuyOrSell
    Carried <- HeldOrFlat
    MaxTrades = 2
    MaxFaults = 2
CHECK_DEADLOCK FALSE
INVARIANT
    TypeOK
PROPERTIES
    AlarmIsReal
    NothingOverlooked
    DivergenceReported
