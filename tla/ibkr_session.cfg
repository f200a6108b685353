SPECIFICATION Spec
CONSTANTS
    Endpoints = 2
    Groups <- BracketAndSingle
    Change = {price, size}
    None = None
    MaxPlacements = 1
    MaxId = 4
    MaxActs = 2
    MaxTroubles = 1
    MaxUnread = 2
SYMMETRY Symmetry
CHECK_DEADLOCK FALSE
INVARIANTS
    TypeOK
    FiledIdIsItsOrder
    
    
    RefusalsReported
