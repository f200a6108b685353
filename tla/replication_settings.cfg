SPECIFICATION Spec
CONSTANTS
    Id = {"x", "y", "z"}
    Label = {"A", "B", "C"}
    Blank = {TRUE, FALSE}
    Stored <- Files
    None = None
    MaxPairs = 3
    MaxActs = 6
CHECK_DEADLOCK FALSE
INVARIANTS
    TypeOK
    PairsBacked
    EditHitsItsPair
