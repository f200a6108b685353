SPECIFICATION Spec
CONSTANTS
    Label = {l1, l2, l3}
    SourceId = {s1, s2}
    FollowerId = {f1}
    NoRecord = NoRecord
    NoId = NoId
    SaveMayFail = TRUE
    Block = {b1, b2}
SYMMETRY Symmetry
INVARIANTS
    IndexSound
    IndexComplete
    DurableOutsideBatch
PROPERTY
    CrashLosesOnlyDeferred
