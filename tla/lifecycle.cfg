SPECIFICATION LifecycleSpec
CONSTANTS
    b1 = b1
    b2 = b2
    b3 = b3
    Branches = {b1, b2, b3}
    NoBranch = NoBranch
    Statuses = {401, 486, 487}
    MaxForks = 2
SYMMETRY BranchSymmetry
INVARIANTS
    LifecycleTypeOK
    NoOrphanAnswer
    HangupBeatsAnswer
    FailureMeansNothingLeft
PROPERTIES
    OnlyForward
