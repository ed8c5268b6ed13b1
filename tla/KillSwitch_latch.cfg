SPECIFICATION Spec
SYMMETRY AnyCall
CONSTANTS
    RefreshMs = 2
    TimeoutMs = 1
    PollMs = 2
    GraceMs = 3
    LeaseTtl = 2
    Checks = {c1, c2}
    Steps <- EitherWay
    Faults = {"unreachable", "replay", "foreign", "crash"}
    MaxGeneration = 3
    MaxTime = 3
INVARIANTS
    KInv
    TypeOK
    OffLatches
PROPERTIES
    NothingForgotten
