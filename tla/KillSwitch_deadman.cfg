SPECIFICATION Spec
CONSTANTS
    RefreshMs = 2
    TimeoutMs = 1
    PollMs = 2
    GraceMs = 2
    LeaseTtl = 2
    Checks = {1}
    Steps <- Steady
    Faults = {"unreachable", "replay", "crash"}
    MaxGeneration = 2
    MaxTime = 10
INVARIANTS
    DeadMan
