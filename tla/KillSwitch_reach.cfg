SPECIFICATION Spec
CONSTANTS
    RefreshMs = 1
    TimeoutMs = 1
    PollMs = 1
    GraceMs = 6
    LeaseTtl = 2
    Checks = {1}
    Steps <- Steady
    Faults = {"unreachable", "persist", "crash"}
    MaxGeneration = 3
    MaxTime = 8
INVARIANTS
    OffHonoured
    LiveHonoured
