SPECIFICATION FairSpec
CONSTANTS
    u = u
    v = v
    Clients = {u, v}
    Nothing = Nothing
    MaxRebaseAttempts = 1
    MaxWrites = 3
    Settings <- All
INVARIANTS TypeOK BaseIsTheVersion EditsKept
PROPERTIES NeverClobbers Settles
CHECK_DEADLOCK FALSE
