SPECIFICATION Spec
CONSTANTS
    u = u
    v = v
    Clients = {u, v}
    Nothing = Nothing
    MaxRebaseAttempts = 1
    MaxWrites = 3
    Settings <- Waiting
PROPERTIES NeverClobbers
CHECK_DEADLOCK FALSE
