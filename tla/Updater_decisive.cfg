SPECIFICATION Spec
CONSTANTS
    Versions = {1, 2, 3, 4}
    MaxFailures = 2
    Installed = 1
    Bundles = {2, 3}
    Feeds <- AnyFeed
    Desireds <- AnyDesired
    Windows <- DecisiveWindows
    Faults = {"feed", "booth", "verify", "bundle", "pull", "compose", "migrate", "self", "crash"}
    MaxStrikes = 0
INVARIANTS
    TruthfulSynthesis
    SwapAccounted
