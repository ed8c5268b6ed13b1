SPECIFICATION ProgressSpec
CONSTANTS
    Versions = {1, 2, 3}
    MaxFailures = 2
    Installed = 1
    Bundles = {2}
    Feeds <- SteadyFeed
    Desireds = {3}
    Windows <- AnyWindow
    Faults = {"booth", "verify", "bundle", "pull", "compose", "migrate", "self", "crash"}
    MaxStrikes = 3
INVARIANTS
    StrikesCounted
PROPERTIES
    LatchIsSticky
    ReachesDesired
    UpdaterConverges
