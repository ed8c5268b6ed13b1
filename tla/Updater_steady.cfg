SPECIFICATION HealSpec
CONSTANTS
    Versions = {1, 2, 3, 4}
    MaxFailures = 2
    Installed = 1
    Bundles = {2, 4}
    Feeds <- SteadyFeed
    Desireds <- AnyDesired
    Windows <- AnyWindow
    Faults = {"feed", "booth", "verify", "bundle", "pull", "compose", "migrate", "heal", "self", "crash"}
    MaxStrikes = 0
INVARIANTS
    SettledShape
    SchemaOneStepAhead
PROPERTIES
    Supervised
    JournalResolved
