SPECIFICATION Spec
CONSTANTS
    Versions = {1, 2, 3}
    MaxFailures = 1
    Installed = 1
    Bundles = {2}
    Feeds <- AnyFeed
    Desireds <- AnyDesired
    Windows <- AnyWindow
    Faults = {"feed", "booth", "verify", "bundle", "pull", "compose", "migrate", "heal", "op", "self", "crash"}
    MaxStrikes = 0
INVARIANTS
    IInv
    TypeOK
    CurrentWasCertified
    RollbackNeverDowngrades
PROPERTIES
    CurrentNeverFalls
