SPECIFICATION FairSpec
CONSTANTS
    Projects = {p1}
    Slugs = {s1}
    Engines = {"postgres", "redis"}
    Tiers = {"standard", "autoscale"}
    Features = {{}, {"pooling", "backups"}}
    ObjectStore = TRUE
    MaxDatabases = 2
    MaxRequests = 2
    MaxInstances = 2
    MaxFaults = 1
INVARIANTS ReadyIsServed DeletedIsGone
PROPERTIES CreatingNotDropped DeliveredProvisionEnds
CHECK_DEADLOCK FALSE
