SPECIFICATION Spec
CONSTANTS
    Projects = {p1}
    Slugs = {s1}
    Engines = {"postgres"}
    Tiers = {"standard", "autoscale"}
    Features = {{"pooling", "backups"}}
    ObjectStore = TRUE
    MaxDatabases = 2
    MaxRequests = 3
    MaxInstances = 2
    MaxFaults = 0
INVARIANTS TypeOK ReadyIsServed ReadyIsScaled AutoscaleInBounds DeletedIsGone
CHECK_DEADLOCK FALSE
