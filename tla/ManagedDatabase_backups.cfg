SPECIFICATION Spec
CONSTANTS
    Projects = {p1}
    Slugs = {s1}
    Engines = {"postgres"}
    Tiers = {"autoscale"}
    Features = {{"backups"}}
    ObjectStore = TRUE
    MaxDatabases = 1
    MaxRequests = 1
    MaxInstances = 2
    MaxFaults = 0
INVARIANT BackupsContinue
CHECK_DEADLOCK FALSE
