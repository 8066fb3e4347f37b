SPECIFICATION Spec
CONSTANTS
    Projects = {p1, p2}
    Slugs = {w1}
    Namespace = namespace
    Types = {"web"}
    Settings = {{"autoscale"}, {"autoscale", "disk"}}
    Tasks = {t1, t2}
    MaxServices = 2
    MaxFaults = 1
INVARIANTS TypeOK Isolated SecretRefSatisfied LiveIsDesired DeletedIsGone
PROPERTY ExistingKeepsRunning
SYMMETRY Symmetry
CHECK_DEADLOCK FALSE
