SPECIFICATION FairSpec
CONSTANTS
    Builders = {b1, b2}
    Controller = ctl
    Services = {s1}
    PRs = {}
    Production = production
    Prebuilt = {ci}
    NoImage = noimage
    MaxDeploys = 1
    MaxSettings = 1
    MaxFaults = 1
INVARIANTS TypeOK OneOwner BuildAgrees
PROPERTIES ImplementsLifecycle NeverDropped DeliveredTerminates SweepRecovers
CHECK_DEADLOCK FALSE
