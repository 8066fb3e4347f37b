SPECIFICATION FairSpec
CONSTANTS
    Builders = {b1}
    Controller = ctl
    Services = {s1}
    PRs = {}
    Production = production
    Prebuilt = {}
    NoImage = noimage
    MaxDeploys = 1
    MaxSettings = 0
    MaxFaults = 0
PROPERTY QueuedIsClaimed
CHECK_DEADLOCK FALSE
