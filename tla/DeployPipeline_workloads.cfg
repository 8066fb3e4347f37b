SPECIFICATION Spec
CONSTANTS
    Builders = {b1}
    Controller = ctl
    Services = {s1}
    PRs = {pr1}
    Production = production
    Prebuilt = {ci}
    NoImage = noimage
    MaxDeploys = 2
    MaxSettings = 0
    MaxFaults = 0
INVARIANTS ImagePushed ClusterRunsItsDeploys
CHECK_DEADLOCK FALSE
