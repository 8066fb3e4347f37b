SPECIFICATION MCSpec
CONSTANTS
    Builders = {b1}
    Controller = ctl
    Services = {s1}
    PRs = {}
    Production = production
    Prebuilt = {ci}
    NoImage = noimage
    MaxDeploys = 2
    MaxSettings = 1
    MaxFaults = 1
INVARIANTS NewestSupersedes SettingsSettle
CHECK_DEADLOCK FALSE
