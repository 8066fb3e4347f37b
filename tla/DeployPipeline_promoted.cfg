SPECIFICATION Spec
CONSTANTS
    Builders = {b1}
    Controller = ctl
    Services = {s1}
    PRs = {pr1}
    Production = production
    Prebuilt = {}
    NoImage = noimage
    MaxDeploys = 2
    MaxSettings = 1
    MaxFaults = 0
PROPERTY SettingsKeepPreviewsApart
CHECK_DEADLOCK FALSE
