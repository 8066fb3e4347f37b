SPECIFICATION Spec
CONSTANTS
    Orgs = {o1}
    Words = {web}
    PRs = {1}
    Domains = {d1}
    Tasks = {t1, t2}
    Production = production
    MaxServices = 2
    MaxDeploys = 2
    MaxFaults = 1
INVARIANTS TypeOK ClosedIsTornDown DomainLeadsToHolder
PROPERTY OthersLeaveItAlone
SYMMETRY Symmetry
CHECK_DEADLOCK FALSE
