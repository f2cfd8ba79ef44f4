SPECIFICATION LiveSpec
CONSTANTS
    Contracts = {c1}
    Items = {i1}
    Assets = {a1}
    Clients = {w1}
    Cron = cron
    None = None
    Requests <- LiveRequests
    ManualTargets = {"DISPOSED"}
    Expirable = {c1}
    Overlap = "any"

CHECK_DEADLOCK FALSE
PROPERTIES ExpiredContractEnds
