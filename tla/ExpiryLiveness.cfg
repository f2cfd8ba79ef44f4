SPECIFICATION LiveSpec
CONSTANTS
    Contracts = {c1}
    Items = {i1, i2}
    Assets = {a1, a2}
    Clients = {w1}
    Cron = cron
    None = None
    Requests <- LiveRequests
    ManualTargets = {"AVAILABLE", "LOST"}
    Expirable = {c1}
    Overlap = "any"

CHECK_DEADLOCK FALSE
PROPERTIES ExpiredContractEnds
