SPECIFICATION Spec
CONSTANTS
    Contracts = {c1}
    Items = {i1, i2}
    Assets = {a1}
    Clients = {w1}
    Cron = cron
    None = None
    Requests <- OrderRequests
    ManualTargets = {}
    Expirable = {}
    Overlap = "perContract"

CHECK_DEADLOCK FALSE
PROPERTIES CanceledOrderNeverInForce
