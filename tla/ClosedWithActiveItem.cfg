SPECIFICATION Spec
CONSTANTS
    Contracts = {c1}
    Items = {i1, i2}
    Assets = {a1}
    Clients = {w1, w2}
    Cron = cron
    None = None
    Requests <- ItemRequests
    ManualTargets = {}
    Expirable = {}
    Overlap = "any"

CHECK_DEADLOCK FALSE
INVARIANTS ClosedContractHoldsNothing
