\* The stress engine with its override and its Flameout protocol, the trust
\* ledger (100 approvals scaled to 2), and the governor that owns both.
CONSTANTS
    ThresholdPct <- MCThresholds
    CooldownMins = 2
    InitialEquity = 10000
    Equities <- MCEquities
    Orders <- MCOrders
    Books <- MCBooks
    Openings <- MCOpenings
    Prices <- MCPrices
    AllocationPct <- MCAllocation
    MaxPositions = 5
    MaxRiskPct = 5
    MaxExposurePct = 60
    Keys <- MCKeys
    Occasions <- MCOccasions
    NeedApprovals = 2
    NeedDays = 2
    NeedVix = 2
    NeedTimes = 2
    MaxDecisions = 4
SPECIFICATION GovernorSpec
INVARIANTS
    GovernorTypeOK
    LiftedOneTierPerCooldown
    TighteningNeverTriggers
    ExecutesAloneOnlyWhereEarned
PROPERTY LosingNeverAdmitsMore
CHECK_DEADLOCK FALSE
