\* Flameout can move a stop away from the price.
CONSTANTS
    ThresholdPct <- MCThresholds
    CooldownMins = 2
    InitialEquity = 10000
    Equities <- MCEquities
    Orders <- MCOrders
    Books <- MCBooks
    Openings <- MCOpenings
    Prices <- MCPrices
    AllocationPct <- MCAllocation
    MaxPositions = 5
    MaxRiskPct = 5
    MaxExposurePct = 60
SPECIFICATION Spec
PROPERTY StopsOnlyTighten
