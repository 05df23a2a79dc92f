\* The timeout does not survive a broker that does not answer.
CONSTANTS
    firebird = firebird
    short1 = short1
    short2 = short2
    short3 = short3
    NoIntent = NoIntent
    Intents <- TwoIntents
    Order <- TwoOrders
    InitialTiers = {"Normal"}
    NetLiqs <- MCNetLiqs
    AllocationPct <- NoAllocation
    MaxPositions = 5
    MaxRiskPct = 5
    MaxExposurePct = 60
    MaxPending = 1
    TimeoutSecs = 1
    Second = 2
    MaxTicks = 2
    IntentCap = 1
    CommandCap = 1
SPECIFICATION SilentBrokerSpec
PROPERTY TimeoutIsKept
