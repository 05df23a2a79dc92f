\* Approve-all reaches an intent the operator has not seen.
CONSTANTS
    short1 = short1
    short2 = short2
    NoIntent = NoIntent
    Intents <- MCIntents
    Order <- MCOrder
    InitialTiers = {"Normal"}
    NetLiqs <- MCNetLiqs
    AllocationPct <- NoAllocation
    MaxPositions = 5
    MaxRiskPct = 5
    MaxExposurePct = 60
    MaxPending = 2
    TimeoutSecs = 1
    Second = 2
    MaxTicks = 1
    IntentCap = 1
    CommandCap = 2
SPECIFICATION SeenSpec
INVARIANT StrictApprovedOneByOne
