\* Safety of the supervision gate and its refinement of IntentLifecycle.
CONSTANTS
    firebird = firebird
    short1 = short1
    short2 = short2
    short3 = short3
    NoIntent = NoIntent
    Intents <- MCIntents
    Order <- MCOrder
    InitialTiers = {"Normal", "Nosedive"}
    NetLiqs <- MCNetLiqs
    AllocationPct <- NoAllocation
    MaxPositions = 5
    MaxRiskPct = 5
    MaxExposurePct = 60
    MaxPending = 2
    TimeoutSecs = 1
    Second = 2
    MaxTicks = 2
    IntentCap = 1
    CommandCap = 1
SPECIFICATION Spec
INVARIANTS
    TypeOK
    Accounted
    SubmittedAtMostOnce
    InOnePlace
    SweptWithinASecond
    PublishedIsCurrent
PROPERTIES
    OnlyOperatorReleases
    ImplementsLifecycle
SYMMETRY Alike
