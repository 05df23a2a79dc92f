\* The FlowManager with its two streams, its resets and the calendar.
CONSTANTS
    Symbols = {spy, qqq}
    NoSymbol = NoSymbol
    Prices <- MCPrices
    PrintPrices <- MCPrintPrices
    TapeCap = 2
    DeltaBuckets = 2
    DomDepth = 2
    QueueCap = 1
    MaxPrints = 2
    MaxDays = 2
SPECIFICATION Spec
INVARIANTS
    TypeOK
    BookCatchesUp
    DeltasReconcile
    OneSymbolOneSession
    PublishedIsCurrent
SYMMETRY AnySymbol
