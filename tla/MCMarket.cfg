SPECIFICATION MarketSpec
CONSTANTS
    RsiPeriod = 2
    VolLookback = 2
    BbPeriod = 3
    BbDeviation <- mcDeviation
    SwingLookback = 2
    PullbackBars = 2
    Symbols = {"spy", "qqq"}
    Bars <- mcBars
    Snapshots <- mcSnapshots
    Fallbacks <- mcFallbacks
    BarCap = 1
    QuoteCap = 3
    IntentCap = 1
    MaxQuotes = 5
INVARIANTS
    WindowsAreTheTape
    SignalsInOrder
    NoOpposedReversals
    BracketsAreSane
    HeatIsReal
    WatchlistIsNewest
CHECK_DEADLOCK FALSE
