SPECIFICATION AccountsSpec
CONSTANTS
    Families <- MCFamilies
    Trades <- MCTrades
    Symbols = {"SPY", "VOO", "QQQ"}
    WashDays = 1
    DayTradeDays = 1
    DayTradeLimit = 1
    DayTradeCap = 1
    GravityWell = 50000
    MinHarvest = 20000
    Commission = 1
    NetLiqs = {20000, 50000}
    Equities = {10000, 30000}
    StartingCapital = 1000
    MaxShares = 3
    MaxFills = 4
    MaxDays = 2
INVARIANTS
    LedgerAddsUp
    HarvestsStayWithinGains
    WashWindowIsExact
    PdtForgetsNothing
CHECK_DEADLOCK FALSE
