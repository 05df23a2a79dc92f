\* Two symbols, three time frames, room for one chart request (16 in the code).
CONSTANTS
    Symbols = {"spy", "qqq"}
    Timeframes <- MCTimeframes
    FirstFrame = "Day"
    ChartCap = 1
    Nothing = Nothing
SPECIFICATION TerminalSpec
INVARIANTS
    TerminalTypeOK
    CandlesAreTheHeaders
CHECK_DEADLOCK FALSE
