\* Does a loss realized today always count against today?
SPECIFICATION Spec
CONSTANTS
    MaxDay = 3
    MaxOpened = 4
    MaxOpen = 2
    MaxTrades = 2
    MaxLosses = 2
    DailyLossLimit = 2
    DailyLossPct = 20
    DrawdownPct = 50
    MinDataQuality = 70
    DqThreshold = 70
    Score <- MCScore
    Pnl <- MCPnl
    OpenFee = 1
    EnvReason = {"SLIPPAGE"}
    StartingEquity = 20
PROPERTY DailyLossStopsTrading
