\* Two days, failing saves, crashes and restarts at any point.
SPECIFICATION FairRunSpec
CONSTANTS
    MaxDay = 2
    MaxOpened = 2
    MaxOpen = 2
    MaxTrades = 2
    MaxLosses = 2
    DailyLossLimit = 9
    DailyLossPct = 100
    DrawdownPct = 100
    MinDataQuality = 60
    DqThreshold = 70
    Score <- MCScore
    Pnl <- MCPnl
    OpenFee = 0
    EnvReason = {}
    StartingEquity = 9
    SessionMinutes = 3
    Gap = {1, 2}
    FlattenAt = 2
    EntryCutoff = 3
    MaxFailures = 2
INVARIANTS
    FlatOrEscalated
    CrashCostBounded
    StoredIsCurrent
PROPERTIES
    StopLeadsToExit
    ImplementsGate
