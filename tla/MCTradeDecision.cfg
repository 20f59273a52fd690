\* the day of one snapshot, one structure, one session or one position
CONSTANTS
    MinContracts = 20
    FarMargin = 3
    MaxLegs = 6
    MaxOpen = 2
    MaxDollarRisk = 750
    MaxContracts = 2
    MaxTotalOpenRisk = 700
    MaxExpirationRisk = 1000
    Markets <- MCMarkets
    CycleMarkets <- MCCycleMarkets
    Strikes = {2, 4}
    MaxComposed = 3
    Sizes <- MCSizes
    Contexts <- MCContexts
    Costs <- MCCosts
    Offers <- MCOffers
    Forecasts <- MCForecasts
    StartingEquity = 100000
    Results <- MCResults
    MaxCloses = 1
    Fee = 2
    Positions <- MCSamePositions
    Marks <- MCMarks
SPECIFICATION Spec
INVARIANTS
    TradeableIsSound
    RiskIsDefined
    SizingAgrees
    ExitsFollowThePlan
PROPERTIES
    WorseNeverScoresHigher
    OpenedIsWorthItsRisk
