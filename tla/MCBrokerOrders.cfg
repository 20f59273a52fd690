\* Two orders, sizes up to 2, one reprice, debit and credit limits, partial fills.
SPECIFICATION OrdersSpec
CONSTANTS
    OrderId = {o1, o2}
    PositionId = {p1}
    MaxContracts = 2
    MaxReprice = 1
    Concession = 1
    AllowPartial = TRUE
    Fee = 1
    StartingEquity = 20
    Price <- MCPrice
INVARIANTS
    FillsWithinBudget
    FillsAddUp
    PollsMakeProgress
PROPERTIES
    TerminalIsFinal
