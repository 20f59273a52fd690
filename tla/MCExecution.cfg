\* Whole fills only; three orders: a round trip and an open, or failed closes.
SPECIFICATION Spec
CONSTANTS
    OrderId = {o1, o2, o3}
    PositionId = {p1, p2}
    MaxContracts = 2
    MaxReprice = 1
    Concession = 1
    AllowPartial = FALSE
    Fee = 1
    StartingEquity = 0
    MaxPoll = 2
    MaxOpen = 1
    Tolerance = 2
    Rounding <- MCRounding
    Quote <- MCQuote
SYMMETRY MCSymmetry
INVARIANTS
    BookMatchesFills
    NothingLeftWorking
    EquityNeverOverstated
