\* Partial fills allowed, as by default: does the book still say what was traded?
SPECIFICATION Spec
CONSTANTS
    OrderId = {o1, o2, o3}
    PositionId = {p1, p2}
    MaxContracts = 2
    MaxReprice = 1
    Concession = 1
    AllowPartial = TRUE
    Fee = 1
    StartingEquity = 0
    MaxPoll = 2
    MaxOpen = 1
    Tolerance = 2
    Rounding <- MCRounding
    Quote <- MCQuote
SYMMETRY MCSymmetry
INVARIANT BookMatchesFills
