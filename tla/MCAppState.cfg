SPECIFICATION Spec
CONSTANTS
    Thread = {t1, t2}
    Pos = {p1, p2}
    MaxOpen = 1
    MaxGen = 2
    MaxSource = 3
    None = None
INVARIANTS
    SharedStateHolds
    ServedFromCurrentSource
    TripStopsLaterCycles
    OrphanStopsTrading
SYMMETRY Symmetry
