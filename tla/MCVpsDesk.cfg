SPECIFICATION Spec
SYMMETRY Trades
CONSTANTS
    Trade = {p1, p2, p3}
    Limit = 2
    Interval = 3
    Floor = 1
    IdlePoll = 3
    Backoff = 1
    MaxBackoff = 3
    MaxFailures = 5
    MaxWork = 1
INVARIANTS
    AliveIsShown
    GoneIsShown
    JournalLosesNothing
    AuditedOnce
