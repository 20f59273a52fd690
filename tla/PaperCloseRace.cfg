SPECIFICATION Spec
CONSTANTS
    Thread = {t1, t2}
    Pos = {p1, p2}
    MaxOpen = 1
    MaxGen = 2
    MaxSource = 2
    None = None
INVARIANTS
    SettledOnce
