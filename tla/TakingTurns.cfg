CONSTANTS
    k1 = k1 k2 = k2
    w1 = w1 w2 = w2
    p1 = p1 p2 = p2
    Keys = {k1, k2}
    Workers = {w1, w2}
    Pastes = {p1, p2}
    TTLs = {0, 2}
    Disposables = {2}
    Ops = {"get","custom"}
    Faults = {"retry","crash"}
    Step = 2
    MaxServed = 3
    Second = 2
    ClicksWidth = 3
    NoKey = NoKey
    NoBody = NoBody
    Absent = Absent
SPECIFICATION TurnsSpec
INVARIANTS PromiseKept
PROPERTIES ImplementsContract
SYMMETRY Symmetry
