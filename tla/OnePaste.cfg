CONSTANTS
    k1 = k1 k2 = k2
    w1 = w1 w2 = w2 w3 = w3
    p1 = p1 p2 = p2
    Keys = {k1}
    Workers = {w1, w2}
    Pastes = {p1}
    TTLs = {0, 5}
    Disposables = {0, 2}
    Ops = {"get", "clicks", "keyed"}
    Faults = {"error", "retry", "crash"}
    Step = 2
    MaxServed = 3
    Second = 2
    ClicksWidth = 3
    NoKey = NoKey
    NoBody = NoBody
    Absent = Absent
SPECIFICATION Spec
INVARIANTS TypeOK StoredGenuine Conservation KeptUntilPromised
PROPERTIES ExhaustionIsFinal
SYMMETRY Symmetry
