CONSTANTS
    k1 = k1 k2 = k2
    w1 = w1 w2 = w2 w3 = w3
    p1 = p1 p2 = p2
    Keys = {k1}
    Workers = {w1, w2}
    Pastes = {p1, p2}
    TTLs = {0, 3}
    Disposables = {0}
    Ops = {"get", "custom", "anon"}
    Faults = {"retry"}
    Step = 2
    MaxServed = 3
    Second = 2
    ClicksWidth = 3
    NoKey = NoKey
    NoBody = NoBody
    Absent = Absent
SPECIFICATION Spec
INVARIANTS KeptUntilPromised PromiseInv ExpiryArmed ExpiryWithinTTL
SYMMETRY Symmetry
