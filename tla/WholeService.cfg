CONSTANTS
    k1 = k1
    w1 = w1
    p1 = p1 p2 = p2
    i1 = i1
    n1 = n1
    a1 = a1
    Keys = {k1}
    Workers = {w1}
    Pastes = {p1, p2}
    TTLs = {0, 1}
    Disposables = {0}
    Ops = {"anon", "keyed"}
    Step = 1
    Second = 1
    ClicksWidth = 1
    MaxServed = 1
    IPs = {i1}
    QuotaConfig = 2
    ResetPeriod = 1
    MaxPosts = 2
    Names = {n1}
    Admins = {a1}
    AdminCommands = {"rm"}
    Faults = {"error","retry","crash"}
    Outages = {"close","exit"}
    NoKey = NoKey
    NoBody = NoBody
    NoIP = NoIP
    NoName = NoName
    Nobody = Nobody
    Absent = Absent
SPECIFICATION FairSpec
INVARIANTS Audited
PROPERTIES EveryPostAnswered DrainedAddressWaits RemovedKeyStoresNothing
