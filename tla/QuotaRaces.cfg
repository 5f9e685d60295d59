CONSTANTS
    i1 = i1 i2 = i2
    w1 = w1 w2 = w2 w3 = w3
    IPs = {i1}
    Workers = {w1, w2, w3}
    QuotaConfig = 4
    ResetPeriod = 3
    Faults = {"error", "retry", "crash"}
    MaxPosts = 4
    NoIP = NoIP
    Absent = Absent
SPECIFICATION FairSpec
INVARIANTS TypeOK StoredCanEnd NotOverdrawn
PROPERTIES DrainedUntilReset LockoutEnds
