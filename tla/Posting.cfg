CONSTANTS
    MinTTL = 2
    DefaultTTL = 3
    UnprivilegedMaxTTL = 4
    PrivilegedMaxTTL = 5
    MaxKeyLength = 4
    DefaultKeyLength = 4
    UnprivilegedMinKeyLength = 3
    PrivilegedMinKeyLength = 2
    UnprivilegedMaxBodySize = 1
    PrivilegedMaxBodySize = 2
    AttemptsToIncreaseKeyMinLength = 3
    MaxDisposable = 3
    Queries <- QueriesAroundLimits
    Missing = Missing
    Unparsable = Unparsable
SPECIFICATION FairSpec
INVARIANTS WithinLimits KeyGrowsWithCollisions PrivilegesReported
PROPERTIES EveryPostEnds
CHECK_DEADLOCK FALSE
