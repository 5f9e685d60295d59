CONSTANTS
    a1 = a1 a2 = a2
    w1 = w1
    n1 = n1 n2 = n2
    Names = {n1, n2}
    Admins = {a1, a2}
    Workers = {w1}
    AdminCommands = {"revoke", "reauthorize", "rm"}
    Faults = {"error", "retry", "crash"}
    NoName = NoName
    Absent = Absent
SPECIFICATION Spec
INVARIANTS OnlyGenerated
PROPERTIES GoneIsFinal RevokedUntilReauthorized
SYMMETRY Symmetry
