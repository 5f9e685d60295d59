CONSTANTS
    w1 = w1 w2 = w2
    b1 = b1 b2 = b2
    p1 = p1 p2 = p2 p3 = p3 p4 = p4
    Workers = {w1}
    Buffers = {b1, b2}
    Large = {p1}
    Small = {}
    Archives = {}
    Broken = {}
    Bombs = {}
    Corrupt = Corrupt
    Own = Own
    NoPaste = NoPaste
    Absent = Absent
SPECIFICATION Spec
INVARIANTS RetrievedMatchesPosted
SYMMETRY Symmetry
