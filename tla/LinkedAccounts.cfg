SPECIFICATION Spec
CONSTANTS
    Providers = {p1, p2}
    Keys = {k1, k2, k3}
    Workers = {w1, w2}
    MaxFaults = 2
    None = None
INVARIANTS
    TypeOK
    PadFirst
    PairsMatch
PROPERTIES
    AnswerIsTrue
    OthersAreKept
    SessionsTakeTurns
SYMMETRY Symmetry
