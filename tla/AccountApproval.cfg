SPECIFICATION Spec
CONSTANTS
    Accounts = {a1, a2}
    Handlers = {h1, h2}
    MaxFaults = 2
    None = None
INVARIANTS
    TypeOK
    TokenMeansPending
    ToldIsTrue
PROPERTIES
    DecisionStands
    ImplementsDecision
SYMMETRY Symmetry
CHECK_DEADLOCK FALSE
