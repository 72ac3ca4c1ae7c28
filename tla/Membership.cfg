SPECIFICATION Spec
CONSTANTS
    Workers = {w1, w2}
    Users <- MCUsers
    Registered <- MCRegistered
    Admins <- MCAdmins
    Requests <- MCRequests
    None = None
    MaxLives = 2
    MaxOwners = 1
INVARIANTS
    TypeOK
    TokenIsOwn
PROPERTIES
    OwnerStays
    OnlyOwnerChanges
    AnswerIsTrue
    ImplementsMemberSet
SYMMETRY Symmetry
