SPECIFICATION FairSpec
CONSTANTS
    Requests = {r1, r2, r3}
    Names = {n1}
    Accounts = {a1, a2}
    maxRetries = 2
    MaxFaults = 3
    MaxCrashes = 1
    None = None
INVARIANTS
    TypeOK
    OneBuilder
    CreatorIsMember
    CommittedIsAnnounced
PROPERTIES
    NameIsKept
    EveryRequestEnds
CHECK_DEADLOCK FALSE
