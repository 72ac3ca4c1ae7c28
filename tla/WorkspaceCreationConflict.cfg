SPECIFICATION Spec
CONSTANTS
    Requests = {r1, r2}
    Names = {n1}
    Accounts = {a1}
    maxRetries = 2
    MaxFaults = 1
    MaxCrashes = 0
    None = None
PROPERTIES
    ConflictMeansTaken
CHECK_DEADLOCK FALSE
