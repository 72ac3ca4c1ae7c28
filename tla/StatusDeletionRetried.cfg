SPECIFICATION FairSpec
CONSTANTS
    Names = {n1}
    Consumers = {c1}
    Msgs = {m1}
    MaxDeliveries = 3
    Kinds = {"Deleting"}
    MaxClock = 0
    MaxFaults = 1
    MaxBreaks = 0
    MaxDrops = 0
    None = None
PROPERTIES
    DeletionIsRetried
CHECK_DEADLOCK FALSE
