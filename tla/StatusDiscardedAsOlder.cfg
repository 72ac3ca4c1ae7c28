SPECIFICATION Spec
CONSTANTS
    Names = {n1}
    Consumers = {c1}
    Msgs = {m1, m2}
    MaxDeliveries = 3
    Kinds = {"Ready"}
    MaxClock = 2
    MaxFaults = 0
    MaxBreaks = 0
    MaxDrops = 0
    None = None
PROPERTIES
    DiscardedOnlyIfOlder
CHECK_DEADLOCK FALSE
