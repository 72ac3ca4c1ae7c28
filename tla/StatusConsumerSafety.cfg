SPECIFICATION Spec
CONSTANTS
    Names = {n1}
    Consumers = {c1}
    Msgs = {m1, m2}
    MaxDeliveries = 3
    Kinds = {"Garbage", "Deleting", "DeletingGone", "Gone", "Ready", "Partial"}
    MaxClock = 2
    MaxFaults = 2
    MaxBreaks = 1
    MaxDrops = 1
    None = None
INVARIANTS
    TypeOK
    RowShowsNewest
    AckedDeletionIsComplete
PROPERTIES
    CleanupInOrder
    DisabledForGood
    ImplementsLifecycle
SYMMETRY Symmetry
CHECK_DEADLOCK FALSE
