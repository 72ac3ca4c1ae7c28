SPECIFICATION FairSystemSpec
CONSTANTS
    Names = {n1}
    Consumers = {c1}
    Msgs = {m1, m2}
    MaxDeliveries = 2
    Kinds = {"Deleting", "Gone", "Ready", "Partial"}
    MaxClock = 1
    MaxFaults = 1
    MaxBreaks = 0
    MaxDrops = 0
    MaxSettings = 4
    MaxDeletions = 1
    MaxReports = 1
    MaxJobs = 1
    MaxFailures = 1
    None = None
INVARIANTS
    SystemTypeOK
    NothingLeftBehind
    CommittedIsAnnounced
PROPERTIES
    EveryStatusSettles
    CommittedIsProvisioned
    DeletionTakesEffect
CHECK_DEADLOCK FALSE
