SPECIFICATION Spec
CONSTANTS
    Providers = {p1, p2}
    Keys = {k1, k2, k3}
    Workers = {w1, w2}
    MaxFaults = 0
    None = None
PROPERTIES
    OwnKeyOnly
