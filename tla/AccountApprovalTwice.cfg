SPECIFICATION Spec
CONSTANTS
    Accounts = {a1}
    Handlers = {h1, h2}
    MaxFaults = 0
    None = None
PROPERTIES
    DecidedOnce
CHECK_DEADLOCK FALSE
