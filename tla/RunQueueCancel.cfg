SPECIFICATION Spec
CONSTANTS
    Runs = {1, 2}
    Hosts = {1}
    Fits <- AnyHost
    Unwanted = {1, 2}
    MaxQueue = 1
    MaxFaults = 1
    MaxStops = 0
    MaxChanges = 0
    None = None
CHECK_DEADLOCK FALSE
INVARIANTS
    CancelIntentWins
