SPECIFICATION FairSpec
CONSTANTS
    Runs = {1, 2}
    Hosts = {1}
    Fits <- AnyHost
    Unwanted = {2}
    MaxQueue = 2
    MaxFaults = 0
    MaxStops = 0
    MaxChanges = 1
    None = None
CHECK_DEADLOCK FALSE
INVARIANTS
    OneRunPerHost
PROPERTIES
    Fifo
    QueueDrains
