SPECIFICATION FairSpec
CONSTANTS
    Stops = {s1}
    Policies = {"success"}
    MaxFaults = 0
    MaxCrashes = 1
    None = None
CHECK_DEADLOCK FALSE
PROPERTIES
    StopFrees
