SPECIFICATION Spec
CONSTANTS
    Runs = {1, 2}
    Hosts = {1}
    Fits <- AnyHost
    Unwanted = {1, 2}
    MaxQueue = 1
    MaxFaults = 1
    MaxStops = 1
    MaxChanges = 1
    None = None
CHECK_DEADLOCK FALSE
INVARIANTS
    TypeOK
    AcceptedIsOwned
    NeverCanceledAndAssigned
    CancelCannotReturn
    StartupAccepts
    WithinCapacity
    NoStrandedHost
PROPERTIES
    OutcomeIsFinal
