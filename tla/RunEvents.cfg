SPECIFICATION Spec
CONSTANTS
    Attached = {FALSE, TRUE}
    Modes = {"agent", "local"}
    MaxLines = 5
    MaxCheckpoints = 2
    ProgressMax = 3
    LedgerMax = 4
    MaxFaults = 2
    MaxCrashes = 1
    None = None
CONSTRAINTS
    UntilTorn
    ShorterWhenEarly
INVARIANTS
    TypeOK
    HistoryKept
    EndIsComplete
    HonestAgentAccepted
CHECK_DEADLOCK FALSE
