SPECIFICATION Spec
CONSTANTS
    Clients = {c1, c2}
    Places = {"ssh", "local", "repo"}
    MaxRev = 3
    MaxFaults = 1
    MaxDeaths = 1
    None = None
    Standing = Standing
SYMMETRY Symmetry
CHECK_DEADLOCK FALSE
CONSTRAINTS
    UntilBroken
    ShorterOverSSH
INVARIANTS
    TypeOK
    SessionUnderLock
    OneHolder
PROPERTIES
    ImplementsOwnership
