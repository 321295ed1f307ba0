SPECIFICATION Spec
CONSTANTS
    Stops = {s1, s2}
    Policies = {"always", "success", "failure", "never"}
    MaxFaults = 1
    MaxCrashes = 1
    None = None
SYMMETRY Symmetry
CHECK_DEADLOCK FALSE
CONSTRAINT UntilRaced
INVARIANTS
    TypeOK
    OwnSessionHeld
    FinishedIsFree
    KeptIsReal
PROPERTIES
    StateGoesLast
    ForeignUntouched
