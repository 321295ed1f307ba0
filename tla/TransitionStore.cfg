SPECIFICATION Spec
CONSTANTS
    Runs = {r1, r2}
    Hosts = {h1, h2}
    MaxFaults = 0
    PowerLoss = TRUE
    None = None
SYMMETRY Symmetry
INVARIANTS
    StartupAccepts
    LastCommitSurvives
    AssignedOwnsHost
    TerminalBeforeRelease
