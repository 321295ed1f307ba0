SPECIFICATION Spec
CONSTANTS
    Runs = {r1, r2}
    Hosts = {h1}
    MaxFaults = 2
    PowerLoss = FALSE
    None = None
SYMMETRY Symmetry
INVARIANTS
    TypeOK
    OneFaultIsRepaired
    LastCommitSurvives
    QuarantineKeepsHost
