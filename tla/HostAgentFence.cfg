SPECIFICATION Spec
CONSTANTS
    Agents = {a1}
    Procs = {p1, p2}
    AgentOf <- MCAgentOf
    Runs = {r1, r2}
    MaxFaults = 1
    MaxRestarts = 1
    None = None
SYMMETRY Symmetry
CHECK_DEADLOCK FALSE
INVARIANTS
    TypeOK
    ExclusiveMaya
    MayaKeepsHost
    OneOwner
    QuarantineFences
PROPERTIES
    QuarantineIsFinal
