SPECIFICATION FairSpec
CONSTANTS
    Agents = {a1}
    Procs = {p1, p2}
    AgentOf <- MCAgentOf
    Runs = {r1}
    MaxFaults = 1
    MaxRestarts = 0
    None = None
PROPERTIES
    LossEndsRun
CHECK_DEADLOCK FALSE
