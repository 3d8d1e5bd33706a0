SPECIFICATION LiveSpec
CONSTANTS
    Commands = {"c1"}
    NoCommand = "none"
    TaskOf <- OwnTask
    PhaseOf <- OnePhase
    Mentions <- OnlySelf
    MaxRetries = 0
    Procs = {p1}
    DryRuns = {FALSE}
    StopAllowed = FALSE
    OperatorClears = FALSE
    OperatorStates = {}
    MaxFaults = 1
PROPERTY TaskSettles
