SPECIFICATION Spec
CONSTANTS
    Commands = {"c1", "c2"}
    NoCommand = "none"
    TaskOf <- OneTask
    PhaseOf <- OwnPhase
    Mentions <- Everyone
    MaxRetries = 0
    Procs = {p1}
    DryRuns = {FALSE}
    StopAllowed = FALSE
    OperatorClears = TRUE
    OperatorStates = {}
    MaxFaults = 1
INVARIANT WaitingWasSubmitted
