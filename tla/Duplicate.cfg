SPECIFICATION Spec
CONSTANTS
    Commands = {"c1", "c2"}
    NoCommand = "none"
    TaskOf <- OwnTask
    PhaseOf <- OnePhase
    Mentions <- OnlySelf
    MaxRetries = 0
    Procs = {p1, p2}
    DryRuns = {FALSE}
    StopAllowed = FALSE
    OperatorClears = FALSE
    OperatorStates = {}
    MaxFaults = 1
SYMMETRY Processes
INVARIANTS
    WaitingWasSubmitted
    ConfirmedWasClicked
    ArchivedWasReturned
