SPECIFICATION LoopSpec
CONSTANTS
    Commands = {"c1", "c2"}
    NoCommand = "none"
    TaskOf <- OwnTask
    PhaseOf <- OnePhase
    Mentions <- OnlySelf
    MaxRetries = 1
    Procs = {p1}
    DryRuns = {FALSE}
    StopAllowed = FALSE
    OperatorClears = TRUE
    OperatorStates = {}
    MaxFaults = 1
    MaxIterations = 3
    CycleLimits = {0, 2}
INVARIANTS
    LoopTypeOK
    OneEffectPerCycle
    GuardNeverStrands
    NoRepeatedOperation
PROPERTIES
    BridgeHolds
    LoopEnds
    TaskSettlesUnlessReturnFails
