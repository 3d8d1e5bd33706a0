SPECIFICATION FilesSpec
CONSTANTS
    Commands = {"c1", "c2"}
    NoCommand = "none"
    TaskOf <- OwnTask
    PhaseOf <- OnePhase
    Mentions <- OnlySelf
    MaxRetries = 1
    Procs = {p1}
    DryRuns = {TRUE, FALSE}
    StopAllowed = FALSE
    OperatorClears = FALSE
    OperatorStates = {"SUBMISSION_PREPARED", "WAITING_FOR_IMPLEMENTER", "RETURN_PREPARED"}
    MaxFaults = 1
    MaxDamage = 2
INVARIANTS
    FilesTypeOK
    OperationsNeedEvidence
    OnlyBlankedReturnsRepeat
PROPERTIES
    UnreadEvidenceIsKept
    InspectionAgrees
