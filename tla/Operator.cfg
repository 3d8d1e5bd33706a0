SPECIFICATION Spec
CONSTANTS
    Commands = {"c1", "c2"}
    NoCommand = "none"
    TaskOf <- OneTask
    PhaseOf <- OwnPhase
    Mentions <- Everyone
    MaxRetries = 1
    Procs = {p1}
    DryRuns = {TRUE, FALSE}
    StopAllowed = FALSE
    OperatorClears = TRUE
    OperatorStates = {"COMMAND_DETECTED", "SUBMISSION_PREPARED", "SENT_TO_IMPLEMENTER", "WAITING_FOR_IMPLEMENTER", "IMPLEMENTER_RESPONSE_DETECTED", "FAILED"}
    MaxFaults = 1
INVARIANTS
    AtMostOnce
    ReturnsAnswerTheirCommand
    ArchivedWasReturned
PROPERTY DryRunTouchesNoTask
