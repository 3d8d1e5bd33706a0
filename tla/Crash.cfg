SPECIFICATION Spec
CONSTANTS
    Commands = {"c1", "c2"}
    NoCommand = "none"
    TaskOf <- OwnTask
    PhaseOf <- OnePhase
    Mentions <- OnlySelf
    MaxRetries = 2
    Procs = {p1}
    DryRuns = {FALSE}
    StopAllowed = TRUE
    OperatorClears = TRUE
    OperatorStates = {"RETURN_PREPARED"}
    MaxFaults = 2
INVARIANTS
    TypeOK
    AtMostOnce
    IntentOnDisk
    RetriesSettleInOrder
    WaitingWasSubmitted
    ReturnsAnswerTheirCommand
    ConfirmedWasClicked
    FailedOperationIsReviewed
PROPERTIES
    ManualReviewHalts
    StopLetsOnlyArmedLand
    DeliveryHolds
