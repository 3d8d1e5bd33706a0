SPECIFICATION LiveSpec
CONSTANTS
    Samples = 2
    TimeLimit = 2
    Texts = {"full", "blank"}
    White = {"blank"}
    NoText = "none"
    MaxChanges = 3
    MaxFailures = 2
INVARIANTS
    TypeOK
    QuietVerdict
    NoPartialText
    RetryOnlyWithoutResponse
PROPERTY WaitEnds
CHECK_DEADLOCK FALSE
