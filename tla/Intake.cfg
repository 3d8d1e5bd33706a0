SPECIFICATION Spec
CONSTANTS
    Good = {"a", "b"}
    Bad = {"bad"}
    MaxTokens = 7
INVARIANTS
    LastEnvelopeDecides
    NoOlderCommand
    LastReportOnly
PROPERTIES
    CommandIsFinal
    ReportIsFinal
CHECK_DEADLOCK FALSE
