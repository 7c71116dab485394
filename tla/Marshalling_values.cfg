CONSTANTS
    Cases <- SomeValues
    MaxWritten = 2
CHECK_DEADLOCK FALSE
SPECIFICATION Spec
INVARIANTS
    ReadsWhatWasWritten
    AbortsOnlyWhenShort
