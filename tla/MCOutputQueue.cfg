SPECIFICATION QueueSpec
CHECK_DEADLOCK FALSE
CONSTANTS
    End = End
    Capacity = 2
    MaxSteps = 5
INVARIANTS
    TerminalStepKept
    NoLostWakeup
    ErrorAfterLastStep
PROPERTIES
    ReaderEnds
