SPECIFICATION Spec
CHECK_DEADLOCK FALSE
CONSTANTS
    r1 = r1
    r2 = r2
    Request = {r1, r2}
    MaxStarts = 3
    MaxStops = 2
    JoinMayTimeOut = FALSE
INVARIANTS
    BeginsEmpty
    CleanStopGivesTerminal
PROPERTIES
    NoStepAfterGone
    HandleEnds
