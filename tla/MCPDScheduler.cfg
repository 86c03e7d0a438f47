SPECIFICATION Spec
CHECK_DEADLOCK FALSE
CONSTANTS
    r1 = r1
    r2 = r2
    Request = {r1, r2}
    Modes <- MCModes
    MaxConcurrent = 1
    NumBlocks = 3
    Prompt <- MCPrompt
    MaxTokens <- MCMaxTokens
    Slow = {r1}
    MaxStarts = 2
    MaxStops = 2
    JoinMayTimeOut = FALSE
INVARIANTS
    PoolBalanced
    SlotHoldsOutput
    NoRequestLost
    CleanStopGivesTerminal
PROPERTIES
    HandleEnds
