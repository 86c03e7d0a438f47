SPECIFICATION Spec
CHECK_DEADLOCK FALSE
CONSTANTS
    r1 = r1
    r2 = r2
    r3 = r3
    r4 = r4
    r5 = r5
    None = None
    Request = {r1, r2, r3, r4}
    PromptLen <- MCPromptLen
    MaxTokens <- MCMaxTokens
    NumBlocks = 4
    Scratch = 1
    BlockSize = 2
    ChunkSize = 2
    Headroom = 0
    MaxConcurrent = 2
    AsyncSampling = TRUE
INVARIANTS
    RowsMatchSlots
    EveryTokenOnce
    SlotHoldsItsRequest
    InputsReady
PROPERTIES
    NothingAfterTerminal
    EveryRequestEnds
