SPECIFICATION Spec
CHECK_DEADLOCK FALSE
CONSTANTS
    r1 = r1
    r2 = r2
    r4 = r4
    None = None
    Request = {r1, r2, r4}
    PromptLen <- MCPromptLen
    MaxTokens <- MCMaxTokens
    EosAt <- MCEosAt
    Speculates = {r1, r2, r4}
    BlockSize = 2
    NumBlocks = 4
    Headroom = 0
    ChunkSize = 1
    MaxConcurrent = 2
    DraftBlock = 2
INVARIANTS
    DrafterMatchesSlot
PROPERTIES
    OutputIsGreedy
    RefusesOnlyTooBig
