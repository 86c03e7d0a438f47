SPECIFICATION StaticSpec
CONSTANTS
    Requests = 3
    MaxConcurrent = 3
    NumBlocks = 9
    BlockSize = 1
    PrefixBlocks = 5
    PromptLen = 6
    MaxLen = 7
    Chunk = 1
    Headroom = 1
    DecodeBuckets <- OnlyThree
    PrefillBuckets = {}
    MaxRequests = 1
INVARIANTS
    AcceptedStepsFit
