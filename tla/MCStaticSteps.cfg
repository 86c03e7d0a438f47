SPECIFICATION StaticSpec
CONSTANTS
    Requests = 3
    MaxConcurrent = 3
    NumBlocks = 8
    BlockSize = 2
    PrefixBlocks = 1
    PromptLen = 5
    MaxLen = 7
    Chunk = 2
    Headroom = 1
    DecodeBuckets <- OneAndTwo
    PrefillBuckets <- OnlyFour
    MaxRequests = 1
INVARIANTS
    SlotsHoldTheirText
    SampledIsNext
    AcceptedStepsFit
