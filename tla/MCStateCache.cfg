SPECIFICATION Spec
CHECK_DEADLOCK FALSE
CONSTANTS
    r1 = r1
    r2 = r2
    r3 = r3
    r5 = r5
    None = None
    Request = {r1, r2, r3, r5}
    Prompt <- MCPrompt
    MaxTokens <- MCMaxTokens
    Sampled <- MCSampled
    Eos = 9
    Rows = 2
    MaxEntries = 1
    StopCalled = TRUE
    Win = 4
    Ratio <- MCRatio
    TopK = 2
    Score <- MCScore
    PrefillTies = "higher"
    MaxSeqLen = 8
INVARIANTS
    QueriesSeeTheirText
    SnapshotsHoldTheirPrompt
