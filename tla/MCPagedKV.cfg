SPECIFICATION Spec
VIEW View
SYMMETRY Symmetry
CONSTANTS
    t1 = t1
    t2 = t2
    None = None
    Absent = Absent
    Slot = {s1, s2}
    Token = {t1, t2}
    Prompt <- MCPrompt
    Sampled = {t1}
    NumBlocks = 4
    BlockSize = 2
    MaxLen = 5
    MaxChunk = 2
INVARIANTS
    BlockOwnership
    RefCountsExact
    SharesOnlyItsText
    RollbackNeverRefused
PROPERTIES
    CachedBlocksImmutable
    ImplementsKVStore

