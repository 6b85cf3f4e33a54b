SPECIFICATION FairSpec
CONSTANTS
    Weights = {1, 5}
    MaxLen = 4
    MaxTokens = 11
    Target = 4
    OverlapNum = 1
    OverlapDen = 4
    Texts <- SmallTexts
    Threads = {t1, t2}
    Threads = {t1, t2}
    None = None
INVARIANTS NothingLost ChunksWellCut NeverStuckIngesting IngestedIsIndexed DeletedHasNoRecord
PROPERTY IngestionEnds
CHECK_DEADLOCK FALSE
