SPECIFICATION AnswerSpec
CONSTANTS
    dOld = dOld
    dNew = dNew
    cGate = cGate
    cQueue = cQueue
    cTable = cTable
    cArrow = cArrow
    wRate = wRate
    wOrder = wOrder
    wOther = wOther
    Documents <- MCDocuments
    Chunks <- MCChunks
    ChunksOf <- MCChunksOf
    TextRank <- MCTextRank
    Distance <- MCDistance
    Relevance <- MCRelevance
    Words <- MCWords
    Opening <- MCOpening
    Marked <- MCMarked
    Foreign = {wOther}
    Requests <- MCRequests
    Settings <- MCSettings
    Multiplier = 1
    MinCandidates = 3
    RrfK = 60
    MinScore = 30
INVARIANTS
    AnswersAreWhole
    RepliesMatchStore
    FusionKeepsDominance
    RerankingReachesThePool
CHECK_DEADLOCK FALSE
