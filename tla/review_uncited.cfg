SPECIFICATION ReviewSpec
CONSTANTS
    dText = dText
    dOther = dOther
    nApi = nApi
    nDb = nDb
    nQueue = nQueue
    cGap = cGap
    cControl = cControl
    cNoise = cNoise
    None = None
    Documents = {dOther}
    Workers = {w1}
    Components <- MCComponents
    Relationships <- MCRelationships
    Owner <- MCOwner
    ComponentNames <- MCNames
    Descriptions <- MCDescriptions
    Kinds <- MCKinds
    Teams = {}
    ChunkIds <- MCChunkIds
    MaxExtractions = 1
    Reviews = {r1}
    Requests <- ChainRequests
    Corpus <- MCCorpus
    Text <- MCText
    Keywords <- MCKeywords
    MinOverlap = 5
    Vocabulary <- MarkedVocabulary
INVARIANTS
    VerdictsRestOnCitations
CHECK_DEADLOCK FALSE
