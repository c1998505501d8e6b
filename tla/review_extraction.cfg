SPECIFICATION ReviewSpec
CONSTANTS
    dText = dText
    dOther = dOther
    nApi = nApi
    nDb = nDb
    nQueue = nQueue
    cGap = cGap
    cControl = cControl
    cNoise = cNoise
    None = None
    Documents = {dText, dOther}
    Workers = {w1}
    Components <- MCComponents
    Relationships <- MCRelationships
    Owner <- MCOwner
    ComponentNames <- MCNames
    Descriptions <- MCDescriptions
    Kinds <- MCKinds
    Teams = {}
    ChunkIds <- MCChunkIds
    MaxExtractions = 2
    Reviews = {r1}
    Requests <- MCRequests
    Corpus <- MCCorpus
    Text <- MCText
    Keywords <- MCKeywords
    MinOverlap = 5
    Vocabulary <- MCVocabulary
INVARIANTS
    FindingsAreWhole
    BoundsAreKeptAndReported
    CommittedComponentsAreFound
    AcknowledgedLinksAreSeen
    DuplicateNodesComeFromAborts
CHECK_DEADLOCK FALSE
