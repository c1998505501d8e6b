SPECIFICATION Spec
CONSTANTS
    dText = dText
    dDiagram = dDiagram
    nApi = nApi
    nDb = nDb
    nApiUpper = nApiUpper
    nCache = nCache
    tPlatform = tPlatform
    None = None
    Documents = {dText}
    Workers = {w1, w2}
    Components <- MCComponents
    Relationships <- MCRelationships
    Owner <- MCOwner
    ComponentNames <- MCNames
    Descriptions <- MCDescriptions
    Kinds <- MCKinds
    Teams <- MCTeams
    ChunkIds <- MCChunkIds
    MaxExtractions = 2
INVARIANTS
    NoDuplicateRows
CHECK_DEADLOCK FALSE
