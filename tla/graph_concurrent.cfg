SPECIFICATION FairSpec
CONSTANTS
    dText = dText
    dDiagram = dDiagram
    nApi = nApi
    nDb = nDb
    nApiUpper = nApiUpper
    nCache = nCache
    tPlatform = tPlatform
    None = None
    Documents = {dText, dDiagram}
    Workers = {w1, w2}
    Components <- MCComponents
    Relationships <- MCRelationships
    Owner <- MCOwner
    ComponentNames <- MCNames
    Descriptions <- MCDescriptions
    Kinds <- MCKinds
    Teams <- MCTeams
    ChunkIds <- MCChunkIds
    MaxExtractions = 3
INVARIANTS
    TypeOK
    EdgesStayInDocument
    RowsAreMirrored
    ProvenanceAgrees
    AckedExtractionIsComplete
    UnbackedNodesComeFromAborts
    NoCircularWait
PROPERTIES
    ImplementsCatalog
    EveryExtractionEnds
CHECK_DEADLOCK FALSE
