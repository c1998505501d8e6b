SPECIFICATION FairSpec
CONSTANTS
    Procs = {p1, p2}
    Uploads = {u1, u2}
    cProse = cProse
    cBlank = cBlank
    cDiagram = cDiagram
    cScan = cScan
    cBinary = cBinary
    cEmpty = cEmpty
    Contents <- MCContents
    Size <- MCSize
    Format <- MCFormat
    TextSpans <- MCTextSpans
    OcrRegions <- MCOcrRegions
    Requests <- MCRequests
    Idle = Idle
    MaxFaults = 2
INVARIANTS
    LedgerIsCoherent
    VisualChunksAreNumberedInOrder
    RepliesMatchLedger
    TornFilesHaveACause
PROPERTIES
    ImplementsLedger
    EveryUploadEnds
CHECK_DEADLOCK FALSE
