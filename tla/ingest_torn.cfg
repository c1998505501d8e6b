SPECIFICATION Spec
CONSTANTS
    Procs = {p1}
    Uploads = {u1, u2}
    cProse = cProse
    cBlank = cBlank
    cDiagram = cDiagram
    cScan = cScan
    cBinary = cBinary
    cEmpty = cEmpty
    Contents <- MCContents
    Size <- MCSize
    Format <- MCFormat
    TextSpans <- MCTextSpans
    OcrRegions <- MCOcrRegions
    Requests <- RetryRequests
    Idle = Idle
    MaxFaults = 1
INVARIANTS
    StoredBytesAreWhole
CHECK_DEADLOCK FALSE
