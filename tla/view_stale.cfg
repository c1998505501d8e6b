SPECIFICATION FrontendSpec
CONSTANTS
    qRate = qRate
    qOwner = qOwner
    Ids <- MCIds
    Asked <- MCAsked
    Ingested <- MCIngested
    MaxRuns = 2
    MaxEntries = 1
    MaxWrites = 2
    MaxClicks = 1
    Deployments = {1, 2, 3}
INVARIANTS
    ErrorIsLatest
CHECK_DEADLOCK FALSE
