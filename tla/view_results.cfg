SPECIFICATION FrontendSpec
CONSTANTS
    qRate = qRate
    qOwner = qOwner
    Ids <- MCIds
    Asked <- MCAsked
    Ingested <- MCIngested
    MaxRuns = 3
    MaxEntries = 1
    MaxWrites = 2
    MaxClicks = 3
    Deployments = {1, 2, 3}
INVARIANTS
    DataIsLatest
    SpinnerIsHonest
    OvershootIsBounded
    StatusIsCurrent
    ControlledPagesReload
PROPERTIES
    AbortsAreNotErrors
    NewestSurvive
    SpinnerStops
CHECK_DEADLOCK FALSE
