SPECIFICATION Spec
CONSTANTS
    kRate = kRate
    kLimit = kLimit
    kCheckout = kCheckout
    Keywords <- MCKeywords
    MinOverlap = 5
    Texts <- MCTexts
    MaxTexts = 4
INVARIANTS
    OrderIsIrrelevant
PROPERTIES
    VerdictOnlySharpens
    SeverityNeverDrops
CHECK_DEADLOCK FALSE
