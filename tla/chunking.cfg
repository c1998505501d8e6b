SPECIFICATION DocumentSpec
CONSTANTS
    MaxChars = {3, 4}
    MaxLength = 9
    LeadLength = 2
INVARIANTS
    ChunksPartitionText
    EvidenceMissesOnlyCutLeads
CHECK_DEADLOCK FALSE
