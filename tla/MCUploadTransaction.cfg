SPECIFICATION FairSpec
CONSTANTS
    Contents = {1, 2}
    ChunkCount = 4
    ProbeCount = 2
    MaxTxns = 3
    MaxTroubles = 3
INVARIANTS LinkedWhole PrefixKept NoOrphans
PROPERTY ResumeFinishes
CHECK_DEADLOCK FALSE
