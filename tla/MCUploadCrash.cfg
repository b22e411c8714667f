SPECIFICATION Spec
CONSTANTS
    Contents = {1}
    ChunkCount = 2
    ProbeCount = 2
    MaxTxns = 1
    MaxTroubles = 1
INVARIANT CrashSafe
CHECK_DEADLOCK FALSE
