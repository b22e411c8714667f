SPECIFICATION Spec
CONSTANTS
    w1 = w1
    w2 = w2
    oA = oA
    oB = oB
    NoRoot = NoRoot
    Writers = {w1, w2}
    Owners = {oA}
    Keys = {"a", "b"}
    OwnerMaps <- JustOneOwner
    Servers = {{}}
    Entries <- ThreeEntries
    Fresh = {w2}
    MaxWrites = 3
    MaxFaults = 1
    MaxNest = 2
    TooBig = {FALSE, TRUE}
    AnyCheckpoint = FALSE
CHECK_DEADLOCK FALSE
INVARIANTS StorageInv RollbackDiscards
