SPECIFICATION FairSpec
CONSTANTS
    w1 = w1
    w2 = w2
    oA = oA
    oB = oB
    NoRoot = NoRoot
    Writers = {w1, w2}
    Owners = {oA, oB}
    Keys = {"a", "b"}
    OwnerMaps <- EitherWay
    Servers <- BulkOrNot
    Entries <- ThreeEntries
    Fresh = {w2}
    MaxWrites = 3
    MaxFaults = 1
    MaxNest = 0
    TooBig = {FALSE}
    AnyCheckpoint = FALSE
CHECK_DEADLOCK FALSE
INVARIANTS PointersComplete  WriteOrder
PROPERTIES SequencesAdvance ImplementsSharedTree Drains
