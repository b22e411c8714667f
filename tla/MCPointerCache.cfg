SPECIFICATION FairSpec
CONSTANTS
    Writers = {"w1"}
    Tasks = {"t1", "t2"}
    Uses <- TwoTasks
    Shared = {"w1"}
    TTL = 2
    Latency = 1
    MaxCommits = 3
INVARIANTS BoundedStaleness OwnWritesSeen
PROPERTY Converges
