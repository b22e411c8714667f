SPECIFICATION Spec
CONSTANTS
    Writers = {"w1", "w2"}
    Tasks = {"t1"}
    Uses <- OneTask
    Shared = {}
    TTL = 2
    Latency = 1
    MaxCommits = 2
INVARIANT ReadsOwnWrites
