SPECIFICATION Spec
CONSTANTS
    Work = {"a", "b"}
    WsOf <- OwnWs
    TrioOf <- OneTrio
    MaxTasks = 2
    MaxEntries = 3
    MaxRuns = 3
    MaxRetries = 1
    TrioMax = 1
    NodeMax = 2
    ApiOps = {"create", "drain"}
    MaxCalls = 2
    Keyed = {TRUE}
    MaxCrashes = 0
INVARIANTS TrioCeiling NoOrphanRun DedupUnique
