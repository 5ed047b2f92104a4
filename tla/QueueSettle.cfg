SPECIFICATION FairSpec
CONSTANTS
    Work = {"a"}
    WsOf <- SharedWs
    TrioOf <- OneTrio
    MaxTasks = 1
    MaxEntries = 2
    MaxRuns = 3
    MaxRetries = 1
    TrioMax = 1
    NodeMax = 1
    ApiOps = {"create", "edit", "drain"}
    MaxCalls = 1
    Keyed = {TRUE}
    MaxCrashes = 1
PROPERTIES EndedRunsSettle DrainEmptiesNode WorkSettles
