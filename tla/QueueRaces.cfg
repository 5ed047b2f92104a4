SPECIFICATION Spec
CONSTANTS
    Work = {"a", "b"}
    WsOf <- OwnWs
    TrioOf <- OneTrio
    MaxTasks = 2
    MaxEntries = 2
    MaxRuns = 3
    MaxRetries = 1
    TrioMax = 2
    NodeMax = 1
    ApiOps = {"create", "edit", "priority", "limit", "delete", "drain"}
    MaxCalls = 1
    Keyed = {FALSE}
    MaxCrashes = 0
INVARIANT NodeCeiling
