SPECIFICATION Spec
CONSTANTS
    Work = {"a"}
    WsOf <- SharedWs
    TrioOf <- OneTrio
    MaxTasks = 1
    MaxEntries = 3
    MaxRuns = 3
    MaxRetries = 2
    TrioMax = 2
    NodeMax = 2
    ApiOps = {"create"}
    MaxCalls = 0
    Keyed = {TRUE}
    MaxCrashes = 2
INVARIANTS SecondChanceWaits LineageLinear WorkspaceExclusive
