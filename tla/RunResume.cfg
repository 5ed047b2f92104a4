SPECIFICATION FairSpec
CONSTANTS
    Actor = {"a"}
    ProcOf <- OneProcess
    Ops = {"poll", "stop", "abort", "resume"}
    MaxEpoch = 1
    MaxWorkers = 2
    MaxCrashes = 1
    Faults = {"spawn"}
    LaunchAlone = TRUE
INVARIANTS TypeOK  OwnedUntilCrash
PROPERTIES StoppingSettles  TerminalMonotonic RetryAnswered
