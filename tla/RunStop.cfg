SPECIFICATION Spec
CONSTANTS
    Actor = {"a", "b"}
    ProcOf <- OwnProcess
    Ops = {"poll", "stop"}
    MaxEpoch = 0
    MaxWorkers = 2
    MaxCrashes = 1
    Faults = {"denied", "busy", "metadata", "spawn"}
    LaunchAlone = TRUE
INVARIANTS LiveWorkerActive CreatedOnce OwnedUntilCrash
PROPERTY StopSticks
