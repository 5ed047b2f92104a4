SPECIFICATION Spec
CONSTANTS
    Run = {r1, r2}
    Caller = {c1}
    MaxSuspends = 2
    MaxMishaps = 1
CHECK_DEADLOCK FALSE
INVARIANTS GateHeld  GateReopens
PROPERTY OwnRunsOnly
