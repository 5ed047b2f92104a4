SPECIFICATION Spec
CONSTANTS
    Runtime = {o1, o2}
    Action = {a1}
    Request = {q1, q2}
    Ops = {"acquire", "takeover"}
    Ttl = 1
    MaxTime = 1
    MaxEpoch = 3
    MaxReleases = 0
SYMMETRY Symmetry
INVARIANT EffectsRecorded
PROPERTIES StaleCallFenced ReceiptStable
