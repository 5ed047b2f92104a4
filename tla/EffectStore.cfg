SPECIFICATION Spec
CONSTANTS
    Runtime = {o1, o2}
    Action = {a1}
    Request = {}
    Ops = {"acquire", "renew", "release", "takeover"}
    Ttl = 2
    MaxTime = 3
    MaxEpoch = 3
    MaxReleases = 1
SYMMETRY Symmetry
INVARIANT EpochOneHolder
PROPERTY LiveLeaseKept
