CONSTANTS
    Brokers = {b1, b2, b3}
    NoLeader = NoLeader
    MinIsr = 1
    MaxRecords = 2
    MaxEpoch = 3
    MaxCrashes = 0
    MaxExpiries = 2
    MaxLags = 0
    MaxDelays = 0
    MaxDrops = 0
    MaxExpansions = 0
    MaxStale = 0
    MaxMiscuts = 1
    MaxStrays = 0
    MaxPreemptions = 0
SPECIFICATION Spec
SYMMETRY Symmetry
INVARIANTS NoDivergence
