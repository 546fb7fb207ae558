CONSTANTS
    Brokers = {b1, b2, b3}
    NoLeader = NoLeader
    MinIsr = 2
    MaxRecords = 1
    MaxEpoch = 2
    MaxCrashes = 1
    MaxExpiries = 1
    MaxLags = 1
    MaxDelays = 0
    MaxDrops = 0
    MaxExpansions = 0
    MaxStale = 1
    MaxMiscuts = 1
    MaxStrays = 0
    MaxPreemptions = 0
SPECIFICATION Spec
SYMMETRY Symmetry
INVARIANTS AckedSurvives
