CONSTANTS
    Brokers = {b1, b2}
    NoLeader = NoLeader
    MinIsr = 1
    MaxRecords = 2
    MaxEpoch = 3
    MaxCrashes = 0
    MaxExpiries = 2
    MaxLags = 0
    MaxDelays = 1
    MaxDrops = 0
    MaxExpansions = 1
    MaxStale = 0
    MaxMiscuts = 1
    MaxStrays = 1
    MaxPreemptions = 1
SPECIFICATION Spec
SYMMETRY Symmetry
INVARIANTS TypeOK AckedInIsr HwmInIsr ReconciledPrefix ReconcilesSafely
PROPERTIES LeaderAppendOnly
