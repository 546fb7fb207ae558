CONSTANTS
    Brokers = {b1, b2}
    NoLeader = NoLeader
    MinIsr = 1
    MaxRecords = 1
    MaxEpoch = 2
    MaxCrashes = 1
    MaxExpiries = 1
    MaxLags = 1
    MaxDelays = 0
    MaxDrops = 1
    MaxExpansions = 9
    MaxStale = 9
    MaxMiscuts = 9
    MaxStrays = 9
    MaxPreemptions = 0
SPECIFICATION FairSpec
PROPERTIES EventuallySettled
