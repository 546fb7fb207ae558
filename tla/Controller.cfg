CONSTANTS
    Brokers = {1, 2, 3}
    NoLeader = NoLeader
    Topics = {"t"}
    MaxPartitions = 2
    MaxVersion = 6
    MaxPersistFailures = 1
SPECIFICATION Spec
INVARIANTS TypeOK OneLeaderPerEpoch LeaderInIsr LedWhenAvailable RestartLosesNothing
PROPERTIES CleanElection OfflineIsrFrozen EveryChangeVersioned
