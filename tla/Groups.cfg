CONSTANTS
    t = t
    PartitionsOfT = 2
    Consumers = {c1, c2}
    Topics = {t}
    PartitionCount <- MCPartitionCount
    Subscription <- MCSubscription
    LogEnd = 1
    MaxMembers = 3
    MaxCommits = 2
    MaxFaults = 1
SPECIFICATION Spec
INVARIANTS TypeOK OneOwner CommittedWasDelivered RestartKeepsOffsets
PROPERTIES OffsetsAdvance Settles
CHECK_DEADLOCK FALSE
