CONSTANTS
    Brokers <- MCBrokers
    Readers = {r1}
    MaxIds = 2
    MaxFaults = 2
SPECIFICATION FairSpec
INVARIANTS
    TypeOK
    AckedInOrder
    NoFalseAlarm
    VerdictIsOneLog
PROPERTIES
    ProduceReturns
CHECK_DEADLOCK FALSE
