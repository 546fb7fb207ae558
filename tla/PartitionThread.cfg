CONSTANTS
    Policies = {"always", "batch", "os"}
    MaxBytes = 2
    MaxInbox = 1
    MaxBatch = 2
    MaxRecords = 2
    MaxEpoch = 3
    MaxCrashes = 2
    MaxCuts = 1
SPECIFICATION Spec
INVARIANTS TypeOK DurableAckKept 
PROPERTIES AcksAnswered
