CONSTANTS
    Sizes = {1, 2}
    MaxSegment = 2
    IndexInterval = 1
    MaxDirty = 3
    MaxAppends = 5
    MaxCrashes = 2
SPECIFICATION Spec
INVARIANTS KilledLogReopens
CHECK_DEADLOCK FALSE
