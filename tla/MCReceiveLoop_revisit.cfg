SPECIFICATION Spec
CHECK_DEADLOCK FALSE
CONSTANTS
    Seqs = {1, 2, 3, 4, 5}
    MaxDelivery = 3
    Rows <- RevisitRows
    MaxEmptyRetries = 1
    MaxRecycles = 2
INVARIANTS RevisitLeavesNone
