SPECIFICATION Spec
CONSTANTS
    Seqs = {1, 2, 3}
    Bad = {}
    Skippable = {}
    Leaving = {}
    Kinds = {"sessions"}
    SessionOf <- TwoSessions
    Contended = {}
    FetchModes = {"incremental_fetch", "full_fetch"}
    Policy = "leave"
    StopAtStart = TRUE
    PageSize = 2
    Limit = 0
    MaxRecoveries = 1
    MaxRecycles = 2
    ShortPages = FALSE
    Lapses = TRUE
    MaxFaults = 0
INVARIANTS RevisitLeavesNone
