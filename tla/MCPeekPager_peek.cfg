SPECIFICATION FairSpec
CONSTANTS
    Seqs = {1, 2, 3}
    Bad = {1}
    Skippable = {2}
    Leaving = {3}
    Kinds = {"plain", "partitioned", "unknown", "sessions"}
    SessionOf <- TwoSessions
    Contended = {"s1"}
    FetchModes = {"incremental_fetch", "full_fetch"}
    Policy = "leave"
    StopAtStart = TRUE
    PageSize = 2
    Limit = 2
    MaxRecoveries = 1
    MaxRecycles = 2
    ShortPages = FALSE
    Lapses = TRUE
    MaxFaults = 2
INVARIANTS TypeOK CursorIsSafe NoRowTwice FullFetchComplete
PROPERTIES PeekEnds
