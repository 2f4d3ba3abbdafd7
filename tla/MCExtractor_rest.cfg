SPECIFICATION Spec
CONSTANTS
    Seqs = {1, 2, 3}
    MaxDelivery = 2
    Bad = {}
    Modes = {"complete"}
    Policies = {"dead_letter", "leave", "fail"}
    Sessions = FALSE
    SessionOf <- OneSession
    BatchSize = 1
    Prefetch = 1
    Limit = 1
    KStop = 2
    Chunk = 2
    LostReplies = FALSE
    MayForfeit = TRUE
    MaxFaults = 0
INVARIANTS RestStaysForNextRun
