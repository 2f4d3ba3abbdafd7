SPECIFICATION FairSpec
CONSTANTS
    Seqs = {1, 2}
    MaxDelivery = 6
    Bad = {}
    Modes = {"defer_commit"}
    Policies = {"dead_letter"}
    Sessions = FALSE
    SessionOf <- OneSession
    BatchSize = 2
    Prefetch = 1
    Limit = 0
    KStop = 1
    Chunk = 2
    LostReplies = TRUE
    MayForfeit = TRUE
    MaxFaults = 3
PROPERTIES EventuallyCommitted
