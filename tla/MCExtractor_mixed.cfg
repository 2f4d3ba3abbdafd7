SPECIFICATION Spec
CONSTANTS
    Seqs = {1, 2}
    MaxDelivery = 3
    Bad = {1}
    Modes = {"complete", "defer_commit", "receive_and_delete", "peek"}
    Policies = {"dead_letter", "fail"}
    Sessions = TRUE
    SessionOf <- OneSession
    BatchSize = 1
    Prefetch = 1
    Limit = 0
    KStop = 2
    Chunk = 1
    LostReplies = TRUE
    MayForfeit = TRUE
    MaxFaults = 2
INVARIANTS CompletedIsAccounted ReceivedIsAccounted DropsNeedAFault
PROPERTIES OwnedUntilDeleted
