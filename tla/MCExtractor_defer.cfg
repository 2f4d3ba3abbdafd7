SPECIFICATION Spec
CONSTANTS
    Seqs = {1, 2, 3}
    MaxDelivery = 3
    Bad = {2}
    Modes = {"defer_commit"}
    Policies = {"dead_letter", "leave", "fail"}
    Sessions = FALSE
    SessionOf <- OneSession
    BatchSize = 2
    Prefetch = 1
    Limit = 0
    KStop = 2
    Chunk = 2
    LostReplies = FALSE
    MayForfeit = TRUE
    MaxFaults = 2
INVARIANTS TypeOK CommittedIsImported StateIsImported
PROPERTIES GuardProtectsDeferred ImplementsHandover
