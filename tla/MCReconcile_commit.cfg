SPECIFICATION FairSpec
CHECK_DEADLOCK FALSE
CONSTANTS
    GroupCount = 4
    EntityOf <- Entities
    GroupOf <- Homes
    BodySize <- Bodies
    PartitionOf <- Partitions
    CommitMaxCount = 3
    CommitMaxBytes = 4
    Retries = 1
    Rows <- AllRows
    Bad = {2}
    Expiring = {3}
    MaxDelivery = 3
    DefaultMaxDelivery = 4
    PageSize = 2
    PageCap = 3
    K = 2
    BatchSize = 2
INVARIANTS TypeOK OnlyImportedDeleted BelowIsDeleted ChunksFit RestIsCarried CountsAddUp NoOrphanMissed GuardHolds
PROPERTIES SavedIsExact ReconcileEnds
