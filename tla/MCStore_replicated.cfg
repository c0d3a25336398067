SPECIFICATION StoreSpec
CONSTANTS
    b1 = b1
    j1 = j1
    j2 = j2
    Blob = {b1}
    Job = {j1, j2}
    Uploader = {u1, u2}
    u1 = u1
    u2 = u2
    Refs <- Shared
    Limit = 3
    EvictAt = 3
    BlobGrace = 1
    ManifestGrace = 1
    ReplicaGrace = 1
    MaxNow = 2
    MaxRecords = 4
    MaxFaults = 1
    Mixes <- AllMixes
INVARIANTS
    SnapshotsAreKept
    TombstonesAreIntended
    WatermarkIsEarned
    ReplicaKeepsLiveJobs
    WithinLimit
PROPERTY
    ReplicationCatchesUp
CHECK_DEADLOCK FALSE
