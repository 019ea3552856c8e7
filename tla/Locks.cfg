CONSTANTS
    Threads = {t1, t2}
    None = None
    Vals = {v1}
    NumKeys = 4
    NumBuckets = 4
    NumPartitions = 1
    KeysPerPartition = 4
    Keys <- MCKeys
    Buckets <- MCBuckets
    Partitions <- MCPartitions
    BucketOf <- MCBucketOf
    PartitionOf <- MCPartitionOf
    PerValueSize = 1
    MaxSize = 3
    CanEvict = {TRUE}
    Ops = {"upsert", "get", "remove"}
    NumSlots = 3
    Buffers = {b1}
    ExitSafe = TRUE
    Overlap = FALSE
    Ample = TRUE
    Null = Null
    Exited = Exited
SPECIFICATION LocksSpec
PROPERTIES CallsReturn ThreadsReturn
