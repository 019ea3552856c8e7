CONSTANTS
    Threads = {t1, t2}
    Vals = {v1}
    None = None
    NumKeys = 5
    NumBuckets = 5
    NumPartitions = 2
    KeysPerPartition = 4
    Keys <- MCKeys
    Buckets <- MCBuckets
    Partitions <- MCPartitions
    BucketOf <- MCBucketOf
    PartitionOf <- MCPartitionOf
    PerValueSize = 1
    MaxSize = 3
    CanEvict = {TRUE}
    Ops = {"upsert", "get", "remove"}
SPECIFICATION Spec
INVARIANTS RecordsConsistent EveryNodeEvictable NeverRefused
PROPERTIES ImplementsCache
