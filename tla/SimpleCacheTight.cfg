CONSTANTS
    Threads = {t1, t2}
    Vals = {v1, v2}
    None = None
    NumKeys = 3
    NumBuckets = 2
    NumPartitions = 1
    KeysPerPartition = 3
    Keys <- MCKeys
    Buckets <- MCBuckets
    Partitions <- MCPartitions
    BucketOf <- MCBucketOf
    PartitionOf <- MCPartitionOf
    PerValueSize = 2
    MaxSize = 3
    CanEvict = {TRUE, FALSE}
    Ops = {"insert", "upsert", "get"}
SPECIFICATION Spec
INVARIANTS RecordsConsistent EveryNodeEvictable CapacityBound
PROPERTIES ImplementsCache
