CONSTANTS
    Threads = {t1, t2}
    Vals = {v1, v2}
    None = None
    NumKeys = 4
    NumBuckets = 2
    NumPartitions = 2
    KeysPerPartition = 3
    Keys <- MCKeys
    Buckets <- MCBuckets
    Partitions <- MCPartitions
    BucketOf <- MCBucketOf
    PartitionOf <- MCPartitionOf
    PerValueSize = 2
    MaxSize = 3
    CanEvict = {TRUE, FALSE}
    Ops = {"upsert", "get"}
SPECIFICATION Spec
INVARIANTS FailedKeysErased
