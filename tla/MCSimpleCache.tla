---------------------------- MODULE MCSimpleCache ----------------------------
(* Small instances of SimpleCache.  Keys are small numbers, so that the hash
   of a key is the key itself.                                             *)
EXTENDS SimpleCache

CONSTANTS NumKeys, NumBuckets, NumPartitions, KeysPerPartition

MCKeys == 1 .. NumKeys
MCBuckets == 0 .. NumBuckets - 1
MCPartitions == 0 .. NumPartitions - 1
MCBucketOf == [k \in MCKeys |-> k % NumBuckets]
MCPartitionOf == [k \in MCKeys |-> (k - 1) \div KeysPerPartition]

=============================================================================
