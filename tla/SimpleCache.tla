----------------------------- MODULE SimpleCache -----------------------------
(***************************************************************************)
(* sisl::SimpleCache over SimpleHashMap and LRUEvictor, called by several  *)
(* threads.  A step of the model is what a thread does between two lock    *)
(* operations: the per-bucket SharedMutex of the hash map is taken first,  *)
(* the m_list_guard of an LRU partition second, and an evicting thread     *)
(* only ever tries the bucket lock of its victim.  A section under         *)
(* m_list_guard that calls out to nobody is one step.                      *)
(*                                                                         *)
(* A hash node is named by its key: the map holds at most one node per     *)
(* key, and a node is alive exactly while it is in the map.                *)
(***************************************************************************)
EXTENDS Integers, Sequences, FiniteSets, Lists

CONSTANTS
    Threads,
    Keys,
    Vals,
    Buckets,        \* buckets of the hash map
    Partitions,     \* LRU partitions of the evictor
    BucketOf,       \* get_bucket: hash of the key modulo the bucket count
    PartitionOf,    \* get_partition: hash of the key modulo the partitions
    PerValueSize,   \* m_per_value_size: every record has this size
    MaxSize,        \* capacity of one partition
    CanEvict,       \* the answers the family's can_evict_cb may give
    Ops,            \* the operations the clients call
    None

ASSUME SizeAssumption == PerValueSize \in Nat \ {0} /\ MaxSize \in Nat

ASSUME HashAssumption == /\ BucketOf \in [Keys -> Buckets]
                         /\ PartitionOf \in [Keys -> Partitions]

ASSUME OpsAssumption == /\ Ops \subseteq {"insert", "upsert", "get", "remove"}
                        /\ CanEvict \subseteq BOOLEAN

ASSUME NoneAssumption == /\ None \notin Threads
                         /\ None \notin Keys
                         /\ None \notin Vals

VARIABLES
    map,      \* value of the node of each key, None when there is no node
    lru,      \* m_list of each partition, least recently used first
    filled,   \* m_filled_size of each partition
    wlock,    \* the exclusive holder of each bucket lock
    rlock,    \* the shared holders of each bucket lock
    guard,    \* the holder of each partition's m_list_guard
    pc,
    op,       \* the call a thread is executing ...
    key,      \* ... the key its bucket operation works on ...
    val,      \* ... the value it stores or has read
    ret,      \* ... and the result it returns
    failed,   \* t_failed_keys
    drain,    \* the failed keys that insert has still to erase
    it,       \* the cursor of do_evict
    victim    \* the record do_evict has unlinked

locks == <<wlock, rlock, guard>>
call == <<op, key, val, ret>>
evict == <<it, victim>>
vars == <<map, lru, filled, wlock, rlock, guard, pc, op, key, val, ret,
          failed, drain, it, victim>>

Init == /\ map = [k \in Keys |-> None]
        /\ lru = [p \in Partitions |-> <<>>]
        /\ filled = [p \in Partitions |-> 0]
        /\ wlock = [b \in Buckets |-> None]
        /\ rlock = [b \in Buckets |-> {}]
        /\ guard = [p \in Partitions |-> None]
        /\ pc = [t \in Threads |-> "idle"]
        /\ op = [t \in Threads |-> None]
        /\ key = [t \in Threads |-> None]
        /\ val = [t \in Threads |-> None]
        /\ ret = [t \in Threads |-> FALSE]
        /\ failed = [t \in Threads |-> {}]
        /\ drain = [t \in Threads |-> {}]
        /\ it = [t \in Threads |-> 1]
        /\ victim = [t \in Threads |-> None]

-----------------------------------------------------------------------------
(* The hash map: calls, bucket locks, and what happens under them.         *)

Goto(t, label) == pc' = [pc EXCEPT ![t] = label]

Free(b) == wlock[b] = None /\ rlock[b] = {}

Linked(k) == k \in Range(lru[PartitionOf[k]])

(* A client calls one of the operations of the cache.                      *)
Call(t, o, k, v) ==
    /\ pc[t] = "idle"
    /\ Goto(t, "lock")
    /\ op' = [op EXCEPT ![t] = o]
    /\ key' = [key EXCEPT ![t] = k]
    /\ val' = [val EXCEPT ![t] = IF o \in {"insert", "upsert"} THEN v ELSE None]
    /\ ret' = [ret EXCEPT ![t] = FALSE]
    /\ UNCHANGED <<map, lru, filled, locks, failed, drain, evict>>

(* get takes the bucket lock shared, every other operation exclusively.    *)
LockShared(t) ==
    /\ pc[t] = "lock" /\ op[t] = "get"
    /\ wlock[BucketOf[key[t]]] = None
    /\ rlock' = [rlock EXCEPT ![BucketOf[key[t]]] = @ \cup {t}]
    /\ Goto(t, "locked")
    /\ UNCHANGED <<map, lru, filled, wlock, guard, call, failed, drain, evict>>

LockExclusive(t) ==
    /\ pc[t] = "lock" /\ op[t] # "get"
    /\ Free(BucketOf[key[t]])
    /\ wlock' = [wlock EXCEPT ![BucketOf[key[t]]] = t]
    /\ Goto(t, "locked")
    /\ UNCHANGED <<map, lru, filled, rlock, guard, call, failed, drain, evict>>

(* Slip: insert overwrites too.                                            *)
AlwaysOverwrites(t) == TRUE

(* overwrite_ok: upsert overwrites an existing value, insert does not.     *)
Overwrites(t) == op[t] = "upsert"

(* SimpleHashBucket::insert up to the callback it makes: a new node is put
   in the bucket before CREATE is announced; an existing one is overwritten
   and ACCESS announced, or it is left alone with no callback.             *)
InsertNode(t) ==
    /\ pc[t] = "locked" /\ op[t] \in {"insert", "upsert"} /\ drain[t] = {}
    /\ LET k == key[t] IN
       \/ /\ map[k] = None
          /\ map' = [map EXCEPT ![k] = val[t]]
          /\ ret' = [ret EXCEPT ![t] = TRUE]
          /\ Goto(t, "add")
       \/ /\ map[k] # None /\ Overwrites(t)
          /\ map' = [map EXCEPT ![k] = val[t]]
          /\ Goto(t, "access")
          /\ UNCHANGED ret
       \/ /\ map[k] # None /\ ~Overwrites(t)
          /\ Goto(t, "unlock")
          /\ UNCHANGED <<map, ret>>
    /\ UNCHANGED <<lru, filled, locks, op, key, val, failed, drain, evict>>

(* SimpleHashBucket::get: copies the value out, then announces ACCESS.     *)
GetNode(t) ==
    /\ pc[t] = "locked" /\ op[t] = "get"
    /\ val' = [val EXCEPT ![t] = map[key[t]]]
    /\ ret' = [ret EXCEPT ![t] = map[key[t]] # None]
    /\ Goto(t, IF map[key[t]] # None THEN "access" ELSE "unlock")
    /\ UNCHANGED <<map, lru, filled, locks, op, key, failed, drain, evict>>

(* Slip: erase announces nothing to the evictor.                           *)
ForgetsNothing(t) == TRUE

(* on_hash_operation keeps the deletion of a key of t_failed_keys to itself. *)
SkipsEvictor(t) == key[t] \in failed[t]

(* SimpleHashBucket::erase_unsafe up to the DELETE callback, for remove and
   for the clean-up of insert.                                             *)
EraseNode(t) ==
    /\ pc[t] = "locked"
    /\ op[t] = "remove" \/ drain[t] # {}
    /\ Goto(t, CASE map[key[t]] = None   -> "unlock"
                 [] SkipsEvictor(t)      -> "delete"
                 [] OTHER                -> "forget")
    /\ UNCHANGED <<map, lru, filled, locks, call, failed, drain, evict>>

(* The node is taken out of the bucket and deleted; its auto_unlink hook
   takes it off the LRU list if it is still on it.                         *)
DeleteNode(t) ==
    /\ pc[t] = "delete"
    /\ map' = [map EXCEPT ![key[t]] = None]
    /\ lru' = [lru EXCEPT ![PartitionOf[key[t]]] = Unlink(@, key[t])]
    /\ IF op[t] = "remove"
       THEN /\ ret' = [ret EXCEPT ![t] = TRUE]
            /\ val' = [val EXCEPT ![t] = map[key[t]]]
       ELSE UNCHANGED <<ret, val>>
    /\ Goto(t, "unlock")
    /\ UNCHANGED <<filled, locks, op, key, failed, drain, evict>>

(* The bucket lock is released.  Only insert looks at t_failed_keys: it
   erases every key found there, clears the set and returns false.         *)
Unlock(t) ==
    /\ pc[t] = "unlock"
    /\ wlock' = [b \in Buckets |-> IF wlock[b] = t THEN None ELSE wlock[b]]
    /\ rlock' = [b \in Buckets |-> rlock[b] \ {t}]
    /\ LET rest == IF drain[t] # {} THEN drain[t] \ {key[t]} ELSE failed[t] IN
       IF op[t] = "insert" /\ rest # {}
       THEN \E k \in rest : /\ key' = [key EXCEPT ![t] = k]
                            /\ drain' = [drain EXCEPT ![t] = rest]
                            /\ ret' = [ret EXCEPT ![t] = FALSE]
                            /\ Goto(t, "lock")
                            /\ UNCHANGED failed
       ELSE /\ drain' = [drain EXCEPT ![t] = {}]
            /\ failed' = [failed EXCEPT ![t] =
                              IF op[t] = "insert" THEN {} ELSE @]
            /\ Goto(t, "return")
            /\ UNCHANGED <<key, ret>>
    /\ UNCHANGED <<map, lru, filled, guard, op, val, evict>>

(* The result goes back to the client.                                     *)
Return(t) ==
    /\ pc[t] = "return"
    /\ Goto(t, "idle")
    /\ op' = [op EXCEPT ![t] = None]
    /\ key' = [key EXCEPT ![t] = None]
    /\ val' = [val EXCEPT ![t] = None]
    /\ ret' = [ret EXCEPT ![t] = FALSE]
    /\ UNCHANGED <<map, lru, filled, locks, failed, drain, evict>>

-----------------------------------------------------------------------------
(* The evictor: LRUPartition, called under the bucket lock.                *)

will_fill(p) == filled[p] + PerValueSize > MaxSize

is_full(p) == filled[p] >= MaxSize

(* add_record with room to spare.                                          *)
AddRecord(t) ==
    /\ pc[t] = "add"
    /\ LET p == PartitionOf[key[t]] IN
       /\ guard[p] = None
       /\ ~will_fill(p)
       /\ lru' = [lru EXCEPT ![p] = Append(@, key[t])]
       /\ filled' = [filled EXCEPT ![p] = @ + PerValueSize]
    /\ Goto(t, "unlock")
    /\ UNCHANGED <<map, locks, call, failed, drain, evict>>

(* Slip: the cursor starts one before the head.                            *)
BeforeBegin == 0

(* std::begin(m_list).                                                     *)
Begin == 1

(* add_record without: the thread keeps m_list_guard and enters do_evict.  *)
StartEvict(t) ==
    /\ pc[t] = "add"
    /\ LET p == PartitionOf[key[t]] IN
       /\ guard[p] = None
       /\ will_fill(p)
       /\ guard' = [guard EXCEPT ![p] = t]
    /\ it' = [it EXCEPT ![t] = Begin]
    /\ Goto(t, "evict")
    /\ UNCHANGED <<map, lru, filled, wlock, rlock, call, failed, drain, victim>>

(* Slip: do_evict gives up after the first record.                         *)
EvictingHeadOnly(t) == /\ will_fill(PartitionOf[key[t]])
                       /\ it[t] <= 1 /\ lru[PartitionOf[key[t]]] # <<>>

(* The condition of the loop of do_evict.                                  *)
Evicting(t) == will_fill(PartitionOf[key[t]]) /\ it[t] <= Len(lru[PartitionOf[key[t]]])

(* Slip: the cursor stays on a record that cannot be evicted.              *)
Stay(t) == it[t]

(* The cursor moves on from a record that is not evicted.                  *)
Advance(t) == it[t] + 1

(* One turn of the loop of do_evict up to post_eviction_cb: the record under
   the cursor is pinned or can_evict_cb keeps it, or it is unlinked.       *)
NextVictim(t) ==
    /\ pc[t] = "evict" /\ Evicting(t)
    /\ LET p == PartitionOf[key[t]] IN
       \E ok \in CanEvict :
          IF ok THEN /\ victim' = [victim EXCEPT ![t] = lru[p][it[t]]]
                     /\ lru' = [lru EXCEPT ![p] = DropAt(@, it[t])]
                     /\ Goto(t, "victim")
                     /\ UNCHANGED it
                ELSE /\ it' = [it EXCEPT ![t] = Advance(t)]
                     /\ UNCHANGED <<lru, victim, pc>>
    /\ UNCHANGED <<map, filled, locks, call, failed, drain>>

(* Slip: the bucket of the victim is entered without its lock.             *)
NoTryLock(t) == TRUE

(* The try_lock of try_erase succeeds when nobody holds the bucket.        *)
CanTryLock(t) == Free(BucketOf[victim[t]])

(* Slip: a victim that cannot be erased is not put back.                   *)
Dropped(t) == lru[PartitionOf[key[t]]]

(* A victim that cannot be erased is put back where it was.                *)
PutBack(t) == PutAt(lru[PartitionOf[key[t]]], it[t], victim[t])

(* post_eviction_cb is try_erase: the bucket of the victim is locked if
   nobody holds it; otherwise the record goes back where it was.           *)
TryLockVictim(t) ==
    /\ pc[t] = "victim"
    /\ IF CanTryLock(t)
       THEN /\ wlock' = [wlock EXCEPT ![BucketOf[victim[t]]] = t]
            /\ Goto(t, "erase")
            /\ UNCHANGED <<lru, evict>>
       ELSE /\ lru' = [lru EXCEPT ![PartitionOf[key[t]]] = PutBack(t)]
            /\ it' = [it EXCEPT ![t] = Advance(t)]
            /\ victim' = [victim EXCEPT ![t] = None]
            /\ Goto(t, "evict")
            /\ UNCHANGED wlock
    /\ UNCHANGED <<map, filled, rlock, guard, call, failed, drain>>

(* The node of the victim is erased, without a callback, and its bucket
   unlocked; try_erase fails when the key is not in the map.               *)
EraseVictim(t) ==
    /\ pc[t] = "erase"
    /\ LET k == victim[t]
           p == PartitionOf[key[t]] IN
       /\ wlock' = [wlock EXCEPT ![BucketOf[k]] = None]
       /\ IF map[k] # None
          THEN /\ map' = [map EXCEPT ![k] = None]
               /\ filled' = [filled EXCEPT ![p] = @ - PerValueSize]
               /\ UNCHANGED <<lru, it>>
          ELSE /\ lru' = [lru EXCEPT ![p] = PutBack(t)]
               /\ it' = [it EXCEPT ![t] = Advance(t)]
               /\ UNCHANGED <<map, filled>>
    /\ victim' = [victim EXCEPT ![t] = None]
    /\ Goto(t, "evict")
    /\ UNCHANGED <<rlock, guard, call, failed, drain>>

(* Slip: a record that was refused is put on the list all the same.        *)
AddedAnyway(p) == TRUE

(* do_evict succeeds, and add_record goes on, unless the partition is full. *)
Accepted(p) == ~is_full(p)

(* The loop of do_evict is over: the record is refused if the partition is
   full, and added otherwise, whether or not it now fits.                  *)
FinishAdd(t) ==
    /\ pc[t] = "evict" /\ ~Evicting(t)
    /\ LET p == PartitionOf[key[t]] IN
       /\ guard' = [guard EXCEPT ![p] = None]
       /\ failed' = [failed EXCEPT ![t] = IF is_full(p) THEN @ \cup {key[t]} ELSE @]
       /\ IF Accepted(p) THEN /\ lru' = [lru EXCEPT ![p] = Append(@, key[t])]
                              /\ filled' = [filled EXCEPT ![p] = @ + PerValueSize]
                         ELSE UNCHANGED <<lru, filled>>
    /\ it' = [it EXCEPT ![t] = 1]
    /\ Goto(t, "unlock")
    /\ UNCHANGED <<map, wlock, rlock, call, drain, victim>>

(* record_accessed: a linked record moves to the recently used end.        *)
RecordAccessed(t) ==
    /\ pc[t] = "access"
    /\ guard[PartitionOf[key[t]]] = None
    /\ lru' = [lru EXCEPT ![PartitionOf[key[t]]] =
                  IF Linked(key[t]) THEN Append(Unlink(@, key[t]), key[t])
                                    ELSE @]
    /\ Goto(t, "unlock")
    /\ UNCHANGED <<map, filled, locks, call, failed, drain, evict>>

(* remove_record: a linked record is unlinked and its size given back.     *)
RemoveRecord(t) ==
    /\ pc[t] = "forget"
    /\ LET p == PartitionOf[key[t]] IN
       /\ guard[p] = None
       /\ IF Linked(key[t])
          THEN /\ lru' = [lru EXCEPT ![p] = Unlink(@, key[t])]
               /\ filled' = [filled EXCEPT ![p] = @ - PerValueSize]
          ELSE UNCHANGED <<lru, filled>>
    /\ Goto(t, "delete")
    /\ UNCHANGED <<map, locks, call, failed, drain, evict>>

-----------------------------------------------------------------------------

Acquire(t) == \/ LockShared(t) \/ LockExclusive(t)
              \/ AddRecord(t) \/ StartEvict(t)
              \/ RecordAccessed(t) \/ RemoveRecord(t)

Work(t) == \/ InsertNode(t) \/ GetNode(t) \/ EraseNode(t) \/ DeleteNode(t)
           \/ NextVictim(t) \/ TryLockVictim(t) \/ EraseVictim(t)
           \/ FinishAdd(t) \/ Unlock(t) \/ Return(t)

Next == \E t \in Threads :
            \/ \E o \in Ops, k \in Keys, v \in Vals : Call(t, o, k, v)
            \/ Acquire(t)
            \/ Work(t)

Spec == Init /\ [][Next]_vars

-----------------------------------------------------------------------------
(* The abstract cache this one implements.  A call has taken effect once the
   node was created, overwritten, read or deleted, or its key was found to be
   present (insert) or absent (get, remove).                               *)

Called(t) == /\ drain[t] = {}
             /\ \/ pc[t] \in {"lock", "locked"}
                \/ pc[t] \in {"forget", "delete"} /\ op[t] = "remove"

Phase(t) == CASE pc[t] = "idle" -> "idle"
              [] Called(t)      -> "called"
              [] OTHER          -> "done"

Abstract == INSTANCE CacheSpec WITH
    store <- map,
    phase <- [t \in Threads |-> Phase(t)],
    arg <- [t \in Threads |->
              IF Phase(t) = "called"
              THEN [op |-> op[t], key |-> key[t], val |-> val[t]]
              ELSE [op |-> None, key |-> None, val |-> None]],
    res <- [t \in Threads |->
              IF Phase(t) = "done"
              THEN [op |-> op[t], ok |-> ret[t],
                    val |-> IF op[t] \in {"get", "remove"} THEN val[t] ELSE None]
              ELSE [op |-> None, ok |-> FALSE, val |-> None]]

(* SimpleCache is a linearizable forgetful map: whatever the interleaving of
   inserts, upserts, gets, removes and evictions under the bucket locks, every
   call takes effect atomically and returns what the map held then.        *)
ImplementsCache == Abstract!Spec

-----------------------------------------------------------------------------

Labels == {"idle", "lock", "locked", "add", "evict", "victim", "erase",
           "access", "forget", "delete", "unlock", "return"}

(* Every variable has the type of the C++ object it stands for.            *)
TypeOK == /\ map \in [Keys -> Vals \cup {None}]
          /\ lru \in [Partitions -> Seq(Keys)]
          /\ filled \in [Partitions -> Int]
          /\ wlock \in [Buckets -> Threads \cup {None}]
          /\ rlock \in [Buckets -> SUBSET Threads]
          /\ guard \in [Partitions -> Threads \cup {None}]
          /\ pc \in [Threads -> Labels]
          /\ op \in [Threads -> Ops \cup {None}]
          /\ key \in [Threads -> Keys \cup {None}]
          /\ val \in [Threads -> Vals \cup {None}]
          /\ ret \in [Threads -> BOOLEAN]
          /\ failed \in [Threads -> SUBSET Keys]
          /\ drain \in [Threads -> SUBSET Keys]
          /\ it \in [Threads -> Nat \ {0}]
          /\ victim \in [Threads -> Keys \cup {None}]

(* No record outlives its node: what is on an LRU list, and what do_evict has
   taken off it and is about to hand to post_eviction_cb, is in the map.   *)
NoDanglingRecord ==
    /\ \A p \in Partitions : \A k \in Range(lru[p]) : map[k] # None
    /\ \A t \in Threads : victim[t] # None => map[victim[t]] # None

(* erase_unsafe deletes a node only after remove_record has unlinked it under
   m_list_guard: the auto_unlink hook never changes a list behind the guard. *)
UnlinkedBeforeDelete ==
    \A t \in Threads : pc[t] = "delete" =>
        /\ ~Linked(key[t])
        /\ \A u \in Threads : victim[u] # key[t]

(* m_filled_size is the size of the records on the list, whenever nobody is in
   the middle of do_evict.                                                 *)
Accounting ==
    \A p \in Partitions :
        guard[p] = None => filled[p] = PerValueSize * Len(lru[p])

(* do_evict adds a record that does not fit when the partition is not yet full,
   but the overrun stays below one record.                                 *)
CapacityBound ==
    \A p \in Partitions : 0 <= filled[p] /\ filled[p] < MaxSize + PerValueSize

(* A node whose bucket is not in use is known to the evictor, so that it can be
   evicted, unless it is one the evictor refused and t_failed_keys holds.  *)
EveryNodeEvictable ==
    \A k \in Keys : map[k] # None /\ Free(BucketOf[k]) =>
        \/ Linked(k)
        \/ \E t \in Threads : victim[t] = k \/ k \in failed[t]

(* No record is refused for want of a victim when a partition has room for two
   records per other thread and one more, every key has a bucket of its own,
   every record may be evicted and no call is an insert of a present key:
   while one thread evicts, each other one keeps at most two buckets busy. *)
NeverRefused == \A t \in Threads : failed[t] = {}

(* Every call returns: the bucket locks, m_list_guard and try_erase never make
   the threads wait for each other in a circle.                            *)
CallsReturn == \A t \in Threads : pc[t] = "lock" ~> pc[t] = "idle"

(* A key that could not be added is erased once the callbacks of its operation
   are done, so that no operation leaves t_failed_keys behind.             *)
FailedKeysErased == \A t \in Threads : pc[t] = "idle" => failed[t] = {}

(* What the evictor keeps of the cache agrees with the map, and a node leaves the
   map only after the evictor has let go of it: no record dangles, none is
   unlinked behind the guard and the sizes add up, whatever calls and
   evictions overlap.                                                      *)
RecordsConsistent == TypeOK /\ NoDanglingRecord /\ UnlinkedBeforeDelete /\ Accounting

=============================================================================
