------------------------- MODULE SimpleCache_proofs -------------------------
(***************************************************************************)
(* Proofs about SimpleCache, for any number of threads, keys, buckets and  *)
(* partitions, any capacity and any mix of insert, upsert and get.  With   *)
(* remove, a refused key may be removed and inserted again behind the back *)
(* of the thread that is to clean it up, which then deletes a linked       *)
(* record: the invariants are lost.                                        *)
(***************************************************************************)
EXTENDS SimpleCache, SequenceFacts, TLAPS

\* The provers of a leaf that names none, and how long each may take.
USE ZenonT(40), SMTT(20)

(* The inductive invariant.  While no client calls remove, every node of the
   map is in exactly one place: on the LRU list of its partition, in the hands
   of one evicting thread, in the hands of the one thread adding it, or among
   the failed keys that one thread has still to erase.                     *)

InEvict == {"evict", "victim", "erase"}

Adding(t, k) == pc[t] \in InEvict \cup {"add"} /\ key[t] = k

(* The keys of t_failed_keys whose nodes this thread has not erased yet.   *)
Unerased(t) == IF drain[t] = {} THEN failed[t]
               ELSE IF pc[t] = "unlock" THEN drain[t] \ {key[t]}
               ELSE drain[t]

ThreadInv ==
    \A t \in Threads :
        /\ pc[t] # "idle" => key[t] \in Keys /\ op[t] \in Ops
        /\ pc[t] # "idle" /\ op[t] \in {"insert", "upsert"} => val[t] \in Vals
        /\ victim[t] # None <=> pc[t] \in {"victim", "erase"}
        /\ pc[t] \in InEvict \cup {"add"} => drain[t] = {}
        /\ drain[t] # {} => /\ pc[t] \in {"lock", "locked", "forget", "delete", "unlock"}
                            /\ key[t] \in drain[t]
                            /\ op[t] = "insert"
                            /\ drain[t] \subseteq failed[t]
        /\ pc[t] \in {"forget", "delete"} => drain[t] # {}
        /\ pc[t] # "forget"

GuardInv ==
    /\ \A t \in Threads : pc[t] \in InEvict =>
           /\ guard[PartitionOf[key[t]]] = t
           /\ it[t] <= Len(lru[PartitionOf[key[t]]]) + 1
    /\ \A p \in Partitions : guard[p] # None =>
           /\ pc[guard[p]] \in InEvict
           /\ PartitionOf[key[guard[p]]] = p
    /\ \A t \in Threads : victim[t] # None => PartitionOf[victim[t]] = PartitionOf[key[t]]

ListInv ==
    \A p \in Partitions :
        /\ IsInjective(lru[p])
        /\ \A k \in Range(lru[p]) : PartitionOf[k] = p

(* No node, no place; a place for every node; and one place only.          *)
Place(k) ==
    /\ map[k] = None =>
         /\ ~Linked(k)
         /\ \A t \in Threads : victim[t] # k /\ ~Adding(t, k) /\ k \notin Unerased(t)
    /\ map[k] # None =>
         \/ Linked(k)
         \/ \E t \in Threads : victim[t] = k \/ Adding(t, k) \/ k \in Unerased(t)
    /\ Linked(k) =>
         \A t \in Threads : victim[t] # k /\ ~Adding(t, k) /\ k \notin Unerased(t)
    /\ \A t, u \in Threads :
         /\ victim[t] = k => ~Adding(u, k) /\ k \notin Unerased(u)
         /\ Adding(t, k) => k \notin Unerased(u)
         /\ victim[t] = k /\ victim[u] = k => t = u
         /\ Adding(t, k) /\ Adding(u, k) => t = u
         /\ k \in Unerased(t) /\ k \in Unerased(u) => t = u

PlaceInv == \A k \in Keys : Place(k)

(* The record an evicting thread holds is still counted.                   *)
Held(p) == IF guard[p] # None /\ victim[guard[p]] # None THEN 1 ELSE 0

SizeInv ==
    \A p \in Partitions :
        /\ filled[p] = PerValueSize * (Len(lru[p]) + Held(p))
        /\ filled[p] < MaxSize + PerValueSize

IInv == TypeOK /\ ThreadInv /\ GuardInv /\ ListInv /\ PlaceInv /\ SizeInv

-----------------------------------------------------------------------------
(* The initial state satisfies the invariant.                              *)
LEMMA InitIInv == Init => IInv
<1> SUFFICES ASSUME Init PROVE IInv
  OBVIOUS
<1>1. TypeOK
  BY SizeAssumption, SMTT(30) DEF Init, TypeOK, Labels
<1>2. \A p \in Partitions : Range(lru[p]) = {} /\ IsInjective(lru[p]) /\ Len(lru[p]) = 0
  BY SMTT(30) DEF Init, Range, IsInjective
<1>3. ThreadInv /\ GuardInv /\ ListInv
  BY <1>2, NoneAssumption DEF Init, ThreadInv, GuardInv, ListInv, InEvict
<1>4. PlaceInv
  BY <1>2, NoneAssumption, HashAssumption
     DEF Init, PlaceInv, Place, Linked, Adding, Unerased, InEvict
<1>5. SizeInv
  BY <1>2, SizeAssumption, SMTT(30) DEF Init, SizeInv, Held
<1>6. QED
  BY <1>1, <1>3, <1>4, <1>5 DEF IInv

(* A step that moves no record leaves every node in its place.             *)
LEMMA PlaceFrame ==
    ASSUME NEW k \in Keys, Place(k),
           (map'[k] = None) <=> (map[k] = None),
           Linked(k)' <=> Linked(k),
           \A u \in Threads : /\ (victim'[u] = k) <=> (victim[u] = k)
                              /\ Adding(u, k)' <=> Adding(u, k)
                              /\ (k \in Unerased(u))' <=> (k \in Unerased(u))
    PROVE  Place(k)'
BY DEF Place

(* A step that touches no list and no guard keeps the guards' invariant.   *)
LEMMA GuardFrame ==
    ASSUME GuardInv, ThreadInv, TypeOK, lru' = lru, guard' = guard, victim' = victim,
           \A u \in Threads : /\ pc'[u] \in InEvict <=> pc[u] \in InEvict
                              /\ pc[u] \in InEvict => key'[u] = key[u] /\ it'[u] = it[u]
    PROVE  GuardInv'
<1>1. \A u \in Threads : victim[u] # None => pc[u] \in InEvict
  BY DEF ThreadInv, InEvict
<1>2. \A p \in Partitions : guard[p] # None => guard[p] \in Threads
  BY DEF TypeOK
<1>3. QED
  BY <1>1, <1>2 DEF GuardInv

(* The sizes add up after a step that touches no list, guard or victim.    *)
LEMMA SizeFrame ==
    ASSUME SizeInv, lru' = lru, guard' = guard, victim' = victim, filled' = filled
    PROVE  SizeInv'
BY DEF SizeInv, Held

(* All of the above, for a step that moves no record.                      *)
LEMMA StepFrame ==
    ASSUME IInv, TypeOK', ThreadInv',
           map' = map, lru' = lru, guard' = guard, victim' = victim, filled' = filled,
           \A u \in Threads : /\ pc'[u] \in InEvict <=> pc[u] \in InEvict
                              /\ pc[u] \in InEvict => key'[u] = key[u] /\ it'[u] = it[u],
           \A u \in Threads, n \in Keys : Adding(u, n)' <=> Adding(u, n),
           \A u \in Threads : Unerased(u)' = Unerased(u)
    PROVE  IInv'
<1>1. GuardInv' /\ SizeInv'
  BY GuardFrame, SizeFrame DEF IInv
<1>2. ListInv'
  BY DEF IInv, ListInv
<1>3. ASSUME NEW n \in Keys PROVE Place(n)'
  <2>1. Linked(n)' <=> Linked(n)
    BY DEF Linked
  <2>2. QED
    BY <2>1, PlaceFrame DEF IInv, PlaceInv
<1>4. QED
  BY <1>1, <1>2, <1>3 DEF IInv, PlaceInv

(* The records on the list of a partition are the linked ones.             *)
LEMMA LinkedOnList ==
    ASSUME TypeOK, ListInv, NEW p \in Partitions, NEW k
    PROVE  k \in Range(lru[p]) <=> k \in Keys /\ PartitionOf[k] = p /\ Linked(k)
<1>1. lru[p] \in Seq(Keys)
  BY DEF TypeOK
<1>2. k \in Range(lru[p]) => k \in Keys
  BY <1>1, SMTT(30) DEF Range
<1>3. QED
  BY <1>2 DEF ListInv, Linked

(* What a new list of one partition means for the linked records.          *)
LEMMA ListUpdate ==
    ASSUME TypeOK, ListInv, NEW p \in Partitions, NEW s \in Seq(Keys), IsInjective(s),
           \A k \in Range(s) : PartitionOf[k] = p,
           lru' = [lru EXCEPT ![p] = s]
    PROVE  /\ lru' \in [Partitions -> Seq(Keys)]
           /\ ListInv'
           /\ \A k \in Keys : Linked(k)' <=> IF PartitionOf[k] = p THEN k \in Range(s)
                                                                   ELSE Linked(k)
           /\ \A q \in Partitions : lru'[q] = IF q = p THEN s ELSE lru[q]
<1>1. lru \in [Partitions -> Seq(Keys)]
  BY DEF TypeOK
<1>2. /\ lru' \in [Partitions -> Seq(Keys)]
      /\ \A q \in Partitions : lru'[q] = IF q = p THEN s ELSE lru[q]
  BY <1>1
<1>3. ListInv'
  BY <1>2 DEF ListInv
<1>4. \A k \in Keys : Linked(k)' <=> IF PartitionOf[k] = p THEN k \in Range(s)
                                                          ELSE Linked(k)
  BY <1>2, HashAssumption DEF Linked
<1>5. QED
  BY <1>2, <1>3, <1>4

(* A call, and the steps that only take a lock or read, keep the invariant. *)
LEMMA CallIInv ==
    ASSUME "remove" \notin Ops, IInv, NEW t \in Threads, NEW o \in Ops, NEW k \in Keys, NEW v \in Vals, Call(t, o, k, v)
    PROVE  IInv'
<1>1. TypeOK'
  BY DEF IInv, TypeOK, ThreadInv, Call, Goto, locks, call, evict, Labels, InEvict
<1>2. ThreadInv'
  BY DEF IInv, TypeOK, ThreadInv, Call, Goto, locks, call, evict, InEvict
<1>3. map' = map /\ lru' = lru /\ guard' = guard /\ victim' = victim /\ filled' = filled
  BY DEF Call, locks, evict
<1>4. \A u \in Threads : /\ pc'[u] \in InEvict <=> pc[u] \in InEvict
                         /\ pc[u] \in InEvict => key'[u] = key[u] /\ it'[u] = it[u]
  BY DEF IInv, TypeOK, Call, Goto, call, evict, InEvict
<1>5. \A u \in Threads, n \in Keys : Adding(u, n)' <=> Adding(u, n)
  BY DEF IInv, TypeOK, Call, Goto, call, Adding, InEvict
<1>6. \A u \in Threads : Unerased(u)' = Unerased(u)
  BY DEF IInv, TypeOK, ThreadInv, Call, Goto, call, Unerased
<1>7. QED
  BY <1>1, <1>2, <1>3, <1>4, <1>5, <1>6, StepFrame

(* LockShared keeps the invariant. *)
LEMMA LockSharedIInv ==
    ASSUME "remove" \notin Ops, IInv, NEW t \in Threads, LockShared(t)
    PROVE  IInv'
<1>1. TypeOK'
  BY DEF IInv, TypeOK, ThreadInv, LockShared, Goto, locks, call, evict, Labels, InEvict
<1>2. ThreadInv'
  BY DEF IInv, TypeOK, ThreadInv, LockShared, Goto, locks, call, evict, InEvict
<1>3. map' = map /\ lru' = lru /\ guard' = guard /\ victim' = victim /\ filled' = filled
  BY DEF LockShared, locks, evict
<1>4. \A u \in Threads : /\ pc'[u] \in InEvict <=> pc[u] \in InEvict
                         /\ pc[u] \in InEvict => key'[u] = key[u] /\ it'[u] = it[u]
  BY DEF IInv, TypeOK, LockShared, Goto, call, evict, InEvict
<1>5. \A u \in Threads, n \in Keys : Adding(u, n)' <=> Adding(u, n)
  BY DEF IInv, TypeOK, LockShared, Goto, call, Adding, InEvict
<1>6. \A u \in Threads : Unerased(u)' = Unerased(u)
  BY DEF IInv, TypeOK, ThreadInv, LockShared, Goto, call, Unerased
<1>7. QED
  BY <1>1, <1>2, <1>3, <1>4, <1>5, <1>6, StepFrame

(* LockExclusive keeps the invariant. *)
LEMMA LockExclusiveIInv ==
    ASSUME "remove" \notin Ops, IInv, NEW t \in Threads, LockExclusive(t)
    PROVE  IInv'
<1>1. TypeOK'
  BY DEF IInv, TypeOK, ThreadInv, LockExclusive, Goto, locks, call, evict, Labels, InEvict
<1>2. ThreadInv'
  BY DEF IInv, TypeOK, ThreadInv, LockExclusive, Goto, locks, call, evict, InEvict
<1>3. map' = map /\ lru' = lru /\ guard' = guard /\ victim' = victim /\ filled' = filled
  BY DEF LockExclusive, locks, evict
<1>4. \A u \in Threads : /\ pc'[u] \in InEvict <=> pc[u] \in InEvict
                         /\ pc[u] \in InEvict => key'[u] = key[u] /\ it'[u] = it[u]
  BY DEF IInv, TypeOK, LockExclusive, Goto, call, evict, InEvict
<1>5. \A u \in Threads, n \in Keys : Adding(u, n)' <=> Adding(u, n)
  BY DEF IInv, TypeOK, LockExclusive, Goto, call, Adding, InEvict
<1>6. \A u \in Threads : Unerased(u)' = Unerased(u)
  BY DEF IInv, TypeOK, ThreadInv, LockExclusive, Goto, call, Unerased
<1>7. QED
  BY <1>1, <1>2, <1>3, <1>4, <1>5, <1>6, StepFrame

(* GetNode keeps the invariant. *)
LEMMA GetNodeIInv ==
    ASSUME "remove" \notin Ops, IInv, NEW t \in Threads, GetNode(t)
    PROVE  IInv'
<1>1. TypeOK'
  BY DEF IInv, TypeOK, ThreadInv, GetNode, Goto, locks, call, evict, Labels, InEvict
<1>2. ThreadInv'
  BY DEF IInv, TypeOK, ThreadInv, GetNode, Goto, locks, call, evict, InEvict
<1>3. map' = map /\ lru' = lru /\ guard' = guard /\ victim' = victim /\ filled' = filled
  BY DEF GetNode, locks, evict
<1>4. \A u \in Threads : /\ pc'[u] \in InEvict <=> pc[u] \in InEvict
                         /\ pc[u] \in InEvict => key'[u] = key[u] /\ it'[u] = it[u]
  BY DEF IInv, TypeOK, GetNode, Goto, call, evict, InEvict
<1>5. \A u \in Threads, n \in Keys : Adding(u, n)' <=> Adding(u, n)
  BY DEF IInv, TypeOK, GetNode, Goto, call, Adding, InEvict
<1>6. \A u \in Threads : Unerased(u)' = Unerased(u)
  BY DEF IInv, TypeOK, ThreadInv, GetNode, Goto, call, Unerased
<1>7. QED
  BY <1>1, <1>2, <1>3, <1>4, <1>5, <1>6, StepFrame

(* erase_unsafe only runs for keys that insert has to clean up, whose nodes
   are still in the map.                                                   *)
LEMMA EraseNodeIInv ==
    ASSUME "remove" \notin Ops, IInv, NEW t \in Threads, EraseNode(t)
    PROVE  IInv'
<1>1. drain[t] # {} /\ pc[t] = "locked" /\ key[t] \in drain[t] /\ key[t] \in Keys
      /\ key[t] \in failed[t]
  BY DEF IInv, ThreadInv, EraseNode
<1>2. map[key[t]] # None
  <2>1. key[t] \in Unerased(t)
    BY <1>1 DEF Unerased
  <2>2. QED  BY <1>1, <2>1 DEF IInv, PlaceInv, Place
<1>3. pc' = [pc EXCEPT ![t] = "delete"] /\ UNCHANGED <<map, lru, filled, wlock, rlock,
         guard, op, key, val, ret, failed, drain, it, victim>>
  BY <1>1, <1>2 DEF EraseNode, SkipsEvictor, Goto, locks, call, evict
<1>4. TypeOK'
  BY <1>3 DEF IInv, TypeOK, Labels
<1>5. ThreadInv'
  BY <1>1, <1>3 DEF IInv, TypeOK, ThreadInv, InEvict
<1>6. \A u \in Threads : pc'[u] \in InEvict <=> pc[u] \in InEvict
  BY <1>1, <1>3 DEF IInv, TypeOK, InEvict
<1>7. \A u \in Threads, n \in Keys : Adding(u, n)' <=> Adding(u, n)
  BY <1>1, <1>3 DEF IInv, TypeOK, Adding, InEvict
<1>8. \A u \in Threads : Unerased(u)' = Unerased(u)
  BY <1>1, <1>3 DEF IInv, TypeOK, Unerased
<1>9. QED
  BY <1>3, <1>4, <1>5, <1>6, <1>7, <1>8, StepFrame

(* Return keeps the invariant. *)
LEMMA ReturnIInv ==
    ASSUME "remove" \notin Ops, IInv, NEW t \in Threads, Return(t)
    PROVE  IInv'
<1>1. TypeOK'
  BY DEF IInv, TypeOK, ThreadInv, Return, Goto, locks, call, evict, Labels, InEvict
<1>2. ThreadInv'
  BY DEF IInv, TypeOK, ThreadInv, Return, Goto, locks, call, evict, InEvict
<1>3. map' = map /\ lru' = lru /\ guard' = guard /\ victim' = victim /\ filled' = filled
  BY DEF Return, locks, evict
<1>4. \A u \in Threads : /\ pc'[u] \in InEvict <=> pc[u] \in InEvict
                         /\ pc[u] \in InEvict => key'[u] = key[u] /\ it'[u] = it[u]
  BY DEF IInv, TypeOK, Return, Goto, call, evict, InEvict
<1>5. \A u \in Threads, n \in Keys : Adding(u, n)' <=> Adding(u, n)
  BY DEF IInv, TypeOK, Return, Goto, call, Adding, InEvict
<1>6. \A u \in Threads : Unerased(u)' = Unerased(u)
  BY DEF IInv, TypeOK, ThreadInv, Return, Goto, call, Unerased
<1>7. QED
  BY <1>1, <1>2, <1>3, <1>4, <1>5, <1>6, StepFrame

(* The node of a failed key is deleted: it was on no list and in no hands but
   this thread's, so nothing but the map loses it.                         *)
LEMMA DeleteNodeIInv ==
    ASSUME "remove" \notin Ops, IInv, NEW t \in Threads, DeleteNode(t)
    PROVE  IInv'
<1>1. /\ drain[t] # {} /\ pc[t] = "delete" /\ op[t] = "insert"
      /\ key[t] \in drain[t] /\ key[t] \in Keys
  BY DEF IInv, ThreadInv, DeleteNode
<1>2. key[t] \in Unerased(t)
  BY <1>1 DEF Unerased
<1>3. /\ ~Linked(key[t])
      /\ \A u \in Threads : /\ victim[u] # key[t] /\ ~Adding(u, key[t])
                            /\ key[t] \in Unerased(u) => u = t
  BY <1>1, <1>2 DEF IInv, PlaceInv, Place
<1>4. lru' = lru
  <2>1. lru[PartitionOf[key[t]]] \in Seq(Keys)
    BY <1>1, HashAssumption DEF IInv, TypeOK
  <2>2. Unlink(lru[PartitionOf[key[t]]], key[t]) = lru[PartitionOf[key[t]]]
    BY <1>3, <2>1, UnlinkAbsent DEF Linked
  <2>3. QED  BY <1>1, <2>2 DEF DeleteNode, IInv, TypeOK
<1>5. /\ pc' = [pc EXCEPT ![t] = "unlock"] /\ map' = [map EXCEPT ![key[t]] = None]
      /\ UNCHANGED <<filled, wlock, rlock, guard, op, key, val, ret, failed, drain, it, victim>>
  BY <1>1 DEF DeleteNode, Goto, locks, call, evict
<1>6. TypeOK'
  BY <1>1, <1>4, <1>5 DEF IInv, TypeOK, Labels
<1>7. ThreadInv'
  BY <1>1, <1>5 DEF IInv, TypeOK, ThreadInv, InEvict
<1>8. \A u \in Threads : pc'[u] \in InEvict <=> pc[u] \in InEvict
  BY <1>1, <1>5 DEF IInv, TypeOK, InEvict
<1>9. GuardInv' /\ SizeInv'
  BY <1>4, <1>5, <1>8, GuardFrame, SizeFrame DEF IInv
<1>10. ListInv'
  BY <1>4 DEF IInv, ListInv
<1>11. ASSUME NEW n \in Keys PROVE Place(n)'
  <2>1. Linked(n)' <=> Linked(n)
    BY <1>4 DEF Linked
  <2>2. \A u \in Threads : Adding(u, n)' <=> Adding(u, n)
    BY <1>1, <1>5 DEF IInv, TypeOK, Adding, InEvict
  <2>3. \A u \in Threads : Unerased(u)' = IF u = t THEN Unerased(u) \ {key[t]} ELSE Unerased(u)
    BY <1>1, <1>5 DEF IInv, TypeOK, Unerased
  <2>4. CASE n = key[t]
    <3>1. map'[n] = None
      BY <1>1, <1>5, <2>4 DEF IInv, TypeOK
    <3>2. /\ ~Linked(n)'
          /\ \A u \in Threads : victim'[u] # n /\ ~Adding(u, n)' /\ (n \notin Unerased(u))'
      BY <1>3, <1>5, <2>1, <2>2, <2>3, <2>4
    <3>3. QED  BY <3>1, <3>2 DEF Place
  <2>5. CASE n # key[t]
    <3>1. map'[n] = map[n]
      BY <1>1, <1>5, <2>5 DEF IInv, TypeOK
    <3>2. QED
      BY <1>5, <2>1, <2>2, <2>3, <2>5, <3>1, PlaceFrame DEF IInv, PlaceInv
  <2>6. QED  BY <2>4, <2>5
<1>12. QED
  BY <1>6, <1>7, <1>9, <1>10, <1>11 DEF IInv, PlaceInv

(* Releasing the bucket lock starts, continues or ends the clean-up.       *)
LEMMA UnlockIInv ==
    ASSUME "remove" \notin Ops, IInv, NEW t \in Threads, Unlock(t)
    PROVE  IInv'
<1> DEFINE rest == IF drain[t] # {} THEN drain[t] \ {key[t]} ELSE failed[t]
<1> HIDE DEF rest
<1>1. pc[t] = "unlock" /\ Unerased(t) = rest
      /\ UNCHANGED <<map, lru, filled, guard, op, val, it, victim>>
  BY DEF Unlock, Unerased, evict, rest
<1>2. rest \subseteq failed[t] /\ failed[t] \subseteq Keys
  BY DEF IInv, ThreadInv, TypeOK, rest
<1>3. /\ wlock' \in [Buckets -> Threads \cup {None}] /\ rlock' \in [Buckets -> SUBSET Threads]
  BY DEF Unlock, IInv, TypeOK
<1>4. CASE op[t] = "insert" /\ rest # {}
  <2>1. PICK k \in rest : /\ key' = [key EXCEPT ![t] = k] /\ drain' = [drain EXCEPT ![t] = rest]
                          /\ ret' = [ret EXCEPT ![t] = FALSE] /\ pc' = [pc EXCEPT ![t] = "lock"]
                          /\ failed' = failed
    BY <1>4 DEF Unlock, Goto, rest
  <2>2. TypeOK'
    BY <1>1, <1>2, <1>3, <2>1 DEF IInv, TypeOK, Labels
  <2>3. ThreadInv'
    BY <1>1, <1>2, <1>4, <2>1 DEF IInv, TypeOK, ThreadInv, InEvict
  <2>4. \A u \in Threads : /\ pc'[u] \in InEvict <=> pc[u] \in InEvict
                           /\ pc[u] \in InEvict => key'[u] = key[u] /\ it'[u] = it[u]
    BY <1>1, <2>1 DEF IInv, TypeOK, InEvict
  <2>5. \A u \in Threads, n \in Keys : Adding(u, n)' <=> Adding(u, n)
    BY <1>1, <2>1 DEF IInv, TypeOK, Adding, InEvict
  <2>6. \A u \in Threads : Unerased(u)' = Unerased(u)
    BY <1>1, <1>4, <2>1 DEF IInv, TypeOK, Unerased
  <2>7. QED
    BY <1>1, <2>2, <2>3, <2>4, <2>5, <2>6, StepFrame
<1>5. CASE ~(op[t] = "insert" /\ rest # {})
  <2>1. /\ drain' = [drain EXCEPT ![t] = {}] /\ pc' = [pc EXCEPT ![t] = "return"]
        /\ failed' = [failed EXCEPT ![t] = IF op[t] = "insert" THEN {} ELSE @]
        /\ key' = key /\ ret' = ret
    BY <1>5 DEF Unlock, Goto, rest
  <2>2. TypeOK'
    BY <1>1, <1>2, <1>3, <2>1 DEF IInv, TypeOK, Labels
  <2>3. ThreadInv'
    BY <1>1, <1>2, <1>5, <2>1 DEF IInv, TypeOK, ThreadInv, InEvict
  <2>4. \A u \in Threads : /\ pc'[u] \in InEvict <=> pc[u] \in InEvict
                           /\ pc[u] \in InEvict => key'[u] = key[u] /\ it'[u] = it[u]
    BY <1>1, <2>1 DEF IInv, TypeOK, InEvict
  <2>5. \A u \in Threads, n \in Keys : Adding(u, n)' <=> Adding(u, n)
    BY <1>1, <2>1 DEF IInv, TypeOK, Adding, InEvict
  <2>6. \A u \in Threads : Unerased(u)' = Unerased(u)
    <3>1. ASSUME NEW u \in Threads, u # t PROVE Unerased(u)' = Unerased(u)
      BY <2>1, <3>1 DEF IInv, TypeOK, Unerased
    <3>2. Unerased(t)' = rest
      <4>1. op[t] # "insert" => drain[t] = {}
        BY DEF IInv, ThreadInv
      <4>2. CASE op[t] = "insert"
        BY <1>5, <2>1, <4>2 DEF IInv, TypeOK, Unerased
      <4>3. CASE op[t] # "insert"
        BY <2>1, <4>1, <4>3 DEF IInv, TypeOK, Unerased, rest
      <4>4. QED  BY <4>2, <4>3
    <3>3. QED  BY <1>1, <3>1, <3>2
  <2>7. QED
    BY <1>1, <2>2, <2>3, <2>4, <2>5, <2>6, StepFrame
<1>6. QED
  BY <1>4, <1>5

-----------------------------------------------------------------------------
(* Adding a record to the evictor keeps the invariant.                     *)

(* The size of one more record, and of one less.                           *)
LEMMA SizeArithmetic ==
    ASSUME NEW n \in Int
    PROVE  /\ PerValueSize * (n + 1) = PerValueSize * n + PerValueSize
           /\ PerValueSize * (n - 1) = PerValueSize * n - PerValueSize
BY SizeAssumption, SMTT(30)

(* The sizes add up when they do for the one partition a step changes.     *)
LEMMA SizeStep ==
    ASSUME SizeInv, NEW p \in Partitions,
           \A q \in Partitions \ {p} : /\ filled'[q] = filled[q] /\ lru'[q] = lru[q]
                                       /\ Held(q)' = Held(q),
           filled'[p] = PerValueSize * (Len(lru'[p]) + Held(p)'),
           filled'[p] < MaxSize + PerValueSize
    PROVE  SizeInv'
BY DEF SizeInv

(* A step of an evicting thread, or of one that only looks at its list, leaves
   the records held in other partitions alone.                             *)
LEMMA HeldElsewhere ==
    ASSUME IInv, NEW t \in Threads, key[t] \in Keys, victim' \in [Threads -> Keys \cup {None}],
           \A q \in Partitions \ {PartitionOf[key[t]]} : guard'[q] = guard[q],
           \A u \in Threads \ {t} : victim'[u] = victim[u],
           NEW q \in Partitions, q # PartitionOf[key[t]]
    PROVE  Held(q)' = Held(q)
<1>1. guard[q] # None => guard[q] \in Threads /\ PartitionOf[key[guard[q]]] = q
  BY SMTT(30) DEF IInv, GuardInv, TypeOK
<1>2. guard[q] # t
  BY <1>1, NoneAssumption
<1>3. QED
  BY <1>1, <1>2 DEF Held

(* A step inside do_evict keeps the guards' invariant.                     *)
LEMMA GuardStep ==
    ASSUME IInv, NEW t \in Threads, pc[t] \in InEvict, pc'[t] \in InEvict,
           key' = key, guard' = guard,
           \A q \in Partitions \ {PartitionOf[key[t]]} : lru'[q] = lru[q],
           \A u \in Threads \ {t} : pc'[u] = pc[u] /\ it'[u] = it[u] /\ victim'[u] = victim[u],
           it'[t] <= Len(lru'[PartitionOf[key[t]]]) + 1,
           victim'[t] # None => PartitionOf[victim'[t]] = PartitionOf[key[t]]
    PROVE  GuardInv'
<1> DEFINE p == PartitionOf[key[t]]
<1> HIDE DEF p
<1>1. key[t] \in Keys /\ p \in Partitions /\ guard[p] = t
  BY HashAssumption DEF IInv, ThreadInv, GuardInv, InEvict, p
<1>2. ASSUME NEW u \in Threads, u # t, pc[u] \in InEvict
      PROVE  PartitionOf[key[u]] \in Partitions \ {p}
  BY <1>1, <1>2, HashAssumption, SMTT(30) DEF IInv, ThreadInv, GuardInv, InEvict
<1>3. ASSUME NEW u \in Threads, pc'[u] \in InEvict
      PROVE  guard'[PartitionOf[key'[u]]] = u /\ it'[u] <= Len(lru'[PartitionOf[key'[u]]]) + 1
  <2>1. CASE u = t
    BY <1>1, <2>1 DEF p
  <2>2. CASE u # t
    <3>1. pc[u] \in InEvict /\ it'[u] = it[u]
      BY <1>3, <2>2
    <3>2. QED  BY <1>2, <2>2, <3>1 DEF IInv, GuardInv, p
  <2>3. QED  BY <2>1, <2>2
<1>4. ASSUME NEW q \in Partitions, guard'[q] # None
      PROVE  pc'[guard'[q]] \in InEvict /\ PartitionOf[key'[guard'[q]]] = q
  <2>1. guard[q] \in Threads
    BY <1>4 DEF IInv, TypeOK
  <2>2. QED  BY <1>4, <2>1 DEF IInv, GuardInv
<1>5. QED
  BY <1>3, <1>4 DEF IInv, GuardInv

(* insert and upsert take a new node into their hands.                     *)
LEMMA InsertNodeIInv ==
    ASSUME "remove" \notin Ops, IInv, NEW t \in Threads, InsertNode(t)
    PROVE  IInv'
<1>1. /\ pc[t] = "locked" /\ drain[t] = {} /\ key[t] \in Keys /\ val[t] \in Vals /\ val[t] # None
      /\ op[t] \in {"insert", "upsert"}
      /\ UNCHANGED <<lru, filled, wlock, rlock, guard, op, key, val, failed, drain, it, victim>>
  BY NoneAssumption DEF IInv, ThreadInv, InsertNode, locks, evict
<1>3. CASE map[key[t]] = None
  <2>1. /\ map' = [map EXCEPT ![key[t]] = val[t]] /\ ret' = [ret EXCEPT ![t] = TRUE]
        /\ pc' = [pc EXCEPT ![t] = "add"]
    BY <1>3 DEF InsertNode, Goto
  <2>2. TypeOK'
    BY <1>1, <2>1 DEF IInv, TypeOK, Labels
  <2>3. ThreadInv'
    BY <1>1, <2>1 DEF IInv, TypeOK, ThreadInv, InEvict
  <2>4. \A u \in Threads : pc'[u] \in InEvict <=> pc[u] \in InEvict
    BY <1>1, <2>1 DEF IInv, TypeOK, InEvict
  <2>5. GuardInv' /\ SizeInv' /\ ListInv'
    BY <1>1, <2>4, GuardFrame, SizeFrame DEF IInv, ListInv
  <2>6. ASSUME NEW n \in Keys PROVE Place(n)'
    <3>1. Linked(n)' <=> Linked(n)
      BY <1>1 DEF Linked
    <3>2. \A u \in Threads : Adding(u, n)' <=> Adding(u, n) \/ (u = t /\ n = key[t])
      BY <1>1, <2>1 DEF IInv, TypeOK, Adding, InEvict
    <3>3. \A u \in Threads : Unerased(u)' = Unerased(u)
      BY <1>1, <2>1 DEF IInv, TypeOK, Unerased
    <3>4. CASE n = key[t]
      <4>1. map'[n] # None
        BY <1>1, <2>1, <3>4 DEF IInv, TypeOK
      <4>2. /\ ~Linked(n)
            /\ \A u \in Threads : victim[u] # n /\ ~Adding(u, n) /\ n \notin Unerased(u)
        BY <1>3, <3>4 DEF IInv, PlaceInv, Place
      <4>3. /\ ~Linked(n)'
            /\ \A u \in Threads : /\ victim'[u] # n /\ (n \notin Unerased(u))'
                                  /\ Adding(u, n)' <=> u = t
        BY <1>1, <3>1, <3>2, <3>3, <3>4, <4>2
      <4>4. QED  BY <4>1, <4>3 DEF Place
    <3>5. CASE n # key[t]
      <4>1. map'[n] = map[n]
        BY <1>1, <2>1, <3>5 DEF IInv, TypeOK
      <4>2. QED
        BY <1>1, <3>1, <3>2, <3>3, <3>5, <4>1, PlaceFrame DEF IInv, PlaceInv
    <3>6. QED  BY <3>4, <3>5
  <2>7. QED
    BY <2>2, <2>3, <2>5, <2>6 DEF IInv, PlaceInv
<1>4. CASE map[key[t]] # None
  <2>1. /\ map' = map \/ map' = [map EXCEPT ![key[t]] = val[t]]
        /\ ret' = ret
        /\ pc' = [pc EXCEPT ![t] = "access"] \/ pc' = [pc EXCEPT ![t] = "unlock"]
    BY <1>4 DEF InsertNode, Goto
  <2>2. TypeOK'
    <3>1. map' \in [Keys -> Vals \cup {None}]
      BY <1>1, <2>1 DEF IInv, TypeOK
    <3>2. pc' \in [Threads -> Labels]
      BY <2>1 DEF IInv, TypeOK, Labels
    <3>3. QED
      BY <1>1, <2>1, <3>1, <3>2 DEF IInv, TypeOK
  <2>3. ThreadInv'
    BY <1>1, <2>1, SMTT(30) DEF IInv, TypeOK, ThreadInv, InEvict
  <2>4. \A u \in Threads : pc'[u] \in InEvict <=> pc[u] \in InEvict
    BY <1>1, <2>1 DEF IInv, TypeOK, InEvict
  <2>5. GuardInv' /\ SizeInv' /\ ListInv'
    BY <1>1, <2>4, GuardFrame, SizeFrame DEF IInv, ListInv
  <2>6. ASSUME NEW n \in Keys PROVE Place(n)'
    <3>1. Linked(n)' <=> Linked(n)
      BY <1>1 DEF Linked
    <3>2. \A u \in Threads : Adding(u, n)' <=> Adding(u, n)
      BY <1>1, <2>1 DEF IInv, TypeOK, Adding, InEvict
    <3>3. \A u \in Threads : Unerased(u)' = Unerased(u)
      BY <1>1, <2>1 DEF IInv, TypeOK, Unerased
    <3>4. (map'[n] = None) <=> (map[n] = None)
      BY <1>1, <1>4, <2>1 DEF IInv, TypeOK
    <3>5. QED
      BY <1>1, <3>1, <3>2, <3>3, <3>4, PlaceFrame DEF IInv, PlaceInv
  <2>7. QED
    BY <2>2, <2>3, <2>5, <2>6 DEF IInv, PlaceInv
<1>5. QED
  BY <1>3, <1>4

(* A thread enters do_evict with no record in its hands.                   *)
LEMMA StartEvictIInv ==
    ASSUME "remove" \notin Ops, IInv, NEW t \in Threads, StartEvict(t)
    PROVE  IInv'
<1> DEFINE p == PartitionOf[key[t]]
<1> HIDE DEF p
<1>1. /\ pc[t] = "add" /\ key[t] \in Keys /\ p \in Partitions /\ guard[p] = None /\ victim[t] = None
      /\ pc' = [pc EXCEPT ![t] = "evict"] /\ guard' = [guard EXCEPT ![p] = t]
      /\ it' = [it EXCEPT ![t] = 1]
      /\ UNCHANGED <<map, lru, filled, wlock, rlock, op, key, val, ret, failed, drain, victim>>
  BY HashAssumption DEF IInv, ThreadInv, TypeOK, StartEvict, Goto, Begin, call, p
<1>2. TypeOK'
  BY <1>1, SMTT(30) DEF IInv, TypeOK, Labels
<1>3. ThreadInv'
  BY <1>1 DEF IInv, TypeOK, ThreadInv, InEvict
<1>4. GuardInv'
  <2>1. lru[p] \in Seq(Keys)
    BY <1>1 DEF IInv, TypeOK
  <2>2. 1 <= Len(lru[p]) + 1
    BY <2>1, SMTT(30)
  <2>3. ASSUME NEW u \in Threads, pc'[u] \in InEvict
        PROVE  guard'[PartitionOf[key'[u]]] = u /\ it'[u] <= Len(lru'[PartitionOf[key'[u]]]) + 1
    <3>1. CASE u = t
      BY <1>1, <2>2, <3>1 DEF IInv, TypeOK, p
    <3>2. CASE u # t
      <4>1. pc[u] \in InEvict /\ key[u] \in Keys
        BY <1>1, <2>3, <3>2 DEF IInv, TypeOK, ThreadInv, InEvict
      <4>2. guard[PartitionOf[key[u]]] = u /\ it[u] <= Len(lru[PartitionOf[key[u]]]) + 1
        BY <4>1 DEF IInv, GuardInv
      <4>3. PartitionOf[key[u]] # p
        BY <1>1, <4>2, NoneAssumption
      <4>4. QED  BY <1>1, <3>2, <4>1, <4>2, <4>3, SMTT(30) DEF IInv, TypeOK
    <3>3. QED  BY <3>1, <3>2
  <2>4. ASSUME NEW q \in Partitions, guard'[q] # None
        PROVE  pc'[guard'[q]] \in InEvict /\ PartitionOf[key'[guard'[q]]] = q
    <3>1. CASE q = p
      BY <1>1, <3>1 DEF IInv, TypeOK, InEvict, p
    <3>2. CASE q # p
      <4>1. guard'[q] = guard[q] /\ guard[q] \in Threads
        BY <1>1, <2>4, <3>2 DEF IInv, TypeOK
      <4>2. pc[guard[q]] \in InEvict /\ PartitionOf[key[guard[q]]] = q
        BY <2>4, <4>1 DEF IInv, GuardInv
      <4>3. QED  BY <1>1, <4>1, <4>2 DEF IInv, TypeOK, InEvict
    <3>3. QED  BY <3>1, <3>2
  <2>5. QED
    BY <1>1, <2>3, <2>4 DEF IInv, GuardInv
<1>5. ListInv'
  BY <1>1 DEF IInv, ListInv
<1>6. SizeInv'
  <2>1. \A q \in Partitions : Held(q)' = Held(q)
    BY <1>1 DEF IInv, TypeOK, Held
  <2>2. QED
    BY <1>1, <2>1 DEF IInv, SizeInv
<1>7. ASSUME NEW n \in Keys PROVE Place(n)'
  <2>1. Linked(n)' <=> Linked(n)
    BY <1>1 DEF Linked
  <2>2. \A u \in Threads : Adding(u, n)' <=> Adding(u, n)
    BY <1>1 DEF IInv, TypeOK, Adding, InEvict
  <2>3. \A u \in Threads : Unerased(u)' = Unerased(u)
    BY <1>1 DEF IInv, TypeOK, Unerased
  <2>4. QED
    BY <1>1, <2>1, <2>2, <2>3, PlaceFrame DEF IInv, PlaceInv
<1>8. QED
  BY <1>2, <1>3, <1>4, <1>5, <1>6, <1>7 DEF IInv, PlaceInv

(* add_record puts the new record on the list, straight away or after do_evict
   made room and gave the list guard back.                                 *)
Adds(t) ==
    /\ pc[t] \in {"add", "evict"} /\ pc' = [pc EXCEPT ![t] = "unlock"]
    /\ guard[PartitionOf[key[t]]] \in {None, t}
    /\ guard' = [guard EXCEPT ![PartitionOf[key[t]]] = None]
    /\ filled[PartitionOf[key[t]]] < MaxSize
    /\ filled' = [filled EXCEPT ![PartitionOf[key[t]]] = @ + PerValueSize]
    /\ lru' = [lru EXCEPT ![PartitionOf[key[t]]] = Append(@, key[t])]
    /\ it' = [it EXCEPT ![t] = it'[t]] /\ it'[t] \in Nat \ {0}
    /\ UNCHANGED <<map, wlock, rlock, op, key, val, ret, failed, drain, victim>>

(* A step that adds a record to the list keeps the invariant.              *)
LEMMA RecordAdded ==
    ASSUME IInv, NEW t \in Threads, Adds(t)
    PROVE  IInv'
<1> DEFINE k == key[t]
           p == PartitionOf[k]
           s == Append(lru[p], k)
<1> HIDE DEF k, p, s
<1>1. /\ k \in Keys /\ p \in Partitions /\ drain[t] = {} /\ victim[t] = None /\ Adding(t, k)
      /\ guard[p] \in {None, t}
  BY HashAssumption DEF IInv, ThreadInv, InEvict, Adding, Adds, p, k
<1>2. /\ key' = key /\ map' = map /\ victim' = victim /\ drain' = drain /\ failed' = failed
      /\ \A u \in Threads : pc'[u] = IF u = t THEN "unlock" ELSE pc[u]
      /\ \A u \in Threads \ {t} : it'[u] = it[u]
      /\ \A q \in Partitions : guard'[q] = IF q = p THEN None ELSE guard[q]
  BY <1>1 DEF IInv, TypeOK, Adds, p, k
<1>3. ~Linked(k) /\ map[k] # None
      /\ \A u \in Threads : victim[u] # k /\ k \notin Unerased(u) /\ (Adding(u, k) => u = t)
  BY <1>1 DEF IInv, PlaceInv, Place
<1>4. /\ lru[p] \in Seq(Keys) /\ IsInjective(lru[p]) /\ k \notin Range(lru[p])
      /\ \A n \in Range(lru[p]) : PartitionOf[n] = p
  BY <1>1, <1>3 DEF IInv, TypeOK, ListInv, Linked
<1>5. /\ s \in Seq(Keys) /\ IsInjective(s) /\ Range(s) = Range(lru[p]) \cup {k}
      /\ Len(s) = Len(lru[p]) + 1 /\ Len(lru[p]) \in Nat
  BY <1>1, <1>4, AppendSet, SMTT(30) DEF p, k, s
<1>6. /\ lru' \in [Partitions -> Seq(Keys)] /\ ListInv'
      /\ \A n \in Keys : Linked(n)' <=> IF PartitionOf[n] = p THEN n \in Range(s) ELSE Linked(n)
      /\ \A q \in Partitions : lru'[q] = IF q = p THEN s ELSE lru[q]
  <2>1. \A n \in Range(s) : PartitionOf[n] = p
    BY <1>4, <1>5 DEF p
  <2>2. TypeOK /\ ListInv /\ p \in Partitions /\ lru' = [lru EXCEPT ![p] = s]
    BY <1>1 DEF IInv, Adds, p, k, s
  <2>3. QED
    BY <1>5, <2>1, <2>2, ListUpdate
<1>7. \A n \in Keys : Linked(n)' <=> Linked(n) \/ n = k
  BY <1>5, <1>6, LinkedOnList DEF IInv, Linked, p
<1>8. TypeOK'
  <2>1. it' \in [Threads -> Nat \ {0}]
    BY DEF IInv, TypeOK, Adds
  <2>2. filled' \in [Partitions -> Int]
    BY <1>1, SizeAssumption, SMTT(30) DEF IInv, TypeOK, Adds, p, k
  <2>3. pc' \in [Threads -> Labels] /\ guard' \in [Partitions -> Threads \cup {None}]
    BY <1>1 DEF IInv, TypeOK, Labels, Adds
  <2>4. QED
    BY <1>6, <2>1, <2>2, <2>3 DEF IInv, TypeOK, Adds
<1>9. ThreadInv'
  BY <1>1, <1>2 DEF IInv, TypeOK, ThreadInv, InEvict, Adds
<1>10. \A u \in Threads : pc'[u] \in InEvict <=> pc[u] \in InEvict /\ u # t
  BY <1>2 DEF InEvict
<1>11. GuardInv'
  <2>1. ASSUME NEW u \in Threads, pc'[u] \in InEvict
        PROVE  guard'[PartitionOf[key'[u]]] = u /\ it'[u] <= Len(lru'[PartitionOf[key'[u]]]) + 1
    <3>1. /\ u # t /\ key[u] \in Keys /\ guard[PartitionOf[key[u]]] = u
          /\ it[u] <= Len(lru[PartitionOf[key[u]]]) + 1
      BY <1>10, <2>1 DEF IInv, GuardInv, ThreadInv, InEvict
    <3>2. PartitionOf[key[u]] # p /\ PartitionOf[key[u]] \in Partitions
      BY <1>1, <3>1, NoneAssumption, HashAssumption
    <3>3. QED  BY <1>1, <1>2, <1>6, <3>1, <3>2
  <2>2. ASSUME NEW q \in Partitions, guard'[q] # None
        PROVE  pc'[guard'[q]] \in InEvict /\ PartitionOf[key'[guard'[q]]] = q
    <3>1. q # p /\ guard'[q] = guard[q] /\ guard[q] \in Threads
      BY <1>2, <2>2 DEF IInv, TypeOK
    <3>2. pc[guard[q]] \in InEvict /\ PartitionOf[key[guard[q]]] = q
      BY <2>2, <3>1 DEF IInv, GuardInv
    <3>3. QED  BY <1>1, <1>2, <3>1, <3>2 DEF p, k
  <2>3. QED
    BY <1>1, <1>2, <2>1, <2>2 DEF IInv, GuardInv
<1>12. SizeInv'
  <2>1. \A q \in Partitions \ {p} : Held(q)' = Held(q)
    BY <1>1, <1>2 DEF Held, Adds
  <2>2. Held(p) = 0 /\ Held(p)' = 0
    BY <1>1, <1>2 DEF Held, Adds, p, k
  <2>3. filled[p] = PerValueSize * Len(lru[p]) /\ filled[p] \in Int
    BY <1>1, <1>5, <2>2, SizeAssumption, SMTT(30) DEF IInv, SizeInv, TypeOK
  <2>4. filled'[p] = filled[p] + PerValueSize
    BY <1>1 DEF IInv, TypeOK, Adds, p, k
  <2>5. filled'[p] = PerValueSize * (Len(lru[p]) + 1)
    <3>1. Len(lru[p]) \in Int
      BY <1>5, SMTT(30)
    <3>2. PerValueSize * (Len(lru[p]) + 1) = PerValueSize * Len(lru[p]) + PerValueSize
      BY <3>1, SizeArithmetic
    <3>3. QED  BY <2>3, <2>4, <3>2
  <2>6. filled'[p] = PerValueSize * (Len(lru'[p]) + Held(p)')
    BY <1>1, <1>5, <1>6, <2>2, <2>5, SMTT(30)
  <2>7. filled'[p] < MaxSize + PerValueSize
    BY <1>1, <2>3, <2>4, SizeAssumption, SMTT(30) DEF Adds
  <2>8. \A q \in Partitions \ {p} : filled'[q] = filled[q] /\ lru'[q] = lru[q]
    BY <1>1, <1>6 DEF IInv, TypeOK, Adds, p, k
  <2>9. SizeInv /\ p \in Partitions /\ key' = key
    BY <1>1, <1>2 DEF IInv
  <2>10. QED
    BY <2>1, <2>6, <2>7, <2>8, <2>9, SizeStep DEF p, k
<1>13. ASSUME NEW n \in Keys PROVE Place(n)'
  <2>1. \A u \in Threads : Adding(u, n)' <=> Adding(u, n) /\ u # t
    BY <1>2 DEF Adding, InEvict
  <2>2. \A u \in Threads : Unerased(u)' = Unerased(u)
    BY <1>1, <1>2 DEF Unerased
  <2>3. CASE n = k
    <3>1. Linked(n)' /\ map'[n] # None
      BY <1>1, <1>2, <1>3, <1>7, <2>3
    <3>2. \A u \in Threads : victim'[u] # n /\ ~Adding(u, n)' /\ (n \notin Unerased(u))'
      BY <1>1, <1>2, <1>3, <2>1, <2>2, <2>3
    <3>3. QED  BY <3>1, <3>2 DEF Place
  <2>4. CASE n # k
    <3>1. \A u \in Threads : Adding(u, n)' <=> Adding(u, n)
      BY <2>1, <2>4 DEF Adding, p, k
    <3>2. Linked(n)' <=> Linked(n)
      BY <1>7, <2>4
    <3>3. QED
      BY <1>1, <1>2, <2>2, <3>1, <3>2, PlaceFrame DEF IInv, PlaceInv
  <2>5. QED  BY <2>3, <2>4
<1>14. QED
  BY <1>6, <1>8, <1>9, <1>11, <1>12, <1>13 DEF IInv, PlaceInv

(* AddRecord keeps the invariant. *)
LEMMA AddRecordIInv ==
    ASSUME "remove" \notin Ops, IInv, NEW t \in Threads, AddRecord(t)
    PROVE  IInv'
<1> DEFINE p == PartitionOf[key[t]]
<1> HIDE DEF p
<1>1. /\ pc[t] = "add" /\ key[t] \in Keys /\ p \in Partitions /\ guard[p] = None
      /\ pc' = [pc EXCEPT ![t] = "unlock"]
      /\ lru' = [lru EXCEPT ![p] = Append(@, key[t])]
      /\ filled' = [filled EXCEPT ![p] = @ + PerValueSize]
      /\ UNCHANGED <<map, wlock, rlock, guard, op, key, val, ret, failed, drain, it, victim>>
  BY HashAssumption DEF IInv, ThreadInv, AddRecord, Goto, locks, call, evict, p
<1>2. filled[p] < MaxSize
  BY <1>1, SizeAssumption, SMTT(30) DEF IInv, TypeOK, AddRecord, will_fill, p
<1>3. /\ guard' = [guard EXCEPT ![p] = None]
      /\ it' = [it EXCEPT ![t] = it'[t]] /\ it'[t] \in Nat \ {0}
  BY <1>1 DEF IInv, TypeOK
<1>4. QED
  BY <1>1, <1>2, <1>3, RecordAdded DEF Adds, p

(* The loop of do_evict is over: the new record joins the list, or its key the
   failed ones.                                                            *)
LEMMA FinishAddIInv ==
    ASSUME "remove" \notin Ops, IInv, NEW t \in Threads, FinishAdd(t)
    PROVE  IInv'
<1> DEFINE k == key[t]
           p == PartitionOf[k]
<1> HIDE DEF k, p
<1>1. /\ pc[t] = "evict" /\ k \in Keys /\ p \in Partitions /\ drain[t] = {} /\ victim[t] = None
      /\ guard[p] = t /\ Adding(t, k)
  BY HashAssumption DEF IInv, ThreadInv, GuardInv, FinishAdd, InEvict, Adding, p, k
<1>2. /\ pc' = [pc EXCEPT ![t] = "unlock"] /\ guard' = [guard EXCEPT ![p] = None]
      /\ it' = [it EXCEPT ![t] = 1]
      /\ UNCHANGED <<map, wlock, rlock, op, key, val, ret, drain, victim>>
  BY DEF FinishAdd, Goto, call, p, k
<1>2a. filled[p] \in Int /\ MaxSize \in Int
  BY <1>1, SizeAssumption, SMTT(30) DEF IInv, TypeOK
<1>3. CASE filled[p] < MaxSize
  <2>1. ~is_full(p) /\ Accepted(p)
    BY <1>2a, <1>3, SMTT(30) DEF is_full, Accepted
  <2>2. /\ lru' = [lru EXCEPT ![p] = Append(@, k)]
        /\ filled' = [filled EXCEPT ![p] = @ + PerValueSize] /\ failed' = failed
        /\ it' = [it EXCEPT ![t] = it'[t]] /\ it'[t] \in Nat \ {0}
    BY <1>2, <2>1, SMTT(30) DEF IInv, TypeOK, FinishAdd, p, k
  <2>3. QED
    BY <1>1, <1>2, <1>3, <2>2, RecordAdded DEF Adds, p, k
<1>4. CASE ~(filled[p] < MaxSize)
  <2>1. is_full(p) /\ ~Accepted(p)
    BY <1>2a, <1>4, SMTT(30) DEF is_full, Accepted
  <2>2. lru' = lru /\ filled' = filled /\ failed' = [failed EXCEPT ![t] = @ \cup {k}]
    BY <2>1 DEF FinishAdd, p, k
  <2>3. /\ \A u \in Threads : pc'[u] = IF u = t THEN "unlock" ELSE pc[u]
        /\ \A u \in Threads \ {t} : it'[u] = it[u]
        /\ \A q \in Partitions : guard'[q] = IF q = p THEN None ELSE guard[q]
        /\ \A u \in Threads : failed'[u] = IF u = t THEN failed[u] \cup {k} ELSE failed[u]
    BY <1>1, <1>2, <2>2 DEF IInv, TypeOK
  <2>4. TypeOK'
    BY <1>1, <1>2, <2>2, SMTT(30) DEF IInv, TypeOK, Labels
  <2>5. ThreadInv'
    <3>1. \A u \in Threads : /\ failed[u] \subseteq failed'[u]
                             /\ u # t => pc'[u] = pc[u]
      BY <2>3
    <3>2. pc'[t] = "unlock"
      BY <2>3
    <3>3. \A u \in Threads : drain'[u] # {} => u # t /\ drain'[u] \subseteq failed'[u]
      <4>1. \A u \in Threads : drain[u] # {} => drain[u] \subseteq failed[u]
        BY DEF IInv, ThreadInv
      <4>2. drain' = drain
        BY <1>2
      <4>3. ASSUME NEW u \in Threads, drain[u] # {} PROVE u # t /\ drain[u] \subseteq failed'[u]
        <5>1. u # t
          BY <1>1, <4>3
        <5>2. drain[u] \subseteq failed[u] /\ failed'[u] = failed[u]
          BY <2>3, <4>1, <4>3, <5>1
        <5>3. QED  BY <5>1, <5>2
      <4>4. QED  BY <4>2, <4>3
    <3>4. QED
      BY <1>1, <1>2, <3>1, <3>2, <3>3 DEF IInv, ThreadInv, InEvict
  <2>6. GuardInv'
    <3>1. ASSUME NEW u \in Threads, pc'[u] \in InEvict
          PROVE  guard'[PartitionOf[key'[u]]] = u /\ it'[u] <= Len(lru'[PartitionOf[key'[u]]]) + 1
      <4>1. u # t /\ pc[u] \in InEvict
        BY <2>3, <3>1 DEF InEvict
      <4>2. /\ key[u] \in Keys /\ guard[PartitionOf[key[u]]] = u
            /\ it[u] <= Len(lru[PartitionOf[key[u]]]) + 1
        BY <4>1 DEF IInv, GuardInv, ThreadInv, InEvict
      <4>3. QED  BY <1>1, <1>2, <2>2, <2>3, <4>1, <4>2, SMTT(30)
    <3>2. ASSUME NEW q \in Partitions, guard'[q] # None
          PROVE  pc'[guard'[q]] \in InEvict /\ PartitionOf[key'[guard'[q]]] = q
      <4>1. q # p /\ guard'[q] = guard[q] /\ guard[q] \in Threads
        BY <2>3, <3>2 DEF IInv, TypeOK
      <4>2. pc[guard[q]] \in InEvict /\ PartitionOf[key[guard[q]]] = q
        BY <3>2, <4>1 DEF IInv, GuardInv
      <4>3. guard[q] # t /\ key' = key
        BY <1>1, <1>2, <4>1, <4>2 DEF p, k
      <4>4. QED  BY <2>3, <4>1, <4>2, <4>3
    <3>3. QED
      BY <1>2, <3>1, <3>2 DEF IInv, GuardInv
  <2>7. ListInv'
    BY <2>2 DEF IInv, ListInv
  <2>8. SizeInv'
    <3>1. \A q \in Partitions : Held(q)' = Held(q)
      BY <1>1, <1>2, <2>3 DEF Held
    <3>2. QED  BY <2>2, <3>1 DEF IInv, SizeInv
  <2>9. ASSUME NEW n \in Keys PROVE Place(n)'
    <3>1. \A u \in Threads : Adding(u, n)' <=> Adding(u, n) /\ u # t
      BY <1>2, <2>3, SMTT(30) DEF Adding, InEvict
    <3>2. \A u \in Threads : Unerased(u)' = IF u = t THEN Unerased(u) \cup {k} ELSE Unerased(u)
      BY <1>1, <1>2, <2>3 DEF Unerased
    <3>3. (Linked(n)' <=> Linked(n)) /\ map'[n] = map[n]
      BY <1>2, <2>2 DEF Linked
    <3>4. CASE n = k
      <4>1. ~Linked(n) /\ map[n] # None
            /\ \A u \in Threads : victim[u] # n /\ n \notin Unerased(u) /\ (Adding(u, n) => u = t)
        BY <1>1, <3>4 DEF IInv, PlaceInv, Place
      <4>2. ~Linked(n)' /\ map'[n] # None
            /\ \A u \in Threads : victim'[u] # n /\ ~Adding(u, n)'
                                  /\ ((n \in Unerased(u))' <=> u = t)
        BY <1>2, <3>1, <3>2, <3>3, <3>4, <4>1
      <4>3. QED  BY <4>2 DEF Place
    <3>5. CASE n # k
      <4>1. \A u \in Threads : /\ Adding(u, n)' <=> Adding(u, n)
                               /\ (n \in Unerased(u))' <=> (n \in Unerased(u))
        BY <3>1, <3>2, <3>5 DEF Adding, p, k
      <4>2. /\ Place(n) /\ (map'[n] = None <=> map[n] = None)
            /\ \A u \in Threads : /\ (victim'[u] = n) <=> (victim[u] = n)
                                  /\ Adding(u, n)' <=> Adding(u, n)
                                  /\ (n \in Unerased(u))' <=> (n \in Unerased(u))
        <5>1. victim' = victim /\ map' = map
          BY <1>2
        <5>2. Place(n) /\ (map'[n] = None <=> map[n] = None)
          BY <5>1 DEF IInv, PlaceInv
        <5>3. \A u \in Threads : (victim'[u] = n) <=> (victim[u] = n)
          BY <5>1
        <5>4. QED  BY <4>1, <5>2, <5>3
      <4>3. QED
        BY <3>3, <4>2, PlaceFrame
    <3>6. QED  BY <3>4, <3>5
  <2>10. QED
    BY <2>4, <2>5, <2>6, <2>7, <2>8, <2>9 DEF IInv, PlaceInv
<1>5. QED
  BY <1>3, <1>4

-----------------------------------------------------------------------------
(* Evicting a record keeps the invariant.                                  *)

(* The record under the cursor is kept, or it moves from the list into the
   hands of the evicting thread.                                           *)
LEMMA NextVictimIInv ==
    ASSUME "remove" \notin Ops, IInv, NEW t \in Threads, NextVictim(t)
    PROVE  IInv'
<1> DEFINE p == PartitionOf[key[t]]
           v == lru[p][it[t]]
           s == DropAt(lru[p], it[t])
<1> HIDE DEF p, v, s
<1>1. /\ pc[t] = "evict" /\ key[t] \in Keys /\ p \in Partitions /\ drain[t] = {} /\ victim[t] = None
      /\ it[t] \in 1 .. Len(lru[p]) /\ lru[p] \in Seq(Keys) /\ Len(lru[p]) \in Nat
      /\ guard[p] = t /\ IsInjective(lru[p])
      /\ UNCHANGED <<map, filled, wlock, rlock, guard, op, key, val, ret, failed, drain>>
  <2>1. pc[t] = "evict" /\ it[t] \in Nat \ {0} /\ it[t] <= Len(lru[p])
    BY DEF IInv, TypeOK, NextVictim, Evicting, p
  <2>4. key[t] \in Keys /\ p \in Partitions /\ drain[t] = {} /\ victim[t] = None
    BY <2>1, HashAssumption DEF IInv, ThreadInv, InEvict, p
  <2>5. guard[p] = t
    BY <2>1 DEF IInv, GuardInv, InEvict, p
  <2>2. lru[p] \in Seq(Keys) /\ IsInjective(lru[p])
    BY <2>4 DEF IInv, TypeOK, ListInv
  <2>3. QED
    BY <2>1, <2>2, <2>4, <2>5, SMTT(30) DEF NextVictim, locks, call
<1>2. CASE /\ it' = [it EXCEPT ![t] = it[t] + 1]
           /\ UNCHANGED <<lru, victim, pc>>
  <2>1. TypeOK'
    BY <1>1, <1>2, SMTT(30) DEF IInv, TypeOK
  <2>2. ThreadInv'
    BY <1>1, <1>2 DEF IInv, ThreadInv
  <2>3. GuardInv'
    <3>1. it'[t] <= Len(lru'[p]) + 1 /\ (\A u \in Threads \ {t} : it'[u] = it[u])
      BY <1>1, <1>2, SMTT(30) DEF IInv, TypeOK
    <3>2. pc[t] \in InEvict /\ pc'[t] \in InEvict /\ victim'[t] = None
      BY <1>1, <1>2 DEF InEvict
    <3>3. QED
      BY <1>1, <1>2, <3>1, <3>2, GuardStep DEF p
  <2>4. ListInv' /\ SizeInv'
    BY <1>1, <1>2, SizeFrame DEF IInv, ListInv
  <2>5. ASSUME NEW n \in Keys PROVE Place(n)'
    <3>1. /\ Linked(n)' <=> Linked(n)
          /\ \A u \in Threads : (Adding(u, n)' <=> Adding(u, n)) /\ Unerased(u)' = Unerased(u)
      BY <1>1, <1>2 DEF Linked, Adding, Unerased
    <3>2. QED
      BY <1>1, <1>2, <3>1, PlaceFrame DEF IInv, PlaceInv
  <2>6. QED
    BY <2>1, <2>2, <2>3, <2>4, <2>5 DEF IInv, PlaceInv
<1>3. CASE /\ victim' = [victim EXCEPT ![t] = v] /\ lru' = [lru EXCEPT ![p] = s]
           /\ pc' = [pc EXCEPT ![t] = "victim"] /\ it' = it
  <2>1. /\ s \in Seq(Keys) /\ Len(s) = Len(lru[p]) - 1 /\ IsInjective(s)
        /\ Range(s) = Range(lru[p]) \ {v} /\ v \in Range(lru[p])
    <3>1. s \in Seq(Keys) /\ Len(s) = Len(lru[p]) - 1
      BY <1>1, DropAtProperties DEF p, v, s
    <3>2. IsInjective(s) /\ Range(s) = Range(lru[p]) \ {v}
      BY <1>1, DropAtSet DEF p, v, s
    <3>3. v \in Range(lru[p])
      BY <1>1, SMTT(30) DEF Range, p, v
    <3>4. QED  BY <3>1, <3>2, <3>3
  <2>2. v \in Keys /\ PartitionOf[v] = p /\ Linked(v)
    BY <1>1, <2>1, LinkedOnList, NoneAssumption DEF IInv
  <2>3. /\ lru' \in [Partitions -> Seq(Keys)] /\ ListInv'
        /\ \A n \in Keys : Linked(n)' <=> IF PartitionOf[n] = p THEN n \in Range(s) ELSE Linked(n)
        /\ \A q \in Partitions : lru'[q] = IF q = p THEN s ELSE lru[q]
    <3>1. \A n \in Range(s) : PartitionOf[n] = p
      BY <1>1, <2>1 DEF IInv, ListInv
    <3>2. TypeOK /\ ListInv /\ p \in Partitions /\ lru' = [lru EXCEPT ![p] = s]
      BY <1>1, <1>3 DEF IInv
    <3>3. QED
      BY <2>1, <3>1, <3>2, ListUpdate
  <2>4. \A n \in Keys : Linked(n)' <=> Linked(n) /\ n # v
    BY <2>1, <2>2, <2>3, LinkedOnList DEF IInv, Linked
  <2>5. TypeOK'
    BY <1>1, <1>3, <2>2, <2>3 DEF IInv, TypeOK, Labels
  <2>6. ThreadInv'
    BY <1>1, <1>3, <2>2, NoneAssumption DEF IInv, TypeOK, ThreadInv, InEvict
  <2>7. GuardInv'
    <3>1. /\ it'[t] <= Len(lru'[p]) + 1
          /\ pc'[t] \in InEvict /\ pc[t] \in InEvict /\ victim'[t] = v
          /\ \A u \in Threads \ {t} : pc'[u] = pc[u] /\ it'[u] = it[u] /\ victim'[u] = victim[u]
      BY <1>1, <1>3, <2>1, <2>3, SMTT(30) DEF IInv, TypeOK, InEvict
    <3>2. \A q \in Partitions \ {p} : lru'[q] = lru[q]
      BY <2>3
    <3>3. QED
      BY <1>1, <2>2, <3>1, <3>2, GuardStep DEF p
  <2>8. SizeInv'
    <3>1. Held(p) = 0 /\ Held(p)' = 1
      BY <1>1, <1>3, <2>2, NoneAssumption DEF IInv, TypeOK, Held, p
    <3>2. \A q \in Partitions \ {p} : Held(q)' = Held(q)
      <4>1. victim' \in [Threads -> Keys \cup {None}]
            /\ \A u \in Threads \ {t} : victim'[u] = victim[u]
        BY <1>3, <2>2 DEF IInv, TypeOK
      <4>2. QED
        BY <1>1, <4>1, HeldElsewhere DEF p
    <3>3. Len(lru'[p]) + Held(p)' = Len(lru[p]) + Held(p)
      BY <1>1, <2>1, <2>3, <3>1, SMTT(30)
    <3>4. QED
      BY <1>1, <2>3, <3>2, <3>3, SizeStep DEF IInv, SizeInv, p
  <2>9. ASSUME NEW n \in Keys PROVE Place(n)'
    <3>1. \A u \in Threads : Adding(u, n)' <=> Adding(u, n)
      BY <1>1, <1>3 DEF IInv, TypeOK, Adding, InEvict
    <3>2. \A u \in Threads : Unerased(u)' = Unerased(u)
      BY <1>1, <1>3 DEF IInv, TypeOK, Unerased
    <3>3. \A u \in Threads : victim'[u] = IF u = t THEN v ELSE victim[u]
      BY <1>3 DEF IInv, TypeOK
    <3>4. CASE n = v
      <4>1. map[n] # None /\ \A u \in Threads : victim[u] # n /\ ~Adding(u, n) /\ n \notin Unerased(u)
        BY <2>2, <3>4 DEF IInv, PlaceInv, Place
      <4>2. /\ map'[n] # None /\ ~Linked(n)'
            /\ \A u \in Threads : (victim'[u] = n <=> u = t) /\ ~Adding(u, n)' /\ (n \notin Unerased(u))'
        BY <1>1, <2>4, <3>1, <3>2, <3>3, <3>4, <4>1
      <4>3. QED  BY <4>2 DEF Place
    <3>5. CASE n # v
      <4>1. \A u \in Threads : (victim'[u] = n) <=> (victim[u] = n)
        BY <1>1, <3>3, <3>5, NoneAssumption
      <4>2. QED
        BY <1>1, <2>4, <3>1, <3>2, <3>5, <4>1, PlaceFrame DEF IInv, PlaceInv
    <3>6. QED  BY <3>4, <3>5
  <2>10. QED
    BY <2>3, <2>5, <2>6, <2>7, <2>8, <2>9 DEF IInv, PlaceInv
<1>4. QED
  BY <1>2, <1>3 DEF NextVictim, Advance, Goto, p, v, s

(* The bucket of the victim is locked, or the victim is put back.          *)
LEMMA TryLockVictimIInv ==
    ASSUME "remove" \notin Ops, IInv, NEW t \in Threads, TryLockVictim(t)
    PROVE  IInv'
<1> DEFINE p == PartitionOf[key[t]]
           v == victim[t]
           s == PutAt(lru[p], it[t], v)
<1> HIDE DEF p, v, s
<1>1. /\ pc[t] = "victim" /\ key[t] \in Keys /\ p \in Partitions /\ drain[t] = {}
      /\ v \in Keys /\ BucketOf[v] \in Buckets
  BY HashAssumption DEF IInv, TypeOK, ThreadInv, TryLockVictim, InEvict, p, v
<1>2. UNCHANGED <<map, filled, rlock, guard, op, key, val, ret, failed, drain>>
  BY DEF TryLockVictim, call
<1>3. CASE CanTryLock(t)
  <2>1. /\ wlock' = [wlock EXCEPT ![BucketOf[v]] = t] /\ pc' = [pc EXCEPT ![t] = "erase"]
        /\ UNCHANGED <<lru, it, victim>>
    BY <1>3 DEF TryLockVictim, Goto, evict, p, v
  <2>2. TypeOK'
    BY <1>1, <1>2, <2>1 DEF IInv, TypeOK, Labels
  <2>3. ThreadInv'
    BY <1>1, <1>2, <2>1 DEF IInv, TypeOK, ThreadInv, InEvict
  <2>4. \A u \in Threads : pc'[u] \in InEvict <=> pc[u] \in InEvict
    BY <1>1, <2>1 DEF IInv, TypeOK, InEvict
  <2>5. \A u \in Threads, n \in Keys : Adding(u, n)' <=> Adding(u, n)
    BY <1>1, <1>2, <2>1 DEF IInv, TypeOK, Adding, InEvict
  <2>6. \A u \in Threads : Unerased(u)' = Unerased(u)
    BY <1>1, <1>2, <2>1 DEF IInv, TypeOK, Unerased
  <2>7. QED
    BY <1>2, <2>1, <2>2, <2>3, <2>4, <2>5, <2>6, StepFrame
<1>4. CASE ~CanTryLock(t)
  <2>1. /\ lru' = [lru EXCEPT ![p] = s] /\ it' = [it EXCEPT ![t] = it[t] + 1]
        /\ victim' = [victim EXCEPT ![t] = None] /\ pc' = [pc EXCEPT ![t] = "evict"]
        /\ wlock' = wlock
    BY <1>4 DEF TryLockVictim, PutBack, Advance, Goto, p, v, s
  <2>2. guard[p] = t /\ it[t] <= Len(lru[p]) + 1 /\ PartitionOf[v] = p /\ it[t] \in Nat \ {0}
    <3>1. guard[p] = t /\ it[t] <= Len(lru[p]) + 1
      BY <1>1 DEF IInv, GuardInv, InEvict, p
    <3>2. PartitionOf[v] = p
      BY <1>1, NoneAssumption DEF IInv, GuardInv, p, v
    <3>3. it[t] \in Nat \ {0}
      BY DEF IInv, TypeOK
    <3>4. QED  BY <3>1, <3>2, <3>3
  <2>3. /\ ~Linked(v) /\ map[v] # None
        /\ \A u \in Threads : (victim[u] = v => u = t) /\ ~Adding(u, v) /\ v \notin Unerased(u)
    BY <1>1 DEF IInv, PlaceInv, Place, p, v
  <2>4. /\ lru[p] \in Seq(Keys) /\ IsInjective(lru[p]) /\ v \notin Range(lru[p])
        /\ \A n \in Range(lru[p]) : PartitionOf[n] = p
    BY <1>1, <2>2, <2>3 DEF IInv, TypeOK, ListInv, Linked
  <2>5. Len(lru[p]) \in Nat /\ it[t] \in 1 .. Len(lru[p]) + 1
    BY <2>2, <2>4, SMTT(30)
  <2>6. /\ s \in Seq(Keys) /\ Len(s) = Len(lru[p]) + 1 /\ IsInjective(s)
        /\ Range(s) = Range(lru[p]) \cup {v}
    BY <1>1, <2>4, <2>5, PutAtProperties, PutAtSet, SMTT(30) DEF p, v, s
  <2>7. /\ lru' \in [Partitions -> Seq(Keys)] /\ ListInv'
        /\ \A n \in Keys : Linked(n)' <=> IF PartitionOf[n] = p THEN n \in Range(s) ELSE Linked(n)
        /\ \A q \in Partitions : lru'[q] = IF q = p THEN s ELSE lru[q]
    <3>1. \A n \in Range(s) : PartitionOf[n] = p
      BY <2>2, <2>4, <2>6
    <3>2. TypeOK /\ ListInv /\ p \in Partitions /\ lru' = [lru EXCEPT ![p] = s]
      BY <1>1, <2>1 DEF IInv
    <3>3. QED
      BY <2>6, <3>1, <3>2, ListUpdate
  <2>8. \A n \in Keys : Linked(n)' <=> Linked(n) \/ n = v
    BY <2>2, <2>6, <2>7, LinkedOnList DEF IInv, Linked
  <2>9. /\ \A u \in Threads : pc'[u] = IF u = t THEN "evict" ELSE pc[u]
        /\ \A u \in Threads : it'[u] = IF u = t THEN it[u] + 1 ELSE it[u]
        /\ \A u \in Threads : victim'[u] = IF u = t THEN None ELSE victim[u]
        /\ victim' \in [Threads -> Keys \cup {None}]
    BY <2>1 DEF IInv, TypeOK
  <2>10. TypeOK'
    BY <1>2, <2>1, <2>7, <2>9, SMTT(30) DEF IInv, TypeOK, Labels
  <2>11. ThreadInv'
    BY <1>1, <1>2, <2>9 DEF IInv, ThreadInv, InEvict
  <2>12. GuardInv'
    <3>1. it'[t] <= Len(lru'[p]) + 1 /\ pc'[t] \in InEvict /\ pc[t] \in InEvict
      BY <1>1, <2>5, <2>6, <2>7, <2>9, SMTT(30) DEF InEvict
    <3>2. \A q \in Partitions \ {p} : lru'[q] = lru[q]
      BY <2>7
    <3>3. QED
      BY <1>1, <1>2, <2>9, <3>1, <3>2, GuardStep DEF p
  <2>13. SizeInv'
    <3>1. Held(p) = 1 /\ Held(p)' = 0
      BY <1>1, <1>2, <2>2, <2>9, NoneAssumption, SMTT(30) DEF Held, p, v
    <3>2. \A q \in Partitions \ {p} : Held(q)' = Held(q)
      BY <1>1, <1>2, <2>9, HeldElsewhere DEF p
    <3>3. Len(lru'[p]) + Held(p)' = Len(lru[p]) + Held(p)
      BY <1>1, <2>5, <2>6, <2>7, <3>1, SMTT(30)
    <3>4. SizeInv /\ p \in Partitions /\ key' = key /\ filled' = filled
      BY <1>1, <1>2 DEF IInv
    <3>5. /\ filled'[p] = PerValueSize * (Len(lru'[p]) + Held(p)')
          /\ filled'[p] < MaxSize + PerValueSize
      BY <3>3, <3>4 DEF SizeInv
    <3>6. \A q \in Partitions \ {p} : filled'[q] = filled[q] /\ lru'[q] = lru[q]
      BY <2>7, <3>4
    <3>7. QED
      BY <3>2, <3>4, <3>5, <3>6, SizeStep DEF p
  <2>14. ASSUME NEW n \in Keys PROVE Place(n)'
    <3>1. \A u \in Threads : Adding(u, n)' <=> Adding(u, n)
      BY <1>1, <1>2, <2>9 DEF Adding, InEvict
    <3>2. \A u \in Threads : Unerased(u)' = Unerased(u)
      BY <1>1, <1>2, <2>9 DEF Unerased
    <3>3. CASE n = v
      <4>1. Linked(n)' /\ map'[n] # None
        BY <1>2, <2>3, <2>8, <3>3
      <4>2. \A u \in Threads : victim'[u] # n /\ ~Adding(u, n)' /\ (n \notin Unerased(u))'
        BY <2>3, <2>9, <3>1, <3>2, <3>3, NoneAssumption
      <4>3. QED  BY <4>1, <4>2 DEF Place
    <3>4. CASE n # v
      <4>1. \A u \in Threads : (victim'[u] = n) <=> (victim[u] = n)
        BY <2>9, <3>4, NoneAssumption DEF p, v
      <4>2. (Linked(n)' <=> Linked(n)) /\ Place(n) /\ map'[n] = map[n]
        BY <1>2, <2>8, <3>4 DEF IInv, PlaceInv
      <4>3. QED
        BY <3>1, <3>2, <4>1, <4>2, PlaceFrame
    <3>5. QED  BY <3>3, <3>4
  <2>15. QED
    BY <2>7, <2>10, <2>11, <2>12, <2>13, <2>14 DEF IInv, PlaceInv
<1>5. QED
  BY <1>3, <1>4

(* The node of the victim, always still in the map, is erased.             *)
LEMMA EraseVictimIInv ==
    ASSUME "remove" \notin Ops, IInv, NEW t \in Threads, EraseVictim(t)
    PROVE  IInv'
<1> DEFINE p == PartitionOf[key[t]]
           v == victim[t]
<1> HIDE DEF p, v
<1>1. /\ pc[t] = "erase" /\ key[t] \in Keys /\ p \in Partitions /\ drain[t] = {}
      /\ v \in Keys /\ BucketOf[v] \in Buckets
  BY HashAssumption DEF IInv, TypeOK, ThreadInv, EraseVictim, InEvict, p, v
<1>2. guard[p] = t /\ it[t] <= Len(lru[p]) + 1
  BY <1>1 DEF IInv, GuardInv, InEvict, p
<1>3. /\ ~Linked(v) /\ map[v] # None
      /\ \A u \in Threads : (victim[u] = v => u = t) /\ ~Adding(u, v) /\ v \notin Unerased(u)
  BY <1>1 DEF IInv, PlaceInv, Place, p, v
<1>4. /\ map' = [map EXCEPT ![v] = None] /\ filled' = [filled EXCEPT ![p] = @ - PerValueSize]
      /\ wlock' = [wlock EXCEPT ![BucketOf[v]] = None]
      /\ victim' = [victim EXCEPT ![t] = None] /\ pc' = [pc EXCEPT ![t] = "evict"]
      /\ UNCHANGED <<lru, it, rlock, guard, op, key, val, ret, failed, drain>>
  BY <1>3 DEF EraseVictim, Goto, call, p, v
<1>5. /\ \A u \in Threads : pc'[u] = IF u = t THEN "evict" ELSE pc[u]
      /\ \A u \in Threads : victim'[u] = IF u = t THEN None ELSE victim[u]
      /\ victim' \in [Threads -> Keys \cup {None}]
      /\ \A n \in Keys : map'[n] = IF n = v THEN None ELSE map[n]
  BY <1>4 DEF IInv, TypeOK
<1>6. TypeOK'
  <2>1. filled' \in [Partitions -> Int]
    BY <1>1, <1>4, SizeAssumption, SMTT(30) DEF IInv, TypeOK
  <2>2. QED
    BY <1>1, <1>4, <1>5, <2>1 DEF IInv, TypeOK, Labels
<1>7. ThreadInv'
  BY <1>1, <1>4, <1>5, SMTT(30) DEF IInv, ThreadInv, InEvict
<1>8. GuardInv'
  <2>1. pc[t] \in InEvict /\ pc'[t] \in InEvict /\ victim'[t] = None
        /\ it'[t] <= Len(lru'[p]) + 1
    BY <1>1, <1>2, <1>4, <1>5 DEF InEvict
  <2>2. QED
    BY <1>1, <1>4, <1>5, <2>1, GuardStep, SMTT(30) DEF p
<1>9. ListInv'
  BY <1>4 DEF IInv, ListInv
<1>10. SizeInv'
  <2>1. Held(p) = 1 /\ Held(p)' = 0
    <3>1. guard[p] = t /\ guard'[p] = t /\ key' = key
      BY <1>2, <1>4
    <3>2. t # None /\ victim[t] # None /\ victim'[t] = None
      BY <1>1, <1>5, NoneAssumption DEF p, v
    <3>3. QED  BY <3>1, <3>2 DEF Held, p
  <2>2. \A q \in Partitions \ {p} : Held(q)' = Held(q)
    BY <1>1, <1>4, <1>5, HeldElsewhere DEF p
  <2>3. Len(lru[p]) \in Nat /\ Len(lru[p]) \in Int
    BY <1>1, SMTT(30) DEF IInv, TypeOK
  <2>4. /\ filled[p] = PerValueSize * (Len(lru[p]) + 1) /\ filled[p] \in Int
        /\ filled[p] < MaxSize + PerValueSize
    BY <1>1, <2>1 DEF IInv, SizeInv, TypeOK
  <2>5. PerValueSize * (Len(lru[p]) + 1) = PerValueSize * Len(lru[p]) + PerValueSize
    BY <2>3, SizeArithmetic
  <2>6. filled'[p] = filled[p] - PerValueSize
    BY <1>1, <1>4 DEF IInv, TypeOK
  <2>7. PerValueSize * Len(lru[p]) \in Int
    BY <2>3, SizeAssumption, SMTT(30)
  <2>8. filled'[p] = PerValueSize * Len(lru[p]) /\ filled'[p] < MaxSize + PerValueSize
    BY <2>4, <2>5, <2>6, <2>7, SizeAssumption, SMTT(30)
  <2>9. filled'[p] = PerValueSize * (Len(lru'[p]) + Held(p)')
    <3>1. lru'[p] = lru[p] /\ Len(lru[p]) + 0 = Len(lru[p])
      BY <1>4, <2>3, SMTT(30)
    <3>2. QED  BY <2>1, <2>8, <3>1
  <2>10. \A q \in Partitions \ {p} : filled'[q] = filled[q] /\ lru'[q] = lru[q]
    BY <1>4 DEF IInv, TypeOK
  <2>11. SizeInv /\ p \in Partitions /\ key' = key
    BY <1>1, <1>4 DEF IInv
  <2>12. QED
    BY <2>2, <2>8, <2>9, <2>10, <2>11, SizeStep DEF p
<1>11. ASSUME NEW n \in Keys PROVE Place(n)'
  <2>1. \A u \in Threads : Adding(u, n)' <=> Adding(u, n)
    BY <1>1, <1>4, <1>5 DEF Adding, InEvict
  <2>2. \A u \in Threads : Unerased(u)' = Unerased(u)
    BY <1>1, <1>4, <1>5 DEF Unerased
  <2>3. Linked(n)' <=> Linked(n)
    BY <1>4 DEF Linked
  <2>4. CASE n = v
    <3>1. ~Linked(n)' /\ map'[n] = None
      BY <1>3, <1>5, <2>3, <2>4
    <3>2. \A u \in Threads : victim'[u] # n /\ ~Adding(u, n)' /\ (n \notin Unerased(u))'
      BY <1>3, <1>5, <2>1, <2>2, <2>4, NoneAssumption
    <3>3. QED  BY <3>1, <3>2 DEF Place
  <2>5. CASE n # v
    <3>1. \A u \in Threads : (victim'[u] = n) <=> (victim[u] = n)
      BY <1>5, <2>5, NoneAssumption DEF p, v
    <3>2. Place(n) /\ map'[n] = map[n]
      BY <1>5, <2>5 DEF IInv, PlaceInv
    <3>3. QED
      BY <2>1, <2>2, <2>3, <3>1, <3>2, PlaceFrame
  <2>6. QED  BY <2>4, <2>5
<1>12. QED
  BY <1>6, <1>7, <1>8, <1>9, <1>10, <1>11 DEF IInv, PlaceInv


(* A linked record moves to the end of its list; the records on the list stay
   the same ones.                                                          *)
LEMMA RecordAccessedIInv ==
    ASSUME "remove" \notin Ops, IInv, NEW t \in Threads, RecordAccessed(t)
    PROVE  IInv'
<1> DEFINE k == key[t]
           p == PartitionOf[k]
           r == Unlink(lru[p], k)
           s == IF Linked(k) THEN Append(r, k) ELSE lru[p]
<1> HIDE DEF k, p, r, s
<1>1. /\ pc[t] = "access" /\ k \in Keys /\ p \in Partitions /\ drain[t] = {} /\ victim[t] = None
      /\ guard[p] = None
      /\ pc' = [pc EXCEPT ![t] = "unlock"] /\ lru' = [lru EXCEPT ![p] = s]
      /\ UNCHANGED <<map, filled, wlock, rlock, guard, op, key, val, ret, failed, drain, it, victim>>
  BY HashAssumption DEF IInv, ThreadInv, RecordAccessed, Goto, locks, call, evict, p, k, r, s
<1>2. /\ lru[p] \in Seq(Keys) /\ IsInjective(lru[p])
      /\ \A n \in Range(lru[p]) : PartitionOf[n] = p
  BY <1>1 DEF IInv, TypeOK, ListInv
<1>3. /\ s \in Seq(Keys) /\ IsInjective(s) /\ Range(s) = Range(lru[p]) /\ Len(s) = Len(lru[p])
  <2>1. CASE Linked(k)
    <3>1. k \in Range(lru[p])
      BY <2>1 DEF Linked, p
    <3>2. /\ r \in Seq(Keys) /\ IsInjective(r) /\ Range(r) = Range(lru[p]) \ {k}
          /\ Len(r) = Len(lru[p]) - 1
      BY <1>2, <3>1, UnlinkSet DEF p, k, r
    <3>3. /\ IsInjective(Append(r, k)) /\ Range(Append(r, k)) = Range(r) \cup {k}
          /\ Append(r, k) \in Seq(Keys) /\ Len(Append(r, k)) = Len(r) + 1
      BY <1>1, <3>2, AppendSet
    <3>4. s = Append(r, k) /\ Len(lru[p]) \in Nat
      BY <1>2, <2>1, SMTT(30) DEF p, k, r, s
    <3>5. Range(s) = (Range(lru[p]) \ {k}) \cup {k}
      BY <3>2, <3>3, <3>4
    <3>6. Range(s) = Range(lru[p])
      BY <3>1, <3>5
    <3>7. Len(s) = Len(lru[p])
      BY <3>2, <3>3, <3>4, SMTT(30)
    <3>8. QED  BY <3>3, <3>4, <3>6, <3>7
  <2>2. CASE ~Linked(k)
    BY <1>2, <2>2 DEF p, k, r, s
  <2>3. QED  BY <2>1, <2>2
<1>4. /\ lru' \in [Partitions -> Seq(Keys)] /\ ListInv'
      /\ \A n \in Keys : Linked(n)' <=> IF PartitionOf[n] = p THEN n \in Range(s) ELSE Linked(n)
      /\ \A q \in Partitions : lru'[q] = IF q = p THEN s ELSE lru[q]
  <2>1. \A n \in Range(s) : PartitionOf[n] = p
    BY <1>2, <1>3
  <2>2. TypeOK /\ ListInv /\ p \in Partitions /\ lru' = [lru EXCEPT ![p] = s]
    BY <1>1 DEF IInv
  <2>3. QED
    BY <1>3, <2>1, <2>2, ListUpdate
<1>5. \A n \in Keys : Linked(n)' <=> Linked(n)
  BY <1>3, <1>4 DEF Linked
<1>6. \A u \in Threads : pc'[u] = IF u = t THEN "unlock" ELSE pc[u]
  BY <1>1 DEF IInv, TypeOK
<1>7. TypeOK'
  BY <1>1, <1>4 DEF IInv, TypeOK, Labels
<1>8. ThreadInv'
  BY <1>1, <1>6, SMTT(30) DEF IInv, ThreadInv, InEvict
<1>9. \A q \in Partitions : Len(lru'[q]) = Len(lru[q])
  BY <1>3, <1>4
<1>10. GuardInv'
  <2>1. \A u \in Threads : pc'[u] \in InEvict <=> pc[u] \in InEvict
    BY <1>1, <1>6, SMTT(30) DEF InEvict
  <2>2. ASSUME NEW u \in Threads, pc'[u] \in InEvict
        PROVE  guard'[PartitionOf[key'[u]]] = u /\ it'[u] <= Len(lru'[PartitionOf[key'[u]]]) + 1
    <3>1. PartitionOf[key[u]] \in Partitions
      BY <2>1, <2>2, HashAssumption DEF IInv, ThreadInv, InEvict
    <3>2. QED  BY <1>1, <1>9, <2>1, <2>2, <3>1 DEF IInv, GuardInv
  <2>3. ASSUME NEW q \in Partitions, guard'[q] # None
        PROVE  pc'[guard'[q]] \in InEvict /\ PartitionOf[key'[guard'[q]]] = q
    <3>1. guard'[q] = guard[q] /\ guard[q] \in Threads
      BY <1>1, <2>3 DEF IInv, TypeOK
    <3>2. QED  BY <1>1, <2>1, <2>3, <3>1 DEF IInv, GuardInv
  <2>4. QED
    BY <1>1, <2>2, <2>3 DEF IInv, GuardInv
<1>11. SizeInv'
  <2>1. \A q \in Partitions : Held(q)' = Held(q)
    BY <1>1 DEF Held
  <2>2. QED
    BY <1>1, <1>9, <2>1 DEF IInv, SizeInv
<1>12. ASSUME NEW n \in Keys PROVE Place(n)'
  <2>1. \A u \in Threads : Adding(u, n)' <=> Adding(u, n)
    BY <1>1, <1>6, SMTT(30) DEF Adding, InEvict
  <2>2. \A u \in Threads : Unerased(u)' = Unerased(u)
    BY <1>1, <1>6 DEF Unerased
  <2>3. Place(n) /\ map' = map /\ victim' = victim
    BY <1>1 DEF IInv, PlaceInv
  <2>4. QED
    BY <1>5, <2>1, <2>2, <2>3, PlaceFrame
<1>13. QED
  BY <1>4, <1>7, <1>8, <1>10, <1>11, <1>12 DEF IInv, PlaceInv

(* Every step keeps the invariant.                                         *)
LEMMA NextIInv == ASSUME "remove" \notin Ops, IInv, [Next]_vars PROVE IInv'
<1>1. CASE UNCHANGED vars
  <2>1. UNCHANGED <<map, lru, filled, wlock, rlock, guard, pc, op, key, val, ret, failed, drain,
                    it, victim>>
    BY <1>1 DEF vars
  <2>2. TypeOK' /\ ThreadInv'
    BY <2>1 DEF IInv, TypeOK, ThreadInv
  <2>3. \A u \in Threads : Unerased(u)' = Unerased(u) /\ \A n \in Keys : Adding(u, n)' <=> Adding(u, n)
    BY <2>1 DEF Unerased, Adding
  <2>4. QED
    BY <2>1, <2>2, <2>3, StepFrame
<1>2. ASSUME NEW t \in Threads, NEW o \in Ops, NEW k \in Keys, NEW v \in Vals, Call(t, o, k, v)
      PROVE  IInv'
  BY <1>2, CallIInv
<1>3. ASSUME NEW t \in Threads, Acquire(t) PROVE IInv'
  <2>1. ~RemoveRecord(t)
    BY DEF IInv, ThreadInv, RemoveRecord
  <2>2. QED
    BY <1>3, <2>1, LockSharedIInv, LockExclusiveIInv, AddRecordIInv, StartEvictIInv,
       RecordAccessedIInv
       DEF Acquire
<1>4. ASSUME NEW t \in Threads, Work(t) PROVE IInv'
  BY <1>4, InsertNodeIInv, GetNodeIInv, EraseNodeIInv, DeleteNodeIInv, NextVictimIInv,
     TryLockVictimIInv, EraseVictimIInv, FinishAddIInv, UnlockIInv, ReturnIInv
     DEF Work
<1>5. QED
  BY <1>1, <1>2, <1>3, <1>4 DEF Next

-----------------------------------------------------------------------------
(* The state each property needs is part of the invariant.                 *)
LEMMA IInvSafe ==
    ASSUME IInv
    PROVE  TypeOK /\ NoDanglingRecord /\ UnlinkedBeforeDelete /\ Accounting /\ CapacityBound
<1>1. NoDanglingRecord
  <2>1. ASSUME NEW p \in Partitions, NEW k \in Range(lru[p]) PROVE map[k] # None
    <3>1. k \in Keys /\ Linked(k)
      BY <2>1, LinkedOnList DEF IInv
    <3>2. QED  BY <3>1 DEF IInv, PlaceInv, Place
  <2>2. ASSUME NEW t \in Threads, victim[t] # None PROVE map[victim[t]] # None
    <3>1. victim[t] \in Keys
      BY <2>2 DEF IInv, TypeOK
    <3>2. QED  BY <3>1 DEF IInv, PlaceInv, Place
  <2>3. QED  BY <2>1, <2>2 DEF NoDanglingRecord
<1>2. UnlinkedBeforeDelete
  <2>1. SUFFICES ASSUME NEW t \in Threads, pc[t] = "delete"
                 PROVE  ~Linked(key[t]) /\ \A u \in Threads : victim[u] # key[t]
    BY DEF UnlinkedBeforeDelete
  <2>2. key[t] \in Keys /\ key[t] \in Unerased(t)
    BY <2>1 DEF IInv, ThreadInv, Unerased
  <2>3. QED  BY <2>2 DEF IInv, PlaceInv, Place
<1>3. ASSUME NEW p \in Partitions
      PROVE  /\ guard[p] = None => filled[p] = PerValueSize * Len(lru[p])
             /\ 0 <= filled[p] /\ filled[p] < MaxSize + PerValueSize
  <2>1. lru[p] \in Seq(Keys) /\ Len(lru[p]) \in Nat /\ Held(p) \in {0, 1}
    BY SMTT(30) DEF IInv, TypeOK, Held
  <2>2. /\ filled[p] = PerValueSize * (Len(lru[p]) + Held(p))
        /\ filled[p] < MaxSize + PerValueSize
    BY DEF IInv, SizeInv
  <2>3. PerValueSize * (Len(lru[p]) + Held(p)) >= 0
    <3>1. PerValueSize \in Nat /\ Len(lru[p]) + Held(p) \in Nat
      BY <2>1, SizeAssumption, SMTT(30)
    <3>2. \A m, n \in Nat : m * n >= 0
      BY SMTT(30)
    <3>3. QED  BY <3>1, <3>2
  <2>4. guard[p] = None => Len(lru[p]) + Held(p) = Len(lru[p])
    BY <2>1, SMTT(30) DEF Held
  <2>5. QED  BY <2>2, <2>3, <2>4
<1>4. QED
  BY <1>1, <1>2, <1>3 DEF IInv, Accounting, CapacityBound

(* The inductive invariant holds in every reachable state.                 *)
THEOREM Invariance == ASSUME "remove" \notin Ops PROVE Spec => []IInv
<1>1. IInv /\ [Next]_vars => IInv'
  BY NextIInv
<1>2. QED
  BY <1>1, InitIInv, PTL DEF Spec

(* The evictor's lists and sizes agree with the map while inserts, upserts and
   gets run concurrently: no record on an LRU list, and none in the hands of
   do_evict, has lost its node; the clean-up of insert deletes only nodes that
   are on no list; m_filled_size is the size of what is on the list.       *)
THEOREM Consistency == ASSUME "remove" \notin Ops PROVE Spec => []RecordsConsistent
<1>1. IInv => RecordsConsistent
  BY IInvSafe DEF RecordsConsistent
<1>2. QED
  BY <1>1, Invariance, PTL

(* A partition exceeds its capacity by less than one record, although do_evict
   adds a record that does not fit.                                        *)
THEOREM OverrunBounded == ASSUME "remove" \notin Ops PROVE Spec => []CapacityBound
<1>1. IInv => CapacityBound
  BY IInvSafe
<1>2. QED
  BY <1>1, Invariance, PTL

-----------------------------------------------------------------------------
(* A thread that adds a record, or that evicts for it, holds the bucket of its
   key, and that of the victim it erases, which is another one: try_erase
   only takes a lock that nobody has.                                      *)
LockInv ==
    \A t \in Threads :
        /\ pc[t] = "locked" /\ op[t] # "get" => wlock[BucketOf[key[t]]] = t
        /\ pc[t] \in InEvict \cup {"add"} => wlock[BucketOf[key[t]]] = t
        /\ pc[t] = "erase" => /\ wlock[BucketOf[victim[t]]] = t
                              /\ BucketOf[victim[t]] # BucketOf[key[t]]

(* The bucket locks are taken and released as LockInv says, by every step. *)
LEMMA NextLockInv ==
    ASSUME IInv, LockInv, [Next]_vars
    PROVE  LockInv'
<1>1. CASE UNCHANGED vars
  BY <1>1 DEF LockInv, vars
<1>2. ASSUME NEW t \in Threads, NEW o \in Ops, NEW k \in Keys, NEW v \in Vals, Call(t, o, k, v)
      PROVE  LockInv'
  BY <1>2 DEF Call, Goto, locks, evict, LockInv, IInv, TypeOK, InEvict
<1>3. ASSUME NEW t \in Threads, Acquire(t)
      PROVE  LockInv'
  <2>1. key[t] \in Keys /\ pc[t] # "idle"
    BY <1>3
       DEF IInv, ThreadInv, Acquire, LockShared, LockExclusive, AddRecord, StartEvict,
           RecordAccessed, RemoveRecord
  <2>2. CASE LockShared(t)
    BY <2>1, <2>2 DEF LockShared, Goto, call, evict, LockInv, IInv, TypeOK, InEvict
  <2>3. CASE LockExclusive(t)
    BY <2>1, <2>3, NoneAssumption, HashAssumption, SMTT(30)
       DEF LockExclusive, Free, Goto, call, evict, LockInv, IInv, TypeOK, ThreadInv, InEvict
  <2>4. CASE AddRecord(t)
    BY <2>4 DEF AddRecord, Goto, locks, call, evict, LockInv, IInv, TypeOK, InEvict
  <2>5. CASE StartEvict(t)
    BY <2>5 DEF StartEvict, Goto, call, LockInv, IInv, TypeOK, InEvict
  <2>6. CASE RecordAccessed(t)
    BY <2>6 DEF RecordAccessed, Goto, locks, call, evict, LockInv, IInv, TypeOK, InEvict
  <2>7. CASE RemoveRecord(t)
    BY <2>7 DEF RemoveRecord, Goto, locks, call, evict, LockInv, IInv, TypeOK, InEvict
  <2>8. QED  BY <1>3, <2>2, <2>3, <2>4, <2>5, <2>6, <2>7 DEF Acquire
<1>4. ASSUME NEW t \in Threads, Work(t)
      PROVE  LockInv'
  <2>1. key[t] \in Keys /\ pc[t] # "idle"
    BY <1>4
       DEF IInv, ThreadInv, Work, InsertNode, GetNode, EraseNode, DeleteNode, NextVictim,
           TryLockVictim, EraseVictim, FinishAdd, Unlock, Return
  <2>2. CASE InsertNode(t)
    BY <2>2 DEF InsertNode, Goto, locks, evict, LockInv, IInv, TypeOK, InEvict
  <2>3. CASE GetNode(t)
    BY <2>3 DEF GetNode, Goto, locks, evict, LockInv, IInv, TypeOK, InEvict
  <2>4. CASE EraseNode(t)
    BY <2>4 DEF EraseNode, Goto, locks, call, evict, LockInv, IInv, TypeOK, InEvict
  <2>5. CASE DeleteNode(t)
    BY <2>5 DEF DeleteNode, Goto, locks, evict, LockInv, IInv, TypeOK, InEvict
  <2>6. CASE NextVictim(t)
    BY <2>6, SMTT(30) DEF NextVictim, Goto, locks, call, LockInv, IInv, TypeOK, InEvict
  <2>7. CASE TryLockVictim(t)
    <3>1. victim[t] \in Keys
      BY <2>7 DEF TryLockVictim, IInv, TypeOK, ThreadInv
    <3>2. QED
      BY <2>1, <2>7, <3>1, NoneAssumption, HashAssumption, SMTT(30)
         DEF TryLockVictim, CanTryLock, Free, Goto, call, evict, LockInv, IInv, TypeOK, ThreadInv,
             InEvict
  <2>8. CASE EraseVictim(t)
    BY <2>1, <2>8, SMTT(30) DEF EraseVictim, Goto, call, LockInv, IInv, TypeOK, ThreadInv, InEvict
  <2>9. CASE FinishAdd(t)
    BY <2>9 DEF FinishAdd, Goto, call, LockInv, IInv, TypeOK, InEvict
  <2>10. CASE Unlock(t)
    BY <2>1, <2>10, HashAssumption, SMTT(30)
       DEF Unlock, Goto, evict, LockInv, IInv, TypeOK, ThreadInv, InEvict
  <2>11. CASE Return(t)
    BY <2>11 DEF Return, Goto, locks, evict, LockInv, IInv, TypeOK, InEvict
  <2>12. QED
    BY <1>4, <2>2, <2>3, <2>4, <2>5, <2>6, <2>7, <2>8, <2>9, <2>10, <2>11 DEF Work
<1>5. QED
  BY <1>1, <1>2, <1>3, <1>4 DEF Next

(* No node is lost to the evictor: a node in a bucket that nobody uses is on an
   LRU list or in the hands of do_evict, or it was refused and waits in
   t_failed_keys for insert to erase it.                                   *)
THEOREM EvictorKnowsNodes == ASSUME "remove" \notin Ops PROVE Spec => []EveryNodeEvictable
<1>1. Init => LockInv
  BY DEF Init, LockInv, InEvict
<1>2. IInv /\ LockInv /\ [Next]_vars => LockInv'
  BY NextLockInv
<1>3. IInv /\ LockInv => EveryNodeEvictable
  <2> SUFFICES ASSUME IInv, LockInv, NEW k \in Keys, map[k] # None, Free(BucketOf[k])
               PROVE  Linked(k) \/ \E t \in Threads : victim[t] = k \/ k \in failed[t]
    BY DEF EveryNodeEvictable
  <2>1. Place(k)
    BY DEF IInv, PlaceInv
  <2>2. \A t \in Threads : ~Adding(t, k)
    BY NoneAssumption DEF Adding, LockInv, Free
  <2>3. \A t \in Threads : Unerased(t) \subseteq failed[t]
    BY DEF Unerased, IInv, ThreadInv
  <2>4. QED  BY <2>1, <2>2, <2>3 DEF Place
<1>4. QED
  BY <1>1, <1>2, <1>3, Invariance, PTL DEF Spec

-----------------------------------------------------------------------------
(* SimpleCache implements CacheSpec, while no client calls remove: every     *)
(* insert, upsert and get takes effect at one instant, and what the evictor   *)
(* and the clean-up of refused keys do to the map is forgetting.              *)

(* What a client of the abstract cache sees of a thread.                   *)
ArgOf(t) == IF Phase(t) = "called"
            THEN [op |-> op[t], key |-> key[t], val |-> val[t]]
            ELSE [op |-> None, key |-> None, val |-> None]

ResOf(t) == IF Phase(t) = "done"
            THEN [op |-> op[t], ok |-> ret[t],
                  val |-> IF op[t] \in {"get", "remove"} THEN val[t] ELSE None]
            ELSE [op |-> None, ok |-> FALSE, val |-> None]

Seen(t) == <<Phase(t), ArgOf(t), ResOf(t)>>

(* Until its call has taken effect a thread has nothing to return.         *)
RetInv == \A t \in Threads : pc[t] \in {"lock", "locked"} /\ drain[t] = {} => ret[t] = FALSE

RInv == IInv /\ RetInv

(* A thread whose call does not change is seen as before.                  *)
LEMMA SeenFrame ==
    ASSUME NEW u \in Threads, pc'[u] = pc[u], op'[u] = op[u], key'[u] = key[u],
           val'[u] = val[u], ret'[u] = ret[u], drain'[u] = drain[u]
    PROVE  Seen(u)' = Seen(u)
BY DEF Seen, Phase, Called, ArgOf, ResOf

(* A step nobody sees.                                                     *)
LEMMA Stutters ==
    ASSUME map' = map, \A u \in Threads : Seen(u)' = Seen(u)
    PROVE  UNCHANGED Abstract!vars
<1>1. \A u \in Threads : Phase(u)' = Phase(u) /\ ArgOf(u)' = ArgOf(u) /\ ResOf(u)' = ResOf(u)
  BY DEF Seen
<1>2. QED
  BY <1>1 DEF Abstract!vars, ArgOf, ResOf

(* A step that only takes a node out of the map.                           *)
LEMMA Forgets ==
    ASSUME NEW k \in Keys, map' = [map EXCEPT ![k] = None], map \in [Keys -> Vals \cup {None}],
           \A u \in Threads : Seen(u)' = Seen(u)
    PROVE  [Abstract!Next]_(Abstract!vars)
<1>1. \A u \in Threads : Phase(u)' = Phase(u) /\ ArgOf(u)' = ArgOf(u) /\ ResOf(u)' = ResOf(u)
  BY DEF Seen
<1>2. CASE map[k] = None
  <2>1. map' = map
    BY <1>2
  <2>2. QED  BY <2>1, Stutters
<1>3. CASE map[k] # None
  <2>1. Abstract!Forget(k)
    BY <1>1, <1>3 DEF Abstract!Forget, ArgOf, ResOf
  <2>2. QED  BY <2>1 DEF Abstract!Next
<1>4. QED  BY <1>2, <1>3

(* The steps of a thread leave the calls of the others alone.              *)
LEMMA OthersUnseen ==
    ASSUME TypeOK, NEW t \in Threads,
           \/ \E o \in Ops, k \in Keys, v \in Vals : Call(t, o, k, v)
           \/ Acquire(t) \/ Work(t)
    PROVE  \A u \in Threads \ {t} : Seen(u)' = Seen(u)
<1> SUFFICES ASSUME NEW u \in Threads, u # t
             PROVE  /\ pc'[u] = pc[u] /\ op'[u] = op[u] /\ key'[u] = key[u]
                    /\ val'[u] = val[u] /\ ret'[u] = ret[u] /\ drain'[u] = drain[u]
  BY SeenFrame
<1>1. CASE \E o \in Ops, k \in Keys, v \in Vals : Call(t, o, k, v)
  BY <1>1 DEF TypeOK, Call, Goto
<1>2. CASE Acquire(t)
  BY <1>2
     DEF TypeOK, Acquire, LockShared, LockExclusive, AddRecord, StartEvict, RecordAccessed,
         RemoveRecord, Goto, call
<1>3. CASE InsertNode(t) \/ GetNode(t) \/ EraseNode(t)
  BY <1>3 DEF TypeOK, InsertNode, GetNode, EraseNode, Goto, call
<1>4. CASE DeleteNode(t) \/ Unlock(t) \/ Return(t)
  BY <1>4 DEF TypeOK, DeleteNode, Unlock, Return, Goto, call
<1>5. CASE NextVictim(t)
  BY <1>5 DEF TypeOK, NextVictim, Goto, call
<1>6. CASE TryLockVictim(t) \/ EraseVictim(t) \/ FinishAdd(t)
  BY <1>6 DEF TypeOK, TryLockVictim, EraseVictim, FinishAdd, Goto, call
<1>7. QED
  BY <1>1, <1>2, <1>3, <1>4, <1>5, <1>6 DEF Work

(* A step that moves thread t alone is a step of the abstract cache if it is
   one in what is seen of t.                                               *)
LEMMA SeenMoves ==
    ASSUME NEW t \in Threads, \A u \in Threads \ {t} : Seen(u)' = Seen(u)
    PROVE  /\ [u \in Threads |-> Phase(u)'] = [[u \in Threads |-> Phase(u)] EXCEPT ![t] = Phase(t)']
           /\ [u \in Threads |-> ArgOf(u)'] = [[u \in Threads |-> ArgOf(u)] EXCEPT ![t] = ArgOf(t)']
           /\ [u \in Threads |-> ResOf(u)'] = [[u \in Threads |-> ResOf(u)] EXCEPT ![t] = ResOf(t)']
<1>1. \A u \in Threads \ {t} : /\ Phase(u)' = Phase(u) /\ ArgOf(u)' = ArgOf(u)
                               /\ ResOf(u)' = ResOf(u)
  BY DEF Seen
<1>2. QED
  BY <1>1

(* A call is the beginning of an abstract call.                            *)
LEMMA CallBegins ==
    ASSUME IInv, NEW t \in Threads, NEW o \in Ops, NEW k \in Keys, NEW v \in Vals,
           Call(t, o, k, v)
    PROVE  Abstract!Begin(t, o, k, v)
<1>1. /\ pc[t] = "idle" /\ pc'[t] = "lock" /\ drain'[t] = {} /\ map' = map
      /\ op'[t] = o /\ key'[t] = k
      /\ val'[t] = IF o \in {"insert", "upsert"} THEN v ELSE None
  BY DEF IInv, TypeOK, ThreadInv, Call, Goto
<1>2. /\ Phase(t) = "idle" /\ Phase(t)' = "called" /\ ResOf(t)' = ResOf(t)
      /\ ArgOf(t)' = [op |-> o, key |-> k,
                      val |-> IF o \in {"insert", "upsert"} THEN v ELSE None]
  BY <1>1 DEF Phase, Called, ArgOf, ResOf
<1>3. \A u \in Threads \ {t} : Seen(u)' = Seen(u)
  BY OthersUnseen DEF IInv
<1>4. QED
  BY <1>1, <1>2, <1>3, SeenMoves DEF Abstract!Begin, ArgOf, ResOf

(* The bucket operation of insert, upsert or get is the effect of the call. *)
LEMMA InsertTakesEffect ==
    ASSUME RInv, NEW t \in Threads, InsertNode(t)
    PROVE  Abstract!Effect(t)
<1> DEFINE k == key[t]
<1> HIDE DEF k
<1>1. /\ pc[t] = "locked" /\ drain[t] = {} /\ drain'[t] = {} /\ ret[t] = FALSE
      /\ op[t] \in {"insert", "upsert"} /\ op'[t] = op[t]
      /\ k \in Keys /\ map \in [Keys -> Vals \cup {None}] /\ val[t] \in Vals
      /\ pc'[t] \in {"add", "access", "unlock"}
  BY DEF RInv, RetInv, IInv, TypeOK, ThreadInv, InsertNode, Goto, k
<1>2. /\ map' = [map EXCEPT ![k] = IF map[k] # None /\ op[t] = "insert" THEN @ ELSE val[t]]
      /\ ret'[t] = (map[k] = None)
  BY <1>1 DEF RInv, IInv, TypeOK, InsertNode, Overwrites, k
<1>3. /\ Phase(t) = "called" /\ Phase(t)' = "done"
      /\ ArgOf(t) = [op |-> op[t], key |-> k, val |-> val[t]]
      /\ ArgOf(t)' = [op |-> None, key |-> None, val |-> None]
      /\ ResOf(t)' = [op |-> op[t], ok |-> map[k] = None, val |-> None]
  BY <1>1, <1>2 DEF Phase, Called, ArgOf, ResOf, k
<1>4. \A u \in Threads \ {t} : Seen(u)' = Seen(u)
  BY OthersUnseen DEF RInv, IInv, Work
<1>5. QED
  BY <1>1, <1>2, <1>3, <1>4, SeenMoves DEF Abstract!Effect, Abstract!NoCall, ArgOf, ResOf

LEMMA GetTakesEffect ==
    ASSUME RInv, NEW t \in Threads, GetNode(t)
    PROVE  Abstract!Effect(t)
<1> DEFINE k == key[t]
<1> HIDE DEF k
<1>1. /\ pc[t] = "locked" /\ op[t] = "get" /\ drain[t] = {} /\ drain'[t] = {}
      /\ op'[t] = op[t] /\ map' = map /\ val'[t] = map[k] /\ ret'[t] = (map[k] # None)
      /\ pc'[t] \in {"access", "unlock"}
  BY DEF RInv, IInv, TypeOK, ThreadInv, GetNode, Goto, k
<1>2. /\ Phase(t) = "called" /\ Phase(t)' = "done"
      /\ ArgOf(t) = [op |-> "get", key |-> k, val |-> val[t]]
      /\ ArgOf(t)' = [op |-> None, key |-> None, val |-> None]
      /\ ResOf(t)' = [op |-> "get", ok |-> map[k] # None, val |-> map[k]]
  BY <1>1 DEF Phase, Called, ArgOf, ResOf, k
<1>3. \A u \in Threads \ {t} : Seen(u)' = Seen(u)
  BY OthersUnseen DEF RInv, IInv, Work
<1>4. QED
  BY <1>1, <1>2, <1>3, SeenMoves DEF Abstract!Effect, Abstract!NoCall, ArgOf, ResOf, k

(* The clean-up of a refused key, and the evictor, only forget.            *)
LEMMA DeleteForgets ==
    ASSUME IInv, "remove" \notin Ops, NEW t \in Threads, DeleteNode(t)
    PROVE  [Abstract!Next]_(Abstract!vars)
<1>1. /\ pc[t] = "delete" /\ drain[t] # {} /\ op[t] = "insert" /\ key[t] \in Keys
      /\ pc'[t] = "unlock" /\ map' = [map EXCEPT ![key[t]] = None]
      /\ UNCHANGED <<op, key, val, ret, drain>>
  BY DEF IInv, TypeOK, ThreadInv, DeleteNode, Goto
<1>2. Seen(t)' = Seen(t)
  BY <1>1 DEF Seen, Phase, Called, ArgOf, ResOf
<1>3. \A u \in Threads : Seen(u)' = Seen(u)
  BY <1>2, OthersUnseen DEF IInv, Work
<1>4. QED
  BY <1>1, <1>3, Forgets DEF IInv, TypeOK

LEMMA EvictForgets ==
    ASSUME IInv, NEW t \in Threads, EraseVictim(t)
    PROVE  [Abstract!Next]_(Abstract!vars)
<1>1. /\ pc[t] = "erase" /\ drain[t] = {} /\ victim[t] \in Keys
      /\ pc'[t] = "evict" /\ UNCHANGED <<op, key, val, ret, drain>>
      /\ map' = map \/ map' = [map EXCEPT ![victim[t]] = None]
  BY DEF IInv, TypeOK, ThreadInv, EraseVictim, Goto, call
<1>2. Seen(t)' = Seen(t)
  BY <1>1 DEF Seen, Phase, Called, ArgOf, ResOf
<1>3. \A u \in Threads : Seen(u)' = Seen(u)
  BY <1>2, OthersUnseen DEF IInv, Work
<1>4. QED
  BY <1>1, <1>3, Forgets, Stutters DEF IInv, TypeOK

(* A result whose success is turned into a failure.                        *)
LEMMA ResultTurned ==
    ASSUME NEW r, NEW s, NEW x, NEW y,
           r = [op |-> "insert", ok |-> x, val |-> None],
           s = [op |-> "insert", ok |-> y, val |-> None]
    PROVE  s = [r EXCEPT !.ok = y] /\ r.op = "insert"
BY SMTT(30)

(* insert turns to the keys it was refused, and reports failure.           *)
LEMMA UnlockRefuses ==
    ASSUME IInv, NEW t \in Threads, Unlock(t)
    PROVE  [Abstract!Next]_(Abstract!vars)
<1>1. pc[t] = "unlock" /\ op' = op /\ val' = val /\ map' = map
  BY DEF Unlock
<1>2. \A u \in Threads \ {t} : Seen(u)' = Seen(u)
  BY OthersUnseen DEF IInv, Work
<1>3. CASE op[t] = "insert" /\ pc'[t] = "lock" /\ drain'[t] # {} /\ ret'[t] = FALSE
  <2>1. /\ Phase(t) = "done" /\ Phase(t)' = "done" /\ ArgOf(t)' = ArgOf(t)
        /\ ResOf(t) = [op |-> "insert", ok |-> ret[t], val |-> None]
        /\ ResOf(t)' = [op |-> "insert", ok |-> FALSE, val |-> None]
    BY <1>1, <1>3 DEF Phase, Called, ArgOf, ResOf
  <2>2. ResOf(t)' = [ResOf(t) EXCEPT !.ok = FALSE] /\ ResOf(t).op = "insert"
    <3>1. ResOf(t) = [op |-> "insert", ok |-> ret[t], val |-> None]
      BY <2>1
    <3>2. ResOf(t)' = [op |-> "insert", ok |-> FALSE, val |-> None]
      BY <2>1
    <3>3. QED  BY <3>1, <3>2, ResultTurned
  <2>3. [u \in Threads |-> ResOf(u)'] = [[u \in Threads |-> ResOf(u)] EXCEPT ![t].ok = FALSE]
    <3>1. ASSUME NEW f, NEW g, NEW y, NEW x \in Threads,
                 [u \in Threads |-> g[u]]
                   = [[u \in Threads |-> f[u]] EXCEPT ![x] = [f[x] EXCEPT !.ok = y]]
          PROVE  [u \in Threads |-> g[u]] = [[u \in Threads |-> f[u]] EXCEPT ![x].ok = y]
      BY <3>1
    <3>2. QED  BY <1>2, <2>2, <3>1, SeenMoves
  <2>4. /\ [u \in Threads |-> Phase(u)'] = [u \in Threads |-> Phase(u)]
        /\ [u \in Threads |-> ArgOf(u)'] = [u \in Threads |-> ArgOf(u)]
        /\ Phase(t) = "done"
    BY <1>2, <2>1, SeenMoves
  <2>5. Abstract!Refuse(t)
    BY <1>1, <2>2, <2>3, <2>4 DEF Abstract!Refuse, ArgOf, ResOf
  <2>6. QED
    BY <2>5 DEF Abstract!Next
<1>4. CASE pc'[t] = "return" /\ ret' = ret
  <2>1. Seen(t)' = Seen(t)
    BY <1>1, <1>4 DEF Seen, Phase, Called, ArgOf, ResOf
  <2>2. QED
    BY <1>1, <1>2, <2>1, Stutters
<1>5. QED
  BY <1>3, <1>4 DEF IInv, TypeOK, Unlock, Goto

(* The return of a call ends the abstract one.                             *)
LEMMA ReturnEnds ==
    ASSUME IInv, NEW t \in Threads, Return(t)
    PROVE  Abstract!End(t)
<1>1. pc[t] = "return" /\ pc'[t] = "idle" /\ map' = map
  BY DEF IInv, TypeOK, Return, Goto
<1>2. /\ Phase(t) = "done" /\ Phase(t)' = "idle" /\ ArgOf(t)' = ArgOf(t)
      /\ ResOf(t)' = [op |-> None, ok |-> FALSE, val |-> None]
  BY <1>1 DEF Phase, Called, ArgOf, ResOf
<1>3. \A u \in Threads \ {t} : Seen(u)' = Seen(u)
  BY OthersUnseen DEF IInv, Work
<1>4. QED
  BY <1>1, <1>2, <1>3, SeenMoves DEF Abstract!End, Abstract!NoResult, ArgOf, ResOf

(* Locking, and what the evictor does to its lists, is not seen.           *)
LEMMA LocksUnseen ==
    ASSUME IInv, "remove" \notin Ops, NEW t \in Threads,
           \/ Acquire(t) \/ EraseNode(t) \/ NextVictim(t) \/ TryLockVictim(t) \/ FinishAdd(t)
    PROVE  UNCHANGED Abstract!vars
<1>1. map' = map /\ UNCHANGED <<op, key, val, ret, drain>>
  BY DEF Acquire, LockShared, LockExclusive, AddRecord, StartEvict, RecordAccessed, RemoveRecord,
         EraseNode, NextVictim, TryLockVictim, FinishAdd, call
<1>2. \/ pc[t] = "lock" /\ pc'[t] = "locked"
      \/ /\ pc[t] \notin {"idle", "lock", "locked", "forget", "delete"}
         /\ pc'[t] \notin {"idle", "lock", "locked", "forget", "delete"}
      \/ pc[t] = "locked" /\ pc'[t] \in {"unlock", "delete", "forget"} /\ drain[t] # {}
  <2>1. CASE Acquire(t)
    BY <2>1
       DEF IInv, TypeOK, ThreadInv, Acquire, LockShared, LockExclusive, AddRecord, StartEvict,
           RecordAccessed, RemoveRecord, Goto
  <2>2. CASE EraseNode(t)
    <3>1. op[t] \in Ops /\ pc[t] = "locked" /\ drain[t] # {}
      BY <2>2 DEF IInv, ThreadInv, EraseNode
    <3>2. pc'[t] \in {"unlock", "delete", "forget"}
      BY <2>2 DEF IInv, TypeOK, EraseNode, Goto
    <3>3. QED  BY <3>1, <3>2
  <2>3. CASE NextVictim(t) \/ TryLockVictim(t) \/ FinishAdd(t)
    BY <2>3 DEF IInv, TypeOK, NextVictim, TryLockVictim, FinishAdd, Goto
  <2>4. QED  BY <2>1, <2>2, <2>3
<1>3. Seen(t)' = Seen(t)
  BY <1>1, <1>2 DEF Seen, Phase, Called, ArgOf, ResOf
<1>4. \A u \in Threads \ {t} : Seen(u)' = Seen(u)
  BY OthersUnseen DEF IInv, Work
<1>5. QED
  BY <1>1, <1>3, <1>4, Stutters

(* A call has no result before it takes effect.                            *)
LEMMA NextRInv == ASSUME "remove" \notin Ops, RInv, [Next]_vars PROVE RInv'
<1>1. IInv'
  BY NextIInv DEF RInv
<1>2. CASE UNCHANGED vars
  BY <1>1, <1>2 DEF RInv, RetInv, vars
<1>3. ASSUME NEW t \in Threads, NEW u \in Threads,
             \/ \E o \in Ops, k \in Keys, v \in Vals : Call(t, o, k, v)
             \/ Acquire(t) \/ Work(t),
             pc'[u] \in {"lock", "locked"}, drain'[u] = {}
      PROVE  ret'[u] = FALSE
  <2>1. CASE \E o \in Ops, k \in Keys, v \in Vals : Call(t, o, k, v)
    BY <1>3, <2>1 DEF RInv, RetInv, IInv, TypeOK, Call, Goto
  <2>2. CASE Acquire(t)
    BY <1>3, <2>2
       DEF RInv, RetInv, IInv, TypeOK, Acquire, LockShared, LockExclusive, AddRecord, StartEvict,
           RecordAccessed, RemoveRecord, Goto, call
  <2>3. CASE InsertNode(t) \/ GetNode(t)
    BY <1>3, <2>3 DEF RInv, RetInv, IInv, TypeOK, InsertNode, GetNode, Goto
  <2>4. CASE EraseNode(t)
    BY <1>3, <2>4 DEF RInv, RetInv, IInv, TypeOK, EraseNode, Goto, call
  <2>5. CASE DeleteNode(t) \/ Return(t)
    BY <1>3, <2>5 DEF RInv, RetInv, IInv, TypeOK, DeleteNode, Return, Goto
  <2>6. CASE Unlock(t)
    BY <1>3, <2>6 DEF RInv, RetInv, IInv, TypeOK, Unlock, Goto
  <2>7. CASE NextVictim(t) \/ TryLockVictim(t) \/ EraseVictim(t) \/ FinishAdd(t)
    BY <1>3, <2>7
       DEF RInv, RetInv, IInv, TypeOK, NextVictim, TryLockVictim, EraseVictim, FinishAdd, Goto, call
  <2>8. QED
    BY <1>3, <2>1, <2>2, <2>3, <2>4, <2>5, <2>6, <2>7 DEF Work
<1>4. QED
  BY <1>1, <1>2, <1>3 DEF RInv, RetInv, Next

(* Every step of the cache is a step of the abstract cache, or unseen.     *)
LEMMA StepSimulates ==
    ASSUME "remove" \notin Ops, RInv, [Next]_vars
    PROVE  [Abstract!Next]_(Abstract!vars)
<1> USE DEF RInv
<1>1. CASE UNCHANGED vars
  BY <1>1, SeenFrame, Stutters DEF vars
<1>2. ASSUME NEW t \in Threads, NEW o \in Ops, NEW k \in Keys, NEW v \in Vals, Call(t, o, k, v)
      PROVE  [Abstract!Next]_(Abstract!vars)
  BY <1>2, CallBegins DEF Abstract!Next
<1>3. ASSUME NEW t \in Threads, Work(t) PROVE [Abstract!Next]_(Abstract!vars)
  <2>1. CASE InsertNode(t) \/ GetNode(t)
    BY <2>1, InsertTakesEffect, GetTakesEffect DEF Abstract!Next
  <2>2. CASE Return(t)
    BY <2>2, ReturnEnds DEF Abstract!Next
  <2>3. QED
    BY <1>3, <2>1, <2>2, DeleteForgets, EvictForgets, UnlockRefuses, LocksUnseen DEF Work
<1>4. QED
  BY <1>1, <1>2, <1>3, LocksUnseen DEF Next

(* SimpleCache is a linearizable map that may forget: whatever the threads,
   the buckets and the capacity, every insert, upsert and get takes effect at
   one instant between its call and its return, under the bucket lock.     *)
THEOREM CacheImplements == ASSUME "remove" \notin Ops PROVE Spec => ImplementsCache
<1>1. Init => RInv
  BY InitIInv DEF RInv, RetInv, Init
<1>2. RInv /\ [Next]_vars => RInv'
  BY NextRInv
<1>3. Init => Abstract!Init
  <2>1. Init => \A t \in Threads : Phase(t) = "idle"
    BY SMTT(30) DEF Init, Phase, Called
  <2>2. QED
    BY <2>1 DEF Init, Abstract!Init, Abstract!NoCall, Abstract!NoResult
<1>4. RInv /\ [Next]_vars => [Abstract!Next]_(Abstract!vars)
  BY StepSimulates
<1>5. QED
  BY <1>1, <1>2, <1>3, <1>4, PTL DEF Spec, ImplementsCache, Abstract!Spec

=============================================================================
