-------------------------------- MODULE Pools ---------------------------------
(* The per-thread free lists of FreeListAllocator (fds/freelist_allocator.hpp *)
(* with ObjectAllocator over it, fds/obj_allocator.hpp) and of VectorPool     *)
(* (fds/vector_pool.hpp).  What one thread allocates another may free; a      *)
(* thread that exits gives its list back to the system and, should it call    *)
(* again, starts a new one.  A block is [size, used]: the bytes it was        *)
(* obtained with and whether a former user's elements are still in it.        *)
EXTENDS Integers, Sequences, FiniteSets, Functions

CONSTANTS PoolThreads,
          MaxListCount,    \* MaxListCount and CacheCount
          BlockSize,       \* Size
          MaxBlocks        \* bound: blocks that exist at a time

ASSUME PoolAssumption == MaxListCount \in Nat /\ BlockSize \in Nat /\ MaxBlocks \in Nat

VARIABLES live,            \* block -> [size, used], the blocks the system has given
          listOf,          \* thread -> its free list, top first
          hasList,         \* threads whose list exists
          lent             \* block -> size its user asked for

poolVars == <<live, listOf, hasList, lent>>

Blocks == 1 .. MaxBlocks
NewBlock == CHOOSE b \in Blocks \ DOMAIN live : TRUE
Without(f, b) == [x \in DOMAIN f \ {b} |-> f[x]]
With(f, b, v) == [x \in DOMAIN f \cup {b} |-> IF x = b THEN v ELSE f[x]]

PoolInit ==
  /\ live = <<>>
  /\ listOf = [t \in PoolThreads |-> <<>>]
  /\ hasList = {}
  /\ lent = <<>>

\* FreeListAllocator::allocate, make_object
allocate(t, size) ==
  /\ hasList' = hasList \cup {t}
  /\ IF listOf[t] = <<>>
     THEN /\ DOMAIN live # Blocks
          /\ live' = With(live, NewBlock, [size |-> size, used |-> FALSE])
          /\ lent' = With(lent, NewBlock, size)
          /\ UNCHANGED listOf
     ELSE /\ lent' = With(lent, Head(listOf[t]), size)
          /\ listOf' = [listOf EXCEPT ![t] = Tail(@)]
          /\ UNCHANGED live

ToSystem(b) == live' = Without(live, b) /\ UNCHANGED listOf

\* Slip: a block is kept whatever its size.
KeptWhateverSize(t, b) ==
  /\ lent' = Without(lent, b)
  /\ IF t \notin hasList \/ Len(listOf[t]) = MaxListCount THEN ToSystem(b)
     ELSE listOf' = [listOf EXCEPT ![t] = <<b>> \o @] /\ UNCHANGED live
  /\ UNCHANGED hasList

\* Slip: the list of a thread has no limit.
ListUnbounded(t, b) ==
  /\ lent' = Without(lent, b)
  /\ IF t \notin hasList \/ lent[b] # BlockSize THEN ToSystem(b)
     ELSE listOf' = [listOf EXCEPT ![t] = <<b>> \o @] /\ UNCHANGED live
  /\ UNCHANGED hasList

\* FreeListAllocator::deallocate, ObjectAllocator::deallocate
deallocate(t, b) ==
  /\ lent' = Without(lent, b)
  /\ IF t \notin hasList \/ lent[b] # BlockSize \/ Len(listOf[t]) = MaxListCount
     THEN ToSystem(b)
     ELSE listOf' = [listOf EXCEPT ![t] = <<b>> \o @] /\ UNCHANGED live
  /\ UNCHANGED hasList

\* Slip: the list is given back and kept for the next thread.
ListSurvivesExit(t) ==
  /\ live' = [b \in DOMAIN live \ Range(listOf[t]) |-> live[b]]
  /\ hasList' = hasList \ {t}
  /\ UNCHANGED <<lent, listOf>>

\* The thread-local list is destroyed with its thread (~FreeListAllocatorImpl).
ThreadExit(t) ==
  /\ live' = [b \in DOMAIN live \ Range(listOf[t]) |-> live[b]]
  /\ listOf' = [listOf EXCEPT ![t] = <<>>]
  /\ hasList' = hasList \ {t}
  /\ UNCHANGED lent

PoolNext ==
  \E t \in PoolThreads :
    \/ \E size \in {BlockSize - 1, BlockSize} : allocate(t, size)
    \/ \E b \in DOMAIN lent : deallocate(t, b)
    \/ ThreadExit(t)

PoolSpec == PoolInit /\ [][PoolNext]_poolVars

------------------------------------------------------------------------------
\* VectorPool on the same variables: a list starts full of new vectors and a
\* vector is cleared before it is kept.
Fill(t, n) == CHOOSE q \in Injection(1 .. n, Blocks \ DOMAIN live) : TRUE

\* thread_local VectorPoolImpl, made by the first call of a thread
MakePool(t) ==
  /\ t \notin hasList
  /\ Cardinality(Blocks \ DOMAIN live) >= MaxListCount
  /\ hasList' = hasList \cup {t}
  /\ listOf' = [listOf EXCEPT ![t] = Fill(t, MaxListCount)]
  /\ live' = [b \in DOMAIN live \cup Range(Fill(t, MaxListCount)) |->
               IF b \in DOMAIN live THEN live[b] ELSE [size |-> BlockSize, used |-> FALSE]]
  /\ UNCHANGED lent

AllocVector(t) == t \in hasList /\ allocate(t, BlockSize)

UseVector(b) ==
  /\ live' = [live EXCEPT ![b].used = TRUE]
  /\ UNCHANGED <<listOf, hasList, lent>>

\* Slip: a vector is kept with its elements.
KeptUncleared(t, b, no_cache) ==
  /\ t \in hasList
  /\ lent' = Without(lent, b)
  /\ IF no_cache \/ Len(listOf[t]) = MaxListCount THEN ToSystem(b)
     ELSE listOf' = [listOf EXCEPT ![t] = <<b>> \o @] /\ UNCHANGED live
  /\ UNCHANGED hasList

FreeVector(t, b, no_cache) ==
  /\ no_cache \/ t \in hasList
  /\ lent' = Without(lent, b)
  /\ IF no_cache \/ Len(listOf[t]) = MaxListCount THEN ToSystem(b)
     ELSE /\ listOf' = [listOf EXCEPT ![t] = <<b>> \o @]
          /\ live' = [live EXCEPT ![b].used = FALSE]
  /\ UNCHANGED hasList

VectorNext ==
  \/ \E t \in PoolThreads : MakePool(t) \/ AllocVector(t) \/ ThreadExit(t)
  \/ \E b \in DOMAIN lent : UseVector(b)
  \/ \E t \in PoolThreads, b \in DOMAIN lent, no_cache \in BOOLEAN : FreeVector(t, b, no_cache)

VectorSpec == PoolInit /\ [][VectorNext]_poolVars

------------------------------------------------------------------------------
\* Every block the system has given is with one user or once in one list: no
\* two users share one, nothing returned to the system is handed out again and
\* no exit, overflow or free by another thread loses one.
BlocksAccounted ==
  LET inList(b) == {p \in PoolThreads \X (1 .. MaxListCount + 1) :
                      p[2] <= Len(listOf[p[1]]) /\ listOf[p[1]][p[2]] = b}
  IN /\ \A b \in DOMAIN live : Cardinality(inList(b)) = IF b \in DOMAIN lent THEN 0 ELSE 1
     /\ \A t \in PoolThreads : Range(listOf[t]) \subseteq DOMAIN live
     /\ DOMAIN lent \subseteq DOMAIN live

\* A list is never longer than its limit and only a thread that has one has it.
ListsBounded ==
  \A t \in PoolThreads : Len(listOf[t]) <= MaxListCount /\ (t \notin hasList => listOf[t] = <<>>)

\* A user gets at least the bytes it asked for, also from a list that blocks of
\* other sizes were freed to.
BlockFits == \A b \in DOMAIN lent : live[b].size >= lent[b]

\* A vector in a pool is empty, so that alloc() hands out none with the elements
\* of another thread.
PooledAreEmpty == \A t \in PoolThreads : \A b \in Range(listOf[t]) : ~live[b].used

\* Whichever thread frees a block and whichever exits, a block is with one user
\* or on one list, lists keep to their limit, and what is handed out again is
\* large enough and empty.
PoolsSound == BlocksAccounted /\ ListsBounded /\ BlockFits /\ PooledAreEmpty
===============================================================================
