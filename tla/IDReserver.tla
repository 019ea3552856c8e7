------------------------------ MODULE IDReserver ------------------------------
(* IDReserver (fds/id_reserver.hpp): ids are the bits of a bitset that doubles *)
(* when every one is taken.  m_mutex makes each method one step.  `held' is   *)
(* the callers' view: the ids they were given and have not handed back.       *)
EXTENDS Bitset

CONSTANTS EstimatedIds,    \* the constructor's estimated_ids
          MaxIds           \* bound: size the reserver may grow to

VARIABLES idbits,          \* m_reserved_bits
          held

idVars == <<idbits, held>>

IDInit == idbits = new_bitset(EstimatedIds) /\ held = {}

Growing(id, value) ==
  LET size == total_bits(idbits)
      free == get_next_reset_bit(idbits, 0)
  IN /\ size * 2 <= MaxIds
     /\ idbits' = IF free # npos THEN set_bit(idbits, free)
                  ELSE set_bit(resize_impl(idbits, size * 2, value), id)
     /\ held' = held \cup {IF free # npos THEN free ELSE id}
\* Slip: the id handed out after growing is the last one of the old size.
IdBeforeGrowth == Growing(total_bits(idbits) - 1, FALSE)
\* Slip: the bits the reserver grows by are set.
GrownBitsSet == Growing(total_bits(idbits), TRUE)

\* reserve()
ReserveAny ==
  LET size  == total_bits(idbits)
      free  == get_next_reset_bit(idbits, 0)
      grown == IF free = npos THEN resize_impl(idbits, size * 2, FALSE) ELSE idbits
      id    == IF free = npos THEN size ELSE free
  IN /\ total_bits(grown) <= MaxIds
     /\ idbits' = set_bit(grown, id)
     /\ held' = held \cup {id}

\* reserve(id), of an id no one holds
Reserve ==
  \E id \in 0 .. total_bits(idbits) - 1 :
    /\ ~get_bitval(idbits, id)
    /\ idbits' = set_bit(idbits, id)
    /\ held' = held \cup {id}

Unreserve ==
  \E id \in held : /\ idbits' = reset_bit(idbits, id)
                   /\ held' = held \ {id}


IDNext == ReserveAny \/ Reserve \/ Unreserve

IDSpec == IDInit /\ [][IDNext]_idVars

\* first_reserved_id and next_reserved_id until they return false
RECURSIVE IdsFrom(_)
IdsFrom(bit) ==
  LET id == get_next_set_bit(idbits, bit) IN IF id = npos THEN <<>> ELSE <<id>> \o IdsFrom(id + 1)

------------------------------------------------------------------------------
\* No id is given to two callers: reserve() returns one that is not held, also
\* when it has just doubled the bitset.
IdsAreUnique == [][Cardinality(held') = Cardinality(held) + 1
                     \/ Cardinality(held') < Cardinality(held)]_idVars

\* The bitset, and the walk with first_reserved_id/next_reserved_id, show
\* exactly the ids that are held, in increasing order, across every doubling.
ReservedAreHeld ==
  /\ {id \in 0 .. total_bits(idbits) - 1 : get_bitval(idbits, id)} = held
  /\ LET walk == IdsFrom(0)
     IN /\ {walk[i] : i \in DOMAIN walk} = held
        /\ \A i \in 2 .. Len(walk) : walk[i - 1] < walk[i]

\* An id has one holder, from reserve() to unreserve(), across every doubling of
\* the bitset, and the walk over the reserved ids shows the held ones.
IdsSound == []ReservedAreHeld /\ IdsAreUnique
===============================================================================
