----------------------------- MODULE RangeHashMap -----------------------------
(* RangeHashMap (cache/range_hashmap.hpp): values for ranges of offsets under *)
(* a base key, kept in nodes of NodeSpan offsets, a node being a sorted       *)
(* vector of disjoint ranges that inserts and erases split, shrink and        *)
(* remove.  All nodes are in one bucket.  A call works through the nodes of   *)
(* its range one by one, each under the bucket's lock, so a call of another   *)
(* client may come in between.  The value of a range is one item per offset,  *)
(* and an item is the pair of the offset and the version it was inserted for. *)
EXTENDS Integers, Sequences, SequencesExt

CONSTANTS Keys,            \* base keys, natural numbers
          NodeSpan,        \* max_n_per_node
          MaxNth,          \* bound: highest offset
          Versions,        \* values a caller may store
          Clients          \* threads

VARIABLES list,            \* HashBucket::m_list: Seq of [key, nth, values]
          ledger,          \* items the access callback has been told of
          task,            \* Clients -> the call a client is inside of
          shadow           \* [Keys \X offsets -> what was last stored there]

rangeVars == <<list, ledger, task, shadow>>

NoTask == [op |-> "none", key |-> 0, from |-> 0, to |-> -1, version |-> 0]
Absent == -1
Nths == 0 .. MaxNth

extract_value(val, nth, count) == SubSeq(val, nth + 1, nth + count)
entry_count(e) == e.last - e.first + 1

compare_range(e, offset) ==
  IF e.first <= offset /\ offset <= e.last THEN 0 ELSE IF offset < e.first THEN -1 ELSE 1

\* The index of the entry that covers offset, or of the first one above it.
\* start and end are C++ indexes: entry i of the vector is values[i + 1].
RECURSIVE BinarySearch(_, _, _, _)
BinarySearch(values, start, end, offset) ==
  LET mid == start + (end - start) \div 2
      x   == compare_range(values[mid + 1], offset)
  IN CASE end - start <= 1 -> [idx |-> end, found |-> FALSE]
       [] end - start > 1 /\ x = 0 -> [idx |-> mid, found |-> TRUE]
       [] end - start > 1 /\ x > 0 -> BinarySearch(values, mid, end, offset)
       [] OTHER -> BinarySearch(values, start, mid, offset)

search(values, offset) == BinarySearch(values, -1, Len(values), offset)

\* Slip: the right part of a cut entry keeps the values of its left part.
RightPartFromLeft(e, left) ==
  [first |-> left, last |-> e.last, val |-> extract_value(e.val, 0, e.last - left + 1)]

\* move_left_to and move_right_to: keep the part left or right of a cut.
move_left_to(e, right) ==
  [first |-> e.first, last |-> right, val |-> extract_value(e.val, 0, right - e.first + 1)]
move_right_to(e, left) ==
  [first |-> left, last |-> e.last,
   val |-> extract_value(e.val, left - e.first, e.last - left + 1)]

\* What insert and erase do to make room for [first, last], as the steps of an
\* edit: the vector v, the indexes l and r of the searches, whether the entries
\* there reach beyond the range, and the items the callbacks have been told of
\* (CREATE adds, RESIZE and DELETE subtract).
Found(values, lf, rf, first, last) ==
  [v |-> values, l |-> lf.idx, r |-> rf.idx, told |-> 0,
   left  |-> lf.found /\ first > values[lf.idx + 1].first,
   right |-> rf.found /\ last < values[rf.idx + 1].last]

\* An entry that reaches beyond both ends is split, ...
Split(ed, first) ==
  IF ed.left /\ ed.right /\ ed.l = ed.r
  THEN [ed EXCEPT !.v = InsertAt(@, ed.l + 1, move_left_to(@[ed.l + 1], first - 1)),
                  !.told = @ + first - ed.v[ed.l + 1].first,
                  !.l = @ + 1, !.r = @ + 1, !.left = FALSE]
  ELSE ed

\* ... one that overlaps an end is shrunk, ...
ShrinkLeft(ed, first) ==
  IF ed.left
  THEN [ed EXCEPT !.v[ed.l + 1] = move_left_to(@, first - 1),
                  !.told = @ - (ed.v[ed.l + 1].last - first + 1),
                  !.l = @ + 1]
  ELSE ed
ShrinkRight(ed, last) ==
  IF ed.right
  THEN [ed EXCEPT !.v[ed.r + 1] = move_right_to(@, last + 1),
                  !.told = @ - (last + 1 - ed.v[ed.r + 1].first)]
  ELSE [ed EXCEPT !.r = IF @ + 1 < Len(ed.v) THEN @ + 1 ELSE Len(ed.v)]

\* ... and the entries in between are removed.
EraseBetween(ed) ==
  IF ed.r > ed.l
  THEN [ed EXCEPT !.v = SubSeq(@, 1, ed.l) \o SubSeq(@, ed.r + 1, Len(@)),
                  !.told = FoldSeq(LAMBDA e, n : n - entry_count(e), @, SubSeq(ed.v, ed.l + 1, ed.r))]
  ELSE ed

MakeRoom(values, first, last) ==
  EraseBetween(ShrinkRight(ShrinkLeft(Split(
    Found(values, search(values, first), search(values, last), first, last), first), first), last))

\* Slip: the new entry goes to the end of the vector.
PutLast(ed, e) ==
  [ed EXCEPT !.v = Append(@, e), !.told = @ + entry_count(e)]

\* Slip: the new entry is accounted for without its last offset.
ToldOneShort(ed, e) ==
  [ed EXCEPT !.v = InsertAt(@, ed.l + 1, e), !.told = @ + entry_count(e) - 1]

\* insert puts the new entry where the room is.
Put(ed, e) ==
  [ed EXCEPT !.v = InsertAt(@, ed.l + 1, e), !.told = @ + entry_count(e)]

node_insert(values, first, last, val) ==
  Put(MakeRoom(values, first, last), [first |-> first, last |-> last, val |-> val])

\* MultiEntryHashNode::get: the parts of the entries that [first, last] covers.
RECURSIVE Matches(_, _, _, _)
Matches(values, idx, first, last) ==
  IF idx >= Len(values) \/ last < values[idx + 1].first THEN <<>>
  ELSE LET e  == values[idx + 1]
           lo == IF e.first > first THEN e.first ELSE first
           hi == IF e.last < last THEN e.last ELSE last
       IN <<[first |-> lo, last |-> hi, val |-> extract_value(e.val, lo - e.first, hi - lo + 1)]>>
          \o Matches(values, idx + 1, (e.last + 1) % NodeSpan, last)

node_get(values, first, last) == Matches(values, search(values, first).idx, first, last)

------------------------------------------------------------------------------
rounded_nth(nth) == nth - (nth % NodeSpan)

\* HashBucket: the list is kept in descending order of (key, nth); the walk
\* stops at the node or where it would have to be.
Stops(i, key, nth) ==
  \/ key > list[i].key
  \/ key = list[i].key /\ nth >= list[i].nth
StopAt(key, nth) ==
  IF \E i \in DOMAIN list : Stops(i, key, nth)
  THEN CHOOSE i \in DOMAIN list : Stops(i, key, nth) /\ \A j \in 1 .. i - 1 : ~Stops(j, key, nth)
  ELSE Len(list) + 1
NodeFound(key, nth) ==
  LET i == StopAt(key, nth) IN i <= Len(list) /\ list[i].key = key /\ list[i].nth = nth

\* The part of a call's range that lies in the node it has come to.
NodeEnd(tk) ==
  LET end == rounded_nth(tk.from) + NodeSpan - 1 IN IF tk.to < end THEN tk.to ELSE end

Advance(c) ==
  LET next == NodeEnd(task[c]) + 1
  IN task' = [task EXCEPT ![c] = IF next > task[c].to THEN NoTask ELSE [@ EXCEPT !.from = next]]

Stored(c, v) ==
  shadow' = [p \in DOMAIN shadow |->
              IF p[1] = task[c].key /\ p[2] \in task[c].from .. NodeEnd(task[c]) THEN v ELSE shadow[p]]

\* The node at position `at' and the callbacks' account after an edit of it.
Edited(nodes, at, ed) ==
  /\ list' = IF ed.v = <<>> THEN RemoveAt(nodes, at) ELSE [nodes EXCEPT ![at].values = ed.v]
  /\ ledger' = ledger + ed.told

WithNode(key, nth, at) ==
  IF NodeFound(key, nth) THEN list
  ELSE InsertAt(list, at, [key |-> key, nth |-> nth, values |-> <<>>])

InsertInto(nodes, at, first, last, val) ==
  Edited(nodes, at, node_insert(nodes[at].values, first, last, val))

bucket_insert(c) ==
  LET tk  == task[c]
      nth == rounded_nth(tk.from)
      at  == StopAt(tk.key, nth)
      val == [k \in 1 .. NodeEnd(tk) - tk.from + 1 |-> <<tk.from + k - 1, tk.version>>]
  IN /\ tk.op = "insert"
     /\ InsertInto(WithNode(tk.key, nth, at), at, tk.from - nth, NodeEnd(tk) - nth, val)
     /\ Stored(c, tk.version)
     /\ Advance(c)

bucket_erase(c) ==
  LET tk  == task[c]
      nth == rounded_nth(tk.from)
      at  == StopAt(tk.key, nth)
  IN /\ tk.op = "erase"
     /\ IF NodeFound(tk.key, nth)
        THEN Edited(list, at, MakeRoom(list[at].values, tk.from - nth, NodeEnd(tk) - nth))
        ELSE UNCHANGED <<list, ledger>>
     /\ Stored(c, Absent)
     /\ Advance(c)

\* RangeHashMap::insert and erase are called with a range of offsets.
Call(c) ==
  /\ task[c] = NoTask
  /\ \E op \in {"insert", "erase"}, key \in Keys, from \in Nths, version \in Versions :
       \E to \in from .. MaxNth :
         task' = [task EXCEPT ![c] = [op |-> op, key |-> key, from |-> from, to |-> to,
                                      version |-> IF op = "insert" THEN version ELSE 0]]
  /\ UNCHANGED <<list, ledger, shadow>>

RangeInit ==
  /\ list = <<>>
  /\ ledger = 0
  /\ task = [c \in Clients |-> NoTask]
  /\ shadow = [p \in Keys \X Nths |-> Absent]

RangeNext == \E c \in Clients : Call(c) \/ bucket_insert(c) \/ bucket_erase(c)

RangeSpec == RangeInit /\ [][RangeNext]_rangeVars

------------------------------------------------------------------------------
\* The ranges of a node stay sorted, disjoint, inside the node and as long as
\* their values, and no node is empty or in the list twice: binary_search and
\* the walk of the bucket rest on it.
NodesWellFormed ==
  /\ \A i \in DOMAIN list :
       LET vs == list[i].values
       IN /\ vs # <<>>
          /\ \A k \in DOMAIN vs : /\ 0 <= vs[k].first /\ vs[k].first <= vs[k].last
                                  /\ vs[k].last < NodeSpan
                                  /\ Len(vs[k].val) = entry_count(vs[k])
          /\ \A k \in 2 .. Len(vs) : vs[k - 1].last < vs[k].first
  /\ \A i \in 2 .. Len(list) :
       \/ list[i - 1].key > list[i].key
       \/ list[i - 1].key = list[i].key /\ list[i - 1].nth > list[i].nth

\* What get() returns for a range lies inside it and, offset by offset, is the
\* item last inserted there: no split or shrink hands out a neighbour's value,
\* an older one or one that was erased.
GetIsSound ==
  \A i \in DOMAIN list : \A first \in 0 .. NodeSpan - 1 : \A last \in first .. NodeSpan - 1 :
    LET got == node_get(list[i].values, first, last)
    IN \A k \in DOMAIN got :
         /\ first <= got[k].first /\ got[k].last <= last
         /\ \A o \in got[k].first .. got[k].last :
              LET item == got[k].val[o - got[k].first + 1]
                  nth  == list[i].nth + o
              IN item = <<nth, shadow[<<list[i].key, nth>>]>>

\* The CREATE, RESIZE and DELETE callbacks add up: what a cache that charges its
\* evictor by them has charged is what the nodes hold.
LedgerMatches ==
  ledger = FoldSeq(LAMBDA n, s : s + FoldSeq(LAMBDA e, k : k + entry_count(e), 0, n.values), 0, list)

\* Splitting, cutting and dropping ranges keeps every node sorted and disjoint,
\* hands out what was last stored, and tells the callbacks of the same amounts.
RangesSound == NodesWellFormed /\ GetIsSound /\ LedgerMatches
===============================================================================
