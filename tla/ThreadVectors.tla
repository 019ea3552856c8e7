---------------------------- MODULE ThreadVectors -----------------------------
(* ThreadVector (fds/thread_vector.hpp) and ConcurrentInsertVector            *)
(* (fds/concurrent_insert_vector.hpp): threads append to vectors of their own *)
(* and one reader walks them all.  ThreadVector lets the reader take the      *)
(* vectors over at any time, a step Wisr shows to be atomic to appends;       *)
(* ConcurrentInsertVector leaves them in place and is read when the appends   *)
(* have stopped.                                                              *)
EXTENDS Integers, Sequences, SequencesExt, FiniteSets

CONSTANTS Appenders,
          MaxItems,        \* bound: items appended in all
          MaxBegins        \* bound: walks

VARIABLES mine,            \* thread -> the vector it appends to
          over,            \* m_per_thread_vec_ptrs, per_thread_vec_ptrs_
          pos,             \* the iterator: [thread, idx], or NoWalk
          seen,            \* items the walk has returned
          due,             \* items the walk has to return
          begins,          \* walks started
          ended,           \* threads that have ended, their vectors kept
          inPlace          \* a ConcurrentInsertVector, not a ThreadVector

tvVars == <<mine, over, pos, seen, due, begins, ended, inPlace>>

NoWalk == [thread |-> 0, idx |-> 0]
Items(vectors) == FlattenSeq(vectors)
Appended == UNION {Range(mine[t]) : t \in Appenders} \cup Range(Items(over))
Fresh == Cardinality(Appended) + Cardinality(due \ Appended) + 1

TVInit ==
  /\ inPlace \in BOOLEAN
  /\ mine = [t \in Appenders |-> <<>>]
  /\ over = <<>>
  /\ pos = NoWalk
  /\ seen = <<>>
  /\ due = {}
  /\ begins = 0
  /\ ended = {}

push_back(t) ==
  /\ t \notin ended
  /\ Fresh <= MaxItems
  /\ mine' = [mine EXCEPT ![t] = Append(@, Fresh)]
  /\ UNCHANGED <<over, pos, seen, due, begins, ended>>

\* The buffers outlive their threads (ExitSafeThreadBuffer).
AppenderExits(t) ==
  /\ t \notin ended
  /\ ended' = ended \cup {t}
  /\ UNCHANGED <<mine, over, pos, seen, due, begins>>

\* Slip: the vectors are taken over and stay with their threads.
NotReset(latest) ==
  /\ begins < MaxBegins
  /\ over' = IF latest THEN over \o SetToSeq({mine[t] : t \in Appenders} \ {<<>>}) ELSE over
  /\ due' = Appended
  /\ pos' = [thread |-> 1, idx |-> 1]
  /\ seen' = <<>>
  /\ begins' = begins + 1
  /\ UNCHANGED <<mine, ended>>

\* begin(latest): get_unmerged_and_reset and the vectors of former calls
begin(latest) ==
  /\ begins < MaxBegins
  /\ over' = IF latest THEN over \o SetToSeq({mine[t] : t \in Appenders} \ {<<>>}) ELSE over
  /\ mine' = IF latest THEN [t \in Appenders |-> <<>>] ELSE mine
  /\ due' = Appended \ (IF latest THEN {} ELSE UNION {Range(mine[t]) : t \in Appenders})
  /\ pos' = [thread |-> 1, idx |-> 1]
  /\ seen' = <<>>
  /\ begins' = begins + 1
  /\ UNCHANGED ended

\* Slip: the walk goes on in the next vector where it stopped in this one.
IndexKept ==
  /\ pos # NoWalk
  /\ LET left == {i \in pos.thread .. Len(over) : pos.idx <= Len(over[i])}
         at   == IF left = {} THEN 0 ELSE CHOOSE i \in left : \A j \in left : i <= j
     IN IF at = 0 THEN pos' = NoWalk /\ UNCHANGED seen
        ELSE /\ seen' = Append(seen, over[at][pos.idx])
             /\ pos' = [thread |-> at, idx |-> pos.idx + 1]
  /\ UNCHANGED <<mine, over, due, begins, ended>>

\* next(it): the loop skips the vectors that are used up.
next ==
  /\ pos # NoWalk
  /\ LET Index(i) == IF i = pos.thread THEN pos.idx ELSE 1
         left == {i \in pos.thread .. Len(over) : Index(i) <= Len(over[i])}
         at   == IF left = {} THEN 0 ELSE CHOOSE i \in left : \A j \in left : i <= j
     IN IF at = 0 THEN pos' = NoWalk /\ UNCHANGED seen
        ELSE /\ seen' = Append(seen, over[at][Index(at)])
             /\ pos' = [thread |-> at, idx |-> Index(at) + 1]
  /\ UNCHANGED <<mine, over, due, begins, ended>>

\* clear(), between walks
clear ==
  /\ pos = NoWalk
  /\ mine' = [t \in Appenders |-> <<>>]
  /\ over' = <<>>
  /\ seen' = <<>>
  /\ due' = {}
  /\ UNCHANGED <<pos, begins, ended>>

ThreadVectorNext == \/ \E t \in Appenders : push_back(t) \/ AppenderExits(t)
                    \/ \E latest \in BOOLEAN : begin(latest)
                    \/ next
                    \/ clear

------------------------------------------------------------------------------
\* ConcurrentInsertVector on the same variables: begin() collects pointers to
\* the vectors, which stay where they are; operator++ moves on when the end of
\* one is reached.
begin_all ==
  /\ begins = 0
  /\ over' = SetToSeq({mine[t] : t \in Appenders} \ {<<>>})
  /\ due' = UNION {Range(mine[t]) : t \in Appenders}
  /\ pos' = [thread |-> 1, idx |-> 1]
  /\ seen' = <<>>
  /\ begins' = 1
  /\ UNCHANGED <<mine, ended>>

increment ==
  /\ pos # NoWalk
  /\ IF pos.thread > Len(over) THEN pos' = NoWalk /\ UNCHANGED seen
     ELSE /\ seen' = Append(seen, over[pos.thread][pos.idx])
          /\ pos' = IF pos.idx + 1 > Len(over[pos.thread])
                    THEN [thread |-> pos.thread + 1, idx |-> 1]
                    ELSE [pos EXCEPT !.idx = @ + 1]
  /\ UNCHANGED <<mine, over, due, begins, ended>>

\* push_back, emplace_back
insert_back(t) == begins = 0 /\ push_back(t)

ConcurrentInsertNext == \/ \E t \in Appenders : insert_back(t) \/ (begins = 0 /\ AppenderExits(t))
                        \/ begin_all
                        \/ increment

TVNext == /\ UNCHANGED inPlace
          /\ \/ ~inPlace /\ ThreadVectorNext
             \/ inPlace /\ ConcurrentInsertNext

\* size(): the vectors taken over, for a ThreadVector, and those of the threads
size ==
  (IF inPlace THEN 0 ELSE Len(Items(over))) + Len(Items(SetToSeq({mine[t] : t \in Appenders})))

------------------------------------------------------------------------------
\* A walk returns every item appended before it began exactly once, and nothing
\* else, whatever is appended meanwhile, whoever has exited and however often
\* the reader has begun before.
WalkIsExact ==
  pos = NoWalk =>
    /\ Range(seen) = due
    /\ Len(seen) = Cardinality(due)

\* size() counts every item appended since the last clear() once, in whichever
\* of the vectors a walk has left it.
SizeIsExact == size = Cardinality(Appended)

\* Walks that begin again, appends that go on and threads that exit neither
\* hide an item from a walk, nor show it twice, nor change the count.
WalksSound == WalkIsExact /\ SizeIsExact
===============================================================================
