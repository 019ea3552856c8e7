-------------------------------- MODULE MCLocks --------------------------------
(* The cache and the thread registry for model checking of what must end under *)
(* their locks.  They share no state, so a behaviour is one of either,         *)
(* `focus', the other staying as it was built.                                 *)
EXTENDS MCSimpleCache

CONSTANTS NumSlots, Buffers, ExitSafe, Overlap, Ample, Null, Exited

VARIABLES focus,
          free, cursor, ref, notifiers, ongoing, spinner, tpc, slot, todo,
          bpc, btodo, slots, buf, exited, scan

T == INSTANCE ThreadBuffer WITH pc <- tpc, Slots <- 1 .. NumSlots

tbVars == <<free, cursor, ref, notifiers, ongoing, spinner, tpc, slot, todo,
            bpc, btodo, slots, buf, exited, scan>>

LocksInit == focus \in {"cache", "threads"} /\ Init /\ T!Init

LocksNext ==
  /\ UNCHANGED focus
  /\ \/ focus = "cache" /\ Next /\ UNCHANGED tbVars
     \/ focus = "threads" /\ T!Next /\ UNCHANGED vars

locksVars == <<focus, vars, tbVars>>

\* A thread takes the locks of the cache, or runs in the registry.
Runs(t) == \/ focus = "cache" /\ Acquire(t) /\ UNCHANGED tbVars
           \/ focus = "threads" /\ T!ThreadStep(t) /\ UNCHANGED vars

(* A thread that runs keeps running, and so do the scans, constructors and
   destructors of buffers; a lock that is free again and again is granted:
   std::mutex and folly::SharedMutex starve nobody forever.  As `focus' never
   changes, fairness to the two steps of Runs is fairness to each.            *)
LocksSpec == /\ LocksInit /\ [][LocksNext]_locksVars
             /\ \A t \in Threads : SF_locksVars(UNCHANGED focus /\ Runs(t))
             /\ \A t \in Threads : WF_locksVars(focus = "cache" /\ Work(t) /\ UNCHANGED <<focus, tbVars>>)
             /\ \A b \in Buffers : WF_locksVars(focus = "threads" /\ T!BufferStep(b) /\ UNCHANGED <<focus, vars>>)

(* ThreadBuffer's: a thread that waits for its slot gets one, and one that
   exits is let go (thread_buffer.hpp, attach and detach).                    *)
ThreadsReturn == T!ThreadsReturn
================================================================================
