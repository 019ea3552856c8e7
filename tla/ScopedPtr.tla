------------------------------- MODULE ScopedPtr ------------------------------
(* urcu_scoped_ptr (utility/urcu_helper.hpp): readers take the read lock      *)
(* before they look at m_cur_obj; update copies the object, edits the copy    *)
(* and exchanges it under m_updater_mutex, then waits for the readers and     *)
(* deletes what it replaced (make_and_exchange is in Wisr, with its user).  An *)
(* object is the sequence of the edits made to it.                            *)
EXTENDS Integers, Sequences

CONSTANTS ScopedThreads,
          MaxEdits         \* bound: objects made

VARIABLES obj,             \* m_cur_obj
          versions,        \* the objects, in the order they were made
          gone,            \* objects deleted
          updater,         \* holder of m_updater_mutex, or NoUpdater
          sc               \* thread -> its read or update

scopedVars == <<obj, versions, gone, updater, sc>>

NoUpdater == "nobody"

ASSUME UpdaterAssumption == NoUpdater \notin ScopedThreads

AtRest == [pc |-> "rest", obj |-> 0, waits |-> {}]

ScopedReading == {t \in ScopedThreads : sc[t].pc \in {"locked", "using"}}

\* read and access: rcu_read_lock, rcu_dereference, the callback, rcu_read_unlock.
Access(t) ==
  /\ sc[t].pc = "rest"
  /\ sc' = [sc EXCEPT ![t].pc = "locked"]
  /\ UNCHANGED <<obj, versions, gone, updater>>

Dereference(t) ==
  /\ sc[t].pc = "locked"
  /\ sc' = [sc EXCEPT ![t].pc = "using", ![t].obj = obj]
  /\ UNCHANGED <<obj, versions, gone, updater>>

Release(t) ==
  /\ sc[t].pc = "using"
  /\ sc' = [u \in ScopedThreads |-> IF u = t THEN AtRest
                                    ELSE [sc[u] EXCEPT !.waits = @ \ {t}]]
  /\ UNCHANGED <<obj, versions, gone, updater>>

\* Slip: the copy is taken without the mutex.
CopyUnlocked(t) ==
  /\ sc[t].pc = "rest"
  /\ sc' = [sc EXCEPT ![t].pc = "edit", ![t].obj = obj]
  /\ UNCHANGED <<obj, versions, gone, updater>>

UpdateCopy(t) ==
  /\ sc[t].pc = "rest" /\ updater = NoUpdater
  /\ updater' = t
  /\ sc' = [sc EXCEPT ![t].pc = "edit", ![t].obj = obj]
  /\ UNCHANGED <<obj, versions, gone>>

\* The edited copy is put in place of whatever is there, which is kept to delete.
UpdateExchange(t) ==
  /\ sc[t].pc = "edit" /\ Len(versions) < MaxEdits
  /\ versions' = Append(versions, Append(versions[sc[t].obj], t))
  /\ obj' = Len(versions')
  /\ updater' = NoUpdater
  /\ sc' = [sc EXCEPT ![t] = [pc |-> "sync", obj |-> obj, waits |-> ScopedReading]]
  /\ UNCHANGED gone

\* Slip: the replaced object is deleted without synchronize_rcu.
DeleteUnsynchronized(t) ==
  /\ sc[t].pc = "sync"
  /\ gone' = gone \cup {sc[t].obj}
  /\ sc' = [sc EXCEPT ![t] = AtRest]
  /\ UNCHANGED <<obj, versions, updater>>

SynchronizeDelete(t) ==
  /\ sc[t].pc = "sync" /\ sc[t].waits = {}
  /\ gone' = gone \cup {sc[t].obj}
  /\ sc' = [sc EXCEPT ![t] = AtRest]
  /\ UNCHANGED <<obj, versions, updater>>

ScopedInit ==
  /\ obj = 1 /\ versions = << <<>> >> /\ gone = {} /\ updater = NoUpdater
  /\ sc = [t \in ScopedThreads |-> AtRest]

ScopedNext ==
  \E t \in ScopedThreads :
    \/ Access(t) \/ Dereference(t) \/ Release(t)
    \/ UpdateCopy(t) \/ UpdateExchange(t) \/ SynchronizeDelete(t)

ScopedSpec == ScopedInit /\ [][ScopedNext]_scopedVars

------------------------------------------------------------------------------
\* "Take read-fence prior to accessing m_cur_obj" (urcu_helper.hpp:238): an
\* object someone reads, or an update is copying, has not been deleted.
ScopedObjectLives ==
  \A t \in ScopedThreads : sc[t].pc \in {"using", "edit"} => sc[t].obj \notin gone

\* The object in use carries the edits of all updates, in the order they were
\* exchanged: none is lost between the copy and the exchange, although the wait
\* for the readers is outside of the mutex.
EditsNotLost == Len(versions[obj]) = Len(versions) - 1

\* Readers and updates of urcu_scoped_ptr do not disturb each other: nobody reads
\* what is deleted, and no update overwrites another's.
ScopedSafe == ScopedObjectLives /\ EditsNotLost
===============================================================================
