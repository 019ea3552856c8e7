------------------------------ MODULE CacheSpec ------------------------------
(***************************************************************************)
(* What a cache promises its clients: a map that may forget any entry at   *)
(* any time.  Every call takes effect at one instant between its call and  *)
(* its return.  An insert that stored its value may still report failure,  *)
(* as SimpleCache::insert does when the evictor found no room for it.      *)
(***************************************************************************)
CONSTANTS Threads, Keys, Vals, Ops, None

VARIABLES
    store,   \* the value of each key, None when the cache has none
    phase,   \* "idle", "called" or "done", for each thread
    arg,     \* the pending call: operation, key, value
    res      \* the outcome of the last call: Boolean result, value read

vars == <<store, phase, arg, res>>

NoCall == [op |-> None, key |-> None, val |-> None]
NoResult == [op |-> None, ok |-> FALSE, val |-> None]

Init == /\ store = [k \in Keys |-> None]
        /\ phase = [t \in Threads |-> "idle"]
        /\ arg = [t \in Threads |-> NoCall]
        /\ res = [t \in Threads |-> NoResult]

Begin(t, o, k, v) ==
    /\ phase[t] = "idle"
    /\ phase' = [phase EXCEPT ![t] = "called"]
    /\ arg' = [arg EXCEPT ![t] =
                 [op |-> o, key |-> k,
                  val |-> IF o \in {"insert", "upsert"} THEN v ELSE None]]
    /\ UNCHANGED <<store, res>>

(* The instant at which a call takes effect.                               *)
Effect(t) ==
    /\ phase[t] = "called"
    /\ phase' = [phase EXCEPT ![t] = "done"]
    /\ arg' = [arg EXCEPT ![t] = NoCall]
    /\ LET k == arg[t].key
           present == store[k] # None
           Outcome(ok, v) == [op |-> arg[t].op, ok |-> ok, val |-> v]
       IN \/ /\ arg[t].op = "insert"
             /\ store' = [store EXCEPT ![k] = IF present THEN @ ELSE arg[t].val]
             /\ res' = [res EXCEPT ![t] = Outcome(~present, None)]
          \/ /\ arg[t].op = "upsert"
             /\ store' = [store EXCEPT ![k] = arg[t].val]
             /\ res' = [res EXCEPT ![t] = Outcome(~present, None)]
          \/ /\ arg[t].op = "get"
             /\ res' = [res EXCEPT ![t] = Outcome(present, store[k])]
             /\ UNCHANGED store
          \/ /\ arg[t].op = "remove"
             /\ store' = [store EXCEPT ![k] = None]
             /\ res' = [res EXCEPT ![t] = Outcome(present, store[k])]

(* An insert without room reports failure.                                 *)
Refuse(t) == /\ phase[t] = "done" /\ res[t].op = "insert"
             /\ res' = [res EXCEPT ![t].ok = FALSE]
             /\ UNCHANGED <<store, phase, arg>>

(* The cache forgets an entry.                                             *)
Forget(k) == /\ store[k] # None
             /\ store' = [store EXCEPT ![k] = None]
             /\ UNCHANGED <<phase, arg, res>>

End(t) == /\ phase[t] = "done"
          /\ phase' = [phase EXCEPT ![t] = "idle"]
          /\ res' = [res EXCEPT ![t] = NoResult]
          /\ UNCHANGED <<store, arg>>

Next == \/ \E t \in Threads :
               \/ \E o \in Ops, k \in Keys, v \in Vals : Begin(t, o, k, v)
               \/ Effect(t) \/ Refuse(t) \/ End(t)
        \/ \E k \in Keys : Forget(k)

Spec == Init /\ [][Next]_vars

=============================================================================
