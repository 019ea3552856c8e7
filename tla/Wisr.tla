--------------------------------- MODULE Wisr ---------------------------------
(***************************************************************************)
(* sisl::wisr_framework: writers append to an object of their own under the *)
(* RCU read lock; a collector swaps all these objects for empty ones, waits *)
(* for a grace period and merges what it took into m_base_obj.  The objects *)
(* live in a ThreadBuffer, so threads may start and exit meanwhile.         *)
(*                                                                          *)
(* An object is the sequence of the items in it.  A writer that exits and    *)
(* comes back is a new thread with a new object.                            *)
(***************************************************************************)
EXTENDS Integers, Sequences, FiniteSets, FiniteSetsExt, Lists

CONSTANTS
    Writers,
    Collectors,
    Ops,        \* the operations each collector calls
    MaxItems,   \* bound: items ever written
    MaxLives,   \* bound: times a writer starts
    None

ASSUME BoundsAssumption == MaxItems \in Nat /\ MaxLives \in Nat

Operations == {"now", "delayed", "copy", "unmerged", "reset", "foreach"}

ASSUME OpsAssumption ==
    /\ Ops \in [Collectors -> SUBSET Operations]
    /\ None \notin Operations \cup Writers \cup {"cur", "old", "gone"}

Items == Writers \X (1 .. MaxLives) \X (1 .. MaxItems)

VARIABLES
    wpc,    \* of a writer: "out", "idle", "locked", "open" or "done"
    life,   \* the times it has started
    count,  \* the items it has written
    ptr,    \* what its insert refers to: None, its "cur" object, an "old" one
            \* that is swapped out, or a "gone" one that is deleted or handed out
    cur,    \* its object, m_cur_obj of its urcu_scoped_ptr
    exited, \* m_exited_buffers, in order
    cpc,    \* of a collector
    op,     \* the operation it is in
    todo,   \* the slots access_all_threads has still to visit
    at,     \* the one whose object foreach_thread_member looks into
    old,    \* old_ptrs, in order
    grace,  \* the readers synchronize_rcu waits for
    base,   \* *m_base_obj
    taken,  \* what was handed out, in order
    due     \* what was written when the collection began

vars == <<wpc, life, count, ptr, cur, exited, cpc, op, todo, at, old, grace, base, taken, due>>
writer == <<wpc, life, count, ptr>>

Init == /\ wpc = [w \in Writers |-> "out"]
        /\ life = [w \in Writers |-> 0]
        /\ count = [w \in Writers |-> 0]
        /\ ptr = [w \in Writers |-> None]
        /\ cur = [w \in Writers |-> <<>>]
        /\ exited = <<>>
        /\ cpc = [c \in Collectors |-> "idle"]
        /\ op = [c \in Collectors |-> None]
        /\ todo = {}
        /\ at = None
        /\ old = <<>>
        /\ grace = {}
        /\ base = <<>>
        /\ taken = <<>>
        /\ due = {}

(* What a call of now() that has returned lets the caller look at goes with the
   states "reading"; the others hold m_rotate_mutex.                       *)
Rotating == \E c \in Collectors : cpc[c] \notin {"idle", "reading"}

(* access_all_threads has m_expand_mutex while it visits the slots.        *)
Visiting == \E c \in Collectors : cpc[c] \in {"visiting", "looking"}

Running == {w \in Writers : wpc[w] # "out"}

-----------------------------------------------------------------------------
(* Writers.                                                                *)

(* on_thread_state_change(ATTACHED).                                       *)
Start(w) ==
    /\ wpc[w] = "out" /\ life[w] < MaxLives /\ ~Visiting
    /\ wpc' = [wpc EXCEPT ![w] = "idle"]
    /\ life' = [life EXCEPT ![w] = @ + 1]
    /\ cur' = [cur EXCEPT ![w] = <<>>]
    /\ UNCHANGED <<count, ptr, exited, cpc, op, todo, at, old, grace, base, taken, due>>

(* Slip: an exiting thread takes its object with it.                       *)
Dropped(w) == exited

(* on_thread_state_change(DETACHED) of a buffer that is exit safe.         *)
Retained(w) == Append(exited, cur[w])

Exit(w) ==
    /\ wpc[w] = "idle" /\ ~Visiting
    /\ wpc' = [wpc EXCEPT ![w] = "out"]
    /\ exited' = Retained(w)
    /\ cur' = [cur EXCEPT ![w] = <<>>]
    /\ UNCHANGED <<life, count, ptr, cpc, op, todo, at, old, grace, base, taken, due>>

Written == MapThenSumSet(LAMBDA w : count[w], Writers)

(* insertable and insert_access: rcu_read_lock, ...                        *)
ReadLock(w) ==
    /\ wpc[w] = "idle"
    /\ wpc' = [wpc EXCEPT ![w] = "locked"]
    /\ UNCHANGED <<life, count, ptr, cur, exited, cpc, op, todo, at, old, grace, base, taken, due>>

(* ... rcu_dereference, ...                                                *)
Dereference(w) ==
    /\ wpc[w] = "locked"
    /\ wpc' = [wpc EXCEPT ![w] = "open"]
    /\ ptr' = [ptr EXCEPT ![w] = "cur"]
    /\ UNCHANGED <<life, count, cur, exited, cpc, op, todo, at, old, grace, base, taken, due>>

(* The place of the writer's object in old_ptrs: the last one of this life. *)
OldOf(w) == CHOOSE i \in 1 .. Len(old) : old[i].by = <<w, life[w]>>

(* ... the callback, on whatever object the pointer refers to, ...         *)
Push(w) ==
    /\ wpc[w] = "open" /\ Written < MaxItems
    /\ wpc' = [wpc EXCEPT ![w] = "done"]
    /\ count' = [count EXCEPT ![w] = @ + 1]
    /\ LET item == <<w, life[w], count[w] + 1>>
       IN \/ /\ ptr[w] = "cur"
             /\ cur' = [cur EXCEPT ![w] = Append(@, item)]
             /\ UNCHANGED old
          \/ /\ ptr[w] = "old"
             /\ old' = [old EXCEPT ![OldOf(w)].items = Append(@, item)]
             /\ UNCHANGED cur
          \/ /\ ptr[w] = "gone"
             /\ UNCHANGED <<cur, old>>
    /\ UNCHANGED <<life, ptr, exited, cpc, op, todo, at, grace, base, taken, due>>

(* The caller of insert_access need not insert anything.                   *)
Leave(w) ==
    /\ wpc[w] = "open"
    /\ wpc' = [wpc EXCEPT ![w] = "done"]
    /\ UNCHANGED <<life, count, ptr, cur, exited, cpc, op, todo, at, old, grace, base, taken, due>>

(* Slip: the read lock is not given back.                                  *)
StillReading(w) == grace

(* ~_urcu_access_ptr: a grace period no longer waits for this reader.      *)
rcu_read_unlock(w) == grace \ {w}

(* ... and rcu_read_unlock.                                                *)
ReadUnlock(w) ==
    /\ wpc[w] = "done"
    /\ wpc' = [wpc EXCEPT ![w] = "idle"]
    /\ ptr' = [ptr EXCEPT ![w] = None]
    /\ grace' = rcu_read_unlock(w)
    /\ UNCHANGED <<life, count, cur, exited, cpc, op, todo, at, old, base, taken, due>>

-----------------------------------------------------------------------------
(* Collectors.                                                             *)

(* now, get_copy_and_reset, get_unmerged_and_reset, reset and
   foreach_thread_member take m_rotate_mutex and visit the threads.        *)
Begin(c) ==
    /\ cpc[c] = "idle" /\ ~Rotating
    /\ \E o \in Ops[c] \ {"delayed"} :
          /\ op' = [op EXCEPT ![c] = o]
          /\ cpc' = [cpc EXCEPT ![c] = "visiting"]
    /\ todo' = Running
    /\ due' = UNION {Range(s) : s \in {cur[w] : w \in Writers} \cup Range(exited)}
    /\ UNCHANGED <<writer, cur, exited, at, old, grace, base, taken>>

(* delayed only hands out the pointer.                                     *)
Delayed(c) ==
    /\ cpc[c] = "idle" /\ ~Rotating /\ "delayed" \in Ops[c]
    /\ op' = [op EXCEPT ![c] = "delayed"]
    /\ cpc' = [cpc EXCEPT ![c] = "reading"]
    /\ UNCHANGED <<writer, cur, exited, todo, at, old, grace, base, taken, due>>

(* What becomes of the object that a writer is in, when it is swapped out. *)
Swapped(w, place) == IF ptr[w] = "cur" THEN [ptr EXCEPT ![w] = place] ELSE ptr

(* Slip: the object is copied, and stays in the slot.                      *)
Copied(w) == cur

(* Slip: the pointer is taken, and nothing is put in its place.            *)
Emptied(w) == [cur EXCEPT ![w] = None]

(* rcu_xchg_pointer of a new object.                                       *)
Exchanged(w) == [cur EXCEPT ![w] = <<>>]

(* The callback of reset deletes the object at once, ...                   *)
DeletesAtOnce(c) == op[c] = "reset"

(* ... the one of _rotate_all_thread_bufs keeps it for after the grace period. *)
Exchange(c, w) ==
    /\ cpc[c] = "visiting" /\ w \in todo /\ op[c] # "foreach"
    /\ todo' = todo \ {w}
    /\ cur' = Exchanged(w)
    /\ old' = IF DeletesAtOnce(c) THEN old
              ELSE Append(old, [by |-> <<w, life[w]>>, items |-> cur[w]])
    /\ ptr' = Swapped(w, IF DeletesAtOnce(c) THEN "gone" ELSE "old")
    /\ UNCHANGED <<wpc, life, count, exited, cpc, op, at, grace, base, taken, due>>

(* The callback of foreach_thread_member looks into the object for a while. *)
Look(c, w) ==
    /\ cpc[c] = "visiting" /\ w \in todo
    /\ op[c] = "foreach"
    /\ todo' = todo \ {w}
    /\ at' = w
    /\ cpc' = [cpc EXCEPT ![c] = "looking"]
    /\ UNCHANGED <<writer, cur, exited, op, old, grace, base, taken, due>>

LookedAt(c) ==
    /\ cpc[c] = "looking"
    /\ at' = None
    /\ cpc' = [cpc EXCEPT ![c] = "visiting"]
    /\ UNCHANGED <<writer, cur, exited, op, todo, old, grace, base, taken, due>>

(* The end of the slots: m_expand_mutex is free for a moment.              *)
EndSlots(c) ==
    /\ cpc[c] = "visiting" /\ todo = {}
    /\ cpc' = [cpc EXCEPT ![c] = "exited"]
    /\ UNCHANGED <<writer, cur, exited, op, todo, at, old, grace, base, taken, due>>

(* Slip: only the slots are visited.                                       *)
NotVisited == old

(* The objects of the threads that have exited, the last one first.        *)
WithExited ==
    old \o [i \in 1 .. Len(exited) |->
               [by |-> None, items |-> exited[Len(exited) + 1 - i]]]

VisitExited(c) ==
    /\ cpc[c] = "exited"
    /\ CASE op[c] \in {"now", "copy", "unmerged"} ->
               /\ old' = WithExited
               /\ exited' = <<>>
               /\ cpc' = [cpc EXCEPT ![c] = "grace"]
         [] op[c] = "reset" ->
               /\ exited' = <<>>
               /\ cpc' = [cpc EXCEPT ![c] = "idle"]
               /\ UNCHANGED old
         [] op[c] = "foreach" ->
               /\ cpc' = [cpc EXCEPT ![c] = "idle"]
               /\ UNCHANGED <<old, exited>>
    /\ op' = [op EXCEPT ![c] = IF cpc'[c] = "idle" THEN None ELSE @]
    /\ UNCHANGED <<writer, cur, todo, at, grace, base, taken, due>>

(* Slip: no grace period.                                                  *)
NoReaders == {}

(* synchronize_rcu waits for the threads in a read section when it is called. *)
Readers == {w \in Writers : wpc[w] \in {"locked", "open", "done"}}

Synchronize(c) ==
    /\ cpc[c] = "grace"
    /\ grace' = Readers
    /\ cpc' = [cpc EXCEPT ![c] = "waiting"]
    /\ UNCHANGED <<writer, cur, exited, op, todo, at, old, base, taken, due>>

Synchronized(c) ==
    /\ cpc[c] = "waiting" /\ grace = {}
    /\ cpc' = [cpc EXCEPT ![c] = "merging"]
    /\ UNCHANGED <<writer, cur, exited, op, todo, at, old, grace, base, taken, due>>

(* Slip: DS::merge puts the new items before the ones it has.              *)
MergedBefore(s) == Flatten([i \in 1 .. Len(s) |-> s[i].items]) \o base

(* DS::merge of one object after the other.                                *)
Merged(s) == base \o Flatten([i \in 1 .. Len(s) |-> s[i].items])

(* What get_unmerged_and_reset hands out.                                  *)
Unmerged(s) == Flatten([i \in 1 .. Len(s) |-> s[i].items])

(* Slip: what was rotated is always merged.                                *)
merge_always(o) == TRUE

(* The argument of _rotate_all_thread_bufs.                                *)
do_merge(o) == o # "unmerged"

(* The rest of _rotate_all_thread_bufs and of the operation that called it. *)
Finish(c) ==
    /\ cpc[c] = "merging"
    /\ base' = IF op[c] = "copy" THEN <<>>
               ELSE IF do_merge(op[c]) THEN Merged(old) ELSE base
    /\ taken' = CASE op[c] = "now" -> taken
                  [] op[c] = "copy" -> taken \o Merged(old)
                  [] op[c] = "unmerged" -> taken \o Unmerged(old)
    /\ old' = <<>>
    /\ ptr' = [w \in Writers |-> IF ptr[w] = "old" THEN "gone" ELSE ptr[w]]
    /\ cpc' = [cpc EXCEPT ![c] = "returned"]
    /\ UNCHANGED <<wpc, life, count, cur, exited, op, todo, at, grace, due>>

Return(c) ==
    /\ cpc[c] = "returned"
    /\ cpc' = [cpc EXCEPT ![c] = IF op[c] = "now" THEN "reading" ELSE "idle"]
    /\ op' = [op EXCEPT ![c] = IF op[c] = "now" THEN @ ELSE None]
    /\ UNCHANGED <<writer, cur, exited, todo, at, old, grace, base, taken, due>>

(* The caller is through with the object it got a pointer to.              *)
Forget(c) ==
    /\ cpc[c] = "reading"
    /\ cpc' = [cpc EXCEPT ![c] = "idle"]
    /\ op' = [op EXCEPT ![c] = None]
    /\ UNCHANGED <<writer, cur, exited, todo, at, old, grace, base, taken, due>>

-----------------------------------------------------------------------------

Inside(w) == Dereference(w) \/ Push(w) \/ Leave(w) \/ ReadUnlock(w)

Collect(c) == \/ \E w \in Writers : Exchange(c, w) \/ Look(c, w)
              \/ LookedAt(c) \/ EndSlots(c) \/ VisitExited(c)
              \/ Synchronize(c) \/ Synchronized(c) \/ Finish(c) \/ Return(c)

Next == \/ \E w \in Writers : Start(w) \/ Exit(w) \/ ReadLock(w) \/ Inside(w)
        \/ \E c \in Collectors : Begin(c) \/ Delayed(c) \/ Collect(c) \/ Forget(c)

Spec == Init /\ [][Next]_vars

(* A read section ends, and a collection goes on when it can.              *)
WisrFairness == /\ \A w \in Writers : WF_vars(Inside(w))
                /\ \A c \in Collectors : WF_vars(Collect(c))

-----------------------------------------------------------------------------

TypeOK == /\ wpc \in [Writers -> {"out", "idle", "locked", "open", "done"}]
          /\ life \in [Writers -> 0 .. MaxLives]
          /\ count \in [Writers -> 0 .. MaxItems]
          /\ ptr \in [Writers -> {None, "cur", "old", "gone"}]
          /\ cur \in [Writers -> Seq(Items)]
          /\ exited \in Seq(Seq(Items))
          /\ cpc \in [Collectors -> {"idle", "visiting", "looking", "exited", "grace",
                                     "waiting", "merging", "returned", "reading"}]
          /\ op \in [Collectors -> Operations \cup {None}]
          /\ todo \subseteq Writers
          /\ at \in Writers \cup {None}
          /\ \A i \in DOMAIN old : old[i].items \in Seq(Items)
          /\ grace \subseteq Writers
          /\ base \in Seq(Items)
          /\ taken \in Seq(Items)
          /\ due \subseteq Items

(* An insert never touches an object that is deleted or handed out, and no object
   is merged while its writer may still append to it: the grace period of
   _rotate_all_thread_bufs is enough.                                      *)
NoUseAfterFree ==
    \A w \in Writers :
        /\ ptr[w] # "gone"
        /\ (\E c \in Collectors : cpc[c] = "merging") => ptr[w] # "old"

WriterOrder == CHOOSE q \in Bijection(1 .. Cardinality(Writers), Writers) : TRUE

(* Whatever was inserted is in exactly one place: waiting with its thread, left by
   an exited one, on its way, in the base object, or handed out.  No rotation,
   exit or start of a thread loses or repeats an item.                     *)
ExactlyOnce ==
    LET all == Flatten(exited \o [i \in 1 .. Len(old) |-> old[i].items] \o <<base, taken>>
                         \o [i \in DOMAIN WriterOrder |-> cur[WriterOrder[i]]])
    IN /\ IsInjective(all)
       /\ Len(all) = Written

(* A collection returns everything that had been inserted when it began, also by
   threads that exit while it is under way.                                *)
NothingMissed ==
    (\E c \in Collectors : cpc[c] = "returned") => due \subseteq Range(base) \cup Range(taken)

(* The items of a thread come out in the order it inserted them.           *)
InOrder ==
    \A i, j \in DOMAIN base :
        i < j /\ base[i][1] = base[j][1] /\ base[i][2] = base[j][2]
        => base[i][3] < base[j][3]

(* The object that now() or delayed() lets its caller look at does not change
   under the caller.                                                       *)
ReaderUndisturbed ==
    [][\A c \in Collectors :
          cpc[c] = "reading" /\ cpc'[c] = "reading" => base' = base]_vars

(* A collection returns, however busy the writers are.                     *)
CollectionReturns ==
    \A c \in Collectors :
        cpc[c] = "visiting" ~> cpc[c] \in {"idle", "reading"}

(* Inserts are wait free and still nothing is lost: every item comes out once, in
   its thread's order, and from the first collection that began after it.  *)
ItemsDelivered == TypeOK /\ ExactlyOnce /\ NothingMissed /\ InOrder

=============================================================================
