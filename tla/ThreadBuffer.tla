----------------------------- MODULE ThreadBuffer -----------------------------
(***************************************************************************)
(* sisl::ThreadRegistry and the ThreadBuffers registered with it.  Threads  *)
(* attach and detach, buffers are constructed, scanned and destroyed, all   *)
(* concurrently.  A step is a section under m_init_mutex or m_expand_mutex  *)
(* that calls out to nobody, or one callback.                               *)
(*                                                                          *)
(* A thread that spins in get_next_free_slot holds m_init_mutex, so every   *)
(* other section under that mutex waits for it.                             *)
(***************************************************************************)
EXTENDS Integers, Sequences, FiniteSets, FiniteSetsExt, Lists

CONSTANTS
    Threads,    \* each starts, runs and exits again and again
    Slots,      \* 1 .. max_tracked_threads()
    Buffers,
    ExitSafe,   \* TRUE for ExitSafeThreadBuffer, FALSE for ActiveOnlyThreadBuffer
    Overlap,    \* may a buffer be constructed while a thread exits?
    Ample,      \* TRUE: max_tracked_threads() is never used up
    Null, None,
    Exited      \* a scan between the slots and the exited threads

ASSUME SlotsAssumption == Slots \subseteq Nat \ {0} /\ IsFiniteSet(Slots)

ASSUME MembersAssumption == IsFiniteSet(Threads) /\ IsFiniteSet(Buffers)

ASSUME MarkAssumption ==
    /\ Null \notin Threads \cup {"fresh"}
    /\ None # Exited /\ \A S \in SUBSET Slots : S \notin {None, Exited}

ASSUME FlagAssumption == ExitSafe \in BOOLEAN /\ Overlap \in BOOLEAN /\ Ample \in BOOLEAN

VARIABLES
    free,       \* m_free_thread_slots
    cursor,     \* m_slot_cursor, 0 for INVALID_CURSOR
    ref,        \* m_ref_count
    notifiers,  \* m_registered_notifiers, in the order of their indices
    ongoing,    \* m_ongoing_notifications
    spinner,    \* the thread in get_next_free_slot
    pc, slot,   \* of each thread
    todo,       \* the notifiers a thread has still to call
    bpc,        \* the life of each buffer
    btodo,      \* the slots its constructor or destructor has still to visit
    slots,      \* m_thread_slots of each buffer
    buf,        \* m_buffers: Null, "fresh", or the last thread that used it
    exited,     \* m_exited_buffers, as a set
    scan        \* what access_all_threads has still to visit, None if not there

registry == <<free, cursor, ref, notifiers, ongoing, spinner>>
threads == <<pc, slot, todo>>
buffers == <<bpc, btodo, slots, buf, exited, scan>>
vars == <<free, cursor, ref, notifiers, ongoing, spinner, pc, slot, todo,
          bpc, btodo, slots, buf, exited, scan>>

Init == /\ free = Slots
        /\ cursor = 0
        /\ ref = [s \in Slots |-> 0]
        /\ notifiers = <<>>
        /\ ongoing = 0
        /\ spinner = None
        /\ pc = [t \in Threads |-> "out"]
        /\ slot = [t \in Threads |-> None]
        /\ todo = [t \in Threads |-> <<>>]
        /\ bpc = [b \in Buffers |-> "none"]
        /\ btodo = [b \in Buffers |-> {}]
        /\ slots = [b \in Buffers |-> {}]
        /\ buf = [b \in Buffers |-> [s \in Slots |-> Null]]
        /\ exited = [b \in Buffers |-> {}]
        /\ scan = [b \in Buffers |-> None]

-----------------------------------------------------------------------------
(* What a buffer does when it is told of a thread.                         *)

(* access_all_threads has m_expand_mutex, shared.                          *)
Expanding(b) == scan[b] \notin {None, Exited}

(* on_thread_state_change(ATTACHED): a new object replaces whatever is in the
   slot.  Needs m_expand_mutex, so it waits for a scan.                    *)
create_buffer(b, s) ==
    /\ ~Expanding(b)
    /\ buf' = [buf EXCEPT ![b][s] = "fresh"]
    /\ ref' = [ref EXCEPT ![s] = @ + 1]
    /\ slots' = [slots EXCEPT ![b] = @ \cup {s}]

(* Slip: the reference to the slot is kept.                                *)
kept_ref(s) == ref

(* Slip: the reference is given up once more than taken.                   *)
released_twice(s) == [ref EXCEPT ![s] = @ - 2]

(* slot_release.                                                           *)
slot_release(s) == [ref EXCEPT ![s] = @ - 1]

(* Slip: the buffer goes on listing the slot.                              *)
slot_stays(b, s) == slots

(* m_thread_slots.reset.                                                   *)
slot_reset(b, s) == [slots EXCEPT ![b] = @ \ {s}]

(* on_thread_state_change(DETACHED): the object goes to m_exited_buffers, or is
   destroyed when the buffer is for active threads only.                   *)
release_buffer(b, s) ==
    /\ ~Expanding(b)
    /\ slots' = slot_reset(b, s)
    /\ ref' = slot_release(s)
    /\ exited' = [exited EXCEPT ![b] = IF ExitSafe THEN @ \cup {buf[b][s]} ELSE @]
    /\ buf' = [buf EXCEPT ![b][s] = Null]

-----------------------------------------------------------------------------
(* Threads.                                                                *)

Exiting == \E t \in Threads : pc[t] = "detaching"
Constructing == \E b \in Buffers : bpc[b] = "registering"

(* Slip: the references of a slot are not looked at.                       *)
AnyFree == free

(* The slots get_next_free_slot accepts: free, and referenced by no buffer. *)
Eligible == {s \in free : ref[s] = 0}

(* The first of them behind the cursor, wrapping around.                   *)
NextSlot == LET behind == {s \in Eligible : s > cursor}
            IN Min(IF behind # {} THEN behind ELSE Eligible)

(* Slip: the slot is still marked as free.                                 *)
not_reset(s) == free

(* m_free_thread_slots.reset.                                              *)
free_reset(s) == free \ {s}

(* attach takes m_init_mutex ...                                           *)
Attach(t) ==
    /\ pc[t] = "out" /\ spinner = None
    /\ Ample => Eligible # {}
    /\ spinner' = t
    /\ pc' = [pc EXCEPT ![t] = "choosing"]
    /\ UNCHANGED <<free, cursor, ref, notifiers, ongoing, slot, todo, buffers>>

(* ... finds a slot, and notes whom to notify; with all slots taken it throws. *)
TakeSlot(t) ==
    /\ pc[t] = "choosing"
    /\ spinner' = None
    /\ \/ /\ Eligible # {}
          /\ cursor' = NextSlot
          /\ free' = free_reset(NextSlot)
          /\ slot' = [slot EXCEPT ![t] = NextSlot]
          /\ todo' = [todo EXCEPT ![t] = notifiers]
          /\ ongoing' = ongoing + 1
          /\ pc' = [pc EXCEPT ![t] = "attaching"]
       \/ /\ free = {}
          /\ cursor' = 0
          /\ pc' = [pc EXCEPT ![t] = "out"]
          /\ UNCHANGED <<free, slot, todo, ongoing>>
    /\ UNCHANGED <<ref, notifiers, buffers>>

NotifyAttached(t) ==
    /\ pc[t] = "attaching" /\ todo[t] # <<>>
    /\ create_buffer(Head(todo[t]), slot[t])
    /\ todo' = [todo EXCEPT ![t] = Tail(@)]
    /\ UNCHANGED <<free, cursor, notifiers, ongoing, spinner, pc, slot,
                   bpc, btodo, exited, scan>>

(* The thread uses its own object of a buffer: get().                      *)
Use(t, b) ==
    /\ pc[t] = "running" /\ bpc[b] = "live" /\ buf[b][slot[t]] # Null
    /\ buf' = [buf EXCEPT ![b][slot[t]] = t]
    /\ UNCHANGED <<registry, threads, bpc, btodo, slots, exited, scan>>

(* detach gives the slot back before anybody is notified.                  *)
Detach(t) ==
    /\ pc[t] = "running" /\ spinner = None
    /\ ~Overlap => ~Constructing
    /\ free' = free \cup {slot[t]}
    /\ todo' = [todo EXCEPT ![t] = notifiers]
    /\ ongoing' = ongoing + 1
    /\ pc' = [pc EXCEPT ![t] = "detaching"]
    /\ UNCHANGED <<cursor, ref, notifiers, spinner, slot, buffers>>

NotifyDetached(t) ==
    /\ pc[t] = "detaching" /\ todo[t] # <<>>
    /\ release_buffer(Head(todo[t]), slot[t])
    /\ todo' = [todo EXCEPT ![t] = Tail(@)]
    /\ UNCHANGED <<free, cursor, notifiers, ongoing, spinner, pc, slot,
                   bpc, btodo, scan>>

(* finish_notification, at the end of attach and of detach.                *)
FinishThread(t) ==
    /\ pc[t] \in {"attaching", "detaching"} /\ todo[t] = <<>> /\ spinner = None
    /\ ongoing' = ongoing - 1
    /\ IF pc[t] = "attaching"
       THEN /\ pc' = [pc EXCEPT ![t] = "running"]
            /\ UNCHANGED slot
       ELSE /\ pc' = [pc EXCEPT ![t] = "out"]
            /\ slot' = [slot EXCEPT ![t] = None]
    /\ UNCHANGED <<free, cursor, ref, notifiers, spinner, todo, buffers>>

-----------------------------------------------------------------------------
(* Buffers.                                                                *)

(* Slip: the constructor does not ask for the threads already there.       *)
NoneRunning == {}

Running == Slots \ free

(* The constructor registers for notification, and notes the running threads. *)
Register(b) ==
    /\ bpc[b] = "none" /\ spinner = None
    /\ ~Overlap => ~Exiting
    /\ notifiers' = Append(notifiers, b)
    /\ btodo' = [btodo EXCEPT ![b] = Running]
    /\ ongoing' = ongoing + 1
    /\ bpc' = [bpc EXCEPT ![b] = "registering"]
    /\ UNCHANGED <<free, cursor, ref, spinner, threads, slots, buf, exited, scan>>

NotifyExisting(b) ==
    /\ bpc[b] = "registering" /\ btodo[b] # {}
    /\ create_buffer(b, Min(btodo[b]))
    /\ btodo' = [btodo EXCEPT ![b] = @ \ {Min(@)}]
    /\ UNCHANGED <<free, cursor, notifiers, ongoing, spinner, threads, bpc, exited, scan>>

FinishRegister(b) ==
    /\ bpc[b] = "registering" /\ btodo[b] = {} /\ spinner = None
    /\ ongoing' = ongoing - 1
    /\ bpc' = [bpc EXCEPT ![b] = "live"]
    /\ UNCHANGED <<free, cursor, ref, notifiers, spinner, threads,
                   btodo, slots, buf, exited, scan>>

(* The destructor deregisters ...                                          *)
Deregister(b) ==
    /\ bpc[b] = "live" /\ spinner = None /\ scan[b] = None
    /\ notifiers' = Unlink(notifiers, b)
    /\ bpc' = [bpc EXCEPT ![b] = "waiting"]
    /\ UNCHANGED <<free, cursor, ref, ongoing, spinner, threads,
                   btodo, slots, buf, exited, scan>>

(* Slip: the destructor does not wait for notifications under way.         *)
NoWait == TRUE

(* What deregister_sc_notification waits for.                              *)
NothingOngoing == ongoing = 0

(* ... waits for the notifications that may still know the buffer ...      *)
Deregistered(b) ==
    /\ bpc[b] = "waiting" /\ spinner = None /\ NothingOngoing
    /\ btodo' = [btodo EXCEPT ![b] = slots[b]]
    /\ bpc' = [bpc EXCEPT ![b] = "releasing"]
    /\ UNCHANGED <<registry, threads, slots, buf, exited, scan>>

(* ... and releases the slots it refers to; then its members are destroyed. *)
ReleaseSlot(b) ==
    /\ bpc[b] = "releasing" /\ btodo[b] # {}
    /\ ref' = slot_release(Min(btodo[b]))
    /\ btodo' = [btodo EXCEPT ![b] = @ \ {Min(@)}]
    /\ UNCHANGED <<free, cursor, notifiers, ongoing, spinner, threads,
                   bpc, slots, buf, exited, scan>>

Destroyed(b) ==
    /\ bpc[b] = "releasing" /\ btodo[b] = {}
    /\ bpc' = [bpc EXCEPT ![b] = "none"]
    /\ slots' = [slots EXCEPT ![b] = {}]
    /\ buf' = [buf EXCEPT ![b] = [s \in Slots |-> Null]]
    /\ exited' = [exited EXCEPT ![b] = {}]
    /\ UNCHANGED <<registry, threads, btodo, scan>>

(* Slip: the scan does not get past a slot.                                *)
same_again(b) == scan[b]

(* m_thread_slots.find_next.                                               *)
find_next(b) == scan[b] \ {Min(scan[b])}

(* access_all_threads: the objects of the slots, one by one, each with a look
   into the registry whether its thread runs ...                           *)
StartScan(b) ==
    /\ bpc[b] = "live" /\ scan[b] = None
    /\ scan' = [scan EXCEPT ![b] = slots[b]]
    /\ UNCHANGED <<registry, threads, bpc, btodo, slots, buf, exited>>

ScanNext(b) ==
    /\ Expanding(b) /\ scan[b] # {}
    /\ ExitSafe => spinner = None
    /\ scan' = [scan EXCEPT ![b] = find_next(b)]
    /\ UNCHANGED <<registry, threads, bpc, btodo, slots, buf, exited>>

(* ... and, m_expand_mutex taken anew, the objects of the exited threads, which
   go if the caller permits it.                                            *)
EndScan(b) ==
    /\ scan[b] = {}
    /\ scan' = [scan EXCEPT ![b] = IF ExitSafe THEN Exited ELSE None]
    /\ UNCHANGED <<registry, threads, bpc, btodo, slots, buf, exited>>

ScanExited(b) ==
    /\ scan[b] = Exited
    /\ \E can_free \in BOOLEAN :
           exited' = [exited EXCEPT ![b] = IF can_free THEN {} ELSE @]
    /\ scan' = [scan EXCEPT ![b] = None]
    /\ UNCHANGED <<registry, threads, bpc, btodo, slots, buf>>

-----------------------------------------------------------------------------

ThreadStep(t) == \/ TakeSlot(t) \/ NotifyAttached(t) \/ NotifyDetached(t)
                 \/ FinishThread(t)

BufferStep(b) == \/ NotifyExisting(b) \/ FinishRegister(b)
                 \/ ReleaseSlot(b) \/ Destroyed(b)
                 \/ ScanNext(b) \/ EndScan(b) \/ ScanExited(b)

Next == \/ \E t \in Threads : \/ Attach(t) \/ Detach(t) \/ ThreadStep(t)
                              \/ \E b \in Buffers : Use(t, b)
        \/ \E b \in Buffers : \/ Register(b) \/ Deregister(b) \/ Deregistered(b)
                              \/ StartScan(b) \/ BufferStep(b)

Spec == Init /\ [][Next]_vars

-----------------------------------------------------------------------------

TypeOK == /\ free \subseteq Slots
          /\ cursor \in Slots \cup {0}
          /\ ref \in [Slots -> Nat]
          /\ notifiers \in Seq(Buffers)
          /\ ongoing \in Nat
          /\ spinner \in Threads \cup {None}
          /\ pc \in [Threads -> {"out", "choosing", "attaching", "running", "detaching"}]
          /\ slot \in [Threads -> Slots \cup {None}]
          /\ todo \in [Threads -> Seq(Buffers)]
          /\ bpc \in [Buffers -> {"none", "registering", "live", "waiting", "releasing"}]
          /\ btodo \in [Buffers -> SUBSET Slots]
          /\ slots \in [Buffers -> SUBSET Slots]
          /\ buf \in [Buffers -> [Slots -> Threads \cup {Null, "fresh"}]]
          /\ exited \in [Buffers -> SUBSET (Threads \cup {Null, "fresh"})]
          /\ scan \in [Buffers -> (SUBSET Slots) \cup {None, Exited}]

(* "The slot is guaranteed to exist": get() finds an object in every buffer that
   is constructed, for every thread that is attached.                      *)
SlotExists ==
    \A t \in Threads, b \in Buffers :
        pc[t] = "running" /\ bpc[b] = "live" => buf[b][slot[t]] # Null

(* Two threads that are attached never share a slot, so never a buffer object. *)
SlotNotShared ==
    \A t, u \in Threads :
        /\ t # u
        /\ pc[t] \in {"attaching", "running"}
        /\ pc[u] \in {"attaching", "running"}
        => slot[t] # slot[u]

(* A slot that is given to a new thread is known to no buffer that is yet to be
   told of it: create_buffer never replaces an object.                     *)
SlotIsFresh ==
    /\ \A t \in Threads : pc[t] = "attaching" =>
           \A b \in Range(todo[t]) : slot[t] \notin slots[b] /\ buf[b][slot[t]] = Null
    /\ \A b \in Buffers : bpc[b] = "registering" => btodo[b] \cap slots[b] = {}

(* The references of a slot are the buffers that hold an object for it.    *)
RefsMatch ==
    \A s \in Slots : ref[s] = Cardinality({b \in Buffers :
        IF bpc[b] = "releasing" THEN s \in btodo[b] ELSE s \in slots[b]})

(* A buffer is destroyed only when no thread is still going to call it.    *)
NoCallbackToDead ==
    \A t \in Threads : \A b \in Range(todo[t]) : bpc[b] \notin {"none", "releasing"}

(* access_all_threads hands out no null object, neither of a slot ...  nor of an
   exited thread.                                                          *)
ScansRealObjects ==
    \A b \in Buffers : /\ Expanding(b) => \A s \in scan[b] : buf[b][s] # Null
                       /\ Null \notin exited[b]

(* What a thread has put into its object stays there while the thread runs. *)
ObjectKept ==
    [][\A t \in Threads, b \in Buffers :
          pc[t] = "running" /\ bpc[b] = "live" /\ buf[b][slot[t]] = t
          /\ pc'[t] = "running" /\ bpc'[b] = "live"
          => buf'[b][slot[t]] = t]_vars

(* With a slot for every thread, attach and detach return: no circle of waiting
   among m_init_mutex, m_expand_mutex and the slot references.             *)
ThreadsReturn ==
    \A t \in Threads : /\ pc[t] = "choosing" ~> pc[t] = "running"
                       /\ pc[t] = "detaching" ~> pc[t] = "out"

(* While a thread is attached it has a slot of its own and a fresh object in
   every buffer, and a slot is reused only when no buffer refers to it, in
   whatever order threads start and exit and buffers are built and destroyed. *)
SlotsSound == TypeOK /\ SlotExists /\ SlotNotShared /\ SlotIsFresh /\ RefsMatch

(* Nobody calls a destroyed buffer, and a scan meets no null object.       *)
CallbacksSound == NoCallbackToDead /\ ScansRealObjects

=============================================================================
