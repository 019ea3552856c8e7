----------------------------- MODULE StreamTracker ----------------------------
(* StreamTracker<T, AutoTruncate = true> (fds/stream_tracker.hpp): a window   *)
(* of slots starting at index `ref', each with data, an active and a          *)
(* completion bit.  Updates run concurrently under the shared m_lock;         *)
(* resizing and truncation take it exclusively, so they are single steps      *)
(* taken while no update is inside.  The two bitsets are what BitsetOps shows *)
(* a bitset to be, here the set of the slots whose bit is set; a slot's data  *)
(* is the index it was built for.  `done' records the indexes at or above     *)
(* `ref' whose completion was reported.                                       *)
EXTENDS Integers, FiniteSets, FiniteSetsExt

CONSTANTS Updaters,        \* threads
          MaxIdx,          \* bound: highest stream index
          AllocBlk,        \* alloc_blk_size
          TruncateOn       \* m_truncate_on_count

ASSUME StreamAssumption == MaxIdx \in Nat /\ AllocBlk \in Nat /\ TruncateOn \in Nat

VARIABLES ref,             \* m_slot_ref_idx
          comp, active,    \* m_comp_slot_bits, m_active_slot_bits
          slots,           \* the data of the slots of the window, from 0
          room,            \* slots m_slot_data was allocated with
          skipped,         \* m_data_skip_count
          alloced,         \* m_alloced_slots
          sinceTrunc,      \* m_cmpltd_count_since_last_truncate
          doing,           \* Updaters -> the call a thread is inside of
          done

streamVars == <<ref, comp, active, slots, room, skipped, alloced, sinceTrunc, doing, done>>

NoUpdate == [pc |-> "idle", idx |-> 0, slot |-> 0]
Empty == -1
compaction_threshold == AllocBlk \div 2
Window == ref .. ref + alloced - 1
Inside == {t \in Updaters : doing[t].pc \in {"build", "publish", "process", "wipe"}}

\* StreamTracker(name, start_idx = -1)
StreamInit ==
  /\ ref = 0
  /\ comp = {}
  /\ active = {}
  /\ slots = [k \in 0 .. AllocBlk - 1 |-> Empty]
  /\ room = AllocBlk
  /\ skipped = 0
  /\ alloced = AllocBlk
  /\ sinceTrunc = 0
  /\ doing = [t \in Updaters |-> NoUpdate]
  /\ done = {}

Goto(t, pc) == doing' = [doing EXCEPT ![t].pc = pc]
Return(t) == doing' = [doing EXCEPT ![t] = NoUpdate]

\* create, create_and_complete and update call do_update.
Update(t) ==
  /\ doing[t] = NoUpdate
  /\ \E idx \in 0 .. MaxIdx : doing' = [doing EXCEPT ![t] = [NoUpdate EXCEPT !.pc = "find", !.idx = idx]]
  /\ UNCHANGED <<ref, comp, active, slots, room, skipped, alloced, sinceTrunc, done>>

\* The loop at the head of do_update; it ends with the shared lock held, or
\* without it to resize for the slot the index had under the lock.
FindSlot(t) ==
  LET nbit == doing[t].idx - ref
  IN /\ doing[t].pc = "find"
     /\ CASE nbit < 0 -> Return(t)
          [] nbit >= alloced -> doing' = [doing EXCEPT ![t].pc = "grow", ![t].slot = nbit + 1]
          [] OTHER -> doing' = [doing EXCEPT ![t].pc = "build", ![t].slot = nbit]
     /\ UNCHANGED <<ref, comp, active, slots, room, skipped, alloced, sinceTrunc, done>>

\* Slip: the skipped slots are dropped from the array but still counted.
SkipCountKept(t) ==
  LET count == Max({alloced * 2, doing[t].slot})
  IN /\ doing[t].pc = "grow"
     /\ Inside = {}
     /\ doing' = [doing EXCEPT ![t].pc = "find", ![t].slot = 0]
     /\ slots' = [k \in 0 .. count - 1 |-> IF k < alloced THEN slots[k] ELSE Empty]
     /\ room' = count
     /\ alloced' = count
     /\ UNCHANGED <<ref, comp, active, skipped, sinceTrunc, done>>

do_resize(t) ==
  LET count == Max({alloced * 2, doing[t].slot})
  IN /\ doing[t].pc = "grow"
     /\ Inside = {}
     /\ doing' = [doing EXCEPT ![t].pc = "find", ![t].slot = 0]
     /\ IF doing[t].slot < alloced
        THEN UNCHANGED <<slots, room, skipped, alloced>>
        ELSE /\ slots' = [k \in 0 .. count - 1 |-> IF k < alloced THEN slots[k] ELSE Empty]
             /\ room' = count
             /\ alloced' = count
             /\ skipped' = 0
     /\ UNCHANGED <<ref, comp, active, sinceTrunc, done>>

\* Placement new of the slot; update leaves an active one as it is.
BuildSlot(t) ==
  LET nbit == doing[t].slot
  IN /\ doing[t].pc = "build"
     /\ \/ /\ slots' = [slots EXCEPT ![nbit] = doing[t].idx]
           /\ Goto(t, "publish")
        \/ /\ nbit \in active
           /\ UNCHANGED slots
           /\ Goto(t, "process")
     /\ UNCHANGED <<ref, comp, active, room, skipped, alloced, sinceTrunc, done>>

PublishSlot(t) ==
  /\ doing[t].pc = "publish"
  /\ active' = active \cup {doing[t].slot}
  /\ Goto(t, "process")
  /\ UNCHANGED <<ref, comp, slots, room, skipped, alloced, sinceTrunc, done>>

\* The processor's verdict, the completion bit and the release of the lock.
ProcessSlot(t) ==
  /\ doing[t].pc = "process"
  /\ \/ /\ comp' = comp \cup {doing[t].slot}
          /\ done' = done \cup {doing[t].idx}
          /\ sinceTrunc' = Min({sinceTrunc + 1, TruncateOn})
          /\ IF sinceTrunc >= TruncateOn THEN Goto(t, "sweep") ELSE Return(t)
     \/ UNCHANGED <<comp, done, sinceTrunc>> /\ Return(t)
  /\ UNCHANGED <<ref, active, slots, room, skipped, alloced>>

drop_slots(b, upto) == {k - upto : k \in {j \in b : j >= upto}}

\* Slip: the bits move to the new reference index and the data does not.
DataStays(upto) ==
  /\ comp' = drop_slots(comp, upto)
  /\ active' = drop_slots(active, upto)
  /\ slots' = [k \in 0 .. alloced - upto - 1 |-> slots[k]]
  /\ skipped' = 0
  /\ alloced' = alloced - upto
  /\ ref' = ref + upto
  /\ done' = {i \in done : i >= ref + upto}
  /\ UNCHANGED room

do_truncate(upto) ==
  /\ comp' = drop_slots(comp, upto)
  /\ active' = drop_slots(active, upto)
  /\ slots' = [k \in 0 .. alloced - upto - 1 |-> slots[k + upto]]
  /\ skipped' = IF skipped + upto > compaction_threshold THEN 0 ELSE skipped + upto
  /\ alloced' = alloced - upto
  /\ ref' = ref + upto
  /\ done' = {i \in done : i >= ref + upto}
  /\ UNCHANGED room

\* Slip: slots that are active pass for completed ones.
ActiveUpto ==
  LET open == 0 .. alloced - 1 \ active IN IF open = {} THEN alloced ELSE Min(open)

SweptUpto ==
  LET open == 0 .. alloced - 1 \ comp IN IF open = {} THEN alloced ELSE Min(open)

\* Slip: the sweep takes the first slot that is not completed with it.
SweepOneMore(t) ==
  /\ doing[t].pc = "sweep"
  /\ Inside = {}
  /\ do_truncate(Min({SweptUpto + 1, alloced}))
  /\ Return(t)
  /\ UNCHANGED sinceTrunc

\* Slip: the sweep does not wait for the updates that are inside.
SweepUnlocked(t) ==
  /\ doing[t].pc = "sweep"
  /\ do_truncate(SweptUpto)
  /\ Return(t)
  /\ UNCHANGED sinceTrunc

\* truncate() at the end of do_update
Sweep(t) ==
  /\ doing[t].pc = "sweep"
  /\ Inside = {}
  /\ IF SweptUpto = 0 THEN UNCHANGED <<ref, comp, active, slots, room, skipped, alloced, done>>
     ELSE do_truncate(SweptUpto)
  /\ Return(t)
  /\ UNCHANGED sinceTrunc

\* truncate() and truncate(idx) called from outside; shrink_head refuses an
\* index past the window before anything has changed.
Truncate ==
  /\ Inside = {}
  /\ \E upto \in {n \in 1 .. alloced : n = SweptUpto \/ n <= MaxIdx} : do_truncate(upto)
  /\ UNCHANGED <<sinceTrunc, doing>>

\* complete(start_idx, end_idx) inside the window
Complete ==
  \E start \in Window \cap 0 .. MaxIdx : \E end \in {i \in Window : start <= i /\ i <= MaxIdx} :
    /\ comp' = comp \cup start - ref .. end - ref
    /\ done' = done \cup start .. end
    /\ UNCHANGED <<ref, active, slots, room, skipped, alloced, sinceTrunc, doing>>

\* rollback(new_end_idx), under the shared lock: first the active bits ...
Rollback(t) ==
  /\ doing[t] = NoUpdate
  /\ \E last \in ref - 1 .. ref + alloced - 2 :
       /\ active' = active \cap 0 .. last - ref
       /\ doing' = [doing EXCEPT ![t] = [NoUpdate EXCEPT !.pc = "wipe", !.idx = last]]
  /\ UNCHANGED <<ref, comp, slots, room, skipped, alloced, sinceTrunc, done>>

\* ... then the completion bits.
RollbackCompletions(t) ==
  LET last == doing[t].idx
  IN /\ doing[t].pc = "wipe"
     /\ comp' = comp \cap 0 .. last - ref
     /\ done' = {i \in done : i <= last}
     /\ Return(t)
     /\ UNCHANGED <<ref, active, slots, room, skipped, alloced, sinceTrunc>>

StreamNext ==
  \/ \E t \in Updaters : \/ Update(t) \/ FindSlot(t) \/ do_resize(t) \/ BuildSlot(t)
                         \/ PublishSlot(t) \/ ProcessSlot(t) \/ Sweep(t)
                         \/ Rollback(t) \/ RollbackCompletions(t)
  \/ Truncate
  \/ Complete

StreamSpec == StreamInit /\ [][StreamNext]_streamVars

------------------------------------------------------------------------------
IsActive(i) == i - ref \in active
IsCompleted(i) == i - ref \in comp

\* completed_upto() and active_upto()
completed_upto == ref + SweptUpto - 1

\* The two bitsets and the array always cover the same window: at(), the
\* iterations and do_resize read no slot outside the array.
WindowsAgree ==
  /\ skipped + alloced <= room
  /\ comp \cup active \subseteq 0 .. alloced - 1
  /\ DOMAIN slots = 0 .. alloced - 1

\* at(idx) returns the data built for idx, whatever truncation, compaction of
\* the skipped slots and resizing have moved it since.
DataFollowsIndex ==
  \A i \in Window : IsActive(i) => slots[i - ref] = i

\* No completion is lost and none is invented: inside the window exactly the
\* indexes reported complete are, although the sizes, the bit positions and
\* the window may change between the lookup of a slot and the completion.
CompletionsExact ==
  \A i \in Window : IsCompleted(i) <=> i \in done

\* completed_upto() is the end of the completed prefix, and truncate() passes
\* no index that is not completed.
UptoIsPrefix ==
  /\ ref .. completed_upto \subseteq done
  /\ completed_upto + 1 \notin done
SweepsOnlyCompleted ==
  [][\A t \in Updaters : Sweep(t) => ref .. ref' - 1 \subseteq done]_streamVars

\* Bits, data and indexes of the window stay aligned while updates, completions,
\* rollbacks, resizes and truncations overlap: what was completed is completed,
\* what was not is not swept away.
StreamSound ==
  /\ [](WindowsAgree /\ DataFollowsIndex /\ CompletionsExact /\ UptoIsPrefix)
  /\ SweepsOnlyCompleted
===============================================================================
