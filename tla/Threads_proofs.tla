---------------------------- MODULE Threads_proofs ----------------------------
(* Proofs about what threads keep for themselves.  The thread registry and its *)
(* buffers, for any number of threads, slots and buffers, when no buffer is    *)
(* constructed while a thread exits.  The object allocators and the vector     *)
(* pool, for any threads, list bound and block size: a block has one user or   *)
(* is on one list.                                                             *)
EXTENDS ThreadBuffer, Pools, SequenceFacts, FiniteSetTheorems, TLAPS

\* The provers of a leaf that names none, and how long each may take.
USE ZenonT(40), SMTT(20)

(* A thread has a slot to itself while it is attached, and while buffers have *)
(* still to be told that it is not.                                           *)
Attached(t) == pc[t] \in {"attaching", "running"}
Untold(t) == Range(todo[t])
Bound(t) == Attached(t) \/ todo[t] # <<>>

OwnInv(t) ==
  /\ pc[t] \in {"attaching", "running", "detaching"} => slot[t] \in Slots
  /\ Attached(t) => slot[t] \notin free
  /\ pc[t] \in {"out", "choosing", "running"} => todo[t] = <<>>
  /\ IsInjective(todo[t])
  /\ \A b \in Untold(t) : bpc[b] \in {"registering", "live", "waiting"}

Distinct ==
  \A t, u \in Threads : Bound(t) /\ Bound(u) /\ slot[t] = slot[u] => t = u

(* A buffer a thread has still to tell that it is attached knows nothing of   *)
(* the slot; one it has to tell that it is detached knows it; and any other   *)
(* knows it, or finds it on its constructor's list.                           *)
PairInv(t, b) ==
  /\ pc[t] = "attaching" /\ b \in Untold(t) => slot[t] \notin slots[b] \cup btodo[b]
  /\ pc[t] = "detaching" /\ b \in Untold(t) => slot[t] \in slots[b]
  /\ Attached(t) /\ bpc[b] \in {"registering", "live"} /\ b \notin Untold(t)
       => slot[t] \in slots[b] \cup btodo[b]

BufferInv(b) ==
  /\ b \in Range(notifiers) <=> bpc[b] \in {"registering", "live"}
  /\ bpc[b] = "none" => slots[b] = {}
  /\ bpc[b] \in {"none", "live", "waiting"} => btodo[b] = {}
  /\ bpc[b] = "registering" => btodo[b] \cap (slots[b] \cup free) = {}
  /\ \A s \in Slots : s \in slots[b] <=> buf[b][s] # Null
  /\ scan[b] # None => bpc[b] = "live"
  /\ Expanding(b) => scan[b] \subseteq slots[b]
  /\ Null \notin exited[b]

(* m_ongoing_notifications counts the threads and constructors that notify.   *)
Notifying == {t \in Threads : pc[t] \in {"attaching", "detaching"}}
Making == {b \in Buffers : bpc[b] = "registering"}

CountInv ==
  /\ IsInjective(notifiers)
  /\ Constructing => ~Exiting
  /\ ongoing = Cardinality(Notifying) + Cardinality(Making)

IInv ==
  /\ TypeOK /\ CountInv /\ Distinct /\ RefsMatch
  /\ \A t \in Threads : OwnInv(t)
  /\ \A b \in Buffers : BufferInv(b)
  /\ \A t \in Threads, b \in Buffers : PairInv(t, b)

------------------------------------------------------------------------------
(* The least slot of a non-empty set is one of it.                            *)
LEMMA MinSlot == ASSUME NEW S \in SUBSET Slots, S # {} PROVE Min(S) \in S
<1>1. PICK x \in S : \A y \in S : ~(<<y, x>> \in OpToRel(<, Nat))
  BY SlotsAssumption, WFMin, NatLessThanWellFounded
<1>2. \A y \in S : x <= y
  <2>1. ASSUME NEW y \in S, y < x PROVE FALSE
    <3>1. <<y, x>> \in {ss \in Nat \X Nat : ss[1] < ss[2]}
      BY <2>1, SlotsAssumption
    <3>2. QED  BY <1>1, <3>1 DEF OpToRel
  <2>2. QED  BY <2>1, SlotsAssumption, SMTT(30)
<1>3. QED  BY <1>2 DEF Min

(* The buffers that hold a reference to a slot.                               *)
Holders(s) ==
  {b \in Buffers : IF bpc[b] = "releasing" THEN s \in btodo[b] ELSE s \in slots[b]}

LEMMA HoldersFacts ==
  ASSUME NEW s
  PROVE  /\ IsFiniteSet(Holders(s)) /\ Cardinality(Holders(s)) \in Nat
         /\ Cardinality(Holders(s)) = 0 <=> Holders(s) = {}
<1>1. Holders(s) \subseteq Buffers
  BY DEF Holders
<1>2. IsFiniteSet(Holders(s))
  BY <1>1, MembersAssumption, FS_Subset
<1>3. QED  BY <1>2, FS_CardinalityType, FS_EmptySet

LEMMA CountFacts ==
  /\ IsFiniteSet(Notifying) /\ Cardinality(Notifying) \in Nat
  /\ Cardinality(Notifying) = 0 <=> Notifying = {}
  /\ IsFiniteSet(Making) /\ Cardinality(Making) \in Nat
  /\ Cardinality(Making) = 0 <=> Making = {}
<1>1. IsFiniteSet(Notifying) /\ IsFiniteSet(Making)
  BY MembersAssumption, FS_Subset DEF Notifying, Making
<1>2. QED  BY <1>1, FS_CardinalityType, FS_EmptySet

(* The references of one slot change with the one buffer that takes or gives
   up one.                                                                    *)
LEMMA RefTaken ==
  ASSUME RefsMatch, ref \in [Slots -> Nat], NEW s \in Slots, NEW b \in Buffers,
         b \notin Holders(s), ref' = [ref EXCEPT ![s] = @ + 1],
         Holders(s)' = Holders(s) \cup {b},
         \A r \in Slots \ {s} : Holders(r)' = Holders(r)
  PROVE  RefsMatch' /\ ref' \in [Slots -> Nat]
<1>1. Cardinality(Holders(s)') = Cardinality(Holders(s)) + 1
  BY HoldersFacts, FS_AddElement
<1>2. \A r \in Slots : ref[r] = Cardinality(Holders(r))
  BY DEF RefsMatch, Holders
<1>3. \A r \in Slots : ref'[r] = Cardinality(Holders(r)')
  BY <1>1, <1>2
<1>4. RefsMatch'
  BY <1>3 DEF RefsMatch, Holders
<1>5. QED  BY <1>4, SMTT(30)

LEMMA RefGiven ==
  ASSUME RefsMatch, ref \in [Slots -> Nat], NEW s \in Slots, NEW b \in Buffers,
         b \in Holders(s), ref' = [ref EXCEPT ![s] = @ - 1],
         Holders(s)' = Holders(s) \ {b},
         \A r \in Slots \ {s} : Holders(r)' = Holders(r)
  PROVE  RefsMatch' /\ ref' \in [Slots -> Nat]
<1>1. Cardinality(Holders(s)') = Cardinality(Holders(s)) - 1 /\ Cardinality(Holders(s)) \in Nat \ {0}
  BY HoldersFacts, FS_RemoveElement
<1>2. \A r \in Slots : ref[r] = Cardinality(Holders(r))
  BY DEF RefsMatch, Holders
<1>3. \A r \in Slots : ref'[r] = Cardinality(Holders(r)')
  BY <1>1, <1>2
<1>4. RefsMatch'
  BY <1>3 DEF RefsMatch, Holders
<1>5. QED  BY <1>1, <1>2, <1>4, SMTT(30)

LEMMA RefsKept ==
  ASSUME RefsMatch, ref' = ref, \A s \in Slots : Holders(s)' = Holders(s)
  PROVE  RefsMatch'
BY DEF RefsMatch, Holders

LEMMA InitInv == Init => IInv
<1> SUFFICES ASSUME Init PROVE IInv  OBVIOUS
<1>1. TypeOK
  BY SMTT(30) DEF Init, TypeOK
<1>2. Notifying = {} /\ Making = {}
  BY DEF Init, Notifying, Making
<1>3. CountInv
  <2>1. IsInjective(notifiers)
    BY SMTT(30) DEF Init, IsInjective
  <2>2. QED  BY <1>2, <2>1, CountFacts, SMTT(30) DEF Init, CountInv, Constructing
<1>4. RefsMatch
  <2>1. \A s \in Slots : Holders(s) = {}
    BY DEF Init, Holders
  <2>2. \A s \in Slots : ref[s] = Cardinality(Holders(s))
    BY <2>1, HoldersFacts DEF Init
  <2>3. QED  BY <2>2 DEF RefsMatch, Holders
<1>5. ASSUME NEW t \in Threads PROVE OwnInv(t) /\ ~Bound(t)
  BY SMTT(30) DEF Init, OwnInv, Attached, Untold, Range, Bound, IsInjective
<1>6. ASSUME NEW b \in Buffers PROVE BufferInv(b)
  BY SMTT(30) DEF Init, BufferInv, Range, Expanding
<1>7. ASSUME NEW t \in Threads, NEW b \in Buffers PROVE PairInv(t, b)
  BY DEF Init, PairInv, Attached
<1>8. Distinct
  BY <1>5 DEF Distinct
<1>9. QED  BY <1>1, <1>3, <1>4, <1>5, <1>6, <1>7, <1>8 DEF IInv

------------------------------------------------------------------------------
(* Threads.                                                                   *)

LEMMA AttachInv == ASSUME IInv, NEW t \in Threads, Attach(t) PROVE IInv'
<1>1. /\ pc[t] = "out" /\ pc' = [pc EXCEPT ![t] = "choosing"] /\ spinner' = t
      /\ UNCHANGED <<free, cursor, ref, notifiers, ongoing, slot, todo,
                     bpc, btodo, slots, buf, exited, scan>>
  BY DEF Attach, buffers
<1>2. TypeOK'
  BY <1>1 DEF IInv, TypeOK
<1>3. \A u \in Threads : /\ Attached(u)' <=> Attached(u)
                         /\ Bound(u)' <=> Bound(u)
                         /\ Untold(u)' = Untold(u)
                         /\ pc'[u] = pc[u] \/ (u = t /\ pc'[u] = "choosing" /\ todo[u] = <<>>)
  BY <1>1 DEF IInv, TypeOK, Attached, Bound, Untold, OwnInv
<1>4. Distinct' /\ \A u \in Threads : OwnInv(u)'
  BY <1>1, <1>3, SMTT(30) DEF IInv, Distinct, OwnInv
<1>5. \A u \in Threads, b \in Buffers : PairInv(u, b)'
  BY <1>1, <1>3 DEF IInv, PairInv
<1>6. \A b \in Buffers : BufferInv(b)'
  BY <1>1 DEF IInv, BufferInv, Expanding
<1>7. CountInv'
  <2>1. Notifying' = Notifying /\ Making' = Making
    BY <1>1 DEF IInv, TypeOK, Notifying, Making
  <2>2. (Constructing' <=> Constructing) /\ (Exiting' <=> Exiting)
    BY <1>1 DEF IInv, TypeOK, Constructing, Exiting
  <2>3. QED  BY <1>1, <2>1, <2>2 DEF IInv, CountInv
<1>8. RefsMatch'
  BY <1>1, RefsKept DEF IInv, Holders
<1>9. QED  BY <1>2, <1>4, <1>5, <1>6, <1>7, <1>8 DEF IInv

(* All slots are taken: nothing but the thread's place changes.               *)
LEMMA ThrowInv ==
  ASSUME IInv, NEW t \in Threads, pc[t] = "choosing", pc' = [pc EXCEPT ![t] = "out"],
         spinner' = None, cursor' = 0,
         UNCHANGED <<free, ref, notifiers, ongoing, slot, todo, bpc, btodo, slots, buf, exited, scan>>
  PROVE  IInv'
<1>1. TypeOK'
  BY DEF IInv, TypeOK
<1>2. \A u \in Threads : /\ Attached(u)' <=> Attached(u)
                         /\ Bound(u)' <=> Bound(u)
                         /\ Untold(u)' = Untold(u)
                         /\ pc'[u] = pc[u] \/ (u = t /\ pc'[u] = "out" /\ todo[u] = <<>>)
  BY DEF IInv, TypeOK, Attached, Bound, Untold, OwnInv
<1>3. Distinct' /\ \A u \in Threads : OwnInv(u)'
  BY <1>2, SMTT(30) DEF IInv, Distinct, OwnInv
<1>4. \A u \in Threads, b \in Buffers : PairInv(u, b)'
  BY <1>2 DEF IInv, PairInv
<1>5. \A b \in Buffers : BufferInv(b)'
  BY DEF IInv, BufferInv, Expanding
<1>6. CountInv'
  <2>1. Notifying' = Notifying /\ Making' = Making
    BY DEF IInv, TypeOK, Notifying, Making
  <2>2. (Constructing' <=> Constructing) /\ (Exiting' <=> Exiting)
    BY DEF IInv, TypeOK, Constructing, Exiting
  <2>3. QED  BY <2>1, <2>2 DEF IInv, CountInv
<1>7. RefsMatch'
  BY RefsKept DEF IInv, Holders
<1>8. QED  BY <1>1, <1>3, <1>4, <1>5, <1>6, <1>7 DEF IInv

(* The slot that is taken is nobody's, and no buffer refers to it.            *)
LEMMA EligibleFacts ==
  ASSUME IInv, NEW n \in Eligible
  PROVE  /\ n \in free /\ n \in Slots
         /\ \A b \in Buffers : bpc[b] # "releasing" => n \notin slots[b]
         /\ \A u \in Threads : Bound(u) => slot[u] # n
<1>1. n \in free /\ n \in Slots /\ ref[n] = 0
  BY DEF Eligible, IInv, TypeOK
<1>2. Holders(n) = {}
  <2>1. ref[n] = Cardinality(Holders(n))
    BY <1>1 DEF IInv, RefsMatch, Holders
  <2>2. QED  BY <1>1, <2>1, HoldersFacts
<1>3. \A b \in Buffers : bpc[b] # "releasing" => n \notin slots[b]
  BY <1>2 DEF Holders
<1>4. ASSUME NEW u \in Threads, Bound(u) PROVE slot[u] # n
  <2>1. CASE Attached(u)
    BY <1>1, <2>1 DEF IInv, OwnInv
  <2>2. CASE ~Attached(u)
    <3>1. todo[u] # <<>> /\ pc[u] = "detaching" /\ todo[u] \in Seq(Buffers) /\ IsInjective(todo[u])
      BY <1>4, <2>2 DEF IInv, TypeOK, OwnInv, Bound, Attached
    <3>2. Head(todo[u]) \in Untold(u) /\ Head(todo[u]) \in Buffers
      BY <3>1, TailSet DEF Untold
    <3>3. slot[u] \in slots[Head(todo[u])] /\ bpc[Head(todo[u])] # "releasing"
      BY <3>1, <3>2 DEF IInv, OwnInv, PairInv
    <3>4. QED  BY <1>3, <3>2, <3>3
  <2>3. QED  BY <2>1, <2>2
<1>5. QED  BY <1>1, <1>3, <1>4

LEMMA NextSlotEligible == ASSUME IInv, Eligible # {} PROVE NextSlot \in Eligible
<1> DEFINE behind == {s \in Eligible : s > cursor}
<1>1. Eligible \subseteq Slots /\ behind \subseteq Eligible
  BY DEF IInv, TypeOK, Eligible
<1>2. CASE behind # {}
  <2>1. Min(behind) \in behind
    BY <1>1, <1>2, MinSlot
  <2>2. QED  BY <1>1, <1>2, <2>1 DEF NextSlot
<1>3. CASE behind = {}
  <2>1. Min(Eligible) \in Eligible
    BY <1>1, MinSlot
  <2>2. QED  BY <1>3, <2>1 DEF NextSlot
<1>4. QED  BY <1>2, <1>3

LEMMA TakeSlotInv == ASSUME IInv, NEW t \in Threads, TakeSlot(t) PROVE IInv'
<1> DEFINE n == NextSlot
<1>1. CASE pc' = [pc EXCEPT ![t] = "out"] /\ cursor' = 0 /\ UNCHANGED <<free, slot, todo, ongoing>>
  BY <1>1, ThrowInv DEF TakeSlot, buffers
<1>2. CASE /\ Eligible # {} /\ cursor' = n /\ free' = free_reset(n)
           /\ slot' = [slot EXCEPT ![t] = n] /\ todo' = [todo EXCEPT ![t] = notifiers]
           /\ ongoing' = ongoing + 1 /\ pc' = [pc EXCEPT ![t] = "attaching"]
  <2>1. /\ n \in free /\ n \in Slots
        /\ \A b \in Buffers : bpc[b] # "releasing" => n \notin slots[b]
        /\ \A u \in Threads : Bound(u) => slot[u] # n
    BY <1>2, NextSlotEligible, EligibleFacts
  <2> HIDE DEF n
  <2>2. /\ pc[t] = "choosing" /\ spinner' = None /\ free' = free \ {n}
        /\ UNCHANGED <<ref, notifiers, bpc, btodo, slots, buf, exited, scan>>
    BY <1>2 DEF TakeSlot, buffers, free_reset
  <2>3. /\ pc'[t] = "attaching" /\ slot'[t] = n /\ todo'[t] = notifiers
        /\ \A u \in Threads \ {t} : pc'[u] = pc[u] /\ slot'[u] = slot[u] /\ todo'[u] = todo[u]
    BY <1>2 DEF IInv, TypeOK
  <2>4. TypeOK'
    BY <1>2, <2>1, <2>2, SMTT(30) DEF IInv, TypeOK
  <2>5. /\ Untold(t)' = Range(notifiers) /\ Attached(t)'
        /\ \A u \in Threads \ {t} : /\ Untold(u)' = Untold(u) /\ (Attached(u)' <=> Attached(u))
                                    /\ Bound(u)' <=> Bound(u)
    BY <2>3 DEF Untold, Attached, Bound
  <2>6. ASSUME NEW u \in Threads PROVE OwnInv(u)'
    <3>1. CASE u = t
      <4>1. IsInjective(notifiers) /\ \A b \in Range(notifiers) : b \in Buffers
        BY SMTT(30) DEF IInv, CountInv, TypeOK, Range
      <4>2. \A b \in Range(notifiers) : bpc[b] \in {"registering", "live", "waiting"}
        BY <4>1 DEF IInv, BufferInv
      <4>3. QED  BY <2>1, <2>2, <2>3, <2>5, <3>1, <4>1, <4>2 DEF OwnInv
    <3>2. CASE u # t
      BY <2>2, <2>3, <2>5, <3>2 DEF IInv, OwnInv
    <3>3. QED  BY <3>1, <3>2
  <2>7. Distinct'
    BY <2>1, <2>3, <2>5 DEF IInv, Distinct
  <2>8. ASSUME NEW u \in Threads, NEW b \in Buffers PROVE PairInv(u, b)'
    <3>1. CASE u = t
      <4>1. b \in Range(notifiers) => bpc[b] # "releasing" /\ n \notin btodo[b]
        BY <2>1 DEF IInv, BufferInv
      <4>2. bpc[b] \in {"registering", "live"} => b \in Range(notifiers)
        BY DEF IInv, BufferInv
      <4>3. QED  BY <2>1, <2>2, <2>3, <2>5, <3>1, <4>1, <4>2 DEF PairInv
    <3>2. CASE u # t
      BY <2>2, <2>3, <2>5, <3>2 DEF IInv, PairInv
    <3>3. QED  BY <3>1, <3>2
  <2>9. ASSUME NEW b \in Buffers PROVE BufferInv(b)'
    BY <2>2 DEF IInv, BufferInv, Expanding
  <2>10. CountInv'
    <3>1. Notifying' = Notifying \cup {t} /\ t \notin Notifying /\ Making' = Making
      BY <2>2, <2>3 DEF Notifying, Making
    <3>2. Cardinality(Notifying') = Cardinality(Notifying) + 1
      BY <3>1, CountFacts, FS_AddElement
    <3>3. (Constructing' <=> Constructing) /\ (Exiting' <=> Exiting)
      BY <2>2, <2>3 DEF Constructing, Exiting
    <3>4. QED  BY <1>2, <2>2, <3>1, <3>2, <3>3, CountFacts, SMTT(30) DEF IInv, CountInv
  <2>11. RefsMatch'
    BY <2>2, RefsKept DEF IInv, Holders
  <2>12. QED  BY <2>4, <2>6, <2>7, <2>8, <2>9, <2>10, <2>11 DEF IInv
<1>3. QED  BY <1>1, <1>2 DEF TakeSlot

LEMMA NotifyAttachedInv == ASSUME IInv, NEW t \in Threads, NotifyAttached(t) PROVE IInv'
<1>0. PICK s, b0 : s = slot[t] /\ b0 = Head(todo[t])
  OBVIOUS
<1>1. /\ pc[t] = "attaching" /\ todo[t] # <<>> /\ todo[t] \in Seq(Buffers) /\ IsInjective(todo[t])
      /\ s \in Slots /\ Attached(t)
  BY <1>0 DEF NotifyAttached, IInv, TypeOK, OwnInv, Attached
<1>2. /\ b0 \in Untold(t) /\ b0 \in Buffers /\ Tail(todo[t]) \in Seq(Buffers)
      /\ IsInjective(Tail(todo[t])) /\ Range(Tail(todo[t])) = Untold(t) \ {b0}
  BY <1>0, <1>1, TailSet DEF Untold
<1>3. /\ ~Expanding(b0) /\ buf' = [buf EXCEPT ![b0][s] = "fresh"]
      /\ ref' = [ref EXCEPT ![s] = @ + 1] /\ slots' = [slots EXCEPT ![b0] = @ \cup {s}]
      /\ todo' = [todo EXCEPT ![t] = Tail(@)]
      /\ UNCHANGED <<free, cursor, notifiers, ongoing, spinner, pc, slot, bpc, btodo, exited, scan>>
  BY <1>0 DEF NotifyAttached, create_buffer
<1>4. /\ bpc[b0] \in {"registering", "live", "waiting"} /\ s \notin slots[b0] /\ s \notin btodo[b0]
  BY <1>0, <1>1, <1>2 DEF IInv, OwnInv, PairInv
<1>5. /\ slots'[b0] = slots[b0] \cup {s} /\ buf'[b0] = [buf[b0] EXCEPT ![s] = "fresh"]
      /\ \A b \in Buffers \ {b0} : slots'[b] = slots[b] /\ buf'[b] = buf[b]
      /\ todo'[t] = Tail(todo[t]) /\ \A u \in Threads \ {t} : todo'[u] = todo[u]
  BY <1>2, <1>3 DEF IInv, TypeOK
<1>6. /\ Untold(t)' = Untold(t) \ {b0} /\ \A u \in Threads \ {t} : Untold(u)' = Untold(u)
      /\ \A u \in Threads : (Attached(u)' <=> Attached(u)) /\ (Bound(u)' <=> Bound(u))
  BY <1>1, <1>2, <1>3, <1>5 DEF Untold, Attached, Bound
<1>7. RefsMatch' /\ ref' \in [Slots -> Nat]
  <2>1. b0 \notin Holders(s) /\ Holders(s)' = Holders(s) \cup {b0}
    <3>1. b0 \notin Holders(s) /\ b0 \in Holders(s)'
      BY <1>2, <1>3, <1>4, <1>5 DEF Holders
    <3>2. \A b \in Buffers \ {b0} : b \in Holders(s)' <=> b \in Holders(s)
      BY <1>3, <1>5 DEF Holders
    <3>3. Holders(s) \subseteq Buffers /\ Holders(s)' \subseteq Buffers
      BY DEF Holders
    <3>4. QED  BY <3>1, <3>2, <3>3
  <2>2. \A r \in Slots \ {s} : Holders(r)' = Holders(r)
    BY <1>3, <1>5 DEF Holders
  <2>3. QED  BY <1>1, <1>2, <1>3, <2>1, <2>2, RefTaken DEF IInv, TypeOK
<1>8. TypeOK'
  <2>1. buf' \in [Buffers -> [Slots -> Threads \cup {Null, "fresh"}]]
    BY <1>1, <1>2, <1>3 DEF IInv, TypeOK
  <2>2. slots' \in [Buffers -> SUBSET Slots]
    BY <1>1, <1>2, <1>3 DEF IInv, TypeOK
  <2>3. QED  BY <1>2, <1>3, <1>7, <2>1, <2>2 DEF IInv, TypeOK
<1>9. ASSUME NEW u \in Threads PROVE OwnInv(u)'
  <2>1. CASE u = t
    BY <1>1, <1>2, <1>3, <1>5, <1>6, <2>1 DEF IInv, OwnInv
  <2>2. CASE u # t
    BY <1>3, <1>5, <1>6, <2>2, SMTT(30) DEF IInv, OwnInv
  <2>3. QED  BY <2>1, <2>2
<1>10. Distinct'
  BY <1>3, <1>6 DEF IInv, Distinct
<1>11. ASSUME NEW u \in Threads, NEW b \in Buffers PROVE PairInv(u, b)'
  <2>1. PairInv(u, b) /\ UNCHANGED <<pc, slot, bpc, btodo>> /\ (Attached(u)' <=> Attached(u))
    BY <1>3, <1>6 DEF IInv
  <2>2. CASE b # b0
    BY <1>5, <1>6, <2>1, <2>2 DEF PairInv
  <2>3. CASE b = b0 /\ u = t
    BY <1>0, <1>1, <1>5, <1>6, <2>1, <2>3 DEF PairInv
  <2>4. CASE b = b0 /\ u # t
    <3>1. b0 \in Untold(u) => slot[u] # s
      <4>1. b0 \in Untold(u) => Bound(u)
        BY SMTT(30) DEF Untold, Bound, Range
      <4>2. Bound(t)
        BY <1>1 DEF Bound
      <4>3. QED  BY <1>0, <2>4, <4>1, <4>2 DEF IInv, Distinct
    <3>2. QED  BY <1>5, <1>6, <2>1, <2>4, <3>1 DEF PairInv
  <2>5. QED  BY <2>2, <2>3, <2>4
<1>12. ASSUME NEW b \in Buffers PROVE BufferInv(b)'
  <2>1. CASE b # b0
    BY <1>3, <1>5, <2>1, SMTT(30) DEF IInv, BufferInv, Expanding
  <2>2. CASE b = b0
    <3>1. \A r \in Slots : r \in slots'[b] <=> buf'[b][r] # Null
      <4>1. s \in Slots /\ buf[b0] \in [Slots -> Threads \cup {Null, "fresh"}]
        BY <1>1, <1>2 DEF IInv, TypeOK
      <4>2. buf'[b0][s] = "fresh" /\ \A r \in Slots \ {s} : buf'[b0][r] = buf[b0][r]
        BY <1>5, <4>1
      <4>3. \A r \in Slots : r \in slots[b0] <=> buf[b0][r] # Null
        BY <1>2 DEF IInv, BufferInv
      <4>4. QED  BY <1>5, <2>2, <4>2, <4>3, MarkAssumption
    <3>2. bpc[b] = "registering" => btodo[b] \cap (slots'[b] \cup free) = {}
      BY <1>4, <1>5, <2>2 DEF IInv, BufferInv
    <3>3. ~Expanding(b)'
      BY <1>3, <2>2 DEF Expanding
    <3>4. QED  BY <1>3, <1>4, <2>2, <3>1, <3>2, <3>3 DEF IInv, BufferInv
  <2>3. QED  BY <2>1, <2>2
<1>13. CountInv'
  BY <1>3 DEF IInv, CountInv, Notifying, Making, Constructing, Exiting
<1>14. QED  BY <1>7, <1>8, <1>9, <1>10, <1>11, <1>12, <1>13 DEF IInv

LEMMA UseInv == ASSUME IInv, NEW t \in Threads, NEW b \in Buffers, Use(t, b) PROVE IInv'
<1>1. /\ pc[t] = "running" /\ buf[b][slot[t]] # Null /\ buf' = [buf EXCEPT ![b][slot[t]] = t]
      /\ UNCHANGED <<free, cursor, ref, notifiers, ongoing, spinner, pc, slot, todo,
                     bpc, btodo, slots, exited, scan>>
  BY DEF Use, registry, threads
<1>2. slot[t] \in Slots
  BY <1>1 DEF IInv, OwnInv
<1>3. TypeOK'
  <2>1. buf' \in [Buffers -> [Slots -> Threads \cup {Null, "fresh"}]]
    BY <1>1, <1>2 DEF IInv, TypeOK
  <2>2. QED  BY <1>1, <2>1 DEF IInv, TypeOK
<1>4. ASSUME NEW c \in Buffers, NEW r \in Slots PROVE buf'[c][r] # Null <=> buf[c][r] # Null
  BY <1>1, <1>2, MarkAssumption, SMTT(30) DEF IInv, TypeOK
<1>5. \A c \in Buffers : BufferInv(c)'
  BY <1>1, <1>4 DEF IInv, BufferInv, Expanding
<1>6. Distinct' /\ \A u \in Threads : OwnInv(u)' /\ \A c \in Buffers : PairInv(u, c)'
  BY <1>1 DEF IInv, Distinct, OwnInv, PairInv, Bound, Attached, Untold
<1>7. CountInv'
  BY <1>1 DEF IInv, CountInv, Notifying, Making, Constructing, Exiting
<1>8. RefsMatch'
  BY <1>1, RefsKept DEF IInv, Holders
<1>9. QED  BY <1>3, <1>5, <1>6, <1>7, <1>8 DEF IInv

LEMMA DetachInv == ASSUME IInv, ~Overlap, NEW t \in Threads, Detach(t) PROVE IInv'
<1>1. /\ pc[t] = "running" /\ ~Constructing /\ free' = free \cup {slot[t]}
      /\ todo' = [todo EXCEPT ![t] = notifiers] /\ ongoing' = ongoing + 1
      /\ pc' = [pc EXCEPT ![t] = "detaching"]
      /\ UNCHANGED <<cursor, ref, notifiers, spinner, slot, bpc, btodo, slots, buf, exited, scan>>
  BY DEF Detach, buffers
<1>2. slot[t] \in Slots /\ todo[t] = <<>> /\ Bound(t) /\ Attached(t)
  BY <1>1 DEF IInv, OwnInv, Bound, Attached
<1>3. TypeOK'
  BY <1>1, <1>2, SMTT(30) DEF IInv, TypeOK
<1>4. /\ pc'[t] = "detaching" /\ todo'[t] = notifiers
      /\ \A u \in Threads \ {t} : pc'[u] = pc[u] /\ todo'[u] = todo[u]
  BY <1>1 DEF IInv, TypeOK
<1>5. /\ Untold(t)' = Range(notifiers)
      /\ \A u \in Threads \ {t} : /\ Untold(u)' = Untold(u) /\ (Attached(u)' <=> Attached(u))
                                  /\ Bound(u)' <=> Bound(u)
      /\ \A u \in Threads : Bound(u)' => Bound(u)
  BY <1>2, <1>4 DEF Untold, Attached, Bound
<1>6. \A b \in Buffers : bpc[b] # "registering"
  BY <1>1 DEF Constructing
<1>7. \A b \in Range(notifiers) : b \in Buffers /\ bpc[b] = "live"
  <2>1. \A b \in Range(notifiers) : b \in Buffers
    BY SMTT(30) DEF IInv, TypeOK, Range
  <2>2. QED  BY <1>6, <2>1 DEF IInv, BufferInv
<1>8. Distinct'
  BY <1>1, <1>5 DEF IInv, Distinct
<1>9. ASSUME NEW u \in Threads PROVE OwnInv(u)'
  <2>1. CASE u = t
    BY <1>1, <1>2, <1>4, <1>5, <1>7, <2>1, SMTT(30) DEF IInv, CountInv, OwnInv, Attached
  <2>2. CASE u # t
    <3>1. Attached(u) => slot[u] # slot[t]
      BY <1>2, <2>2 DEF IInv, Distinct, Bound
    <3>2. QED  BY <1>1, <1>4, <1>5, <2>2, <3>1, SMTT(30) DEF IInv, OwnInv
  <2>3. QED  BY <2>1, <2>2
<1>10. ASSUME NEW u \in Threads, NEW b \in Buffers PROVE PairInv(u, b)'
  <2>1. CASE u # t
    BY <1>1, <1>4, <1>5, <2>1 DEF IInv, PairInv
  <2>2. CASE u = t
    <3>1. b \in Range(notifiers) => slot[t] \in slots[b]
      <4>1. b \notin Untold(t)
        BY <1>2, SMTT(30) DEF Untold, Range
      <4>2. bpc[b] = "live" => btodo[b] = {}
        BY DEF IInv, BufferInv
      <4>3. QED  BY <1>2, <1>7, <4>1, <4>2 DEF IInv, PairInv
    <3>2. QED  BY <1>1, <1>4, <1>5, <2>2, <3>1 DEF PairInv, Attached
  <2>3. QED  BY <2>1, <2>2
<1>11. ASSUME NEW b \in Buffers PROVE BufferInv(b)'
  BY <1>1, <1>6 DEF IInv, BufferInv, Expanding
<1>12. CountInv'
  <2>1. Notifying' = Notifying \cup {t} /\ t \notin Notifying /\ Making' = Making
    BY <1>1, <1>4 DEF Notifying, Making
  <2>2. Cardinality(Notifying') = Cardinality(Notifying) + 1
    BY <2>1, CountFacts, FS_AddElement
  <2>3. ~Constructing'
    BY <1>1 DEF Constructing
  <2>4. QED  BY <1>1, <2>1, <2>2, <2>3, CountFacts, SMTT(30) DEF IInv, CountInv
<1>13. RefsMatch'
  BY <1>1, RefsKept DEF IInv, Holders
<1>14. QED  BY <1>3, <1>8, <1>9, <1>10, <1>11, <1>12, <1>13 DEF IInv

LEMMA FinishThreadInv == ASSUME IInv, NEW t \in Threads, FinishThread(t) PROVE IInv'
<1>1. /\ pc[t] \in {"attaching", "detaching"} /\ todo[t] = <<>> /\ ongoing' = ongoing - 1
      /\ \/ /\ pc[t] = "attaching" /\ pc' = [pc EXCEPT ![t] = "running"] /\ slot' = slot
         \/ /\ pc[t] = "detaching" /\ pc' = [pc EXCEPT ![t] = "out"]
            /\ slot' = [slot EXCEPT ![t] = None]
      /\ UNCHANGED <<free, cursor, ref, notifiers, spinner, todo,
                     bpc, btodo, slots, buf, exited, scan>>
  BY DEF FinishThread, buffers
<1>2. /\ \A u \in Threads : Untold(u)' = Untold(u) /\ (Attached(u)' <=> Attached(u))
                            /\ (Bound(u)' <=> Bound(u))
      /\ \A u \in Threads \ {t} : pc'[u] = pc[u] /\ slot'[u] = slot[u]
      /\ \A u \in Threads : Bound(u) => slot'[u] = slot[u]
      /\ Attached(t) => pc'[t] = "running"
      /\ ~Attached(t) => pc'[t] = "out"
  BY <1>1 DEF IInv, TypeOK, Untold, Attached, Bound
<1>3. ongoing \in Nat \ {0} /\ Notifying' = Notifying \ {t} /\ Making' = Making
      /\ Cardinality(Notifying') = Cardinality(Notifying) - 1
  <2>1. t \in Notifying /\ Notifying' = Notifying \ {t} /\ Making' = Making
    BY <1>1, <1>2 DEF Notifying, Making, Attached
  <2>2. Cardinality(Notifying') = Cardinality(Notifying) - 1
    BY <2>1, CountFacts, FS_RemoveElement
  <2>3. Cardinality(Notifying) # 0
    BY <2>1, CountFacts
  <2>4. ongoing \in Nat \ {0}
    BY <2>3, CountFacts, SMTT(30) DEF IInv, CountInv
  <2>5. QED  BY <2>1, <2>2, <2>4
<1>4. TypeOK'
  <2>1. ongoing' \in Nat
    BY <1>1, <1>3, SMTT(30)
  <2>2. /\ pc' \in [Threads -> {"out", "choosing", "attaching", "running", "detaching"}]
        /\ slot' \in [Threads -> Slots \cup {None}]
    BY <1>1 DEF IInv, TypeOK
  <2>3. QED  BY <1>1, <2>1, <2>2 DEF IInv, TypeOK
<1>5. ASSUME NEW u \in Threads PROVE OwnInv(u)'
  <2>1. CASE u = t
    BY <1>1, <1>2, <2>1 DEF IInv, OwnInv, Attached
  <2>2. CASE u # t
    BY <1>1, <1>2, <2>2 DEF IInv, OwnInv
  <2>3. QED  BY <2>1, <2>2
<1>6. Distinct'
  BY <1>2 DEF IInv, Distinct
<1>7. ASSUME NEW u \in Threads, NEW b \in Buffers PROVE PairInv(u, b)'
  <2>1. CASE u = t
    BY <1>1, <1>2, <2>1 DEF IInv, PairInv, Bound
  <2>2. CASE u # t
    BY <1>1, <1>2, <2>2 DEF IInv, PairInv
  <2>3. QED  BY <2>1, <2>2
<1>8. ASSUME NEW b \in Buffers PROVE BufferInv(b)'
  BY <1>1 DEF IInv, BufferInv, Expanding
<1>9. CountInv'
  <2>1. (Constructing' <=> Constructing) /\ (Exiting' => Exiting)
    BY <1>1, <1>2 DEF Constructing, Exiting
  <2>2. QED  BY <1>1, <1>3, <2>1, CountFacts, SMTT(30) DEF IInv, CountInv
<1>10. RefsMatch'
  BY <1>1, RefsKept DEF IInv, Holders
<1>11. QED  BY <1>4, <1>5, <1>6, <1>7, <1>8, <1>9, <1>10 DEF IInv

LEMMA NotifyDetachedInv == ASSUME IInv, NEW t \in Threads, NotifyDetached(t) PROVE IInv'
<1>0. PICK s, b0 : s = slot[t] /\ b0 = Head(todo[t])
  OBVIOUS
<1>1. /\ pc[t] = "detaching" /\ todo[t] # <<>> /\ todo[t] \in Seq(Buffers) /\ IsInjective(todo[t])
      /\ s \in Slots /\ ~Attached(t) /\ Bound(t)
  BY <1>0 DEF NotifyDetached, IInv, TypeOK, OwnInv, Attached, Bound
<1>2. /\ b0 \in Untold(t) /\ b0 \in Buffers /\ Tail(todo[t]) \in Seq(Buffers)
      /\ IsInjective(Tail(todo[t])) /\ Range(Tail(todo[t])) = Untold(t) \ {b0}
  BY <1>0, <1>1, TailSet DEF Untold
<1>3. /\ ~Expanding(b0) /\ slots' = [slots EXCEPT ![b0] = @ \ {s}]
      /\ ref' = [ref EXCEPT ![s] = @ - 1]
      /\ exited' = [exited EXCEPT ![b0] = IF ExitSafe THEN @ \cup {buf[b0][s]} ELSE @]
      /\ buf' = [buf EXCEPT ![b0][s] = Null] /\ todo' = [todo EXCEPT ![t] = Tail(@)]
      /\ UNCHANGED <<free, cursor, notifiers, ongoing, spinner, pc, slot, bpc, btodo, scan>>
  BY <1>0 DEF NotifyDetached, release_buffer, slot_reset, slot_release
<1>4. bpc[b0] \in {"registering", "live", "waiting"} /\ s \in slots[b0]
  BY <1>0, <1>1, <1>2 DEF IInv, OwnInv, PairInv
<1>5. /\ slots'[b0] = slots[b0] \ {s} /\ buf'[b0] = [buf[b0] EXCEPT ![s] = Null]
      /\ exited'[b0] \subseteq exited[b0] \cup {buf[b0][s]}
      /\ \A b \in Buffers \ {b0} : slots'[b] = slots[b] /\ buf'[b] = buf[b] /\ exited'[b] = exited[b]
      /\ todo'[t] = Tail(todo[t]) /\ \A u \in Threads \ {t} : todo'[u] = todo[u]
  BY <1>2, <1>3 DEF IInv, TypeOK
<1>6. /\ Untold(t)' = Untold(t) \ {b0} /\ \A u \in Threads \ {t} : Untold(u)' = Untold(u)
      /\ \A u \in Threads : (Attached(u)' <=> Attached(u)) /\ (Bound(u)' => Bound(u))
  BY <1>1, <1>2, <1>3, <1>5 DEF Untold, Attached, Bound
<1>7. RefsMatch' /\ ref' \in [Slots -> Nat]
  <2>1. b0 \in Holders(s) /\ Holders(s)' = Holders(s) \ {b0}
    <3>1. b0 \in Holders(s) /\ b0 \notin Holders(s)'
      BY <1>2, <1>3, <1>4, <1>5 DEF Holders
    <3>2. \A b \in Buffers \ {b0} : b \in Holders(s)' <=> b \in Holders(s)
      BY <1>3, <1>5 DEF Holders
    <3>3. Holders(s) \subseteq Buffers /\ Holders(s)' \subseteq Buffers
      BY DEF Holders
    <3>4. QED  BY <3>1, <3>2, <3>3
  <2>2. \A r \in Slots \ {s} : Holders(r)' = Holders(r)
    BY <1>3, <1>5 DEF Holders
  <2>3. QED  BY <1>1, <1>2, <1>3, <2>1, <2>2, RefGiven DEF IInv, TypeOK
<1>8. TypeOK'
  <2>1. buf' \in [Buffers -> [Slots -> Threads \cup {Null, "fresh"}]]
    BY <1>1, <1>2, <1>3 DEF IInv, TypeOK
  <2>2. slots' \in [Buffers -> SUBSET Slots]
    BY <1>1, <1>2, <1>3 DEF IInv, TypeOK
  <2>3. exited' \in [Buffers -> SUBSET (Threads \cup {Null, "fresh"})]
    <3>1. buf[b0][s] \in Threads \cup {Null, "fresh"}
      BY <1>1, <1>2, SMTT(30) DEF IInv, TypeOK
    <3>2. QED  BY <1>2, <1>3, <3>1 DEF IInv, TypeOK
  <2>4. QED  BY <1>2, <1>3, <1>7, <2>1, <2>2, <2>3 DEF IInv, TypeOK
<1>9. ASSUME NEW u \in Threads PROVE OwnInv(u)'
  <2>1. CASE u = t
    BY <1>1, <1>2, <1>3, <1>5, <1>6, <2>1 DEF IInv, OwnInv
  <2>2. CASE u # t
    BY <1>3, <1>5, <1>6, <2>2, SMTT(30) DEF IInv, OwnInv
  <2>3. QED  BY <2>1, <2>2
<1>10. Distinct'
  BY <1>3, <1>6 DEF IInv, Distinct
<1>11. ASSUME NEW u \in Threads, NEW b \in Buffers PROVE PairInv(u, b)'
  <2>1. PairInv(u, b) /\ UNCHANGED <<pc, slot, bpc, btodo>> /\ (Attached(u)' <=> Attached(u))
    BY <1>3, <1>6 DEF IInv
  <2>2. CASE b # b0
    BY <1>5, <1>6, <2>1, <2>2 DEF PairInv
  <2>3. CASE b = b0 /\ u = t
    BY <1>1, <1>6, <2>1, <2>3 DEF PairInv
  <2>4. CASE b = b0 /\ u # t
    <3>1. b0 \in Untold(u) \/ Attached(u) => slot[u] # s
      <4>1. b0 \in Untold(u) \/ Attached(u) => Bound(u)
        BY SMTT(30) DEF Untold, Bound, Range
      <4>2. QED  BY <1>0, <1>1, <2>4, <4>1 DEF IInv, Distinct
    <3>2. QED  BY <1>5, <1>6, <2>1, <2>4, <3>1 DEF PairInv
  <2>5. QED  BY <2>2, <2>3, <2>4
<1>12. ASSUME NEW b \in Buffers PROVE BufferInv(b)'
  <2>1. CASE b # b0
    BY <1>3, <1>5, <2>1, SMTT(30) DEF IInv, BufferInv, Expanding
  <2>2. CASE b = b0
    <3>1. \A r \in Slots : r \in slots[b0] <=> buf[b0][r] # Null
      BY <1>2 DEF IInv, BufferInv
    <3>2. \A r \in Slots : r \in slots'[b] <=> buf'[b][r] # Null
      <4>1. s \in Slots /\ buf[b0] \in [Slots -> Threads \cup {Null, "fresh"}]
        BY <1>1, <1>2 DEF IInv, TypeOK
      <4>2. buf'[b0][s] = Null /\ \A r \in Slots \ {s} : buf'[b0][r] = buf[b0][r]
        BY <1>5, <4>1
      <4>3. QED  BY <1>5, <2>2, <3>1, <4>2
    <3>3. Null \notin exited'[b]
      BY <1>1, <1>4, <1>5, <2>2, <3>1 DEF IInv, BufferInv
    <3>4. ~Expanding(b)'
      BY <1>3, <2>2 DEF Expanding
    <3>5. QED  BY <1>3, <1>4, <1>5, <2>2, <3>2, <3>3, <3>4 DEF IInv, BufferInv
  <2>3. QED  BY <2>1, <2>2
<1>13. CountInv'
  BY <1>3 DEF IInv, CountInv, Notifying, Making, Constructing, Exiting
<1>14. QED  BY <1>7, <1>8, <1>9, <1>10, <1>11, <1>12, <1>13 DEF IInv

------------------------------------------------------------------------------
(* Buffers.                                                                   *)

(* A buffer nobody has to tell anything is in none of the threads' lists.     *)
LEMMA NotAwaited ==
  ASSUME IInv, NEW b \in Buffers, bpc[b] \in {"none", "releasing"}, NEW t \in Threads
  PROVE  b \notin Untold(t)
BY DEF IInv, OwnInv

LEMMA RegisterInv == ASSUME IInv, ~Overlap, NEW b \in Buffers, Register(b) PROVE IInv'
<1>1. /\ bpc[b] = "none" /\ ~Exiting /\ notifiers' = Append(notifiers, b)
      /\ btodo' = [btodo EXCEPT ![b] = Running] /\ ongoing' = ongoing + 1
      /\ bpc' = [bpc EXCEPT ![b] = "registering"]
      /\ UNCHANGED <<free, cursor, ref, spinner, pc, slot, todo, slots, buf, exited, scan>>
  BY DEF Register, threads
<1>2. b \notin Range(notifiers) /\ slots[b] = {} /\ scan[b] = None
  BY <1>1 DEF IInv, BufferInv
<1>3. /\ IsInjective(notifiers') /\ Range(notifiers') = Range(notifiers) \cup {b}
      /\ notifiers' \in Seq(Buffers)
  BY <1>1, <1>2, AppendSet, SMTT(30) DEF IInv, CountInv, TypeOK
<1>4. /\ bpc'[b] = "registering" /\ btodo'[b] = Slots \ free
      /\ \A c \in Buffers \ {b} : bpc'[c] = bpc[c] /\ btodo'[c] = btodo[c]
  BY <1>1 DEF IInv, TypeOK, Running
<1>5. TypeOK'
  BY <1>1, <1>3, SMTT(30) DEF IInv, TypeOK, Running
<1>6. \A t \in Threads : /\ Untold(t)' = Untold(t) /\ b \notin Untold(t) /\ Untold(t) \subseteq Buffers
                         /\ (Attached(t)' <=> Attached(t)) /\ (Bound(t)' <=> Bound(t))
  <2>1. \A t \in Threads : b \notin Untold(t)
    BY <1>1, NotAwaited
  <2>2. \A t \in Threads : Untold(t) \subseteq Buffers
    BY SMTT(30) DEF IInv, TypeOK, Untold, Range
  <2>3. QED  BY <1>1, <2>1, <2>2 DEF Untold, Attached, Bound
<1>7. \A t \in Threads : OwnInv(t)'
  BY <1>1, <1>4, <1>6 DEF IInv, OwnInv
<1>8. Distinct'
  BY <1>1, <1>6 DEF IInv, Distinct
<1>9. ASSUME NEW t \in Threads, NEW c \in Buffers PROVE PairInv(t, c)'
  <2>1. CASE c = b
    <3>1. Attached(t) => slot[t] \in Slots \ free
      BY DEF IInv, OwnInv, Attached
    <3>2. QED  BY <1>1, <1>4, <1>6, <2>1, <3>1 DEF PairInv
  <2>2. CASE c # b
    BY <1>1, <1>4, <1>6, <2>2 DEF IInv, PairInv
  <2>3. QED  BY <2>1, <2>2
<1>10. ASSUME NEW c \in Buffers PROVE BufferInv(c)'
  <2>1. CASE c = b
    BY <1>1, <1>2, <1>3, <1>4, <2>1 DEF IInv, BufferInv, Expanding
  <2>2. CASE c # b
    BY <1>1, <1>3, <1>4, <2>2 DEF IInv, BufferInv, Expanding
  <2>3. QED  BY <2>1, <2>2
<1>11. CountInv'
  <2>1. Making' = Making \cup {b} /\ b \notin Making /\ Notifying' = Notifying
    BY <1>1, <1>4 DEF Making, Notifying
  <2>2. Cardinality(Making') = Cardinality(Making) + 1
    BY <2>1, CountFacts, FS_AddElement
  <2>3. ~Exiting'
    BY <1>1 DEF Exiting
  <2>4. QED  BY <1>1, <1>3, <2>1, <2>2, <2>3, CountFacts, SMTT(30) DEF IInv, CountInv
<1>12. RefsMatch'
  <2>1. \A r \in Slots : Holders(r)' = Holders(r)
    BY <1>1, <1>4 DEF Holders
  <2>2. QED  BY <1>1, <2>1, RefsKept DEF IInv
<1>13. QED  BY <1>5, <1>7, <1>8, <1>9, <1>10, <1>11, <1>12 DEF IInv

LEMMA NotifyExistingInv == ASSUME IInv, NEW b \in Buffers, NotifyExisting(b) PROVE IInv'
<1>0. PICK s : s = Min(btodo[b])
  OBVIOUS
<1>1. bpc[b] = "registering" /\ btodo[b] # {} /\ btodo[b] \subseteq Slots
  BY DEF NotifyExisting, IInv, TypeOK
<1>2. s \in btodo[b] /\ s \in Slots /\ s \notin slots[b]
  <2>1. s \in btodo[b]
    BY <1>0, <1>1, MinSlot
  <2>2. QED  BY <1>1, <2>1 DEF IInv, BufferInv
<1>3. /\ ~Expanding(b) /\ buf' = [buf EXCEPT ![b][s] = "fresh"]
      /\ ref' = [ref EXCEPT ![s] = @ + 1] /\ slots' = [slots EXCEPT ![b] = @ \cup {s}]
      /\ btodo' = [btodo EXCEPT ![b] = @ \ {s}]
      /\ UNCHANGED <<free, cursor, notifiers, ongoing, spinner, pc, slot, todo, bpc, exited, scan>>
  BY <1>0 DEF NotifyExisting, create_buffer, threads
<1>4. /\ slots'[b] = slots[b] \cup {s} /\ buf'[b] = [buf[b] EXCEPT ![s] = "fresh"]
      /\ btodo'[b] = btodo[b] \ {s}
      /\ \A c \in Buffers \ {b} : slots'[c] = slots[c] /\ buf'[c] = buf[c] /\ btodo'[c] = btodo[c]
  BY <1>3 DEF IInv, TypeOK
<1>5. RefsMatch' /\ ref' \in [Slots -> Nat]
  <2>1. b \notin Holders(s) /\ Holders(s)' = Holders(s) \cup {b}
    <3>1. b \notin Holders(s) /\ b \in Holders(s)'
      BY <1>1, <1>2, <1>3, <1>4 DEF Holders
    <3>2. \A c \in Buffers \ {b} : c \in Holders(s)' <=> c \in Holders(s)
      BY <1>3, <1>4 DEF Holders
    <3>3. Holders(s) \subseteq Buffers /\ Holders(s)' \subseteq Buffers
      BY DEF Holders
    <3>4. QED  BY <3>1, <3>2, <3>3
  <2>2. \A r \in Slots \ {s} : Holders(r)' = Holders(r)
    BY <1>1, <1>3, <1>4 DEF Holders
  <2>3. QED  BY <1>2, <1>3, <2>1, <2>2, RefTaken DEF IInv, TypeOK
<1>6. TypeOK'
  <2>1. buf' \in [Buffers -> [Slots -> Threads \cup {Null, "fresh"}]]
    BY <1>2, <1>3 DEF IInv, TypeOK
  <2>2. slots' \in [Buffers -> SUBSET Slots] /\ btodo' \in [Buffers -> SUBSET Slots]
    BY <1>2, <1>3 DEF IInv, TypeOK
  <2>3. QED  BY <1>3, <1>5, <2>1, <2>2 DEF IInv, TypeOK
<1>7. Distinct' /\ \A t \in Threads : OwnInv(t)'
  BY <1>3 DEF IInv, Distinct, OwnInv, Bound, Attached, Untold
<1>8. ASSUME NEW t \in Threads, NEW c \in Buffers PROVE PairInv(t, c)'
  <2>1. PairInv(t, c) /\ UNCHANGED <<pc, slot, bpc>> /\ (Attached(t)' <=> Attached(t))
        /\ Untold(t)' = Untold(t)
    BY <1>3 DEF IInv, Attached, Untold
  <2>2. CASE c = b
    <3>1. slots'[b] \cup btodo'[b] = slots[b] \cup btodo[b] /\ slots[b] \subseteq slots'[b]
      BY <1>2, <1>4
    <3>2. QED  BY <2>1, <2>2, <3>1 DEF PairInv
  <2>3. CASE c # b
    BY <1>4, <2>1, <2>3 DEF PairInv
  <2>4. QED  BY <2>2, <2>3
<1>9. ASSUME NEW c \in Buffers PROVE BufferInv(c)'
  <2>1. CASE c # b
    BY <1>3, <1>4, <2>1, SMTT(30) DEF IInv, BufferInv, Expanding
  <2>2. CASE c = b
    <3>1. \A r \in Slots : r \in slots'[b] <=> buf'[b][r] # Null
      <4>1. buf[b] \in [Slots -> Threads \cup {Null, "fresh"}]
        BY DEF IInv, TypeOK
      <4>2. buf'[b][s] = "fresh" /\ \A r \in Slots \ {s} : buf'[b][r] = buf[b][r]
        BY <1>2, <1>4, <4>1
      <4>3. \A r \in Slots : r \in slots[b] <=> buf[b][r] # Null
        BY DEF IInv, BufferInv
      <4>4. QED  BY <1>4, <4>2, <4>3, MarkAssumption
    <3>2. btodo'[b] \cap (slots'[b] \cup free) = {}
      BY <1>1, <1>4 DEF IInv, BufferInv
    <3>3. ~Expanding(b)'
      BY <1>3 DEF Expanding
    <3>4. QED  BY <1>1, <1>3, <2>2, <3>1, <3>2, <3>3 DEF IInv, BufferInv
  <2>3. QED  BY <2>1, <2>2
<1>10. CountInv'
  BY <1>3 DEF IInv, CountInv, Notifying, Making, Constructing, Exiting
<1>11. QED  BY <1>5, <1>6, <1>7, <1>8, <1>9, <1>10 DEF IInv

LEMMA FinishRegisterInv == ASSUME IInv, NEW b \in Buffers, FinishRegister(b) PROVE IInv'
<1>1. /\ bpc[b] = "registering" /\ btodo[b] = {} /\ ongoing' = ongoing - 1
      /\ bpc' = [bpc EXCEPT ![b] = "live"]
      /\ UNCHANGED <<free, cursor, ref, notifiers, spinner, pc, slot, todo, btodo, slots, buf, exited, scan>>
  BY DEF FinishRegister, threads
<1>2. bpc'[b] = "live" /\ \A c \in Buffers \ {b} : bpc'[c] = bpc[c]
  BY <1>1 DEF IInv, TypeOK
<1>3. /\ ongoing \in Nat \ {0} /\ Notifying' = Notifying
      /\ Cardinality(Making') = Cardinality(Making) - 1
  <2>1. b \in Making /\ Making' = Making \ {b} /\ Notifying' = Notifying
    BY <1>1, <1>2 DEF Making, Notifying
  <2>2. Cardinality(Making') = Cardinality(Making) - 1
    BY <2>1, CountFacts, FS_RemoveElement
  <2>3. Cardinality(Making) # 0
    BY <2>1, CountFacts
  <2>4. ongoing \in Nat \ {0}
    BY <2>3, CountFacts, SMTT(30) DEF IInv, CountInv
  <2>5. QED  BY <2>1, <2>2, <2>4
<1>4. TypeOK'
  <2>1. ongoing' \in Nat
    BY <1>1, <1>3, SMTT(30)
  <2>2. QED  BY <1>1, <2>1 DEF IInv, TypeOK
<1>5. \A t \in Threads : Untold(t)' = Untold(t) /\ Untold(t) \subseteq Buffers
                         /\ (Attached(t)' <=> Attached(t)) /\ (Bound(t)' <=> Bound(t))
  BY <1>1, SMTT(30) DEF IInv, TypeOK, Untold, Range, Attached, Bound
<1>6. Distinct' /\ \A t \in Threads : OwnInv(t)'
  BY <1>1, <1>2, <1>5 DEF IInv, Distinct, OwnInv
<1>7. \A t \in Threads, c \in Buffers : PairInv(t, c)'
  BY <1>1, <1>2, <1>5, SMTT(30) DEF IInv, PairInv
<1>8. \A c \in Buffers : BufferInv(c)'
  BY <1>1, <1>2 DEF IInv, BufferInv, Expanding
<1>9. CountInv'
  <2>1. (Constructing' => Constructing) /\ (Exiting' <=> Exiting)
    BY <1>1, <1>2 DEF Constructing, Exiting
  <2>2. QED  BY <1>1, <1>3, <2>1, CountFacts, SMTT(30) DEF IInv, CountInv
<1>10. RefsMatch'
  <2>1. \A r \in Slots : Holders(r)' = Holders(r)
    BY <1>1, <1>2 DEF Holders
  <2>2. QED  BY <1>1, <2>1, RefsKept DEF IInv
<1>11. QED  BY <1>4, <1>6, <1>7, <1>8, <1>9, <1>10 DEF IInv

LEMMA DeregisterInv == ASSUME IInv, NEW b \in Buffers, Deregister(b) PROVE IInv'
<1>1. /\ bpc[b] = "live" /\ scan[b] = None /\ notifiers' = Unlink(notifiers, b)
      /\ bpc' = [bpc EXCEPT ![b] = "waiting"]
      /\ UNCHANGED <<free, cursor, ref, ongoing, spinner, pc, slot, todo, btodo, slots, buf, exited, scan>>
  BY DEF Deregister, threads
<1>2. bpc'[b] = "waiting" /\ \A c \in Buffers \ {b} : bpc'[c] = bpc[c]
  BY <1>1 DEF IInv, TypeOK
<1>3. /\ notifiers' \in Seq(Buffers) /\ IsInjective(notifiers')
      /\ Range(notifiers') = Range(notifiers) \ {b}
  <2>1. b \in Range(notifiers) /\ notifiers \in Seq(Buffers) /\ IsInjective(notifiers)
    BY <1>1 DEF IInv, BufferInv, TypeOK, CountInv
  <2>2. QED  BY <1>1, <2>1, UnlinkSet
<1>4. TypeOK'
  BY <1>1, <1>3 DEF IInv, TypeOK
<1>5. \A t \in Threads : Untold(t)' = Untold(t) /\ Untold(t) \subseteq Buffers
                         /\ (Attached(t)' <=> Attached(t)) /\ (Bound(t)' <=> Bound(t))
  BY <1>1, SMTT(30) DEF IInv, TypeOK, Untold, Range, Attached, Bound
<1>6. Distinct' /\ \A t \in Threads : OwnInv(t)'
  BY <1>1, <1>2, <1>5 DEF IInv, Distinct, OwnInv
<1>7. \A t \in Threads, c \in Buffers : PairInv(t, c)'
  BY <1>1, <1>2, <1>5 DEF IInv, PairInv
<1>8. \A c \in Buffers : BufferInv(c)'
  BY <1>1, <1>2, <1>3 DEF IInv, BufferInv, Expanding
<1>9. CountInv'
  <2>1. Making' = Making /\ Notifying' = Notifying /\ (Constructing' => Constructing) /\ (Exiting' <=> Exiting)
    BY <1>1, <1>2 DEF Constructing, Exiting, Making, Notifying
  <2>2. QED  BY <1>1, <1>3, <2>1 DEF IInv, CountInv
<1>10. RefsMatch'
  <2>1. \A r \in Slots : Holders(r)' = Holders(r)
    BY <1>1, <1>2 DEF Holders
  <2>2. QED  BY <1>1, <2>1, RefsKept DEF IInv
<1>11. QED  BY <1>4, <1>6, <1>7, <1>8, <1>9, <1>10 DEF IInv

(* Nothing is under way: no thread has anything left to tell.                 *)
LEMMA DeregisteredInv == ASSUME IInv, NEW b \in Buffers, Deregistered(b) PROVE IInv'
<1>1. /\ bpc[b] = "waiting" /\ ongoing = 0 /\ btodo' = [btodo EXCEPT ![b] = slots[b]]
      /\ bpc' = [bpc EXCEPT ![b] = "releasing"]
      /\ UNCHANGED <<free, cursor, ref, notifiers, ongoing, spinner, pc, slot, todo, slots, buf, exited, scan>>
  BY DEF Deregistered, registry, threads, NothingOngoing
<1>2. /\ bpc'[b] = "releasing" /\ btodo'[b] = slots[b]
      /\ \A c \in Buffers \ {b} : bpc'[c] = bpc[c] /\ btodo'[c] = btodo[c]
  BY <1>1 DEF IInv, TypeOK
<1>3. \A t \in Threads : todo[t] = <<>>
  <2>1. Notifying = {}
    BY <1>1, CountFacts, SMTT(30) DEF IInv, CountInv
  <2>2. \A t \in Threads : pc[t] \notin {"attaching", "detaching"}
    BY <2>1 DEF Notifying
  <2>3. QED  BY <2>2 DEF IInv, TypeOK, OwnInv
<1>4. TypeOK'
  BY <1>1 DEF IInv, TypeOK
<1>5. \A t \in Threads : Untold(t)' = Untold(t) /\ Untold(t) = {}
                         /\ (Attached(t)' <=> Attached(t)) /\ (Bound(t)' <=> Bound(t))
  BY <1>1, <1>3, SMTT(30) DEF Untold, Range, Attached, Bound
<1>6. Distinct' /\ \A t \in Threads : OwnInv(t)'
  BY <1>1, <1>5, SMTT(30) DEF IInv, Distinct, OwnInv
<1>7. \A t \in Threads, c \in Buffers : PairInv(t, c)'
  BY <1>1, <1>2, <1>5 DEF IInv, PairInv
<1>8. \A c \in Buffers : BufferInv(c)'
  BY <1>1, <1>2 DEF IInv, BufferInv, Expanding
<1>9. CountInv'
  <2>1. Making' = Making /\ Notifying' = Notifying /\ (Constructing' => Constructing) /\ (Exiting' <=> Exiting)
    BY <1>1, <1>2 DEF Constructing, Exiting, Making, Notifying
  <2>2. QED  BY <1>1, <2>1 DEF IInv, CountInv
<1>10. RefsMatch'
  <2>1. \A r \in Slots : Holders(r)' = Holders(r)
    BY <1>1, <1>2 DEF Holders
  <2>2. QED  BY <1>1, <2>1, RefsKept DEF IInv
<1>11. QED  BY <1>4, <1>6, <1>7, <1>8, <1>9, <1>10 DEF IInv

LEMMA ReleaseSlotInv == ASSUME IInv, NEW b \in Buffers, ReleaseSlot(b) PROVE IInv'
<1>0. PICK s : s = Min(btodo[b])
  OBVIOUS
<1>1. bpc[b] = "releasing" /\ btodo[b] # {} /\ btodo[b] \subseteq Slots
  BY DEF ReleaseSlot, IInv, TypeOK
<1>2. s \in btodo[b] /\ s \in Slots
  BY <1>0, <1>1, MinSlot
<1>3. /\ ref' = [ref EXCEPT ![s] = @ - 1] /\ btodo' = [btodo EXCEPT ![b] = @ \ {s}]
      /\ UNCHANGED <<free, cursor, notifiers, ongoing, spinner, pc, slot, todo,
                     bpc, slots, buf, exited, scan>>
  BY <1>0 DEF ReleaseSlot, slot_release, threads
<1>4. btodo'[b] = btodo[b] \ {s} /\ \A c \in Buffers \ {b} : btodo'[c] = btodo[c]
  BY <1>3 DEF IInv, TypeOK
<1>5. RefsMatch' /\ ref' \in [Slots -> Nat]
  <2>1. b \in Holders(s) /\ Holders(s)' = Holders(s) \ {b}
    <3>1. b \in Holders(s) /\ b \notin Holders(s)'
      BY <1>1, <1>2, <1>3, <1>4 DEF Holders
    <3>2. \A c \in Buffers \ {b} : c \in Holders(s)' <=> c \in Holders(s)
      BY <1>3, <1>4 DEF Holders
    <3>3. Holders(s) \subseteq Buffers /\ Holders(s)' \subseteq Buffers
      BY DEF Holders
    <3>4. QED  BY <3>1, <3>2, <3>3
  <2>2. \A r \in Slots \ {s} : Holders(r)' = Holders(r)
    BY <1>1, <1>3, <1>4 DEF Holders
  <2>3. QED  BY <1>2, <1>3, <2>1, <2>2, RefGiven DEF IInv, TypeOK
<1>6. TypeOK'
  BY <1>2, <1>3, <1>5 DEF IInv, TypeOK
<1>7. Distinct' /\ \A t \in Threads : OwnInv(t)'
  BY <1>3 DEF IInv, Distinct, OwnInv, Bound, Attached, Untold
<1>8. ASSUME NEW t \in Threads, NEW c \in Buffers PROVE PairInv(t, c)'
  <2>1. PairInv(t, c) /\ UNCHANGED <<pc, slot, bpc, slots>> /\ (Attached(t)' <=> Attached(t))
        /\ Untold(t)' = Untold(t)
    BY <1>3 DEF IInv, Attached, Untold
  <2>2. CASE c = b
    BY <1>1, <2>1, <2>2, NotAwaited DEF PairInv
  <2>3. CASE c # b
    BY <1>4, <2>1, <2>3 DEF PairInv
  <2>4. QED  BY <2>2, <2>3
<1>9. \A c \in Buffers : BufferInv(c)'
  BY <1>1, <1>3, <1>4 DEF IInv, BufferInv, Expanding
<1>10. CountInv'
  BY <1>3 DEF IInv, CountInv, Notifying, Making, Constructing, Exiting
<1>11. QED  BY <1>5, <1>6, <1>7, <1>8, <1>9, <1>10 DEF IInv

LEMMA DestroyedInv == ASSUME IInv, NEW b \in Buffers, Destroyed(b) PROVE IInv'
<1>1. /\ bpc[b] = "releasing" /\ btodo[b] = {} /\ bpc' = [bpc EXCEPT ![b] = "none"]
      /\ slots' = [slots EXCEPT ![b] = {}] /\ buf' = [buf EXCEPT ![b] = [s \in Slots |-> Null]]
      /\ exited' = [exited EXCEPT ![b] = {}]
      /\ UNCHANGED <<free, cursor, ref, notifiers, ongoing, spinner, pc, slot, todo, btodo, scan>>
  BY DEF Destroyed, registry, threads
<1>2. /\ bpc'[b] = "none" /\ slots'[b] = {} /\ buf'[b] = [s \in Slots |-> Null] /\ exited'[b] = {}
      /\ \A c \in Buffers \ {b} : /\ bpc'[c] = bpc[c] /\ slots'[c] = slots[c]
                                  /\ buf'[c] = buf[c] /\ exited'[c] = exited[c]
  BY <1>1 DEF IInv, TypeOK
<1>3. TypeOK'
  BY <1>1 DEF IInv, TypeOK
<1>4. \A t \in Threads : /\ Untold(t)' = Untold(t) /\ Untold(t) \subseteq Buffers /\ b \notin Untold(t)
                         /\ (Attached(t)' <=> Attached(t)) /\ (Bound(t)' <=> Bound(t))
  <2>1. \A t \in Threads : b \notin Untold(t)
    BY <1>1, NotAwaited
  <2>2. \A t \in Threads : Untold(t) \subseteq Buffers
    BY SMTT(30) DEF IInv, TypeOK, Untold, Range
  <2>3. QED  BY <1>1, <2>1, <2>2 DEF Untold, Attached, Bound
<1>5. Distinct' /\ \A t \in Threads : OwnInv(t)'
  BY <1>1, <1>2, <1>4 DEF IInv, Distinct, OwnInv
<1>6. \A t \in Threads, c \in Buffers : PairInv(t, c)'
  BY <1>1, <1>2, <1>4, SMTT(30) DEF IInv, PairInv
<1>7. \A c \in Buffers : BufferInv(c)'
  BY <1>1, <1>2, SMTT(30) DEF IInv, BufferInv, Expanding
<1>8. CountInv'
  <2>1. Making' = Making /\ Notifying' = Notifying /\ (Constructing' => Constructing) /\ (Exiting' <=> Exiting)
    BY <1>1, <1>2 DEF Constructing, Exiting, Making, Notifying
  <2>2. QED  BY <1>1, <2>1 DEF IInv, CountInv
<1>9. RefsMatch'
  <2>1. \A r \in Slots : Holders(r)' = Holders(r)
    BY <1>1, <1>2 DEF Holders
  <2>2. QED  BY <1>1, <2>1, RefsKept DEF IInv
<1>10. QED  BY <1>3, <1>5, <1>6, <1>7, <1>8, <1>9 DEF IInv

(* A scan changes nothing but its own progress and the exited objects.        *)
LEMMA ScanInv ==
  ASSUME IInv, NEW b \in Buffers, StartScan(b) \/ ScanNext(b) \/ EndScan(b) \/ ScanExited(b)
  PROVE  IInv'
<1>1. UNCHANGED <<free, cursor, ref, notifiers, ongoing, spinner, pc, slot, todo, bpc, btodo, slots, buf>>
  BY DEF StartScan, ScanNext, EndScan, ScanExited, registry, threads
<1>2. /\ bpc[b] = "live" /\ exited' \in [Buffers -> SUBSET (Threads \cup {Null, "fresh"})]
      /\ scan' \in [Buffers -> (SUBSET Slots) \cup {None, Exited}]
      /\ scan'[b] \notin {None, Exited} => scan'[b] \subseteq slots[b]
      /\ exited'[b] \subseteq exited[b]
      /\ \A c \in Buffers \ {b} : scan'[c] = scan[c] /\ exited'[c] = exited[c]
  <2>0. /\ exited \in [Buffers -> SUBSET (Threads \cup {Null, "fresh"})]
        /\ scan \in [Buffers -> (SUBSET Slots) \cup {None, Exited}] /\ slots[b] \subseteq Slots
        /\ BufferInv(b)
    BY DEF IInv, TypeOK
  <2>1. CASE StartScan(b)
    BY <2>0, <2>1 DEF StartScan
  <2>2. CASE ScanNext(b)
    <3>1. scan' = [scan EXCEPT ![b] = find_next(b)] /\ exited' = exited /\ Expanding(b)
      BY <2>2 DEF ScanNext
    <3>2. find_next(b) \subseteq scan[b] /\ scan[b] \subseteq slots[b] /\ bpc[b] = "live"
      BY <2>0, <3>1 DEF find_next, BufferInv, Expanding
    <3>3. QED  BY <2>0, <3>1, <3>2
  <2>3. CASE EndScan(b)
    <3>1. scan[b] = {} /\ exited' = exited
          /\ (scan' = [scan EXCEPT ![b] = Exited] \/ scan' = [scan EXCEPT ![b] = None])
      BY <2>3 DEF EndScan
    <3>2. bpc[b] = "live"
      BY <2>0, <3>1, MarkAssumption DEF BufferInv
    <3>3. QED  BY <2>0, <3>1, <3>2
  <2>4. CASE ScanExited(b)
    <3>1. scan[b] = Exited /\ scan' = [scan EXCEPT ![b] = None]
          /\ (exited' = [exited EXCEPT ![b] = {}] \/ exited' = [exited EXCEPT ![b] = @])
      BY <2>4 DEF ScanExited
    <3>2. bpc[b] = "live"
      BY <2>0, <3>1, MarkAssumption DEF BufferInv
    <3>3. QED  BY <2>0, <3>1, <3>2
  <2>5. QED  BY <2>1, <2>2, <2>3, <2>4
<1>3. TypeOK'
  BY <1>1, <1>2 DEF IInv, TypeOK
<1>4. Distinct' /\ (\A t \in Threads : OwnInv(t)') /\ \A t \in Threads, c \in Buffers : PairInv(t, c)'
  BY <1>1 DEF IInv, Distinct, OwnInv, PairInv, Bound, Attached, Untold
<1>5. \A c \in Buffers : BufferInv(c)'
  BY <1>1, <1>2 DEF IInv, BufferInv, Expanding
<1>6. CountInv' /\ RefsMatch'
  BY <1>1 DEF IInv, CountInv, Notifying, Making, Constructing, Exiting, RefsMatch
<1>7. QED  BY <1>3, <1>4, <1>5, <1>6 DEF IInv

LEMMA StepInv == ASSUME ~Overlap, IInv, [Next]_vars PROVE IInv'
<1>1. ASSUME NEW t \in Threads, Attach(t) \/ Detach(t) \/ ThreadStep(t) \/ \E b \in Buffers : Use(t, b)
      PROVE  IInv'
  <2>1. CASE Attach(t)
    BY <2>1, AttachInv
  <2>2. CASE Detach(t)
    BY <2>2, DetachInv
  <2>3. CASE TakeSlot(t)
    BY <2>3, TakeSlotInv, ThrowInv
  <2>4. CASE NotifyAttached(t)
    BY <2>4, NotifyAttachedInv
  <2>5. CASE NotifyDetached(t)
    BY <2>5, NotifyDetachedInv
  <2>6. CASE FinishThread(t)
    BY <2>6, FinishThreadInv
  <2>7. CASE \E b \in Buffers : Use(t, b)
    BY <2>7, UseInv
  <2>8. QED  BY <1>1, <2>1, <2>2, <2>3, <2>4, <2>5, <2>6, <2>7 DEF ThreadStep
<1>2. ASSUME NEW b \in Buffers,
             Register(b) \/ Deregister(b) \/ Deregistered(b) \/ StartScan(b) \/ BufferStep(b)
      PROVE  IInv'
  BY <1>2, RegisterInv, DeregisterInv, DeregisteredInv, ScanInv, NotifyExistingInv,
     FinishRegisterInv, ReleaseSlotInv, DestroyedInv
     DEF BufferStep
<1>3. CASE UNCHANGED vars
  <2>1. TypeOK' /\ Distinct' /\ CountInv' /\ RefsMatch'
    BY <1>3, SMTT(30)
       DEF vars, IInv, TypeOK, Distinct, CountInv, Notifying, Making, Constructing, Exiting,
           RefsMatch, Bound, Attached
  <2>2. /\ \A t \in Threads : OwnInv(t)'
        /\ \A t \in Threads, c \in Buffers : PairInv(t, c)'
        /\ \A c \in Buffers : BufferInv(c)'
    BY <1>3 DEF vars, IInv, OwnInv, PairInv, BufferInv, Expanding, Bound, Attached, Untold
  <2>3. QED  BY <2>1, <2>2 DEF IInv
<1>4. QED  BY <1>1, <1>2, <1>3 DEF Next

(* The inductive invariant of the registry and its buffers holds in every
   reachable state while no buffer is constructed as a thread exits.          *)
THEOREM Invariance == ASSUME ~Overlap PROVE Spec => []IInv
BY InitInv, StepInv, PTL DEF Spec

------------------------------------------------------------------------------
(* While no buffer is constructed as a thread exits, an attached thread has a
   slot of its own and an object in every buffer that is constructed, no
   object is replaced by create_buffer, and a slot's reference count is the
   number of buffers that hold an object for it: the promise of get(), "the
   slot is guaranteed to exist", for any number of threads and buffers.       *)
THEOREM SlotsHold == ASSUME ~Overlap PROVE Spec => []SlotsSound
<1>1. ASSUME IInv PROVE SlotsSound
  <2>1. SlotExists
    BY <1>1, SMTT(30) DEF IInv, SlotExists, OwnInv, PairInv, BufferInv, Attached, Untold, Range
  <2>2. SlotNotShared
    BY <1>1 DEF IInv, SlotNotShared, Distinct, Bound, Attached
  <2>3. SlotIsFresh
    BY <1>1, SMTT(30) DEF IInv, SlotIsFresh, TypeOK, OwnInv, PairInv, BufferInv, Untold, Range
  <2>4. QED  BY <1>1, <2>1, <2>2, <2>3 DEF SlotsSound, IInv
<1>2. QED  BY <1>1, Invariance, PTL

(* Under the same condition no thread calls a buffer that is past
   deregister_sc_notification, and access_all_threads hands out no null
   object.                                                                    *)
THEOREM CallbacksHold == ASSUME ~Overlap PROVE Spec => []CallbacksSound
<1>1. ASSUME IInv PROVE CallbacksSound
  <2>1. NoCallbackToDead
    BY <1>1 DEF IInv, NoCallbackToDead, OwnInv, Untold
  <2>2. ScansRealObjects
    BY <1>1 DEF IInv, TypeOK, ScansRealObjects, BufferInv, Expanding
  <2>3. QED  BY <2>1, <2>2 DEF CallbacksSound
<1>2. QED  BY <1>1, Invariance, PTL

(* Under the same condition nobody else writes, replaces or frees the object
   of a running thread in a live buffer.                                      *)
THEOREM ObjectsHold == ASSUME ~Overlap PROVE Spec => ObjectKept
<1> DEFINE Kept == \A t \in Threads, b \in Buffers :
          pc[t] = "running" /\ bpc[b] = "live" /\ buf[b][slot[t]] = t
          /\ pc'[t] = "running" /\ bpc'[b] = "live"
          => buf'[b][slot[t]] = t
<1>1. ASSUME IInv, [Next]_vars PROVE Kept
  <2> SUFFICES ASSUME NEW t \in Threads, NEW b \in Buffers, pc[t] = "running", bpc[b] = "live",
                      buf[b][slot[t]] = t
               PROVE  buf'[b][slot[t]] = t
    OBVIOUS
  <2>1. /\ buf \in [Buffers -> [Slots -> Threads \cup {Null, "fresh"}]]
        /\ slot[t] \in Slots /\ Bound(t)
    BY <1>1 DEF IInv, TypeOK, OwnInv, Bound, Attached
  <2>2. ASSUME NEW u \in Threads, u # t, Bound(u) PROVE slot[u] # slot[t]
    BY <1>1, <2>1, <2>2 DEF IInv, Distinct
  <2>3. ASSUME NEW u \in Threads, NotifyAttached(u) \/ NotifyDetached(u) PROVE buf'[b][slot[t]] = t
    <3>1. u # t /\ Bound(u)
      BY <2>3 DEF NotifyAttached, NotifyDetached, Bound
    <3>2. slot[u] # slot[t]
      BY <2>2, <3>1
    <3>3. \E c, v : buf' = [buf EXCEPT ![c][slot[u]] = v]
      BY <2>3 DEF NotifyAttached, NotifyDetached, create_buffer, release_buffer
    <3>4. QED  BY <2>1, <3>2, <3>3
  <2>4. ASSUME NEW u \in Threads, NEW c \in Buffers, Use(u, c) PROVE buf'[b][slot[t]] = t
    <3>1. Bound(u) /\ buf' = [buf EXCEPT ![c][slot[u]] = u]
      BY <2>4 DEF Use, Bound, Attached
    <3>2. CASE u = t
      BY <2>1, <3>1, <3>2
    <3>3. CASE u # t
      <4>1. slot[u] # slot[t]
        BY <2>2, <3>1, <3>3
      <4>2. QED  BY <2>1, <3>1, <4>1
    <3>4. QED  BY <3>2, <3>3
  <2>5. ASSUME NEW c \in Buffers, NotifyExisting(c) \/ Destroyed(c) PROVE buf'[b][slot[t]] = t
    <3>1. c # b
      BY <2>5 DEF NotifyExisting, Destroyed
    <3>2. CASE NotifyExisting(c)
      <4>1. \E s : buf' = [buf EXCEPT ![c][s] = "fresh"]
        BY <3>2 DEF NotifyExisting, create_buffer
      <4>2. QED  BY <2>1, <3>1, <4>1
    <3>3. CASE Destroyed(c)
      BY <2>1, <3>1, <3>3 DEF Destroyed
    <3>4. QED  BY <2>5, <3>2, <3>3
  <2>6. CASE UNCHANGED buf
    BY <2>6
  <2>7. \/ UNCHANGED buf
        \/ \E u \in Threads : NotifyAttached(u) \/ NotifyDetached(u)
        \/ \E u \in Threads, c \in Buffers : Use(u, c)
        \/ \E c \in Buffers : NotifyExisting(c) \/ Destroyed(c)
    BY <1>1
       DEF Next, ThreadStep, BufferStep, Attach, Detach, TakeSlot, FinishThread, Register,
           Deregister, Deregistered, StartScan, FinishRegister, ReleaseSlot, ScanNext, EndScan,
           ScanExited, buffers, vars
  <2>8. QED  BY <2>3, <2>4, <2>5, <2>6, <2>7
<1>2. QED  BY <1>1, Invariance, PTL DEF ObjectKept, Spec

------------------------------------------------------------------------------
(* Pools: a block is with one user or on one list.                            *)

PoolTypeOK ==
  /\ DOMAIN live \subseteq Blocks /\ DOMAIN lent \subseteq DOMAIN live
  /\ \A b \in DOMAIN live : live[b] \in [size : Int, used : BOOLEAN]
  /\ \A b \in DOMAIN lent : lent[b] \in Int
  /\ listOf \in [PoolThreads -> Seq(Blocks)] /\ hasList \subseteq PoolThreads

\* What is on a list is there once and has no user; what has no user is on one.
OnOneList ==
  /\ \A t \in PoolThreads : \A i \in 1 .. Len(listOf[t]) : listOf[t][i] \in DOMAIN live \ DOMAIN lent
  /\ \A t, u \in PoolThreads : \A i \in 1 .. Len(listOf[t]) : \A j \in 1 .. Len(listOf[u]) :
       listOf[t][i] = listOf[u][j] => t = u /\ i = j
  /\ \A b \in DOMAIN live \ DOMAIN lent :
       \E t \in PoolThreads : \E i \in 1 .. Len(listOf[t]) : listOf[t][i] = b

SizesFit ==
  /\ \A b \in DOMAIN lent : lent[b] <= BlockSize /\ live[b].size >= lent[b]
  /\ \A t \in PoolThreads : \A i \in 1 .. Len(listOf[t]) :
       live[listOf[t][i]].size >= BlockSize /\ ~live[listOf[t][i]].used

PoolInv == PoolTypeOK /\ OnOneList /\ ListsBounded /\ SizesFit

\* FreeListAllocator does not look into its blocks ...
NoneUsed == \A b \in DOMAIN live : ~live[b].used
\* ... and VectorPool lends vectors of one kind.
OneKind == \A b \in DOMAIN lent : lent[b] = BlockSize

LEMMA WithoutFacts ==
  ASSUME NEW f, NEW b
  PROVE  /\ DOMAIN Without(f, b) = DOMAIN f \ {b}
         /\ \A x \in DOMAIN f \ {b} : Without(f, b)[x] = f[x]
BY DEF Without

LEMMA PoolInitInv == PoolInit => PoolInv /\ NoneUsed /\ OneKind
<1> SUFFICES ASSUME PoolInit PROVE PoolInv /\ NoneUsed /\ OneKind
  OBVIOUS
<1>1. /\ DOMAIN live = {} /\ DOMAIN lent = {} /\ hasList = {}
      /\ listOf \in [PoolThreads -> Seq(Blocks)]
      /\ \A t \in PoolThreads : listOf[t] = <<>> /\ Len(listOf[t]) = 0
  BY SMTT(30) DEF PoolInit
<1>2. QED
  BY <1>1, PoolAssumption, SMTT(30)
     DEF PoolInv, PoolTypeOK, OnOneList, ListsBounded, SizesFit, NoneUsed, OneKind

\* From the invariant to what the run checks.
LEMMA PoolInvSound == PoolInv => PoolsSound
<1> SUFFICES ASSUME PoolInv PROVE PoolsSound
  OBVIOUS
<1> DEFINE inList(b) == {p \in PoolThreads \X (1 .. MaxListCount + 1) :
                           p[2] <= Len(listOf[p[1]]) /\ listOf[p[1]][p[2]] = b}
<1>1. ASSUME NEW t \in PoolThreads
      PROVE  /\ DOMAIN listOf[t] = 1 .. Len(listOf[t]) /\ Len(listOf[t]) \in Nat
             /\ Range(listOf[t]) = {listOf[t][i] : i \in 1 .. Len(listOf[t])}
  BY SMTT(30) DEF PoolInv, PoolTypeOK, Range
<1>2. ASSUME NEW b \in DOMAIN live PROVE Cardinality(inList(b)) = IF b \in DOMAIN lent THEN 0 ELSE 1
  <2>1. CASE b \in DOMAIN lent
    <3>1. inList(b) = {}
      BY <1>1, <2>1, SMTT(30) DEF PoolInv, OnOneList
    <3>2. QED  BY <2>1, <3>1, FS_EmptySet
  <2>2. CASE b \notin DOMAIN lent
    <3>1. PICK t \in PoolThreads : \E i \in 1 .. Len(listOf[t]) : listOf[t][i] = b
      BY <2>2 DEF PoolInv, OnOneList
    <3>2. PICK i \in 1 .. Len(listOf[t]) : listOf[t][i] = b
      BY <3>1
    <3>3. i \in 1 .. MaxListCount + 1 /\ i <= Len(listOf[t])
      BY <1>1, PoolAssumption, SMTT(30) DEF PoolInv, ListsBounded
    <3>4. ASSUME NEW u \in PoolThreads, NEW j \in 1 .. MaxListCount + 1, j <= Len(listOf[u]), listOf[u][j] = b
          PROVE  u = t /\ j = i
      <4>1. j \in 1 .. Len(listOf[u])
        BY <1>1, <3>4, PoolAssumption, SMTT(30)
      <4>2. QED  BY <3>2, <3>4, <4>1, SMTT(30) DEF PoolInv, OnOneList
    <3>5. inList(b) = {<<t, i>>}
      <4>1. ASSUME NEW p \in inList(b) PROVE p = <<t, i>>
        <5>1. PICK u \in PoolThreads, j \in 1 .. MaxListCount + 1 :
                p = <<u, j>> /\ j <= Len(listOf[u]) /\ listOf[u][j] = b
          BY SMTT(30)
        <5>2. QED  BY <3>4, <5>1
      <4>2. <<t, i>> \in inList(b)
        BY <3>2, <3>3
      <4> HIDE DEF inList
      <4>3. QED  BY <4>1, <4>2
    <3> HIDE DEF inList
    <3>6. QED  BY <2>2, <3>5, FS_Singleton
  <2>3. QED  BY <2>1, <2>2
<1>3. \A t \in PoolThreads : Range(listOf[t]) \subseteq DOMAIN live /\ \A b \in Range(listOf[t]) : ~live[b].used
  <2>1. ASSUME NEW t \in PoolThreads, NEW b \in Range(listOf[t]) PROVE b \in DOMAIN live /\ ~live[b].used
    <3>0. b \in {listOf[t][i] : i \in 1 .. Len(listOf[t])}
      BY <1>1
    <3>1. PICK i \in 1 .. Len(listOf[t]) : b = listOf[t][i]
      BY <3>0
    <3>2. QED  BY <3>1 DEF PoolInv, OnOneList, SizesFit
  <2>2. QED  BY <2>1
<1>4. BlocksAccounted
  BY <1>2, <1>3 DEF BlocksAccounted, PoolInv, PoolTypeOK
<1>5. BlockFits /\ PooledAreEmpty
  BY <1>3 DEF BlockFits, PooledAreEmpty, PoolInv, SizesFit
<1>6. QED  BY <1>4, <1>5 DEF PoolsSound, PoolInv

------------------------------------------------------------------------------
\* A list gives its top block, or the system a new one.
LEMMA AllocateInv ==
  ASSUME PoolInv, NEW t \in PoolThreads, NEW size \in Int, size <= BlockSize, allocate(t, size)
  PROVE  /\ PoolInv'
         /\ NoneUsed => NoneUsed'
         /\ OneKind /\ size = BlockSize => OneKind'
<1> USE PoolAssumption
<1>1. /\ listOf \in [PoolThreads -> Seq(Blocks)] /\ listOf[t] \in Seq(Blocks)
      /\ hasList' = hasList \cup {t} /\ hasList' \subseteq PoolThreads
  BY DEF allocate, PoolInv, PoolTypeOK
<1>2. CASE listOf[t] = <<>>
  <2>1. NewBlock \in Blocks \ DOMAIN live
    BY <1>2 DEF allocate, NewBlock, PoolInv, PoolTypeOK
  <2>2. PICK n \in Blocks \ DOMAIN live : n = NewBlock
    BY <2>1
  <2>3. /\ live' = With(live, n, [size |-> size, used |-> FALSE]) /\ lent' = With(lent, n, size)
        /\ UNCHANGED listOf
    BY <1>2, <2>2 DEF allocate
  <2>4. /\ DOMAIN live' = DOMAIN live \cup {n} /\ live'[n] = [size |-> size, used |-> FALSE]
        /\ \A b \in DOMAIN live : live'[b] = live[b]
        /\ DOMAIN lent' = DOMAIN lent \cup {n} /\ lent'[n] = size
        /\ \A b \in DOMAIN lent : lent'[b] = lent[b]
    <3>1. n \notin DOMAIN lent
      BY <2>2 DEF PoolInv, PoolTypeOK
    <3>2. QED  BY <2>2, <2>3, <3>1 DEF With
  <2>5. live'[n] \in [size : Int, used : BOOLEAN] /\ live'[n].size = size /\ live'[n].used = FALSE
    BY <2>4, SMTT(30)
  <2>6. PoolTypeOK'
    BY <1>1, <2>2, <2>3, <2>4, <2>5 DEF PoolInv, PoolTypeOK
  <2>7. OnOneList'
    <3>1. \A u \in PoolThreads : \A i \in 1 .. Len(listOf[u]) : listOf[u][i] \in DOMAIN live' \ DOMAIN lent'
      BY <2>2, <2>4, SMTT(30) DEF PoolInv, OnOneList
    <3>2. DOMAIN live' \ DOMAIN lent' = DOMAIN live \ DOMAIN lent
      BY <2>2, <2>4
    <3>3. /\ \A u, v \in PoolThreads : \A i \in 1 .. Len(listOf[u]) : \A j \in 1 .. Len(listOf[v]) :
               listOf[u][i] = listOf[v][j] => u = v /\ i = j
          /\ \A b \in DOMAIN live \ DOMAIN lent :
               \E u \in PoolThreads : \E i \in 1 .. Len(listOf[u]) : listOf[u][i] = b
      BY DEF PoolInv, OnOneList
    <3>4. \A u \in PoolThreads : \A i \in 1 .. Len(listOf'[u]) : listOf'[u][i] \in DOMAIN live' \ DOMAIN lent'
      BY <2>3, <3>1
    <3>5. \A u, v \in PoolThreads : \A i \in 1 .. Len(listOf'[u]) : \A j \in 1 .. Len(listOf'[v]) :
            listOf'[u][i] = listOf'[v][j] => u = v /\ i = j
      BY <2>3, <3>3, SMTT(30)
    <3>6. \A b \in DOMAIN live' \ DOMAIN lent' :
            \E u \in PoolThreads : \E i \in 1 .. Len(listOf'[u]) : listOf'[u][i] = b
      BY <2>3, <3>2, <3>3
    <3>7. QED  BY <3>4, <3>5, <3>6 DEF OnOneList
  <2>8. ListsBounded'
    BY <1>1, <2>3 DEF PoolInv, ListsBounded
  <2>9. SizesFit'
    <3>1. ASSUME NEW b \in DOMAIN lent' PROVE lent'[b] <= BlockSize /\ live'[b].size >= lent'[b]
      BY <2>4, <2>5, SMTT(30) DEF PoolInv, PoolTypeOK, SizesFit
    <3>2. ASSUME NEW u \in PoolThreads, NEW i \in 1 .. Len(listOf[u])
          PROVE  live'[listOf[u][i]].size >= BlockSize /\ ~live'[listOf[u][i]].used
      BY <2>4 DEF PoolInv, OnOneList, SizesFit
    <3>3. QED  BY <2>3, <3>1, <3>2 DEF SizesFit
  <2>10. /\ NoneUsed => NoneUsed'
         /\ OneKind /\ size = BlockSize => OneKind'
    BY <2>4, <2>5 DEF NoneUsed, OneKind
  <2>11. QED  BY <2>6, <2>7, <2>8, <2>9, <2>10 DEF PoolInv
<1>3. CASE listOf[t] # <<>>
  <2>1. PICK h : h = Head(listOf[t])
    OBVIOUS
  <2>2. /\ h = listOf[t][1] /\ 1 \in 1 .. Len(listOf[t]) /\ Len(listOf[t]) \in Nat
        /\ Tail(listOf[t]) \in Seq(Blocks) /\ Len(Tail(listOf[t])) = Len(listOf[t]) - 1
        /\ \A i \in 1 .. Len(Tail(listOf[t])) : Tail(listOf[t])[i] = listOf[t][i + 1] /\ i + 1 \in 1 .. Len(listOf[t])
    BY <1>1, <1>3, <2>1, SMTT(30)
  <2>3. h \in DOMAIN live \ DOMAIN lent /\ live[h].size >= BlockSize
    BY <2>2 DEF PoolInv, OnOneList, SizesFit
  <2>4. /\ lent' = With(lent, h, size) /\ UNCHANGED live
        /\ listOf' = [listOf EXCEPT ![t] = Tail(listOf[t])]
    BY <1>1, <1>3, <2>1 DEF allocate
  <2>5. /\ DOMAIN lent' = DOMAIN lent \cup {h} /\ lent'[h] = size
        /\ \A b \in DOMAIN lent : lent'[b] = lent[b]
    BY <2>3, <2>4 DEF With
  <2>6. /\ listOf' \in [PoolThreads -> Seq(Blocks)] /\ listOf'[t] = Tail(listOf[t])
        /\ \A u \in PoolThreads \ {t} : listOf'[u] = listOf[u]
    BY <1>1, <2>2, <2>4
  <2>7. PoolTypeOK'
    BY <1>1, <2>3, <2>4, <2>5, <2>6 DEF PoolInv, PoolTypeOK
  <2>8. ASSUME NEW u \in PoolThreads, NEW i \in 1 .. Len(listOf'[u])
        PROVE  \E j \in 1 .. Len(listOf[u]) : /\ listOf'[u][i] = listOf[u][j]
                                              /\ j = IF u = t THEN i + 1 ELSE i
    BY <2>2, <2>6
  <2>9. OnOneList'
    <3>1. ASSUME NEW u \in PoolThreads, NEW i \in 1 .. Len(listOf'[u])
          PROVE  listOf'[u][i] \in DOMAIN live \ DOMAIN lent'
      <4>1. PICK j \in 1 .. Len(listOf[u]) : listOf'[u][i] = listOf[u][j] /\ j = IF u = t THEN i + 1 ELSE i
        BY <2>8
      <4>2. i \in Nat \ {0}
        BY SMTT(30)
      <4>3. ~(u = t /\ j = 1)
        BY <4>1, <4>2, SMTT(30)
      <4>4. listOf[u][j] \in DOMAIN live \ DOMAIN lent
        BY DEF PoolInv, OnOneList
      <4>5. listOf[u][j] # h
        BY <2>2, <4>3, SMTT(30) DEF PoolInv, OnOneList
      <4>6. QED  BY <2>5, <4>1, <4>4, <4>5
    <3>2. ASSUME NEW u \in PoolThreads, NEW v \in PoolThreads, NEW i \in 1 .. Len(listOf'[u]),
                 NEW j \in 1 .. Len(listOf'[v]), listOf'[u][i] = listOf'[v][j]
          PROVE  u = v /\ i = j
      <4>1. PICK k \in 1 .. Len(listOf[u]) : listOf'[u][i] = listOf[u][k] /\ k = IF u = t THEN i + 1 ELSE i
        BY <2>8
      <4>2. PICK l \in 1 .. Len(listOf[v]) : listOf'[v][j] = listOf[v][l] /\ l = IF v = t THEN j + 1 ELSE j
        BY <2>8
      <4>3. u = v /\ k = l
        <5>1. listOf[u][k] = listOf[v][l]
          BY <3>2, <4>1, <4>2
        <5>2. QED  BY <5>1, SMTT(30) DEF PoolInv, OnOneList
      <4>4. i \in Int /\ j \in Int
        BY SMTT(30)
      <4>5. QED  BY <4>1, <4>2, <4>3, <4>4, SMTT(30)
    <3>3. ASSUME NEW b \in DOMAIN live \ DOMAIN lent'
          PROVE  \E u \in PoolThreads : \E i \in 1 .. Len(listOf'[u]) : listOf'[u][i] = b
      <4>1. b \in DOMAIN live \ DOMAIN lent /\ b # h
        BY <2>5
      <4>2. PICK u \in PoolThreads : \E i \in 1 .. Len(listOf[u]) : listOf[u][i] = b
        BY <4>1 DEF PoolInv, OnOneList
      <4>3. PICK i \in 1 .. Len(listOf[u]) : listOf[u][i] = b
        BY <4>2
      <4>4. CASE u # t
        BY <2>6, <4>3, <4>4
      <4>5. CASE u = t
        <5>1. i # 1
          BY <2>2, <4>1, <4>3, <4>5
        <5>2. i - 1 \in 1 .. Len(Tail(listOf[t])) /\ (i - 1) + 1 = i
          BY <2>2, <4>5, <5>1, SMTT(30)
        <5>3. listOf'[t][i - 1] = b
          BY <2>2, <2>6, <4>3, <4>5, <5>2
        <5>4. QED  BY <2>6, <4>5, <5>2, <5>3
      <4>6. QED  BY <4>4, <4>5
    <3>4. QED  BY <2>4, <3>1, <3>2, <3>3 DEF OnOneList
  <2>10. ListsBounded'
    <3>1. Len(listOf'[t]) <= MaxListCount
      BY <2>2, <2>6, SMTT(30) DEF PoolInv, ListsBounded
    <3>2. QED  BY <1>1, <2>6, <3>1 DEF PoolInv, ListsBounded
  <2>11. SizesFit'
    <3>1. ASSUME NEW b \in DOMAIN lent' PROVE lent'[b] <= BlockSize /\ live[b].size >= lent'[b]
      <4>1. live[h].size \in Int
        BY <2>3 DEF PoolInv, PoolTypeOK
      <4>2. QED  BY <2>3, <2>5, <4>1, SMTT(30) DEF PoolInv, SizesFit
    <3>2. ASSUME NEW u \in PoolThreads, NEW i \in 1 .. Len(listOf'[u])
          PROVE  live[listOf'[u][i]].size >= BlockSize /\ ~live[listOf'[u][i]].used
      <4>1. PICK j \in 1 .. Len(listOf[u]) : listOf'[u][i] = listOf[u][j]
        BY <2>8
      <4>2. QED  BY <4>1 DEF PoolInv, SizesFit
    <3>3. QED  BY <2>4, <3>1, <3>2 DEF SizesFit
  <2>12. /\ NoneUsed => NoneUsed'
         /\ OneKind /\ size = BlockSize => OneKind'
    BY <2>4, <2>5 DEF NoneUsed, OneKind
  <2>13. QED  BY <2>7, <2>9, <2>10, <2>11, <2>12 DEF PoolInv
<1>4. QED  BY <1>2, <1>3

------------------------------------------------------------------------------
\* A block given up goes back to the system ...
LEMMA ToSystemInv ==
  ASSUME PoolInv, NEW b \in DOMAIN lent, lent' = Without(lent, b), ToSystem(b), UNCHANGED hasList
  PROVE  /\ PoolInv'
         /\ NoneUsed => NoneUsed'
         /\ OneKind => OneKind'
<1>1. /\ DOMAIN live' = DOMAIN live \ {b} /\ \A x \in DOMAIN live \ {b} : live'[x] = live[x]
      /\ DOMAIN lent' = DOMAIN lent \ {b} /\ \A x \in DOMAIN lent \ {b} : lent'[x] = lent[x]
      /\ UNCHANGED <<listOf, hasList>>
  BY WithoutFacts DEF ToSystem
<1>2. PoolTypeOK'
  BY <1>1 DEF PoolInv, PoolTypeOK
<1>3. OnOneList' /\ ListsBounded'
  BY <1>1, SMTT(30) DEF PoolInv, OnOneList, ListsBounded
<1>4. ASSUME NEW u \in PoolThreads, NEW i \in 1 .. Len(listOf[u])
      PROVE  live'[listOf[u][i]].size >= BlockSize /\ ~live'[listOf[u][i]].used
  <2>1. listOf[u][i] \in DOMAIN live \ {b}
    BY SMTT(30) DEF PoolInv, OnOneList
  <2>2. QED  BY <1>1, <2>1 DEF PoolInv, SizesFit
<1>5. \A x \in DOMAIN lent' : lent'[x] <= BlockSize /\ live'[x].size >= lent'[x]
  BY <1>1 DEF PoolInv, PoolTypeOK, SizesFit
<1>6. SizesFit'
  BY <1>1, <1>4, <1>5 DEF SizesFit
<1>7. /\ NoneUsed => NoneUsed'
      /\ OneKind => OneKind'
  BY <1>1 DEF NoneUsed, OneKind
<1>8. QED  BY <1>2, <1>3, <1>6, <1>7 DEF PoolInv

\* ... or onto the list of the thread that gives it up.
LEMMA ToListInv ==
  ASSUME PoolInv, NEW t \in PoolThreads, t \in hasList, Len(listOf[t]) # MaxListCount,
         NEW b \in DOMAIN lent, lent' = Without(lent, b), UNCHANGED hasList,
         listOf' = [listOf EXCEPT ![t] = <<b>> \o listOf[t]],
         DOMAIN live' = DOMAIN live, \A x \in DOMAIN live \ {b} : live'[x] = live[x],
         live'[b] \in [size : Int, used : BOOLEAN], live'[b].size >= BlockSize, ~live'[b].used
  PROVE  /\ PoolInv'
         /\ NoneUsed => NoneUsed'
         /\ OneKind => OneKind'
<1> USE PoolAssumption
<1>1. /\ listOf \in [PoolThreads -> Seq(Blocks)] /\ listOf[t] \in Seq(Blocks) /\ b \in Blocks /\ b \in DOMAIN live
      /\ Len(listOf[t]) \in Nat
  BY SMTT(30) DEF PoolInv, PoolTypeOK
<1>2. /\ <<b>> \o listOf[t] \in Seq(Blocks) /\ Len(<<b>> \o listOf[t]) = Len(listOf[t]) + 1
      /\ (<<b>> \o listOf[t])[1] = b
      /\ \A i \in 1 .. Len(listOf[t]) : (<<b>> \o listOf[t])[i + 1] = listOf[t][i]
  BY <1>1, SMTT(30)
<1>3. /\ listOf' \in [PoolThreads -> Seq(Blocks)] /\ listOf'[t] = <<b>> \o listOf[t]
      /\ \A u \in PoolThreads \ {t} : listOf'[u] = listOf[u]
  BY <1>1, <1>2
<1>4. DOMAIN lent' = DOMAIN lent \ {b} /\ \A x \in DOMAIN lent \ {b} : lent'[x] = lent[x]
  BY WithoutFacts
<1>5. PoolTypeOK'
  BY <1>1, <1>3, <1>4 DEF PoolInv, PoolTypeOK
<1>6. ASSUME NEW u \in PoolThreads, NEW i \in 1 .. Len(listOf'[u])
      PROVE  \/ u = t /\ i = 1 /\ listOf'[u][i] = b
             \/ \E j \in 1 .. Len(listOf[u]) : /\ listOf'[u][i] = listOf[u][j]
                                               /\ i = IF u = t THEN j + 1 ELSE j
  <2>1. CASE u # t
    BY <1>3, <2>1
  <2>2. CASE u = t /\ i = 1
    BY <1>2, <1>3, <2>2
  <2>3. CASE u = t /\ i # 1
    <3>1. i - 1 \in 1 .. Len(listOf[t]) /\ (i - 1) + 1 = i
      BY <1>1, <1>2, <1>3, <2>3, SMTT(30)
    <3>2. listOf'[t][i] = listOf[t][i - 1]
      BY <1>2, <1>3, <3>1
    <3>3. QED  BY <2>3, <3>1, <3>2
  <2>4. QED  BY <2>1, <2>2, <2>3
<1>7. OnOneList'
  <2>1. ASSUME NEW u \in PoolThreads, NEW i \in 1 .. Len(listOf'[u])
        PROVE  listOf'[u][i] \in DOMAIN live' \ DOMAIN lent'
    <3>1. CASE \E j \in 1 .. Len(listOf[u]) : listOf'[u][i] = listOf[u][j]
      BY <1>4, <3>1 DEF PoolInv, OnOneList
    <3>2. CASE listOf'[u][i] = b
      BY <1>1, <1>4, <3>2
    <3>3. QED  BY <1>6, <3>1, <3>2
  <2>2. ASSUME NEW u \in PoolThreads, NEW v \in PoolThreads, NEW i \in 1 .. Len(listOf'[u]),
               NEW j \in 1 .. Len(listOf'[v]), listOf'[u][i] = listOf'[v][j]
        PROVE  u = v /\ i = j
    <3>1. \A w \in PoolThreads : \A k \in 1 .. Len(listOf[w]) : listOf[w][k] # b
      BY SMTT(30) DEF PoolInv, OnOneList
    <3>2. CASE listOf'[u][i] = b
      <4>1. u = t /\ i = 1
        BY <1>6, <3>1, <3>2, SMTT(30)
      <4>2. v = t /\ j = 1
        <5>1. listOf'[v][j] = b
          BY <2>2, <3>2
        <5>2. QED  BY <1>6, <3>1, <5>1, SMTT(30)
      <4>3. QED  BY <4>1, <4>2
    <3>3. CASE listOf'[u][i] # b
      <4>1. PICK k \in 1 .. Len(listOf[u]) : listOf'[u][i] = listOf[u][k] /\ i = IF u = t THEN k + 1 ELSE k
        BY <1>6, <3>3
      <4>2. PICK l \in 1 .. Len(listOf[v]) : listOf'[v][j] = listOf[v][l] /\ j = IF v = t THEN l + 1 ELSE l
        BY <1>6, <2>2, <3>3
      <4>3. u = v /\ k = l
        <5>1. listOf[u][k] = listOf[v][l]
          BY <2>2, <4>1, <4>2
        <5>2. QED  BY <5>1, SMTT(30) DEF PoolInv, OnOneList
      <4>4. QED  BY <4>1, <4>2, <4>3
    <3>4. QED  BY <3>2, <3>3
  <2>3. ASSUME NEW x \in DOMAIN live' \ DOMAIN lent'
        PROVE  \E u \in PoolThreads : \E i \in 1 .. Len(listOf'[u]) : listOf'[u][i] = x
    <3>1. CASE x = b
      <4>1. 1 \in 1 .. Len(listOf'[t]) /\ listOf'[t][1] = b
        BY <1>1, <1>2, <1>3, SMTT(30)
      <4>2. QED  BY <3>1, <4>1
    <3>2. CASE x # b
      <4>1. PICK u \in PoolThreads : \E i \in 1 .. Len(listOf[u]) : listOf[u][i] = x
        BY <1>4, <3>2 DEF PoolInv, OnOneList
      <4>2. PICK i \in 1 .. Len(listOf[u]) : listOf[u][i] = x
        BY <4>1
      <4>3. CASE u # t
        BY <1>3, <4>2, <4>3
      <4>4. CASE u = t
        <5>1. i + 1 \in 1 .. Len(listOf'[t]) /\ listOf'[t][i + 1] = x
          BY <1>1, <1>2, <1>3, <4>2, <4>4, SMTT(30)
        <5>2. QED  BY <5>1
      <4>5. QED  BY <4>3, <4>4
    <3>3. QED  BY <3>1, <3>2
  <2>4. QED  BY <2>1, <2>2, <2>3 DEF OnOneList
<1>8. ListsBounded'
  <2>1. Len(listOf'[t]) <= MaxListCount
    BY <1>1, <1>2, <1>3, SMTT(30) DEF PoolInv, ListsBounded
  <2>2. QED  BY <1>3, <2>1 DEF PoolInv, ListsBounded
<1>9. SizesFit'
  <2>1. \A x \in DOMAIN lent' : lent'[x] <= BlockSize /\ live'[x].size >= lent'[x]
    BY <1>4 DEF PoolInv, PoolTypeOK, SizesFit
  <2>2. ASSUME NEW u \in PoolThreads, NEW i \in 1 .. Len(listOf'[u])
        PROVE  live'[listOf'[u][i]].size >= BlockSize /\ ~live'[listOf'[u][i]].used
    <3>1. CASE \E j \in 1 .. Len(listOf[u]) : listOf'[u][i] = listOf[u][j]
      <4>1. PICK j \in 1 .. Len(listOf[u]) : listOf'[u][i] = listOf[u][j]
        BY <3>1
      <4>2. listOf[u][j] \in DOMAIN live \ {b}
        BY SMTT(30) DEF PoolInv, OnOneList
      <4>3. QED  BY <4>1, <4>2 DEF PoolInv, SizesFit
    <3>2. CASE listOf'[u][i] = b
      BY <3>2
    <3>3. QED  BY <1>6, <3>1, <3>2
  <2>3. QED  BY <2>1, <2>2 DEF SizesFit
<1>10. /\ NoneUsed => NoneUsed'
       /\ OneKind => OneKind'
  BY <1>4 DEF NoneUsed, OneKind
<1>11. QED  BY <1>5, <1>7, <1>8, <1>9, <1>10 DEF PoolInv

LEMMA DeallocateInv ==
  ASSUME PoolInv, NoneUsed, NEW t \in PoolThreads, NEW b \in DOMAIN lent, deallocate(t, b)
  PROVE  PoolInv' /\ NoneUsed'
<1>1. lent' = Without(lent, b) /\ UNCHANGED hasList
  BY DEF deallocate
<1>2. CASE ToSystem(b)
  BY <1>1, <1>2, ToSystemInv
<1>3. CASE /\ t \in hasList /\ lent[b] = BlockSize /\ Len(listOf[t]) # MaxListCount
           /\ listOf' = [listOf EXCEPT ![t] = <<b>> \o listOf[t]] /\ UNCHANGED live
  <2>1. live[b] \in [size : Int, used : BOOLEAN] /\ live[b].size >= BlockSize /\ ~live[b].used
    BY <1>3 DEF PoolInv, PoolTypeOK, SizesFit, NoneUsed
  <2>2. QED  BY <1>1, <1>3, <2>1, ToListInv
<1>4. QED
  <2>1. listOf \in [PoolThreads -> Seq(Blocks)]
    BY DEF PoolInv, PoolTypeOK
  <2>2. QED  BY <1>2, <1>3, <2>1 DEF deallocate

LEMMA FreeVectorInv ==
  ASSUME PoolInv, OneKind, NEW t \in PoolThreads, NEW b \in DOMAIN lent, NEW no_cache \in BOOLEAN,
         FreeVector(t, b, no_cache)
  PROVE  PoolInv' /\ OneKind'
<1>1. lent' = Without(lent, b) /\ UNCHANGED hasList
  BY DEF FreeVector
<1>2. CASE ToSystem(b)
  BY <1>1, <1>2, ToSystemInv
<1>3. CASE /\ t \in hasList /\ Len(listOf[t]) # MaxListCount
           /\ listOf' = [listOf EXCEPT ![t] = <<b>> \o listOf[t]]
           /\ live' = [live EXCEPT ![b].used = FALSE]
  <2>1. b \in DOMAIN live /\ live[b] \in [size : Int, used : BOOLEAN] /\ live[b].size >= BlockSize
    BY DEF PoolInv, PoolTypeOK, SizesFit, OneKind
  <2>2. /\ DOMAIN live' = DOMAIN live /\ \A x \in DOMAIN live \ {b} : live'[x] = live[x]
        /\ live'[b] = [live[b] EXCEPT !.used = FALSE]
    BY <1>3, <2>1
  <2>3. live'[b] \in [size : Int, used : BOOLEAN] /\ live'[b].size = live[b].size /\ ~live'[b].used
    BY <2>1, <2>2
  <2>4. QED  BY <1>1, <1>3, <2>1, <2>2, <2>3, ToListInv
<1>4. QED
  <2>1. listOf \in [PoolThreads -> Seq(Blocks)]
    BY DEF PoolInv, PoolTypeOK
  <2>2. QED  BY <1>2, <1>3, <2>1 DEF FreeVector

\* The list of a thread goes with the thread.
LEMMA ThreadExitInv ==
  ASSUME PoolInv, NEW t \in PoolThreads, ThreadExit(t)
  PROVE  /\ PoolInv'
         /\ NoneUsed => NoneUsed'
         /\ OneKind => OneKind'
<1> USE PoolAssumption
<1>1. /\ listOf \in [PoolThreads -> Seq(Blocks)] /\ listOf[t] \in Seq(Blocks)
      /\ DOMAIN listOf[t] = 1 .. Len(listOf[t])
  BY SMTT(30) DEF PoolInv, PoolTypeOK
<1>2. Range(listOf[t]) = {listOf[t][i] : i \in 1 .. Len(listOf[t])}
  BY <1>1 DEF Range
<1>3. PICK gone : gone = Range(listOf[t])
  OBVIOUS
<1>4. /\ DOMAIN live' = DOMAIN live \ gone /\ \A b \in DOMAIN live \ gone : live'[b] = live[b]
      /\ UNCHANGED lent /\ hasList' = hasList \ {t}
      /\ listOf' = [listOf EXCEPT ![t] = <<>>]
  BY <1>3 DEF ThreadExit
<1>5. /\ listOf' \in [PoolThreads -> Seq(Blocks)] /\ listOf'[t] = <<>> /\ Len(listOf'[t]) = 0
      /\ \A u \in PoolThreads \ {t} : listOf'[u] = listOf[u]
  BY <1>1, <1>4, SMTT(30)
<1>6. ASSUME NEW b \in gone PROVE \E i \in 1 .. Len(listOf[t]) : listOf[t][i] = b
  BY <1>2, <1>3
<1>7. \A b \in DOMAIN lent : b \in DOMAIN live \ gone
  BY <1>6, SMTT(30) DEF PoolInv, PoolTypeOK, OnOneList
<1>8. ASSUME NEW u \in PoolThreads, NEW i \in 1 .. Len(listOf'[u])
      PROVE  /\ u # t /\ listOf'[u] = listOf[u] /\ i \in 1 .. Len(listOf[u])
             /\ listOf[u][i] \in (DOMAIN live \ gone) \ DOMAIN lent
  <2>1. u # t
    BY <1>5, SMTT(30)
  <2>2. listOf'[u] = listOf[u] /\ i \in 1 .. Len(listOf[u])
    BY <1>5, <2>1
  <2>3. listOf[u][i] \in DOMAIN live \ DOMAIN lent
    BY <2>2 DEF PoolInv, OnOneList
  <2>4. listOf[u][i] \notin gone
    BY <1>6, <2>1, <2>2, SMTT(30) DEF PoolInv, OnOneList
  <2>5. QED  BY <2>1, <2>2, <2>3, <2>4
<1>9. PoolTypeOK'
  BY <1>4, <1>5, <1>7 DEF PoolInv, PoolTypeOK
<1>10. OnOneList'
  <2>1. \A u \in PoolThreads : \A i \in 1 .. Len(listOf'[u]) : listOf'[u][i] \in DOMAIN live' \ DOMAIN lent'
    BY <1>4, <1>8
  <2>2. ASSUME NEW u \in PoolThreads, NEW v \in PoolThreads, NEW i \in 1 .. Len(listOf'[u]),
               NEW j \in 1 .. Len(listOf'[v]), listOf'[u][i] = listOf'[v][j]
        PROVE  u = v /\ i = j
    <3>1. i \in 1 .. Len(listOf[u]) /\ j \in 1 .. Len(listOf[v]) /\ listOf[u][i] = listOf[v][j]
      BY <1>8, <2>2
    <3>2. QED  BY <3>1, SMTT(30) DEF PoolInv, OnOneList
  <2>3. ASSUME NEW b \in DOMAIN live' \ DOMAIN lent'
        PROVE  \E u \in PoolThreads : \E i \in 1 .. Len(listOf'[u]) : listOf'[u][i] = b
    <3>1. b \in DOMAIN live \ DOMAIN lent /\ b \notin gone
      BY <1>4
    <3>2. PICK u \in PoolThreads : \E i \in 1 .. Len(listOf[u]) : listOf[u][i] = b
      BY <3>1 DEF PoolInv, OnOneList
    <3>3. u # t
      BY <1>2, <1>3, <3>1, <3>2
    <3>4. QED  BY <1>5, <3>2, <3>3
  <2>4. QED  BY <2>1, <2>2, <2>3 DEF OnOneList
<1>11. ListsBounded'
  BY <1>4, <1>5, SMTT(30) DEF PoolInv, ListsBounded
<1>12. SizesFit'
  <2>1. \A b \in DOMAIN lent' : lent'[b] <= BlockSize /\ live'[b].size >= lent'[b]
    BY <1>4, <1>7 DEF PoolInv, SizesFit
  <2>2. ASSUME NEW u \in PoolThreads, NEW i \in 1 .. Len(listOf'[u])
        PROVE  live'[listOf'[u][i]].size >= BlockSize /\ ~live'[listOf'[u][i]].used
    BY <1>4, <1>8 DEF PoolInv, SizesFit
  <2>3. QED  BY <2>1, <2>2 DEF SizesFit
<1>13. /\ NoneUsed => NoneUsed'
       /\ OneKind => OneKind'
  BY <1>4 DEF NoneUsed, OneKind
<1>14. QED  BY <1>9, <1>10, <1>11, <1>12, <1>13 DEF PoolInv

\* The vectors a pool starts with are new ones, each once.
LEMMA FillFacts ==
  ASSUME NEW S \in SUBSET Blocks, NEW n \in Nat, n <= Cardinality(S)
  PROVE  \E q \in Injection(1 .. n, S) : TRUE
<1>1. IsFiniteSet(S)
  <2>1. IsFiniteSet(Blocks)
    BY FS_Interval, PoolAssumption, SMTT(30) DEF Blocks
  <2>2. QED  BY <2>1, FS_Subset
<1>2. PICK c \in Nat : c = Cardinality(S) /\ ExistsBijection(1 .. c, S)
  BY <1>1, FS_CardinalityType
<1>3. PICK f : f \in Bijection(1 .. c, S)
  BY <1>2 DEF ExistsBijection
<1>4. f \in [1 .. c -> S] /\ \A a, b \in 1 .. c : f[a] = f[b] => a = b
  BY <1>3 DEF Bijection, Injection, Surjection, IsInjective
<1>5. n <= c
  BY <1>2
<1>6. PICK q : q = [i \in 1 .. n |-> f[i]]
  OBVIOUS
<1>7. q \in [1 .. n -> S] /\ \A a, b \in 1 .. n : q[a] = q[b] => a = b
  BY <1>4, <1>5, <1>6, SMTT(30)
<1>8. IsInjective(q)
  BY <1>7 DEF IsInjective
<1>9. QED  BY <1>7, <1>8 DEF Injection

LEMMA MakePoolInv ==
  ASSUME PoolInv, NEW t \in PoolThreads, MakePool(t)
  PROVE  PoolInv' /\ (OneKind => OneKind')
<1> USE PoolAssumption
<1>1. PICK q : q = Fill(t, MaxListCount)
  OBVIOUS
<1>2. /\ q \in Seq(Blocks \ DOMAIN live) /\ Len(q) = MaxListCount
      /\ \A i, j \in 1 .. Len(q) : q[i] = q[j] => i = j
  <2>1. MaxListCount <= Cardinality(Blocks \ DOMAIN live)
    <3>1. IsFiniteSet(Blocks)
      BY FS_Interval, SMTT(30) DEF Blocks
    <3>2. IsFiniteSet(Blocks \ DOMAIN live)
      BY <3>1, FS_Subset
    <3>3. Cardinality(Blocks \ DOMAIN live) \in Nat
      BY <3>2, FS_CardinalityType
    <3>4. QED  BY <3>3 DEF MakePool
  <2>2. PICK S \in SUBSET Blocks : S = Blocks \ DOMAIN live
    OBVIOUS
  <2>3. q = CHOOSE f \in Injection(1 .. MaxListCount, S) : TRUE
    BY <1>1, <2>2 DEF Fill
  <2>4. \E f \in Injection(1 .. MaxListCount, S) : TRUE
    BY <2>1, <2>2, FillFacts
  <2>5. q \in Injection(1 .. MaxListCount, S)
    BY <2>3, <2>4
  <2>6. q \in [1 .. MaxListCount -> S] /\ \A i, j \in 1 .. MaxListCount : q[i] = q[j] => i = j
    BY <2>5 DEF Injection, IsInjective
  <2>7. q \in Seq(S) /\ Len(q) = MaxListCount
    BY <2>6, SMTT(30)
  <2>8. QED  BY <2>2, <2>6, <2>7
<1>3. PICK new : new = Range(q)
  OBVIOUS
<1>4. new = {q[i] : i \in 1 .. Len(q)} /\ new \subseteq Blocks \ DOMAIN live
  <2>1. DOMAIN q = 1 .. Len(q) /\ \A i \in 1 .. Len(q) : q[i] \in Blocks \ DOMAIN live
    BY <1>2, SMTT(30)
  <2>2. QED  BY <1>3, <2>1 DEF Range
<1>5. /\ listOf \in [PoolThreads -> Seq(Blocks)] /\ q \in Seq(Blocks)
      /\ listOf' = [listOf EXCEPT ![t] = q] /\ hasList' = hasList \cup {t} /\ UNCHANGED lent
      /\ live' = [b \in DOMAIN live \cup new |->
                   IF b \in DOMAIN live THEN live[b] ELSE [size |-> BlockSize, used |-> FALSE]]
  BY <1>1, <1>2, <1>3, SMTT(30) DEF MakePool, PoolInv, PoolTypeOK
<1>6. /\ DOMAIN live' = DOMAIN live \cup new /\ \A b \in DOMAIN live : live'[b] = live[b]
      /\ \A b \in new : live'[b] = [size |-> BlockSize, used |-> FALSE]
  BY <1>4, <1>5
<1>7. /\ listOf' \in [PoolThreads -> Seq(Blocks)] /\ listOf'[t] = q
      /\ \A u \in PoolThreads \ {t} : listOf'[u] = listOf[u]
  BY <1>5
<1>8. listOf[t] = <<>>
  BY DEF MakePool, PoolInv, ListsBounded
<1>9. ASSUME NEW b \in new
      PROVE  live'[b] \in [size : Int, used : BOOLEAN] /\ live'[b].size = BlockSize /\ ~live'[b].used
  <2>1. live'[b] = [size |-> BlockSize, used |-> FALSE]
    BY <1>6
  <2>2. QED  BY <2>1, SMTT(30)
<1>10. PoolTypeOK'
  BY <1>4, <1>5, <1>6, <1>7, <1>9 DEF PoolInv, PoolTypeOK
<1>11. ASSUME NEW u \in PoolThreads, NEW i \in 1 .. Len(listOf'[u])
       PROVE  \/ u = t /\ i \in 1 .. Len(q) /\ listOf'[u][i] = q[i] /\ q[i] \in new
              \/ u # t /\ i \in 1 .. Len(listOf[u]) /\ listOf'[u][i] = listOf[u][i]
  BY <1>4, <1>7
<1>12. new \cap DOMAIN live = {} /\ new \cap DOMAIN lent = {}
  BY <1>4 DEF PoolInv, PoolTypeOK
<1>13. OnOneList'
  <2>1. ASSUME NEW u \in PoolThreads, NEW i \in 1 .. Len(listOf'[u])
        PROVE  listOf'[u][i] \in DOMAIN live' \ DOMAIN lent'
    <3>1. CASE listOf'[u][i] \in new
      BY <1>5, <1>6, <1>12, <3>1
    <3>2. CASE i \in 1 .. Len(listOf[u]) /\ listOf'[u][i] = listOf[u][i]
      BY <1>5, <1>6, <3>2 DEF PoolInv, OnOneList
    <3>3. QED  BY <1>11, <3>1, <3>2
  <2>2. ASSUME NEW u \in PoolThreads, NEW v \in PoolThreads, NEW i \in 1 .. Len(listOf'[u]),
               NEW j \in 1 .. Len(listOf'[v]), listOf'[u][i] = listOf'[v][j]
        PROVE  u = v /\ i = j
    <3>1. \A w \in PoolThreads : \A k \in 1 .. Len(listOf[w]) : listOf[w][k] \notin new
      BY <1>12, SMTT(30) DEF PoolInv, OnOneList
    <3>2. CASE u = t
      <4>1. i \in 1 .. Len(q) /\ listOf'[u][i] = q[i] /\ q[i] \in new
        BY <1>11, <3>2
      <4>2. v = t /\ j \in 1 .. Len(q) /\ q[j] = q[i]
        BY <1>11, <2>2, <3>1, <4>1
      <4>3. QED  BY <1>2, <3>2, <4>1, <4>2
    <3>3. CASE u # t
      <4>1. i \in 1 .. Len(listOf[u]) /\ listOf'[u][i] = listOf[u][i] /\ listOf[u][i] \notin new
        BY <1>11, <3>1, <3>3
      <4>2. j \in 1 .. Len(listOf[v]) /\ listOf[u][i] = listOf[v][j]
        BY <1>11, <2>2, <4>1
      <4>3. \A w, x \in PoolThreads : \A k \in 1 .. Len(listOf[w]) : \A l \in 1 .. Len(listOf[x]) :
              listOf[w][k] = listOf[x][l] => w = x /\ k = l
        BY DEF PoolInv, OnOneList
      <4>4. QED  BY <4>1, <4>2, <4>3, SMTT(30)
    <3>4. QED  BY <3>2, <3>3
  <2>3. ASSUME NEW b \in DOMAIN live' \ DOMAIN lent'
        PROVE  \E u \in PoolThreads : \E i \in 1 .. Len(listOf'[u]) : listOf'[u][i] = b
    <3>1. CASE b \in new
      <4>1. PICK i \in 1 .. Len(q) : b = q[i]
        BY <1>4, <3>1
      <4>2. QED  BY <1>7, <4>1
    <3>2. CASE b \notin new
      <4>1. PICK u \in PoolThreads : \E i \in 1 .. Len(listOf[u]) : listOf[u][i] = b
        BY <1>5, <1>6, <3>2 DEF PoolInv, OnOneList
      <4>2. u # t
        BY <1>8, <4>1, SMTT(30)
      <4>3. QED  BY <1>7, <4>1, <4>2
    <3>3. QED  BY <3>1, <3>2
  <2>4. QED  BY <2>1, <2>2, <2>3 DEF OnOneList
<1>14. ListsBounded'
  BY <1>2, <1>5, <1>7, SMTT(30) DEF PoolInv, ListsBounded
<1>15. SizesFit'
  <2>1. ASSUME NEW b \in DOMAIN lent' PROVE lent'[b] <= BlockSize /\ live'[b].size >= lent'[b]
    BY <1>5, <1>6 DEF PoolInv, PoolTypeOK, SizesFit
  <2>2. ASSUME NEW u \in PoolThreads, NEW i \in 1 .. Len(listOf'[u])
        PROVE  live'[listOf'[u][i]].size >= BlockSize /\ ~live'[listOf'[u][i]].used
    <3>1. CASE listOf'[u][i] \in new
      BY <1>9, <3>1, SMTT(30)
    <3>2. CASE i \in 1 .. Len(listOf[u]) /\ listOf'[u][i] = listOf[u][i]
      <4>1. listOf[u][i] \in DOMAIN live
        BY <3>2 DEF PoolInv, OnOneList
      <4>2. QED  BY <1>6, <3>2, <4>1 DEF PoolInv, SizesFit
    <3>3. QED  BY <1>11, <3>1, <3>2
  <2>3. QED  BY <2>1, <2>2 DEF SizesFit
<1>16. OneKind => OneKind'
  BY <1>5 DEF OneKind
<1>17. QED  BY <1>10, <1>13, <1>14, <1>15, <1>16 DEF PoolInv

LEMMA UseVectorInv ==
  ASSUME PoolInv, OneKind, NEW b \in DOMAIN lent, UseVector(b)
  PROVE  PoolInv' /\ OneKind'
<1>1. b \in DOMAIN live /\ live[b] \in [size : Int, used : BOOLEAN]
  BY DEF PoolInv, PoolTypeOK
<1>2. /\ DOMAIN live' = DOMAIN live /\ \A x \in DOMAIN live \ {b} : live'[x] = live[x]
      /\ live'[b] = [live[b] EXCEPT !.used = TRUE] /\ UNCHANGED <<listOf, hasList, lent>>
  BY <1>1 DEF UseVector
<1>3. live'[b] \in [size : Int, used : BOOLEAN] /\ live'[b].size = live[b].size
  BY <1>1, <1>2
<1>4. PoolTypeOK'
  BY <1>2, <1>3 DEF PoolInv, PoolTypeOK
<1>5. OnOneList' /\ ListsBounded'
  BY <1>2, SMTT(30) DEF PoolInv, OnOneList, ListsBounded
<1>6. ASSUME NEW u \in PoolThreads, NEW i \in 1 .. Len(listOf[u])
      PROVE  live'[listOf[u][i]].size >= BlockSize /\ ~live'[listOf[u][i]].used
  <2>1. listOf[u][i] \in DOMAIN live \ {b}
    BY SMTT(30) DEF PoolInv, OnOneList
  <2>2. QED  BY <1>2, <2>1 DEF PoolInv, SizesFit
<1>7. \A x \in DOMAIN lent : lent[x] <= BlockSize /\ live'[x].size >= lent[x]
  BY <1>2, <1>3 DEF PoolInv, PoolTypeOK, SizesFit
<1>8. SizesFit'
  BY <1>2, <1>6, <1>7 DEF SizesFit
<1>9. OneKind'
  BY <1>2 DEF OneKind
<1>10. QED  BY <1>4, <1>5, <1>8, <1>9 DEF PoolInv

LEMMA PoolStutter ==
  ASSUME PoolInv, UNCHANGED poolVars
  PROVE  PoolInv' /\ (NoneUsed => NoneUsed') /\ (OneKind => OneKind')
<1>1. UNCHANGED <<live, listOf, hasList, lent>>
  BY DEF poolVars
<1>2. QED
  BY <1>1, SMTT(30) DEF PoolInv, PoolTypeOK, OnOneList, ListsBounded, SizesFit, NoneUsed, OneKind

(* FreeListAllocator, for any threads, sizes and limits: whichever thread frees a
   block and whichever exits, a block is with one user or once on one list, no
   list passes its limit, and a user gets a block that is large enough.       *)
THEOREM PoolHolds == PoolSpec => []PoolsSound
<1>1. ASSUME PoolInv, NoneUsed, [PoolNext]_poolVars PROVE PoolInv' /\ NoneUsed'
  <2>1. CASE UNCHANGED poolVars
    BY <1>1, <2>1, PoolStutter
  <2>2. ASSUME NEW t \in PoolThreads, NEW size \in {BlockSize - 1, BlockSize}, allocate(t, size)
        PROVE  PoolInv' /\ NoneUsed'
    <3>1. size \in Int /\ size <= BlockSize
      BY PoolAssumption, SMTT(30)
    <3>2. QED  BY <1>1, <2>2, <3>1, AllocateInv
  <2>3. ASSUME NEW t \in PoolThreads, NEW b \in DOMAIN lent, deallocate(t, b) PROVE PoolInv' /\ NoneUsed'
    BY <1>1, <2>3, DeallocateInv
  <2>4. ASSUME NEW t \in PoolThreads, ThreadExit(t) PROVE PoolInv' /\ NoneUsed'
    BY <1>1, <2>4, ThreadExitInv
  <2>5. QED  BY <1>1, <2>1, <2>2, <2>3, <2>4 DEF PoolNext
<1>2. QED  BY <1>1, PoolInitInv, PoolInvSound, PTL DEF PoolSpec

(* VectorPool, likewise: and a vector in a pool is empty, so that none is handed
   out with the elements of its last user.                                    *)
THEOREM VectorPoolHolds == VectorSpec => []PoolsSound
<1>1. ASSUME PoolInv, OneKind, [VectorNext]_poolVars PROVE PoolInv' /\ OneKind'
  <2>1. CASE UNCHANGED poolVars
    BY <1>1, <2>1, PoolStutter
  <2>2. ASSUME NEW t \in PoolThreads, AllocVector(t) PROVE PoolInv' /\ OneKind'
    <3>1. BlockSize \in Int /\ BlockSize <= BlockSize /\ allocate(t, BlockSize)
      BY <2>2, PoolAssumption, SMTT(30) DEF AllocVector
    <3>2. QED  BY <1>1, <3>1, AllocateInv
  <2>3. ASSUME NEW t \in PoolThreads, MakePool(t) \/ ThreadExit(t) PROVE PoolInv' /\ OneKind'
    BY <1>1, <2>3, MakePoolInv, ThreadExitInv
  <2>4. ASSUME NEW b \in DOMAIN lent, UseVector(b) PROVE PoolInv' /\ OneKind'
    BY <1>1, <2>4, UseVectorInv
  <2>5. ASSUME NEW t \in PoolThreads, NEW b \in DOMAIN lent, NEW no_cache \in BOOLEAN, FreeVector(t, b, no_cache)
        PROVE  PoolInv' /\ OneKind'
    BY <1>1, <2>5, FreeVectorInv
  <2>6. QED  BY <1>1, <2>1, <2>2, <2>3, <2>4, <2>5 DEF VectorNext
<1>2. QED  BY <1>1, PoolInitInv, PoolInvSound, PTL DEF VectorSpec
===============================================================================
