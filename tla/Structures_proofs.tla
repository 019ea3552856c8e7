--------------------------- MODULE Structures_proofs --------------------------
(* Proofs about the small concurrent structures of utility/ and fds/, each    *)
(* for any number of threads and of objects, and about the flips a program's  *)
(* injection points consult, for any number of threads, flips and timers.     *)
EXTENDS ScopedPtr, StatusCounter, StreamTracker, BitsetHandles, Flip, FiniteSetTheorems, TLAPS

\* The provers of a leaf that names none, and how long each may take.
USE ZenonT(40), SMTT(20)

(* A set of numbers that is not empty has a least one, which Min is.       *)
LEMMA NatMin ==
    ASSUME NEW S \in SUBSET Nat, S # {}
    PROVE  Min(S) \in S /\ \A y \in S : Min(S) <= y
<1>1. PICK x \in S : \A y \in S : ~(<<y, x>> \in OpToRel(<, Nat))
  BY WFMin, NatLessThanWellFounded
<1>2. \A y \in S : x <= y
  <2>1. ASSUME NEW y \in S, y < x PROVE FALSE
    <3>1. <<y, x>> \in {ss \in Nat \X Nat : ss[1] < ss[2]}
      BY <2>1
    <3>2. QED  BY <1>1, <3>1 DEF OpToRel
  <2>2. QED  BY <2>1, SMTT(30)
<1>3. QED  BY <1>2 DEF Min

------------------------------------------------------------------------------
(* ScopedPtr: updates of an object under its readers.                         *)

ScopedTypeOK ==
  /\ versions \in Seq(Seq(ScopedThreads))
  /\ obj = Len(versions) /\ obj \in Nat \ {0}
  /\ gone \subseteq 1 .. obj
  /\ sc \in [ScopedThreads -> [pc : {"rest", "locked", "using", "edit", "sync"},
                               obj : Nat, waits : SUBSET ScopedThreads]]

\* The object in use is not deleted, and an update that holds the mutex has
\* copied that one; what an update is about to delete has been replaced.
Current ==
  /\ obj \notin gone
  /\ \A t \in ScopedThreads : sc[t].pc = "edit" => updater = t /\ sc[t].obj = obj
  /\ \A t \in ScopedThreads : sc[t].pc = "sync" => sc[t].obj \in 1 .. obj - 1

\* A reader's object is not deleted, and whoever is about to delete it waits
\* for this reader.
Protected ==
  \A r \in ScopedThreads : sc[r].pc = "using" =>
    /\ sc[r].obj \notin gone
    /\ sc[r].obj <= obj
    /\ \A t \in ScopedThreads : sc[t].pc = "sync" /\ sc[t].obj = sc[r].obj => r \in sc[t].waits

ScopedInv == ScopedTypeOK /\ Current /\ Protected /\ EditsNotLost

(* The object the constructor makes is the first, nobody uses it yet.         *)
LEMMA ScopedInitInv == ScopedInit => ScopedInv
<1> SUFFICES ASSUME ScopedInit PROVE ScopedInv  OBVIOUS
<1>1. << <<>> >> \in Seq(Seq(ScopedThreads)) /\ Len(<< <<>> >>) = 1 /\ << <<>> >>[1] = <<>>
  BY SMTT(30)
<1>2. QED
  BY <1>1, SMTT(30)
     DEF ScopedInit, ScopedInv, ScopedTypeOK, Current, Protected, EditsNotLost, AtRest

(* A reader that takes the read lock, looks at the pointer or leaves: an
   updater that waits for it stops to only when it has left.                  *)
LEMMA ReadInv ==
  ASSUME ScopedInv, NEW t \in ScopedThreads, Access(t) \/ Dereference(t) \/ Release(t)
  PROVE  ScopedInv'
<1>1. CASE Access(t)
  BY <1>1 DEF ScopedInv, ScopedTypeOK, Current, Protected, EditsNotLost, Access
<1>2. CASE Dereference(t)
  <2>1. /\ UNCHANGED <<obj, versions, gone, updater>>
        /\ sc' = [sc EXCEPT ![t] = [[sc[t] EXCEPT !.pc = "using"] EXCEPT !.obj = obj]]
    BY <1>2 DEF Dereference
  <2>2. ScopedTypeOK' /\ EditsNotLost'
    <3>1. [[sc[t] EXCEPT !.pc = "using"] EXCEPT !.obj = obj]
            \in [pc : {"rest", "locked", "using", "edit", "sync"}, obj : Nat, waits : SUBSET ScopedThreads]
      <4>1. /\ sc[t] \in [pc : {"rest", "locked", "using", "edit", "sync"}, obj : Nat, waits : SUBSET ScopedThreads]
            /\ obj \in Nat
        BY DEF ScopedInv, ScopedTypeOK
      <4>2. QED  BY <4>1
    <3>2. QED  BY <2>1, <3>1 DEF ScopedInv, ScopedTypeOK, EditsNotLost
  <2>3. Current'
    BY <2>1, SMTT(30) DEF ScopedInv, ScopedTypeOK, Current
  <2>4. Protected'
    BY <2>1, SMTT(30) DEF ScopedInv, ScopedTypeOK, Current, Protected
  <2>5. QED  BY <2>2, <2>3, <2>4 DEF ScopedInv
<1>3. CASE Release(t)
  <2>1. /\ UNCHANGED <<obj, versions, gone, updater>>
        /\ sc'[t] = AtRest /\ AtRest.pc = "rest"
        /\ DOMAIN sc' = ScopedThreads
        /\ \A u \in ScopedThreads \ {t} : /\ sc'[u].pc = sc[u].pc /\ sc'[u].obj = sc[u].obj
                                           /\ sc'[u].waits = sc[u].waits \ {t}
    BY <1>3, SMTT(30) DEF Release, ScopedInv, ScopedTypeOK, AtRest
  <2>2. ScopedTypeOK' /\ EditsNotLost'
    BY <1>3 DEF Release, ScopedInv, ScopedTypeOK, EditsNotLost, AtRest
  <2>3. Current'
    BY <2>1 DEF ScopedInv, ScopedTypeOK, Current
  <2>4. Protected'
    <3> SUFFICES ASSUME NEW r \in ScopedThreads, sc'[r].pc = "using"
                 PROVE  /\ sc'[r].obj \notin gone' /\ sc'[r].obj <= obj'
                        /\ \A u \in ScopedThreads : sc'[u].pc = "sync" /\ sc'[u].obj = sc'[r].obj
                                                     => r \in sc'[u].waits
      BY DEF Protected
    <3>1. r # t /\ sc[r].pc = "using" /\ sc'[r].obj = sc[r].obj
      BY <2>1
    <3>2. QED  BY <2>1, <3>1 DEF ScopedInv, Protected
  <2>5. QED  BY <2>2, <2>3, <2>4 DEF ScopedInv
<1>4. QED  BY <1>1, <1>2, <1>3

(* The copy is taken under the mutex, of the object in use.                   *)
LEMMA CopyInv ==
  ASSUME ScopedInv, NEW t \in ScopedThreads, UpdateCopy(t)
  PROVE  ScopedInv'
BY UpdaterAssumption DEF ScopedInv, ScopedTypeOK, Current, Protected, EditsNotLost, UpdateCopy

(* The exchange: the new object has one edit more than the one it replaces,
   which every open read section may still use.                               *)
LEMMA ExchangeInv ==
  ASSUME ScopedInv, NEW t \in ScopedThreads, UpdateExchange(t)
  PROVE  ScopedInv'
<1> DEFINE new == Append(versions[obj], t)
<1>1. /\ sc[t].pc = "edit" /\ sc[t].obj = obj /\ updater = t
      /\ versions' = Append(versions, new) /\ gone' = gone
      /\ updater' = NoUpdater
      /\ sc' = [sc EXCEPT ![t] = [pc |-> "sync", obj |-> obj, waits |-> ScopedReading]]
  BY DEF UpdateExchange, ScopedInv, Current
<1>2. versions[obj] \in Seq(ScopedThreads) /\ Len(versions[obj]) = obj - 1
  BY SMTT(30) DEF ScopedInv, ScopedTypeOK, EditsNotLost
<1>3. new \in Seq(ScopedThreads) /\ Len(new) = obj
  BY <1>2, SMTT(30) DEF ScopedInv, ScopedTypeOK
<1> HIDE DEF new
<1>4. /\ versions' \in Seq(Seq(ScopedThreads)) /\ Len(versions') = obj + 1
      /\ versions'[obj + 1] = new /\ obj' = obj + 1
  BY <1>1, <1>3, SMTT(30) DEF ScopedInv, ScopedTypeOK, UpdateExchange
<1>5. EditsNotLost'
  BY <1>3, <1>4, SMTT(30) DEF EditsNotLost, ScopedInv, ScopedTypeOK
<1>6. ScopedTypeOK'
  BY <1>1, <1>4, SMTT(30) DEF ScopedTypeOK, ScopedInv, ScopedReading
<1>7. Current'
  BY <1>1, <1>4, UpdaterAssumption, SMTT(30) DEF Current, ScopedInv, ScopedTypeOK
<1>8. Protected'
  BY <1>1, <1>4, SMTT(30) DEF Protected, Current, ScopedInv, ScopedTypeOK, ScopedReading
<1>9. QED  BY <1>5, <1>6, <1>7, <1>8 DEF ScopedInv

(* After the grace period nobody uses the object that is deleted.             *)
LEMMA DeleteInv ==
  ASSUME ScopedInv, NEW t \in ScopedThreads, SynchronizeDelete(t)
  PROVE  ScopedInv'
<1>1. /\ sc[t].pc = "sync" /\ sc[t].waits = {} /\ UNCHANGED <<obj, versions, updater>>
      /\ gone' = gone \cup {sc[t].obj} /\ sc' = [sc EXCEPT ![t] = AtRest]
      /\ AtRest = [pc |-> "rest", obj |-> 0, waits |-> {}]
  BY DEF SynchronizeDelete, AtRest
<1>2. ScopedTypeOK' /\ EditsNotLost'
  <2>1. sc[t].obj \in 1 .. obj
    BY <1>1, SMTT(30) DEF ScopedInv, ScopedTypeOK, Current
  <2>2. sc' \in [ScopedThreads -> [pc : {"rest", "locked", "using", "edit", "sync"},
                                   obj : Nat, waits : SUBSET ScopedThreads]]
    <3>1. AtRest \in [pc : {"rest", "locked", "using", "edit", "sync"}, obj : Nat,
                      waits : SUBSET ScopedThreads]
      BY <1>1
    <3>2. QED  BY <1>1, <3>1 DEF ScopedInv, ScopedTypeOK
  <2>3. QED  BY <1>1, <2>1, <2>2 DEF ScopedInv, ScopedTypeOK, EditsNotLost
<1>3. Current'
  BY <1>1, SMTT(30) DEF ScopedInv, ScopedTypeOK, Current
<1>4. Protected'
  <2> SUFFICES ASSUME NEW r \in ScopedThreads, sc'[r].pc = "using"
               PROVE  /\ sc'[r].obj \notin gone' /\ sc'[r].obj <= obj'
                      /\ \A u \in ScopedThreads : sc'[u].pc = "sync" /\ sc'[u].obj = sc'[r].obj
                                                   => r \in sc'[u].waits
    BY DEF Protected
  <2>1. r # t /\ sc'[r] = sc[r]
    BY <1>1 DEF ScopedInv, ScopedTypeOK
  <2>2. sc[r].obj \notin gone /\ sc[r].obj # sc[t].obj /\ sc[r].obj <= obj
    BY <1>1, <2>1 DEF ScopedInv, Protected
  <2>3. ASSUME NEW u \in ScopedThreads, sc'[u].pc = "sync", sc'[u].obj = sc'[r].obj
        PROVE  r \in sc'[u].waits
    <3>1. u # t /\ sc'[u] = sc[u]
      BY <1>1, <2>3 DEF ScopedInv, ScopedTypeOK
    <3>2. QED  BY <2>1, <2>3, <3>1 DEF ScopedInv, Protected
  <2>4. QED  BY <1>1, <2>1, <2>2, <2>3, SMTT(30)
<1>5. QED  BY <1>2, <1>3, <1>4 DEF ScopedInv

LEMMA ScopedStepInv == ScopedInv /\ [ScopedNext]_scopedVars => ScopedInv'
<1> SUFFICES ASSUME ScopedInv, [ScopedNext]_scopedVars PROVE ScopedInv'  OBVIOUS
<1>1. CASE UNCHANGED scopedVars
  BY <1>1 DEF scopedVars, ScopedInv, ScopedTypeOK, Current, Protected, EditsNotLost
<1>2. CASE ScopedNext
  BY <1>2, ReadInv, CopyInv, ExchangeInv, DeleteInv DEF ScopedNext
<1>3. QED  BY <1>1, <1>2

LEMMA ScopedInvImplies == ScopedInv => ScopedSafe
BY DEF ScopedInv, Current, Protected, ScopedObjectLives, ScopedSafe

(* urcu_scoped_ptr: no object is deleted under a reader or under the update
   that copies it, and no edit is lost, however many threads read and update. *)
THEOREM ScopedPtrSafe == ScopedSpec => []ScopedSafe
BY ScopedInitInv, ScopedStepInv, ScopedInvImplies, PTL DEF ScopedSpec

------------------------------------------------------------------------------
(* StatusCounter: the compare-exchange loops of atomic_status_counter.        *)

CounterValues == [counter : Nat, status : {"open", "closing", "closed"}]
Increments == Acquires \cup {"increment"}
Decrements == {"decrement", "decrement_testz", "decrement_testz_and_test_status",
               "dec_xchng_status_ifz", "dec_xchng_status_only_ifz"}
CounterCalls == Increments \cup Decrements \cup {"xchng_status", "set_status"}

(* A modifier moves the counter by one at most, and up or down only when its
   name says so; it closes only what comes to 0 by it, and what the operation
   returns is what the modifier did, provided a reference that is given up,
   or added to, is counted.                                                   *)
LEMMA ModifiedFacts ==
  ASSUME NEW v \in CounterValues, NEW o \in CounterCalls,
         o \in Decrements \cup {"increment"} => v.counter > 0,
         v.status = "closed" => v.counter = 0
  PROVE  /\ Modified(o, v) \in CounterValues
         /\ Modified(o, v).counter - v.counter \in
              {0} \cup (IF o \in Increments THEN {1} ELSE {})
                  \cup (IF o \in Decrements THEN {-1} ELSE {})
         /\ Modified(o, v).status = "closed" => Modified(o, v).counter = 0
         /\ Returned(o, Modified(o, v)) = Effect(o, v, Modified(o, v))
<1> DEFINE w == Modified(o, v)
<1> USE DEF CounterValues, Acquires
<1>1. CASE o = "set_status"
  <2>1. w = [v EXCEPT !.status = "open"]  BY <1>1 DEF Modified
  <2>2. Returned(o, w) = Effect(o, v, w)  BY <1>1 DEF Returned, Effect
  <2>3. QED  BY <1>1, <2>1, <2>2, SMTT(30) DEF Increments, Decrements
<1>2. CASE o = "xchng_status"
  <2>1. w = IF v.status = "open" THEN [v EXCEPT !.status = "closing"] ELSE v
    BY <1>2 DEF Modified, xchng
  <2>2. Returned(o, w) = Effect(o, v, w)  BY <1>2 DEF Returned, Effect
  <2>3. QED  BY <1>2, <2>1, <2>2, SMTT(30) DEF Increments, Decrements
<1>3. CASE o \in {"increment_if_status", "set_atomic_value"}
  <2>1. w = IF v.status = "open" THEN [v EXCEPT !.counter = @ + 1] ELSE v
    BY <1>3 DEF Modified, reference_taken
  <2>2. Returned(o, w) = (w.status = "open") /\ Effect(o, v, w) = (w.counter > v.counter)
    BY <1>3 DEF Returned, Effect
  <2>3. QED  BY <1>3, <2>1, <2>2, SMTT(30) DEF Increments, Decrements
<1>4. CASE o = "increment"
  <2>1. w = [v EXCEPT !.counter = @ + 1]  BY <1>4 DEF Modified
  <2>2. Returned(o, w) = Effect(o, v, w)  BY <1>4 DEF Returned, Effect
  <2>3. QED  BY <1>4, <2>1, <2>2, SMTT(30) DEF Increments, Decrements
<1>5. CASE o = "decrement"
  <2>1. w = [v EXCEPT !.counter = @ - 1]  BY <1>5 DEF Modified, dec
  <2>2. Returned(o, w) = Effect(o, v, w)  BY <1>5 DEF Returned, Effect
  <2>3. QED  BY <1>5, <2>1, <2>2, SMTT(30) DEF Increments, Decrements
<1>6. CASE o = "decrement_testz"
  <2>1. w = [v EXCEPT !.counter = @ - 1]  BY <1>6 DEF Modified, dec
  <2>2. Returned(o, w) = (w.counter = 0) /\ Effect(o, v, w) = (v.counter = 1 /\ w.counter = 0)
    BY <1>6 DEF Returned, Effect
  <2>3. QED  BY <1>6, <2>1, <2>2, SMTT(30) DEF Increments, Decrements
<1>7. CASE o = "decrement_testz_and_test_status"
  <2>1. w = [v EXCEPT !.counter = @ - 1]  BY <1>7 DEF Modified, dec
  <2>2. /\ Returned(o, w) = (w.counter = 0 /\ w.status = "closing")
        /\ Effect(o, v, w) = (v.counter = 1 /\ w.counter = 0 /\ w.status = "closing")
    BY <1>7 DEF Returned, Effect
  <2>3. QED  BY <1>7, <2>1, <2>2, SMTT(30) DEF Increments, Decrements
<1>8. CASE o = "dec_xchng_status_ifz"
  <2>1. w = IF v.counter = 1 /\ v.status = "closing" THEN [counter |-> 0, status |-> "closed"]
            ELSE [v EXCEPT !.counter = @ - 1]
    <3>1. w = IF v.counter = 1 THEN xchng(dec(v), "closing", "closed") ELSE dec(v)
      BY <1>8 DEF Modified
    <3>2. dec(v) = [counter |-> v.counter - 1, status |-> v.status]
      BY SMTT(30) DEF dec
    <3>3. v.counter = 1 => xchng(dec(v), "closing", "closed") =
            IF v.status = "closing" THEN [counter |-> 0, status |-> "closed"] ELSE dec(v)
      BY <3>2, SMTT(30) DEF xchng
    <3>4. QED  BY <3>1, <3>3 DEF dec
  <2>2. Returned(o, w) = (w.counter = 0) /\ Effect(o, v, w) = (v.counter = 1 /\ w.counter = 0)
    BY <1>8 DEF Returned, Effect
  <2>3. QED  BY <1>8, <2>1, <2>2, SMTT(30) DEF Increments, Decrements
<1>9. CASE o = "dec_xchng_status_only_ifz"
  <2>1. w = IF v = [counter |-> 1, status |-> "closing"] THEN [counter |-> 0, status |-> "closed"]
            ELSE v
    BY <1>9 DEF Modified
  <2>2. Returned(o, w) = (w.counter = 0) /\ Effect(o, v, w) = (v.counter = 1 /\ w.counter = 0)
    BY <1>9 DEF Returned, Effect
  <2>3. QED  BY <1>9, <2>1, <2>2, SMTT(30) DEF Increments, Decrements
<1>10. QED
  BY <1>1, <1>2, <1>3, <1>4, <1>5, <1>6, <1>7, <1>8, <1>9 DEF CounterCalls, Increments, Decrements

(* set_atomic_value leaves its loop only when it did not take a reference.    *)
LEMMA DeclinedFacts ==
  ASSUME NEW v \in CounterValues, Modified("set_atomic_value", v) = v
  PROVE  Returned("set_atomic_value", v) = FALSE
BY SMTT(30) DEF CounterValues, Modified, reference_taken, Returned, Acquires

(* The references there are change by as many as one thread's do.             *)
LEMMA RefsHeldCount ==
  ASSUME refs \in [CounterThreads -> 0 .. MaxRefs], refs' \in [CounterThreads -> 0 .. MaxRefs],
         NEW t \in CounterThreads, NEW d \in {-1, 0, 1}, refs' = [refs EXCEPT ![t] = @ + d]
  PROVE  Cardinality(RefsHeld') = Cardinality(RefsHeld) + d
<1> USE CounterAssumption
<1>1. IsFiniteSet(RefsHeld) /\ Cardinality(RefsHeld) \in Nat
  <2>1. IsFiniteSet(CounterThreads \X (1 .. MaxRefs))
    <3>1. IsFiniteSet(1 .. MaxRefs)  BY FS_Interval, SMTT(30)
    <3>2. QED  BY <3>1, FS_Product
  <2>2. RefsHeld \subseteq CounterThreads \X (1 .. MaxRefs)
    BY DEF RefsHeld
  <2>3. QED  BY <2>1, <2>2, FS_Subset, FS_CardinalityType
<1>2. CASE d = 0
  <2>1. refs' = refs
    BY <1>2, SMTT(30)
  <2>2. RefsHeld' = RefsHeld
    BY <2>1 DEF RefsHeld
  <2>3. QED  BY <1>1, <1>2, <2>2, SMTT(30)
<1>3. CASE d = 1
  <2> DEFINE x == <<t, refs[t] + 1>>
  <2>1. RefsHeld' = RefsHeld \cup {x} /\ x \notin RefsHeld
    BY <1>3, SMTT(30) DEF RefsHeld
  <2>2. QED  BY <1>1, <1>3, <2>1, FS_AddElement
<1>4. CASE d = -1
  <2> DEFINE x == <<t, refs[t]>>
  <2>1. RefsHeld' = RefsHeld \ {x} /\ x \in RefsHeld
    BY <1>4, SMTT(30) DEF RefsHeld
  <2>2. QED  BY <1>1, <1>4, <2>1, FS_RemoveElement
<1>5. QED  BY <1>2, <1>3, <1>4

(* Somebody holds a reference just when the counter of them is not 0.         *)
LEMMA RefsHeldZero ==
  ASSUME refs \in [CounterThreads -> 0 .. MaxRefs]
  PROVE  /\ Cardinality(RefsHeld) \in Nat
         /\ Cardinality(RefsHeld) = 0 <=> \A t \in CounterThreads : refs[t] = 0
<1> USE CounterAssumption
<1>1. IsFiniteSet(CounterThreads \X (1 .. MaxRefs))
  <2>1. IsFiniteSet(1 .. MaxRefs)  BY FS_Interval, SMTT(30)
  <2>2. QED  BY <2>1, FS_Product
<1>2. RefsHeld \subseteq CounterThreads \X (1 .. MaxRefs)
  BY DEF RefsHeld
<1>3. IsFiniteSet(RefsHeld)
  BY <1>1, <1>2, FS_Subset
<1>4. (RefsHeld = {}) <=> \A t \in CounterThreads : refs[t] = 0
  <2>1. ASSUME NEW t \in CounterThreads, refs[t] # 0
        PROVE  <<t, 1>> \in RefsHeld
    BY <2>1, SMTT(30) DEF RefsHeld
  <2>2. ASSUME NEW x \in RefsHeld
        PROVE  x[1] \in CounterThreads /\ refs[x[1]] # 0
    BY <2>2, SMTT(30) DEF RefsHeld
  <2>3. QED  BY <2>1, <2>2
<1>5. QED  BY <1>3, <1>4, FS_CardinalityType, FS_EmptySet

CounterTypeOK ==
  /\ sval \in CounterValues
  /\ sop \in [CounterThreads -> [pc : {"idle", "load", "exchange", "return"},
                                 op : CounterCalls \cup {"none"},
                                 old : CounterValues,
                                 new : [counter : Int, status : {"open", "closing", "closed"}]]]
  /\ refs \in [CounterThreads -> 0 .. MaxRefs]
  /\ did \in [CounterThreads -> BOOLEAN]
  /\ answer \in [CounterThreads -> BOOLEAN]

\* What a thread inside an operation relies on: the references it called with
\* are its own to give up, the value to store was made from the one loaded, and
\* once that is stored the result is what the exchange did.
CallInv(t) ==
  /\ sop[t].pc \in {"load", "exchange"} =>
       /\ sop[t].op \in CounterCalls
       /\ sop[t].op \in Increments => refs[t] < MaxRefs
       /\ sop[t].op \in Decrements \cup {"increment"} => refs[t] > 0
  /\ sop[t].pc = "exchange" => sop[t].new = Modified(sop[t].op, sop[t].old)
  /\ sop[t].pc = "return" => did[t] = Returned(sop[t].op, sop[t].new)

CounterInv ==
  /\ CounterTypeOK
  /\ sval.counter = Cardinality(RefsHeld)
  /\ sval.status = "closed" => sval.counter = 0
  /\ \A t \in CounterThreads : CallInv(t)

(* Nobody has called yet.                                                     *)
LEMMA CounterInitInv == CounterInit => CounterInv
<1> SUFFICES ASSUME CounterInit PROVE CounterInv  OBVIOUS
<1> USE CounterAssumption
<1>1. CounterTypeOK
  BY SMTT(30) DEF CounterInit, CounterTypeOK, CounterValues, SameValue, NoOp
<1>2. sval.counter = Cardinality(RefsHeld) /\ sval.status # "closed"
  BY <1>1, RefsHeldZero DEF CounterInit, CounterTypeOK, SameValue
<1>3. ASSUME NEW t \in CounterThreads PROVE CallInv(t)
  BY DEF CounterInit, CallInv, NoOp
<1>4. QED  BY <1>1, <1>2, <1>3 DEF CounterInv

(* A call: the protocol lets a thread give up references of its own only.     *)
LEMMA CallCounterInv ==
  ASSUME CounterInv, NEW t \in CounterThreads, CallCounter(t)
  PROVE  CounterInv'
<1> USE CounterAssumption
<1>1. UNCHANGED <<sval, refs, did, answer>>
  BY DEF CallCounter
<1>2. PICK o \in Acquires \cup Releases \cup {"increment", "xchng_status", "set_status"} :
        /\ Allowed(t, o)
        /\ sop' = [sop EXCEPT ![t] = [NoOp EXCEPT !.pc = "load", !.op = o]]
  BY DEF CallCounter
<1>3. o \in CounterCalls
  BY DEF CounterCalls, Increments, Decrements
<1>4. /\ o \in Increments => refs[t] < MaxRefs
      /\ o \in Decrements \cup {"increment"} => refs[t] > 0
  <2>1. CASE o \in Acquires
    BY <1>2, <2>1 DEF Allowed, Acquires, Increments, Decrements
  <2>2. CASE o = "increment"
    <3>1. o \notin Acquires /\ o \notin Releases /\ o \notin Decrements
      BY <2>2 DEF Acquires, Decrements
    <3>2. refs[t] \in 1 .. MaxRefs - 1
      BY <1>2, <2>2, <3>1 DEF Allowed
    <3>3. QED  BY <3>2, CounterAssumption, SMTT(30)
  <2>3. CASE o \in Releases
    BY <1>2, <2>3 DEF Allowed, Acquires, Increments, Decrements
  <2>4. CASE o \in {"xchng_status", "set_status"}
    BY <2>4 DEF Acquires, Increments, Decrements
  <2>5. QED  BY <2>1, <2>2, <2>3, <2>4
<1>5. /\ [NoOp EXCEPT !.pc = "load", !.op = o] \in
           [pc : {"idle", "load", "exchange", "return"}, op : CounterCalls \cup {"none"},
            old : CounterValues, new : [counter : Int, status : {"open", "closing", "closed"}]]
      /\ [NoOp EXCEPT !.pc = "load", !.op = o].pc = "load"
      /\ [NoOp EXCEPT !.pc = "load", !.op = o].op = o
  <2>1. SameValue \in CounterValues /\ SameValue \in [counter : Int, status : {"open", "closing", "closed"}]
    BY SMTT(30) DEF CounterValues, SameValue
  <2>2. QED  BY <1>3, <2>1 DEF NoOp
<1>6. CounterTypeOK'
  BY <1>1, <1>2, <1>5 DEF CounterInv, CounterTypeOK
<1>7. ASSUME NEW u \in CounterThreads PROVE CallInv(u)'
  <2>1. CASE u = t
    BY <1>1, <1>2, <1>3, <1>4, <1>5, <2>1 DEF CounterInv, CounterTypeOK, CallInv
  <2>2. CASE u # t
    BY <1>1, <1>2, <2>2 DEF CounterInv, CounterTypeOK, CallInv
  <2>3. QED  BY <2>1, <2>2
<1>8. RefsHeld' = RefsHeld
  BY <1>1 DEF RefsHeld
<1>9. QED  BY <1>1, <1>6, <1>7, <1>8 DEF CounterInv

(* The load and the modifier: nothing that others see changes.                *)
LEMMA LoadModifyInv ==
  ASSUME CounterInv, NEW t \in CounterThreads, LoadModify(t)
  PROVE  CounterInv'
<1> DEFINE w == Modified(sop[t].op, sval)
           after == IF sop[t].op = "set_atomic_value" /\ w = sval THEN "return" ELSE "exchange"
<1>1. /\ sop[t].pc = "load" /\ sop[t].op \in CounterCalls
      /\ sop[t].op \in Decrements \cup {"increment"} => refs[t] > 0
  BY DEF LoadModify, CounterInv, CallInv
<1>2. sval \in CounterValues /\ sval.counter = Cardinality(RefsHeld)
  BY DEF CounterInv, CounterTypeOK
<1>3. refs[t] > 0 => sval.counter > 0
  <2>1. refs[t] \in Nat /\ refs \in [CounterThreads -> 0 .. MaxRefs]
    BY SMTT(30) DEF CounterInv, CounterTypeOK
  <2>2. QED  BY <1>2, <2>1, RefsHeldZero, SMTT(30)
<1>4. w \in CounterValues
  BY <1>1, <1>2, <1>3, ModifiedFacts DEF CounterInv
<1>5. /\ sop' = [sop EXCEPT ![t] = [pc |-> after, op |-> sop[t].op, old |-> sval, new |-> w]]
      /\ did' = [did EXCEPT ![t] = FALSE] /\ UNCHANGED <<sval, refs, answer>>
  BY SMTT(30) DEF LoadModify, CounterInv, CounterTypeOK
<1>6. CounterTypeOK'
  <2>1. w \in [counter : Int, status : {"open", "closing", "closed"}]
    BY <1>4, SMTT(30) DEF CounterValues
  <2>2. [pc |-> after, op |-> sop[t].op, old |-> sval, new |-> w] \in
          [pc : {"idle", "load", "exchange", "return"}, op : CounterCalls \cup {"none"},
           old : CounterValues, new : [counter : Int, status : {"open", "closing", "closed"}]]
    BY <1>1, <1>2, <2>1
  <2>3. QED  BY <1>5, <2>2 DEF CounterInv, CounterTypeOK
<1>7. ASSUME NEW u \in CounterThreads PROVE CallInv(u)'
  <2>1. CASE u # t
    BY <1>5, <2>1 DEF CounterInv, CounterTypeOK, CallInv
  <2>2. CASE u = t
    <3>1. /\ sop'[t].pc = after /\ sop'[t].op = sop[t].op /\ sop'[t].old = sval /\ sop'[t].new = w
          /\ did'[t] = FALSE
      BY <1>5 DEF CounterInv, CounterTypeOK
    <3>2. after = "return" => Returned(sop'[t].op, sop'[t].new) = FALSE
      BY <1>2, <3>1, DeclinedFacts
    <3>3. QED
      BY <1>1, <1>5, <2>2, <3>1, <3>2 DEF CounterInv, CallInv
  <2>3. QED  BY <2>1, <2>2
<1>8. RefsHeld' = RefsHeld
  BY <1>5 DEF RefsHeld
<1>9. QED  BY <1>5, <1>6, <1>7, <1>8 DEF CounterInv

(* The exchange: it stores what was made of the value that is there, so the
   modifier's facts hold of the word itself.                                  *)
LEMMA CounterExchangeInv ==
  ASSUME CounterInv, NEW t \in CounterThreads, CounterExchange(t)
  PROVE  CounterInv'
<1> DEFINE o == sop[t].op
           w == Modified(o, sval)
<1>1. /\ sop[t].pc = "exchange" /\ o \in CounterCalls
      /\ o \in Increments => refs[t] < MaxRefs
      /\ o \in Decrements \cup {"increment"} => refs[t] > 0
      /\ sop[t].new = Modified(o, sop[t].old)
  BY DEF CounterExchange, CounterInv, CallInv
<1>2. CASE sop' = [sop EXCEPT ![t].pc = "load"] /\ UNCHANGED <<sval, refs, did, answer>>
  <2>1. CounterTypeOK'
    BY <1>2 DEF CounterInv, CounterTypeOK
  <2>2. ASSUME NEW u \in CounterThreads PROVE CallInv(u)'
    BY <1>1, <1>2 DEF CounterInv, CounterTypeOK, CallInv
  <2>3. RefsHeld' = RefsHeld
    BY <1>2 DEF RefsHeld
  <2>4. QED  BY <1>2, <2>1, <2>2, <2>3 DEF CounterInv
<1>3. CASE /\ sval = sop[t].old
           /\ sval' = sop[t].new
           /\ refs' = [refs EXCEPT ![t] = @ + sop[t].new.counter - sop[t].old.counter]
           /\ did' = [did EXCEPT ![t] = Effect(sop[t].op, sop[t].old, sop[t].new)]
           /\ sop' = [sop EXCEPT ![t].pc = "return"]
           /\ UNCHANGED answer
  <2>1. sop[t].new = w
    BY <1>1, <1>3
  <2>2. /\ sval' = w /\ answer' = answer
        /\ refs' = [refs EXCEPT ![t] = @ + w.counter - sval.counter]
        /\ did' = [did EXCEPT ![t] = Effect(o, sval, w)]
        /\ sop' = [sop EXCEPT ![t].pc = "return"]
    BY <1>3, <2>1
  <2>3. /\ sval \in CounterValues /\ sval.counter = Cardinality(RefsHeld)
        /\ refs \in [CounterThreads -> 0 .. MaxRefs]
        /\ sval.status = "closed" => sval.counter = 0
    BY DEF CounterInv, CounterTypeOK
  <2>4. refs[t] > 0 => sval.counter > 0
    BY <2>3, RefsHeldZero, SMTT(30)
  <2>5. /\ w \in CounterValues
        /\ w.counter - sval.counter \in {0} \cup (IF o \in Increments THEN {1} ELSE {})
                                            \cup (IF o \in Decrements THEN {-1} ELSE {})
        /\ w.status = "closed" => w.counter = 0
        /\ Returned(o, w) = Effect(o, sval, w)
    BY <1>1, <2>3, <2>4, ModifiedFacts
  <2>6. PICK d \in {-1, 0, 1} : /\ d = w.counter - sval.counter
                                /\ d = 1 => o \in Increments
                                /\ d = -1 => o \in Decrements
    BY <2>5, SMTT(30)
  <2>7. w.counter \in Nat /\ sval.counter \in Nat
    BY <2>3, <2>5 DEF CounterValues
  <2>8. refs' = [refs EXCEPT ![t] = @ + d]
    BY <2>2, <2>3, <2>6, <2>7
  <2>9. refs' \in [CounterThreads -> 0 .. MaxRefs]
    BY <1>1, <2>3, <2>6, <2>8, CounterAssumption, SMTT(30)
  <2>10. Cardinality(RefsHeld') = Cardinality(RefsHeld) + d
    BY <2>3, <2>8, <2>9, RefsHeldCount
  <2>11. sval'.counter = Cardinality(RefsHeld')
    BY <2>2, <2>3, <2>6, <2>7, <2>10, SMTT(30)
  <2>12. Effect(o, sval, w) \in BOOLEAN
    <3>1. CASE o \in {"increment_if_status", "set_atomic_value"}
      <4>1. Effect(o, sval, w) = (w.counter > sval.counter)
        BY <3>1 DEF Effect
      <4>2. (w.counter > sval.counter) \in BOOLEAN
        BY <2>7, SMTT(30)
      <4>3. QED  BY <4>1, <4>2
    <3>2. CASE o = "decrement_testz_and_test_status"
      BY <3>2 DEF Effect
    <3>3. CASE o \in {"dec_xchng_status_ifz", "dec_xchng_status_only_ifz", "dec_set_status_ifz",
                      "decrement_testz"}
      BY <3>3 DEF Effect
    <3>4. CASE o \notin {"increment_if_status", "set_atomic_value", "decrement_testz_and_test_status",
                         "dec_xchng_status_ifz", "dec_xchng_status_only_ifz", "dec_set_status_ifz",
                         "decrement_testz"}
      BY <3>4 DEF Effect
    <3>5. QED  BY <3>1, <3>2, <3>3, <3>4
  <2>13. CounterTypeOK'
    BY <2>2, <2>5, <2>9, <2>12, SMTT(30) DEF CounterInv, CounterTypeOK
  <2>14. ASSUME NEW u \in CounterThreads PROVE CallInv(u)'
    <3>1. CASE u # t
      <4>1. sop'[u] = sop[u] /\ refs'[u] = refs[u] /\ did'[u] = did[u]
        BY <2>2, <3>1 DEF CounterInv, CounterTypeOK
      <4>2. QED  BY <4>1 DEF CounterInv, CallInv
    <3>2. CASE u = t
      <4>1. sop'[t].pc = "return" /\ sop'[t].op = o /\ sop'[t].new = w /\ did'[t] = Effect(o, sval, w)
        BY <2>1, <2>2 DEF CounterInv, CounterTypeOK
      <4>2. QED  BY <2>5, <3>2, <4>1 DEF CallInv
    <3>3. QED  BY <3>1, <3>2
  <2>15. QED  BY <2>2, <2>5, <2>11, <2>13, <2>14 DEF CounterInv
<1>4. QED
  BY <1>2, <1>3 DEF CounterExchange

(* The return: the thread is out of the operation again.                      *)
LEMMA ReturnValueInv ==
  ASSUME CounterInv, NEW t \in CounterThreads, ReturnValue(t)
  PROVE  CounterInv' /\ answer'[t] = did[t]
<1>1. /\ UNCHANGED <<sval, refs, did>> /\ sop' = [sop EXCEPT ![t] = NoOp]
      /\ answer' = [answer EXCEPT ![t] = did[t]]
  BY DEF ReturnValue, CounterInv, CallInv
<1>2. CounterTypeOK'
  <2>1. NoOp \in [pc : {"idle", "load", "exchange", "return"}, op : CounterCalls \cup {"none"},
                  old : CounterValues, new : [counter : Int, status : {"open", "closing", "closed"}]]
    BY SMTT(30) DEF NoOp, SameValue, CounterValues
  <2>2. QED  BY <1>1, <2>1 DEF CounterInv, CounterTypeOK
<1>3. NoOp.pc = "idle"
  BY DEF NoOp
<1>4. ASSUME NEW u \in CounterThreads PROVE CallInv(u)'
  BY <1>1, <1>3 DEF CounterInv, CounterTypeOK, CallInv
<1>5. RefsHeld' = RefsHeld
  BY <1>1 DEF RefsHeld
<1>6. CounterInv'
  BY <1>1, <1>2, <1>4, <1>5 DEF CounterInv
<1>7. answer'[t] = did[t]
  BY <1>1 DEF CounterInv, CounterTypeOK
<1>8. QED  BY <1>6, <1>7

(* Every step, with what the step of an answer tells.                         *)
LEMMA CounterStepInv ==
  ASSUME CounterInv, [CounterNext]_counterVars
  PROVE  /\ CounterInv'
         /\ \A t \in CounterThreads :
              sop[t].pc = "return" /\ sop'[t].pc = "idle" => answer'[t] = did[t]
<1> DEFINE Truth == \A u \in CounterThreads :
                      sop[u].pc = "return" /\ sop'[u].pc = "idle" => answer'[u] = did[u]
<1>1. ASSUME NEW t \in CounterThreads, CallCounter(t) PROVE CounterInv' /\ Truth
  <2>1. ASSUME NEW u \in CounterThreads, sop[u].pc = "return" PROVE sop'[u] = sop[u]
    BY <1>1, <2>1 DEF CallCounter, CounterInv, CounterTypeOK
  <2>2. QED  BY <1>1, <2>1, CallCounterInv
<1>2. ASSUME NEW t \in CounterThreads, LoadModify(t) PROVE CounterInv' /\ Truth
  <2>1. ASSUME NEW u \in CounterThreads, sop[u].pc = "return" PROVE sop'[u] = sop[u]
    BY <1>2, <2>1 DEF LoadModify, CounterInv, CounterTypeOK
  <2>2. QED  BY <1>2, <2>1, LoadModifyInv
<1>3. ASSUME NEW t \in CounterThreads, CounterExchange(t) PROVE CounterInv' /\ Truth
  <2>1. ASSUME NEW u \in CounterThreads, sop[u].pc = "return" PROVE sop'[u] = sop[u]
    BY <1>3, <2>1 DEF CounterExchange, CounterInv, CounterTypeOK
  <2>2. QED  BY <1>3, <2>1, CounterExchangeInv
<1>4. ASSUME NEW t \in CounterThreads, ReturnValue(t) PROVE CounterInv' /\ Truth
  <2>1. ASSUME NEW u \in CounterThreads, u # t PROVE sop'[u] = sop[u]
    BY <1>4, <2>1 DEF ReturnValue, CounterInv, CounterTypeOK
  <2>2. QED  BY <1>4, <2>1, ReturnValueInv
<1>5. CASE UNCHANGED counterVars
  <2>1. UNCHANGED <<sval, sop, refs, did, answer>>
    BY <1>5 DEF counterVars
  <2>2. CounterInv'
    BY <2>1 DEF CounterInv, CounterTypeOK, CallInv, RefsHeld
  <2>3. Truth
    BY <2>1
  <2>4. QED  BY <2>2, <2>3
<1>6. QED
  BY <1>1, <1>2, <1>3, <1>4, <1>5 DEF CounterNext

(* What the invariant says of the references.                                 *)
LEMMA CounterInvImplies == CounterInv => CounterIsRefs /\ ClosedIsUnreferenced
<1> SUFFICES ASSUME CounterInv PROVE CounterIsRefs /\ ClosedIsUnreferenced  OBVIOUS
<1>1. refs \in [CounterThreads -> 0 .. MaxRefs]
  BY DEF CounterInv, CounterTypeOK
<1>2. CounterIsRefs
  BY <1>1 DEF CounterInv, CounterIsRefs
<1>3. ClosedIsUnreferenced
  BY <1>1, RefsHeldZero DEF CounterInv, ClosedIsUnreferenced
<1>4. QED  BY <1>2, <1>3

------------------------------------------------------------------------------
(* The gate.  It fills before it empties: while threads come in, the counter  *)
(* is the number that have and each holds a different count below it; while   *)
(* they leave, it is the number still in and each that left holds a different *)
(* count above it.                                                            *)
Total == Cardinality(CounterThreads)
Passed == {t \in CounterThreads : gop[t].pc # "out"}
Within == {t \in CounterThreads : gop[t].pc = "in"}
Gone == {t \in CounterThreads : gop[t].pc \in {"leaving", "left"}}

GateTypeOK ==
  /\ gate \in 0 .. Total
  /\ gop \in [CounterThreads -> [pc : {"out", "entering", "in", "leaving", "left"},
                                 count : 0 .. Total, last : BOOLEAN]]

Filling ==
  /\ Gone = {} /\ gate = Cardinality(Passed)
  /\ \A t \in Passed :
       /\ gop[t].count < gate
       /\ \A u \in Passed : gop[t].count = gop[u].count => t = u
       /\ gop[t].pc = "in" => (gop[t].last <=> gop[t].count = Total - 1)

Emptying ==
  /\ CounterThreads = Within \cup Gone /\ gate = Cardinality(Within)
  /\ \A t \in Gone :
       /\ gop[t].count > gate
       /\ \A u \in Gone : gop[t].count = gop[u].count => t = u
       /\ gop[t].last <=> gop[t].pc = "left" /\ gop[t].count = 1

GateInv == GateTypeOK /\ (Filling \/ (Emptying /\ Gone # {}))

LEMMA TotalFacts ==
  /\ Total \in Nat \ {0}
  /\ \A S \in SUBSET CounterThreads :
       /\ IsFiniteSet(S) /\ Cardinality(S) \in 0 .. Total
       /\ Cardinality(S) = 0 <=> S = {}
       /\ Cardinality(S) = Total => S = CounterThreads
<1>1. Total \in Nat /\ Total # 0
  BY CounterAssumption, FS_CardinalityType, FS_EmptySet DEF Total
<1>2. ASSUME NEW S \in SUBSET CounterThreads
      PROVE  /\ IsFiniteSet(S) /\ Cardinality(S) \in 0 .. Total
             /\ Cardinality(S) = 0 <=> S = {}
             /\ Cardinality(S) = Total => S = CounterThreads
  <2>1. /\ IsFiniteSet(S) /\ Cardinality(S) <= Total
        /\ Cardinality(S) = Total => S = CounterThreads
    BY CounterAssumption, FS_Subset DEF Total
  <2>2. Cardinality(S) \in Nat /\ (Cardinality(S) = 0 <=> S = {})
    BY <2>1, FS_CardinalityType, FS_EmptySet
  <2>3. QED  BY <1>1, <2>1, <2>2, SMTT(30)
<1>3. QED  BY <1>1, <1>2

LEMMA GateInitInv == GateInit => GateInv
<1> SUFFICES ASSUME GateInit PROVE GateInv  OBVIOUS
<1>1. GateTypeOK
  BY TotalFacts DEF GateInit, GateTypeOK
<1>2. Passed = {} /\ Gone = {}
  BY DEF GateInit, Passed, Gone
<1>3. gate = Cardinality(Passed)
  BY <1>2, TotalFacts DEF GateInit
<1>4. QED  BY <1>1, <1>2, <1>3 DEF GateInv, Filling

(* A thread comes in: the counter it fetched is above every count so far.     *)
LEMMA EnterInv ==
  ASSUME GateInv, NEW t \in CounterThreads, Enter(t)
  PROVE  GateInv'
<1> DEFINE now == [pc |-> "entering", count |-> gate, last |-> FALSE]
<1>1. /\ gop[t].pc = "out" /\ gate' = gate + 1 /\ gop' = [gop EXCEPT ![t] = now]
  BY DEF Enter
<1>2. GateTypeOK /\ Filling
  BY <1>1 DEF GateInv, Emptying, Within, Gone
<1>3. gop'[t] = now /\ \A u \in CounterThreads : u # t => gop'[u] = gop[u]
  BY <1>1, <1>2 DEF GateTypeOK
<1>4. t \notin Passed /\ Passed' = Passed \cup {t} /\ Gone' = {}
  BY <1>1, <1>2, <1>3, SMTT(30) DEF Passed, Gone, Filling
<1>5. Cardinality(Passed') = gate + 1
  <2>1. IsFiniteSet(Passed)
    BY TotalFacts DEF Passed
  <2>2. QED  BY <1>2, <1>4, <2>1, FS_AddElement DEF Filling
<1>6. gate' \in 0 .. Total /\ gate' = Cardinality(Passed')
  <2>1. Cardinality(Passed') \in 0 .. Total
    BY TotalFacts DEF Passed
  <2>2. QED  BY <1>1, <1>5, <2>1
<1>7. gate \in Nat /\ \A u \in CounterThreads : gop[u].count \in Nat
  BY <1>2, TotalFacts, SMTT(30) DEF GateTypeOK
<1>8. Total' = Total
  BY DEF Total
<1>9. GateTypeOK'
  <2>1. gate \in 0 .. Total
    BY <1>2 DEF GateTypeOK
  <2>2. now \in [pc : {"out", "entering", "in", "leaving", "left"}, count : 0 .. Total, last : BOOLEAN]
    BY <2>1
  <2>3. QED  BY <1>1, <1>2, <1>6, <1>8, <2>2 DEF GateTypeOK
<1>10. Filling'
  <2>1. ASSUME NEW u \in Passed'
        PROVE  /\ gop'[u].count < gate'
               /\ \A v \in Passed' : gop'[u].count = gop'[v].count => u = v
               /\ gop'[u].pc = "in" => (gop'[u].last <=> gop'[u].count = Total - 1)
    <3>1. u \in CounterThreads
      BY DEF Passed
    <3>2. now.count = gate /\ now.pc = "entering"
      OBVIOUS
    <3>3. ASSUME NEW v \in Passed PROVE v \in CounterThreads /\ gop'[v] = gop[v] /\ gop[v].count < gate
      BY <1>2, <1>3, <1>4 DEF Passed, Filling
    <3>4. gop'[u].count < gate'
      BY <1>1, <1>3, <1>4, <1>7, <3>2, <3>3, SMTT(30)
    <3>5. ASSUME NEW v \in Passed', gop'[u].count = gop'[v].count PROVE u = v
      BY <1>2, <1>3, <1>4, <1>7, <3>1, <3>2, <3>3, <3>5, SMTT(30) DEF Filling
    <3>6. gop'[u].pc = "in" => (gop'[u].last <=> gop'[u].count = Total - 1)
      <4>1. CASE u = t
        BY <1>3, <3>2, <4>1
      <4>2. CASE u # t
        BY <1>2, <1>4, <3>3, <4>2 DEF Filling
      <4>3. QED  BY <4>1, <4>2
    <3>7. QED  BY <3>4, <3>5, <3>6
  <2>2. QED  BY <1>4, <1>6, <1>8, <2>1 DEF Filling
<1>11. QED  BY <1>9, <1>10 DEF GateInv

(* It is told whether the count it fetched is the last one.                   *)
LEMMA TestInInv ==
  ASSUME GateInv, NEW t \in CounterThreads, TestIn(t)
  PROVE  GateInv'
<1>1. gop[t].pc = "entering" /\ gate' = gate
  BY DEF TestIn
<1>2. GateTypeOK /\ Filling /\ t \in Passed
  BY <1>1 DEF GateInv, Emptying, Within, Gone, Passed
<1>3. gop[t].count \in 0 .. Total - 1 /\ gate \in 0 .. Total
  BY <1>2, TotalFacts, SMTT(30) DEF GateTypeOK, Filling
<1>4. PICK last \in {gop[t].count = Total - 1, gop[t].count >= Total - 1} :
        gop' = [gop EXCEPT ![t] = [@ EXCEPT !.pc = "in", !.last = last]]
  BY DEF TestIn, Total
<1>5. last \in BOOLEAN /\ (last <=> gop[t].count = Total - 1)
  <2>1. (gop[t].count >= Total - 1) = (gop[t].count = Total - 1)
    BY <1>3, TotalFacts, SMTT(30)
  <2>2. last = (gop[t].count = Total - 1)
    BY <2>1
  <2>3. QED  BY <2>2
<1>6. /\ gop'[t].pc = "in" /\ gop'[t].last = last /\ gop'[t].count = gop[t].count
      /\ \A u \in CounterThreads : u # t => gop'[u] = gop[u]
  BY <1>2, <1>4 DEF GateTypeOK
<1>7. Total' = Total
  BY DEF Total
<1>8. GateTypeOK'
  BY <1>1, <1>2, <1>4, <1>5, <1>7 DEF GateTypeOK
<1>9. Passed' = Passed /\ Gone' = Gone
  BY <1>1, <1>2, <1>6 DEF Passed, Gone
<1>10. \A u \in Passed : u \in CounterThreads /\ gop'[u].count = gop[u].count
  BY <1>6 DEF Passed
<1>11. ASSUME NEW u \in Passed, gop'[u].pc = "in"
       PROVE  gop'[u].last <=> gop'[u].count = Total - 1
  <2>1. CASE u = t
    BY <1>5, <1>6, <2>1
  <2>2. CASE u # t
    BY <1>2, <1>6, <1>10, <1>11, <2>2 DEF Filling
  <2>3. QED  BY <2>1, <2>2
<1>12. Filling'
  BY <1>1, <1>2, <1>7, <1>9, <1>10, <1>11, SMTT(30) DEF Filling
<1>13. QED  BY <1>8, <1>12 DEF GateInv

(* A thread leaves, once all are in: its count is below every count so far.   *)
LEMMA LeaveInv ==
  ASSUME GateInv, NEW t \in CounterThreads, Leave(t)
  PROVE  GateInv'
<1> DEFINE now == [pc |-> "leaving", count |-> gate, last |-> FALSE]
<1>1. /\ gop[t].pc = "in" /\ gate' = gate - 1 /\ gop' = [gop EXCEPT ![t] = now]
      /\ CounterThreads = Within \cup Gone
  BY DEF Leave, Within, Gone
<1>2. GateTypeOK /\ Emptying
  <2>1. CASE Filling
    <3>1. Within = Passed /\ Gone = {}
      BY <1>1, <2>1 DEF Filling, Within, Passed, Gone
    <3>2. QED  BY <1>1, <2>1, <3>1 DEF GateInv, Filling, Emptying
  <2>2. QED  BY <2>1 DEF GateInv
<1>3. gop'[t] = now /\ \A u \in CounterThreads : u # t => gop'[u] = gop[u]
  BY <1>1, <1>2 DEF GateTypeOK
<1>4. /\ t \in Within /\ t \notin Gone
      /\ Within' = Within \ {t} /\ Gone' = Gone \cup {t}
  BY <1>1, <1>3, SMTT(30) DEF Within, Gone
<1>5. gate' = Cardinality(Within')
  <2>1. IsFiniteSet(Within)
    BY TotalFacts DEF Within
  <2>2. QED  BY <1>1, <1>2, <1>4, <2>1, FS_RemoveElement DEF Emptying
<1>6. gate' \in 0 .. Total
  <2>1. Within' \subseteq CounterThreads
    BY DEF Within
  <2>2. QED  BY <1>5, <2>1, TotalFacts
<1>7. gate \in Nat /\ \A u \in CounterThreads : gop[u].count \in Nat
  BY <1>2, TotalFacts, SMTT(30) DEF GateTypeOK
<1>8. Total' = Total
  BY DEF Total
<1>9. GateTypeOK'
  <2>1. gate \in 0 .. Total
    BY <1>2 DEF GateTypeOK
  <2>2. now \in [pc : {"out", "entering", "in", "leaving", "left"}, count : 0 .. Total, last : BOOLEAN]
    BY <2>1
  <2>3. QED  BY <1>1, <1>2, <1>6, <1>8, <2>2 DEF GateTypeOK
<1>10. now.count = gate /\ now.pc = "leaving" /\ ~now.last
  OBVIOUS
<1>11. ASSUME NEW v \in Gone
       PROVE  v \in CounterThreads /\ gop'[v] = gop[v] /\ gop[v].count > gate
  BY <1>2, <1>3, <1>4 DEF Gone, Emptying
<1>12. ASSUME NEW u \in Gone'
       PROVE  /\ gop'[u].count > gate'
              /\ \A v \in Gone' : gop'[u].count = gop'[v].count => u = v
              /\ gop'[u].last <=> gop'[u].pc = "left" /\ gop'[u].count = 1
  <2>1. gop'[u].count > gate'
    BY <1>1, <1>3, <1>4, <1>7, <1>10, <1>11, SMTT(30)
  <2>2. ASSUME NEW v \in Gone', gop'[u].count = gop'[v].count PROVE u = v
    BY <1>2, <1>3, <1>4, <1>7, <1>10, <1>11, <2>2, SMTT(30) DEF Emptying
  <2>3. gop'[u].last <=> gop'[u].pc = "left" /\ gop'[u].count = 1
    <3>1. CASE u = t
      BY <1>3, <1>10, <3>1
    <3>2. CASE u # t
      BY <1>2, <1>4, <1>11, <3>2 DEF Emptying
    <3>3. QED  BY <3>1, <3>2
  <2>4. QED  BY <2>1, <2>2, <2>3
<1>13. CounterThreads = Within' \cup Gone' /\ Gone' # {}
  BY <1>1, <1>4
<1>14. Emptying'
  BY <1>5, <1>12, <1>13 DEF Emptying
<1>15. QED  BY <1>9, <1>13, <1>14 DEF GateInv

(* It is told whether the count it fetched was the last one.                  *)
LEMMA TestOutInv ==
  ASSUME GateInv, NEW t \in CounterThreads, TestOut(t)
  PROVE  GateInv'
<1>1. gop[t].pc = "leaving" /\ gate' = gate
  BY DEF TestOut
<1>2. GateTypeOK /\ Emptying /\ t \in Gone
  BY <1>1 DEF GateInv, Filling, Gone
<1>3. gop[t].count \in 1 .. Total /\ gate \in 0 .. Total
  BY <1>2, TotalFacts, SMTT(30) DEF GateTypeOK, Emptying
<1>4. PICK last \in {gop[t].count = 1, gop[t].count <= 1} :
        gop' = [gop EXCEPT ![t] = [@ EXCEPT !.pc = "left", !.last = last]]
  BY DEF TestOut
<1>5. last \in BOOLEAN /\ (last <=> gop[t].count = 1)
  <2>1. (gop[t].count <= 1) = (gop[t].count = 1)
    BY <1>3, TotalFacts, SMTT(30)
  <2>2. last = (gop[t].count = 1)
    BY <2>1
  <2>3. QED  BY <2>2
<1>6. /\ gop'[t].pc = "left" /\ gop'[t].last = last /\ gop'[t].count = gop[t].count
      /\ \A u \in CounterThreads : u # t => gop'[u] = gop[u]
  BY <1>2, <1>4 DEF GateTypeOK
<1>7. Total' = Total
  BY DEF Total
<1>8. GateTypeOK'
  BY <1>1, <1>2, <1>4, <1>5, <1>7 DEF GateTypeOK
<1>9. Within' = Within /\ Gone' = Gone
  BY <1>1, <1>2, <1>6 DEF Within, Gone
<1>10. \A u \in Gone : u \in CounterThreads /\ gop'[u].count = gop[u].count
  BY <1>6 DEF Gone
<1>11. ASSUME NEW u \in Gone
       PROVE  gop'[u].last <=> gop'[u].pc = "left" /\ gop'[u].count = 1
  <2>1. CASE u = t
    BY <1>5, <1>6, <2>1
  <2>2. CASE u # t
    BY <1>2, <1>6, <1>10, <1>11, <2>2 DEF Emptying
  <2>3. QED  BY <2>1, <2>2
<1>12. Emptying'
  BY <1>1, <1>2, <1>9, <1>10, <1>11, SMTT(30) DEF Emptying
<1>13. QED  BY <1>2, <1>8, <1>9, <1>12 DEF GateInv

(* All of them in, or all out again: the counts are all the numbers there are,
   so one thread has the one that is tested for.                              *)
LEMMA CountsCover ==
  ASSUME GateTypeOK, NEW a \in {0, 1},
         \A t \in CounterThreads :
           /\ gop[t].count \in a .. Total - 1 + a
           /\ \A u \in CounterThreads : gop[t].count = gop[u].count => t = u,
         NEW n \in a .. Total - 1 + a
  PROVE  Cardinality({t \in CounterThreads : gop[t].count = n}) = 1
<1> DEFINE f == [t \in CounterThreads |-> gop[t].count]
           T == a .. Total - 1 + a
<1>1. f \in Injection(CounterThreads, T)
  BY DEF Injection, IsInjective
<1>2. IsFiniteSet(T) /\ Cardinality(T) = Total
  <2>1. a \in Int /\ Total - 1 + a \in Int /\ Total >= 1 /\ Total \in Int
    BY TotalFacts, SMTT(30)
  <2>2. /\ IsFiniteSet(T)
        /\ Cardinality(T) = IF a > Total - 1 + a THEN 0 ELSE Total - 1 + a - a + 1
    BY <2>1, FS_Interval, SMTT(30)
  <2>3. QED  BY <2>1, <2>2, SMTT(30)
<1>3. f \in Surjection(CounterThreads, T)
  BY <1>1, <1>2, FS_Injection DEF Total
<1>4. PICK t \in CounterThreads : f[t] = n
  BY <1>3 DEF Surjection
<1>5. {u \in CounterThreads : gop[u].count = n} = {t}
  BY <1>4
<1>6. QED  BY <1>5, FS_Singleton

LEMMA GateInvImplies == GateInv => OneIsLast
<1> SUFFICES ASSUME GateInv PROVE OneIsLast  OBVIOUS
<1> DEFINE lasts == {t \in CounterThreads : gop[t].last}
<1>1. ASSUME \A t \in CounterThreads : gop[t].pc = "in"
      PROVE  Cardinality(lasts) = 1
  <2>1. Passed = CounterThreads /\ Gone = {}
    BY <1>1 DEF Passed, Gone
  <2>2. Filling /\ gate = Total /\ GateTypeOK
    BY <2>1 DEF GateInv, Filling, Total
  <2>3. \A t \in CounterThreads :
          /\ gop[t].count \in 0 .. Total - 1
          /\ \A u \in CounterThreads : gop[t].count = gop[u].count => t = u
    BY <2>1, <2>2, TotalFacts, SMTT(30) DEF Filling, GateTypeOK
  <2>4. lasts = {t \in CounterThreads : gop[t].count = Total - 1}
    BY <1>1, <2>1, <2>2 DEF Filling
  <2>5. Total - 1 \in 0 .. Total - 1 + 0
    BY TotalFacts, SMTT(30)
  <2>6. QED  BY <2>2, <2>3, <2>4, <2>5, TotalFacts, CountsCover, SMTT(30)
<1>2. ASSUME \A t \in CounterThreads : gop[t].pc = "left"
      PROVE  Cardinality(lasts) = 1
  <2>1. Within = {} /\ Gone = CounterThreads
    BY <1>2 DEF Within, Gone
  <2>2. Emptying /\ gate = 0 /\ GateTypeOK
    BY <2>1, TotalFacts, CounterAssumption DEF GateInv, Filling, Emptying
  <2>3. \A t \in CounterThreads :
          /\ gop[t].count \in 1 .. Total - 1 + 1
          /\ \A u \in CounterThreads : gop[t].count = gop[u].count => t = u
    BY <2>1, <2>2, TotalFacts, SMTT(30) DEF Emptying, GateTypeOK
  <2>4. lasts = {t \in CounterThreads : gop[t].count = 1}
    BY <1>2, <2>1, <2>2 DEF Emptying
  <2>5. 1 \in 1 .. Total - 1 + 1
    BY TotalFacts, SMTT(30)
  <2>6. QED  BY <2>2, <2>3, <2>4, <2>5, CountsCover
<1>3. QED  BY <1>1, <1>2 DEF OneIsLast

(* For any number of threads and references: the compare-exchange loops of
   atomic_status_counter lose no reference and close only what nobody holds,
   each operation returns what its own exchange did, and of all threads that
   pass an atomic_counter's tests exactly one is told it is the last.         *)
THEOREM CounterHolds ==
  CounterInit /\ [][CounterNext]_counterVars /\ GateInit /\ [][GateNext]_gateVars
    => CounterSound
<1> DEFINE Truth == \A t \in CounterThreads :
                      sop[t].pc = "return" /\ sop'[t].pc = "idle" => answer'[t] = did[t]
<1>1. CounterInit => CounterInv
  BY CounterInitInv
<1>2. CounterInv /\ [CounterNext]_counterVars => CounterInv' /\ [Truth]_counterVars
  BY CounterStepInv
<1>3. CounterInv => CounterIsRefs /\ ClosedIsUnreferenced
  BY CounterInvImplies
<1>4. GateInit => GateInv
  BY GateInitInv
<1>5. GateInv /\ [GateNext]_gateVars => GateInv'
  <2> SUFFICES ASSUME GateInv, [GateNext]_gateVars PROVE GateInv'  OBVIOUS
  <2>1. CASE UNCHANGED gateVars
    BY <2>1 DEF gateVars, GateInv, GateTypeOK, Filling, Emptying, Passed, Within, Gone, Total
  <2>2. CASE GateNext
    BY <2>2, EnterInv, TestInInv, LeaveInv, TestOutInv DEF GateNext
  <2>3. QED  BY <2>1, <2>2
<1>6. GateInv => OneIsLast
  BY GateInvImplies
<1>7. QED
  BY <1>1, <1>2, <1>3, <1>4, <1>5, <1>6, PTL DEF CounterSound, ReturnsTruth
------------------------------------------------------------------------------
(* StreamTracker: the window moves under the updates that are inside of it. *)

StreamCalls ==
  [pc : {"idle", "find", "grow", "build", "publish", "process", "sweep", "wipe"},
   idx : Int, slot : Nat]

StreamTypeOK ==
  /\ ref \in Nat /\ alloced \in Nat /\ skipped \in Nat /\ room \in Nat /\ sinceTrunc \in Nat
  /\ comp \subseteq 0 .. alloced - 1 /\ active \subseteq 0 .. alloced - 1
  /\ DOMAIN slots = 0 .. alloced - 1 /\ slots = [k \in DOMAIN slots |-> slots[k]]
  /\ skipped + alloced <= room
  /\ doing \in [Updaters -> StreamCalls]

\* The completion bits are the completions reported, counted from ref.
BitsAreDone ==
  /\ done \subseteq ref .. ref + alloced - 1
  /\ \A k \in 0 .. alloced - 1 : k \in comp <=> ref + k \in done

\* A slot whose active bit is set has the data of its index ...
ActiveBuilt == \A k \in active : slots[k] = ref + k

\* ... and so has the one an update is about to publish; the slot found under
\* the shared lock stays the slot of its index as long as that is held.
SlotHeld(t) ==
  /\ doing[t].pc \in {"build", "publish", "process"} =>
       doing[t].slot \in 0 .. alloced - 1 /\ doing[t].idx = ref + doing[t].slot
  /\ doing[t].pc = "publish" => slots[doing[t].slot] = doing[t].idx

StreamInv ==
  /\ StreamTypeOK /\ BitsAreDone /\ ActiveBuilt
  /\ \A t \in Updaters : SlotHeld(t)

LEMMA StreamInitInv == StreamInit => StreamInv
<1> SUFFICES ASSUME StreamInit PROVE StreamInv
  OBVIOUS
<1>1. doing \in [Updaters -> StreamCalls] /\ \A t \in Updaters : doing[t].pc = "idle"
  BY SMTT(30) DEF StreamInit, NoUpdate, StreamCalls
<1>2. StreamTypeOK
  BY <1>1, StreamAssumption, SMTT(30) DEF StreamInit, StreamTypeOK
<1>3. BitsAreDone /\ ActiveBuilt
  BY StreamAssumption DEF StreamInit, BitsAreDone, ActiveBuilt
<1>4. QED  BY <1>1, <1>2, <1>3 DEF StreamInv, SlotHeld

\* What SweptUpto finds: everything before it is completed, and it is not.
LEMMA SweptFacts ==
  ASSUME StreamInv
  PROVE  /\ SweptUpto \in 0 .. alloced
         /\ \A k \in 0 .. SweptUpto - 1 : k \in comp
         /\ SweptUpto \notin comp
<1> DEFINE open == (0 .. alloced - 1) \ comp
<1>1. alloced \in Nat /\ comp \subseteq 0 .. alloced - 1
  BY DEF StreamInv, StreamTypeOK
<1>2. SweptUpto = IF open = {} THEN alloced ELSE Min(open)
  BY DEF SweptUpto
<1>3. CASE open = {}
  BY <1>1, <1>2, <1>3, SMTT(30)
<1>4. CASE open # {}
  <2>1. open \in SUBSET Nat
    BY <1>1, SMTT(30)
  <2>2. Min(open) \in open /\ \A y \in open : Min(open) <= y
    <3> HIDE DEF open
    <3>1. QED  BY <1>4, <2>1, NatMin
  <2>3. PICK m : m = Min(open)
    OBVIOUS
  <2>4. QED  BY <1>1, <1>2, <1>4, <2>2, <2>3, SMTT(30)
<1>5. QED  BY <1>3, <1>4

LEMMA StreamInvSound ==
  ASSUME StreamInv
  PROVE  WindowsAgree /\ DataFollowsIndex /\ CompletionsExact /\ UptoIsPrefix
<1>1. WindowsAgree
  BY DEF StreamInv, StreamTypeOK, WindowsAgree
<1>2. ref \in Nat /\ alloced \in Nat /\ active \subseteq 0 .. alloced - 1 /\ comp \subseteq 0 .. alloced - 1
  BY DEF StreamInv, StreamTypeOK
<1>3. DataFollowsIndex
  BY <1>2, SMTT(30) DEF StreamInv, ActiveBuilt, DataFollowsIndex, Window, IsActive
<1>4. CompletionsExact
  <2>1. ASSUME NEW i \in Window PROVE IsCompleted(i) <=> i \in done
    <3>1. i - ref \in 0 .. alloced - 1 /\ ref + (i - ref) = i
      BY <1>2, SMTT(30) DEF Window
    <3>2. QED  BY <3>1 DEF StreamInv, BitsAreDone, IsCompleted
  <2>2. QED  BY <2>1 DEF CompletionsExact
<1>5. UptoIsPrefix
  <2>1. PICK n \in 0 .. alloced : n = SweptUpto
    BY SweptFacts
  <2>2. /\ \A k \in 0 .. n - 1 : ref + k \in done
        /\ ref + n \notin done
    BY <1>2, <2>1, SweptFacts, SMTT(30) DEF StreamInv, BitsAreDone
  <2>3. ASSUME NEW i \in ref .. ref + n - 1 PROVE i \in done
    <3>1. i - ref \in 0 .. n - 1 /\ ref + (i - ref) = i
      BY <1>2, SMTT(30)
    <3>2. QED  BY <2>2, <3>1
  <2>4. completed_upto = ref + n - 1 /\ completed_upto + 1 = ref + n
    BY <1>2, <2>1, SMTT(30) DEF completed_upto
  <2>5. QED  BY <2>2, <2>3, <2>4 DEF UptoIsPrefix
<1>6. QED  BY <1>1, <1>3, <1>4, <1>5

------------------------------------------------------------------------------
\* A step of one call that leaves the window alone.
LEMMA CallStepInv ==
  ASSUME StreamInv, NEW t \in Updaters, NEW c \in StreamCalls, doing' = [doing EXCEPT ![t] = c],
         UNCHANGED <<ref, comp, active, slots, room, skipped, alloced, done>>, sinceTrunc' \in Nat,
         c.pc \in {"build", "publish", "process"} =>
           c.slot \in 0 .. alloced - 1 /\ c.idx = ref + c.slot,
         c.pc # "publish"
  PROVE  StreamInv'
<1>1. doing' \in [Updaters -> StreamCalls] /\ doing'[t] = c /\ \A u \in Updaters \ {t} : doing'[u] = doing[u]
  BY DEF StreamInv, StreamTypeOK
<1>2. StreamTypeOK'
  BY <1>1 DEF StreamInv, StreamTypeOK
<1>3. BitsAreDone' /\ ActiveBuilt'
  BY DEF StreamInv, BitsAreDone, ActiveBuilt
<1>4. ASSUME NEW u \in Updaters PROVE SlotHeld(u)'
  <2>1. CASE u = t
    BY <1>1, <2>1 DEF SlotHeld
  <2>2. CASE u # t
    BY <1>1, <2>2 DEF StreamInv, SlotHeld
  <2>3. QED  BY <2>1, <2>2
<1>5. QED  BY <1>2, <1>3, <1>4 DEF StreamInv

LEMMA NoUpdateFacts == NoUpdate \in StreamCalls /\ NoUpdate.pc = "idle"
BY SMTT(30) DEF NoUpdate, StreamCalls

LEMMA LookUpInv == ASSUME StreamInv, NEW t \in Updaters, Update(t) \/ FindSlot(t) PROVE StreamInv'
<1>1. doing \in [Updaters -> StreamCalls] /\ ref \in Nat /\ alloced \in Nat
  BY DEF StreamInv, StreamTypeOK
<1>2. CASE Update(t)
  <2>1. PICK idx \in 0 .. MaxIdx : doing' = [doing EXCEPT ![t] = [NoUpdate EXCEPT !.pc = "find", !.idx = idx]]
    BY <1>2 DEF Update
  <2>2. idx \in Int
    BY StreamAssumption, SMTT(30)
  <2>3. /\ [NoUpdate EXCEPT !.pc = "find", !.idx = idx] \in StreamCalls
        /\ [NoUpdate EXCEPT !.pc = "find", !.idx = idx].pc = "find"
    BY <2>2 DEF NoUpdate, StreamCalls
  <2>4. UNCHANGED <<ref, comp, active, slots, room, skipped, alloced, sinceTrunc, done>> /\ sinceTrunc \in Nat
    BY <1>2 DEF Update, StreamInv, StreamTypeOK
  <2>5. QED  BY <2>1, <2>3, <2>4, CallStepInv
<1>3. CASE FindSlot(t)
  <2> DEFINE nbit == doing[t].idx - ref
  <2>1. UNCHANGED <<ref, comp, active, slots, room, skipped, alloced, sinceTrunc, done>> /\ sinceTrunc \in Nat
    BY <1>3 DEF FindSlot, StreamInv, StreamTypeOK
  <2>2. nbit \in Int /\ doing[t] \in StreamCalls /\ doing[t].idx = ref + nbit
    BY <1>1, SMTT(30) DEF StreamCalls
  <2>3. CASE nbit < 0
    <3>1. doing' = [doing EXCEPT ![t] = NoUpdate]
      BY <1>1, <1>3, <2>2, <2>3, SMTT(30) DEF FindSlot, Return
    <3>2. QED  BY <2>1, <3>1, NoUpdateFacts, CallStepInv
  <2>4. CASE nbit >= 0 /\ nbit >= alloced
    <3> DEFINE c == [doing[t] EXCEPT !.pc = "grow", !.slot = nbit + 1]
    <3>1. doing' = [doing EXCEPT ![t] = c]
      <4>1. doing' = [doing EXCEPT ![t].pc = "grow", ![t].slot = nbit + 1]
        BY <1>1, <1>3, <2>2, <2>4, SMTT(30) DEF FindSlot
      <4>2. QED  BY <1>1, <4>1
    <3>2. c \in StreamCalls /\ c.pc = "grow"
      <4>1. nbit + 1 \in Nat
        BY <2>2, <2>4, SMTT(30)
      <4> HIDE DEF nbit
      <4>2. QED  BY <2>2, <4>1 DEF StreamCalls
    <3> HIDE DEF c
    <3>3. QED  BY <2>1, <3>1, <3>2, CallStepInv
  <2>5. CASE nbit >= 0 /\ nbit < alloced
    <3> DEFINE c == [doing[t] EXCEPT !.pc = "build", !.slot = nbit]
    <3>1. doing' = [doing EXCEPT ![t] = c]
      <4>1. doing' = [doing EXCEPT ![t].pc = "build", ![t].slot = nbit]
        BY <1>1, <1>3, <2>2, <2>5, SMTT(30) DEF FindSlot
      <4>2. QED  BY <1>1, <4>1
    <3>2. c \in StreamCalls /\ c.pc = "build" /\ c.slot = nbit /\ c.idx = doing[t].idx
      <4>1. nbit \in Nat
        BY <2>2, <2>5, SMTT(30)
      <4> HIDE DEF nbit
      <4>2. QED  BY <2>2, <4>1 DEF StreamCalls
    <3>3. nbit \in 0 .. alloced - 1
      BY <1>1, <2>2, <2>5, SMTT(30)
    <3> HIDE DEF c, nbit
    <3>4. QED  BY <2>1, <2>2, <3>1, <3>2, <3>3, CallStepInv
  <2>6. QED  BY <1>1, <2>2, <2>3, <2>4, <2>5, SMTT(30)
<1>4. QED  BY <1>2, <1>3

\* The slot is built for the index that stands at it, whoever builds it.
LEMMA BuildSlotInv == ASSUME StreamInv, NEW t \in Updaters, BuildSlot(t) PROVE StreamInv'
<1>1. /\ doing \in [Updaters -> StreamCalls] /\ doing[t] \in StreamCalls /\ doing[t].pc = "build"
      /\ doing[t].slot \in 0 .. alloced - 1 /\ doing[t].idx = ref + doing[t].slot
      /\ UNCHANGED <<ref, comp, active, room, skipped, alloced, sinceTrunc, done>> /\ sinceTrunc \in Nat
  BY DEF BuildSlot, StreamInv, StreamTypeOK, SlotHeld
<1>2. CASE slots' = [slots EXCEPT ![doing[t].slot] = doing[t].idx] /\ Goto(t, "publish")
  <2>1. PICK s \in 0 .. alloced - 1 : s = doing[t].slot
    BY <1>1
  <2>2. /\ doing' \in [Updaters -> StreamCalls]
        /\ doing'[t].pc = "publish" /\ doing'[t].slot = s /\ doing'[t].idx = ref + s
        /\ \A u \in Updaters \ {t} : doing'[u] = doing[u]
    BY <1>1, <1>2, <2>1 DEF Goto, StreamCalls
  <2>3. /\ DOMAIN slots' = 0 .. alloced - 1 /\ slots' = [k \in DOMAIN slots' |-> slots'[k]]
        /\ slots'[s] = ref + s /\ \A k \in 0 .. alloced - 1 : k # s => slots'[k] = slots[k]
    BY <1>1, <1>2, <2>1 DEF StreamInv, StreamTypeOK
  <2>4. StreamTypeOK'
    BY <1>1, <2>2, <2>3 DEF StreamInv, StreamTypeOK
  <2>5. BitsAreDone'
    BY <1>1 DEF StreamInv, BitsAreDone
  <2>6. ActiveBuilt'
    BY <1>1, <2>3 DEF StreamInv, StreamTypeOK, ActiveBuilt
  <2>7. ASSUME NEW u \in Updaters PROVE SlotHeld(u)'
    <3>1. CASE u = t
      BY <1>1, <2>1, <2>2, <2>3, <3>1 DEF SlotHeld
    <3>2. CASE u # t
      <4>1. doing'[u] = doing[u] /\ SlotHeld(u)
        BY <2>2, <3>2 DEF StreamInv
      <4>2. QED  BY <1>1, <2>3, <4>1 DEF SlotHeld
    <3>3. QED  BY <3>1, <3>2
  <2>8. QED  BY <2>4, <2>5, <2>6, <2>7 DEF StreamInv
<1>3. CASE UNCHANGED slots /\ Goto(t, "process")
  <2> DEFINE c == [doing[t] EXCEPT !.pc = "process"]
  <2>1. doing' = [doing EXCEPT ![t] = c]
    BY <1>1, <1>3 DEF Goto
  <2>2. c \in StreamCalls /\ c.pc = "process" /\ c.slot = doing[t].slot /\ c.idx = doing[t].idx
    BY <1>1 DEF StreamCalls
  <2> HIDE DEF c
  <2>3. QED  BY <1>1, <1>3, <2>1, <2>2, CallStepInv
<1>4. QED  BY <1>2, <1>3 DEF BuildSlot

LEMMA PublishSlotInv == ASSUME StreamInv, NEW t \in Updaters, PublishSlot(t) PROVE StreamInv'
<1>1. PICK s \in 0 .. alloced - 1 : s = doing[t].slot
  BY DEF PublishSlot, StreamInv, SlotHeld
<1>2. /\ doing \in [Updaters -> StreamCalls] /\ doing[t].idx = ref + s /\ slots[s] = ref + s
      /\ active' = active \cup {s}
      /\ UNCHANGED <<ref, comp, slots, room, skipped, alloced, sinceTrunc, done>>
  BY <1>1 DEF PublishSlot, StreamInv, StreamTypeOK, SlotHeld
<1>3. /\ doing' \in [Updaters -> StreamCalls]
      /\ doing'[t].pc = "process" /\ doing'[t].slot = s /\ doing'[t].idx = ref + s
      /\ \A u \in Updaters \ {t} : doing'[u] = doing[u]
  BY <1>1, <1>2 DEF PublishSlot, Goto, StreamCalls
<1>4. StreamTypeOK'
  BY <1>1, <1>2, <1>3 DEF StreamInv, StreamTypeOK
<1>5. BitsAreDone' /\ ActiveBuilt'
  BY <1>2 DEF StreamInv, BitsAreDone, ActiveBuilt
<1>6. ASSUME NEW u \in Updaters PROVE SlotHeld(u)'
  <2>1. CASE u = t
    BY <1>2, <1>3, <2>1 DEF SlotHeld
  <2>2. CASE u # t
    BY <1>2, <1>3, <2>2 DEF StreamInv, SlotHeld
  <2>3. QED  BY <2>1, <2>2
<1>7. QED  BY <1>4, <1>5, <1>6 DEF StreamInv

\* Bits change together with the completions they stand for.
LEMMA CompletionsInv ==
  ASSUME StreamInv, UNCHANGED <<ref, slots, room, skipped, alloced>>, sinceTrunc' \in Nat,
         active' \subseteq active, comp' \subseteq 0 .. alloced - 1, BitsAreDone',
         doing' \in [Updaters -> StreamCalls],
         \A u \in Updaters : doing'[u] = doing[u] \/ doing'[u].pc \notin {"build", "publish", "process"}
  PROVE  StreamInv'
<1>1. StreamTypeOK'
  BY DEF StreamInv, StreamTypeOK
<1>2. ActiveBuilt'
  BY DEF StreamInv, ActiveBuilt
<1>3. ASSUME NEW u \in Updaters PROVE SlotHeld(u)'
  BY DEF StreamInv, SlotHeld
<1>4. QED  BY <1>1, <1>2, <1>3 DEF StreamInv

LEMMA ProcessSlotInv == ASSUME StreamInv, NEW t \in Updaters, ProcessSlot(t) PROVE StreamInv'
<1>1. PICK s \in 0 .. alloced - 1 : s = doing[t].slot
  BY DEF ProcessSlot, StreamInv, SlotHeld
<1>2. /\ doing \in [Updaters -> StreamCalls] /\ doing[t].idx = ref + s
      /\ ref \in Nat /\ alloced \in Nat /\ sinceTrunc \in Nat
      /\ UNCHANGED <<ref, active, slots, room, skipped, alloced>>
  BY <1>1 DEF ProcessSlot, StreamInv, StreamTypeOK, SlotHeld
<1>3. /\ doing' \in [Updaters -> StreamCalls]
      /\ \A u \in Updaters : doing'[u] = doing[u] \/ doing'[u].pc \notin {"build", "publish", "process"}
  <2>1. CASE Return(t)
    BY <1>2, <2>1, NoUpdateFacts DEF Return
  <2>2. CASE Goto(t, "sweep")
    BY <1>2, <2>2 DEF Goto, StreamCalls
  <2>3. QED  BY <2>1, <2>2 DEF ProcessSlot
<1>4. sinceTrunc' \in Nat
  <2>1. {sinceTrunc + 1, TruncateOn} \in SUBSET Nat
    BY <1>2, StreamAssumption, SMTT(30)
  <2>2. Min({sinceTrunc + 1, TruncateOn}) \in Nat
    BY <2>1, NatMin
  <2>3. QED  BY <1>2, <2>2 DEF ProcessSlot
<1>5. CASE comp' = comp \cup {doing[t].slot} /\ done' = done \cup {doing[t].idx}
  <2>1. comp' = comp \cup {s} /\ done' = done \cup {ref + s}
    BY <1>1, <1>2, <1>5
  <2>2. comp' \subseteq 0 .. alloced - 1
    BY <2>1 DEF StreamInv, StreamTypeOK
  <2>3. BitsAreDone'
    BY <1>2, <2>1, SMTT(30) DEF StreamInv, BitsAreDone
  <2>4. QED  BY <1>2, <1>3, <1>4, <2>2, <2>3, CompletionsInv
<1>6. CASE UNCHANGED <<comp, done>>
  <2>1. comp' \subseteq 0 .. alloced - 1 /\ BitsAreDone'
    BY <1>2, <1>6 DEF StreamInv, StreamTypeOK, BitsAreDone
  <2>2. QED  BY <1>2, <1>3, <1>4, <2>1, CompletionsInv
<1>7. QED  BY <1>5, <1>6 DEF ProcessSlot

LEMMA CompleteInv == StreamInv /\ Complete => StreamInv'
<1> SUFFICES ASSUME StreamInv, Complete PROVE StreamInv'
  OBVIOUS
<1>1. ref \in Nat /\ alloced \in Nat /\ doing \in [Updaters -> StreamCalls] /\ sinceTrunc \in Nat
  BY DEF StreamInv, StreamTypeOK
<1>2. UNCHANGED <<ref, active, slots, room, skipped, alloced, sinceTrunc, doing>>
  BY DEF Complete
<1>3. PICK start \in Window, end \in Window :
        /\ comp' = comp \cup ((start - ref) .. (end - ref)) /\ done' = done \cup (start .. end)
  BY DEF Complete
<1>4. start \in Int /\ end \in Int /\ ref <= start /\ end <= ref + alloced - 1
  BY <1>1, <1>3, SMTT(30) DEF Window
<1>5. comp' \subseteq 0 .. alloced - 1
  BY <1>1, <1>3, <1>4, SMTT(30) DEF StreamInv, StreamTypeOK
<1>6. BitsAreDone'
  <2>1. done' \subseteq ref .. ref + alloced - 1
    BY <1>1, <1>3, <1>4, SMTT(30) DEF StreamInv, BitsAreDone
  <2>2. ASSUME NEW k \in 0 .. alloced - 1 PROVE k \in comp' <=> ref + k \in done'
    <3>1. k \in (start - ref) .. (end - ref) <=> ref + k \in start .. end
      BY <1>1, <1>4, SMTT(30)
    <3>2. QED  BY <1>3, <3>1 DEF StreamInv, BitsAreDone
  <2>3. QED  BY <1>2, <2>1, <2>2 DEF BitsAreDone
<1>7. QED  BY <1>1, <1>2, <1>5, <1>6, CompletionsInv

LEMMA RollbackInv ==
  ASSUME StreamInv, NEW t \in Updaters, Rollback(t) \/ RollbackCompletions(t)
  PROVE  StreamInv'
<1>1. /\ ref \in Nat /\ alloced \in Nat /\ doing \in [Updaters -> StreamCalls] /\ sinceTrunc \in Nat
      /\ comp \subseteq 0 .. alloced - 1
  BY DEF StreamInv, StreamTypeOK
<1>2. CASE Rollback(t)
  <2>1. PICK last \in ref - 1 .. ref + alloced - 2 :
          /\ active' = active \cap (0 .. (last - ref))
          /\ doing' = [doing EXCEPT ![t] = [NoUpdate EXCEPT !.pc = "wipe", !.idx = last]]
    BY <1>2 DEF Rollback
  <2>2. UNCHANGED <<ref, comp, slots, room, skipped, alloced, sinceTrunc, done>> /\ last \in Int
    <3>1. last \in Int
      BY <1>1, <2>1, SMTT(30)
    <3>2. QED  BY <1>2, <3>1 DEF Rollback
  <2>3. /\ [NoUpdate EXCEPT !.pc = "wipe", !.idx = last] \in StreamCalls
        /\ [NoUpdate EXCEPT !.pc = "wipe", !.idx = last].pc = "wipe"
    BY <2>2 DEF NoUpdate, StreamCalls
  <2>4. /\ doing' \in [Updaters -> StreamCalls]
        /\ \A u \in Updaters : doing'[u] = doing[u] \/ doing'[u].pc \notin {"build", "publish", "process"}
    BY <1>1, <2>1, <2>3
  <2>5. BitsAreDone'
    BY <2>2 DEF StreamInv, BitsAreDone
  <2>6. QED  BY <1>1, <2>1, <2>2, <2>4, <2>5, CompletionsInv
<1>3. CASE RollbackCompletions(t)
  <2>1. PICK last \in Int : last = doing[t].idx
    BY <1>1 DEF StreamCalls
  <2>2. /\ comp' = comp \cap (0 .. (last - ref)) /\ done' = {i \in done : i <= last}
        /\ UNCHANGED <<ref, active, slots, room, skipped, alloced, sinceTrunc>>
        /\ doing' = [doing EXCEPT ![t] = NoUpdate]
    BY <1>3, <2>1 DEF RollbackCompletions, Return
  <2>3. /\ doing' \in [Updaters -> StreamCalls]
        /\ \A u \in Updaters : doing'[u] = doing[u] \/ doing'[u].pc \notin {"build", "publish", "process"}
    BY <1>1, <2>2, NoUpdateFacts
  <2>4. BitsAreDone'
    <3>1. done' \subseteq ref .. ref + alloced - 1
      BY <2>2 DEF StreamInv, BitsAreDone
    <3>2. ASSUME NEW k \in 0 .. alloced - 1 PROVE k \in comp' <=> ref + k \in done'
      <4>1. k \in 0 .. (last - ref) <=> ref + k <= last
        BY <1>1, SMTT(30)
      <4>2. QED  BY <2>2, <4>1 DEF StreamInv, BitsAreDone
    <3>3. QED  BY <2>2, <3>1, <3>2 DEF BitsAreDone
  <2>5. QED  BY <1>1, <2>2, <2>3, <2>4, CompletionsInv
<1>4. QED  BY <1>2, <1>3

------------------------------------------------------------------------------
\* Resizing and truncation move the window while nobody is inside.
LEMMA NobodyInside ==
  ASSUME StreamInv, Inside = {}, NEW t \in Updaters
  PROVE  doing[t].pc \notin {"build", "publish", "process"}
BY DEF Inside

LEMMA MaxOfTwo ==
  ASSUME NEW a \in Nat, NEW b \in Nat
  PROVE  Max({a, b}) \in Nat /\ a <= Max({a, b}) /\ b <= Max({a, b})
<1>1. PICK x \in {a, b} : \A y \in {a, b} : x >= y
  BY SMTT(30)
<1>2. Max({a, b}) \in {a, b} /\ \A y \in {a, b} : Max({a, b}) >= y
  BY <1>1 DEF Max
<1>3. QED  BY <1>2

LEMMA ResizeInv == ASSUME StreamInv, NEW t \in Updaters, do_resize(t) PROVE StreamInv'
<1> DEFINE count == Max({alloced * 2, doing[t].slot})
<1>1. /\ doing \in [Updaters -> StreamCalls] /\ doing[t].slot \in Nat
      /\ ref \in Nat /\ alloced \in Nat /\ skipped \in Nat
  BY DEF StreamInv, StreamTypeOK, StreamCalls
<1>2. count \in Nat /\ alloced <= count
  <2>1. alloced * 2 \in Nat /\ alloced <= alloced * 2
    BY <1>1, SMTT(30)
  <2>2. QED  BY <1>1, <2>1, MaxOfTwo, SMTT(30)
<1>3. UNCHANGED <<ref, comp, active, sinceTrunc, done>> /\ Inside = {}
  BY DEF do_resize
<1>4. /\ doing' \in [Updaters -> StreamCalls] /\ doing'[t].pc = "find"
      /\ \A u \in Updaters \ {t} : doing'[u] = doing[u]
  BY <1>1 DEF do_resize, StreamCalls
<1>5. ASSUME NEW u \in Updaters PROVE SlotHeld(u)'
  BY <1>3, <1>4, NobodyInside DEF SlotHeld
<1>6. CASE UNCHANGED <<slots, room, skipped, alloced>>
  <2>1. StreamTypeOK' /\ BitsAreDone' /\ ActiveBuilt'
    BY <1>3, <1>4, <1>6 DEF StreamInv, StreamTypeOK, BitsAreDone, ActiveBuilt
  <2>2. QED  BY <1>5, <2>1 DEF StreamInv
<1>7. CASE /\ slots' = [k \in 0 .. count - 1 |-> IF k < alloced THEN slots[k] ELSE Empty]
           /\ room' = count /\ alloced' = count /\ skipped' = 0
  <2>1. /\ comp \subseteq 0 .. alloced - 1 /\ active \subseteq 0 .. alloced - 1 /\ sinceTrunc \in Nat
        /\ done \subseteq ref .. ref + alloced - 1
    BY DEF StreamInv, StreamTypeOK, BitsAreDone
  <2> HIDE DEF count
  <2>2. 0 .. alloced - 1 \subseteq 0 .. count - 1
    BY <1>1, <1>2, SMTT(30)
  <2>3. /\ DOMAIN slots' = 0 .. count - 1 /\ slots' = [k \in DOMAIN slots' |-> slots'[k]]
        /\ \A k \in 0 .. alloced - 1 : slots'[k] = slots[k]
    BY <1>1, <1>7, <2>2, SMTT(30)
  <2>4. StreamTypeOK'
    BY <1>1, <1>2, <1>3, <1>4, <1>7, <2>1, <2>2, <2>3, SMTT(30) DEF StreamTypeOK
  <2>5. BitsAreDone'
    <3>1. done' \subseteq ref' .. ref' + alloced' - 1
      BY <1>1, <1>2, <1>3, <1>7, <2>1, SMTT(30)
    <3>2. ASSUME NEW k \in 0 .. count - 1 PROVE k \in comp <=> ref + k \in done
      <4>1. CASE k \in 0 .. alloced - 1
        BY <4>1 DEF StreamInv, BitsAreDone
      <4>2. CASE k \notin 0 .. alloced - 1
        <5>1. ref + k \notin ref .. ref + alloced - 1
          BY <1>1, <1>2, <4>2, SMTT(30)
        <5>2. QED  BY <2>1, <4>2, <5>1
      <4>3. QED  BY <4>1, <4>2
    <3>3. QED  BY <1>3, <1>7, <3>1, <3>2 DEF BitsAreDone
  <2>6. ActiveBuilt'
    BY <1>3, <2>1, <2>3 DEF StreamInv, ActiveBuilt
  <2>7. QED  BY <1>5, <2>4, <2>5, <2>6 DEF StreamInv
<1>8. QED  BY <1>6, <1>7 DEF do_resize

\* Bits, data and completions move down together.
LEMMA TruncateFacts ==
  ASSUME StreamInv, NEW upto \in 0 .. alloced, do_truncate(upto), Inside = {}, UNCHANGED sinceTrunc,
         doing' \in [Updaters -> StreamCalls],
         \A u \in Updaters : doing'[u] = doing[u] \/ doing'[u] = NoUpdate
  PROVE  StreamInv'
<1>1. /\ ref \in Nat /\ alloced \in Nat /\ skipped \in Nat /\ room \in Nat /\ skipped + alloced <= room
      /\ comp \subseteq 0 .. alloced - 1 /\ active \subseteq 0 .. alloced - 1 /\ sinceTrunc \in Nat
      /\ done \subseteq ref .. ref + alloced - 1
      /\ \A k \in 0 .. alloced - 1 : k \in comp <=> ref + k \in done
      /\ \A k \in active : slots[k] = ref + k
  BY DEF StreamInv, StreamTypeOK, BitsAreDone, ActiveBuilt
<1>2. /\ alloced' = alloced - upto /\ ref' = ref + upto /\ room' = room
      /\ done' = {i \in done : i >= ref + upto}
      /\ slots' = [k \in 0 .. alloced - upto - 1 |-> slots[k + upto]]
  BY DEF do_truncate
<1>3. alloced' \in Nat /\ ref' \in Nat
  BY <1>1, <1>2, SMTT(30)
<1>4. ASSUME NEW k \in 0 .. alloced' - 1
      PROVE  /\ k + upto \in 0 .. alloced - 1 /\ ref' + k = ref + (k + upto)
             /\ k \in comp' <=> k + upto \in comp
             /\ k \in active' <=> k + upto \in active
  <2>1. k + upto \in 0 .. alloced - 1 /\ ref' + k = ref + (k + upto) /\ k + upto >= upto
    BY <1>1, <1>2, SMTT(30)
  <2>2. ASSUME NEW b \in SUBSET (0 .. alloced - 1) PROVE k \in drop_slots(b, upto) <=> k + upto \in b
    <3>1. ASSUME k \in drop_slots(b, upto) PROVE k + upto \in b
      <4>1. PICK j \in b : k = j - upto
        BY <3>1 DEF drop_slots
      <4>2. k + upto = j
        BY <1>1, <4>1, SMTT(30)
      <4>3. QED  BY <4>2
    <3>2. ASSUME k + upto \in b PROVE k \in drop_slots(b, upto)
      <4>1. k = (k + upto) - upto
        BY <1>1, <1>2, SMTT(30)
      <4>2. QED  BY <2>1, <3>2, <4>1 DEF drop_slots
    <3>3. QED  BY <3>1, <3>2
  <2>3. QED  BY <1>1, <2>1, <2>2 DEF do_truncate
<1>5. comp' \subseteq 0 .. alloced' - 1 /\ active' \subseteq 0 .. alloced' - 1
  <2>1. ASSUME NEW b \in SUBSET (0 .. alloced - 1), NEW k \in drop_slots(b, upto) PROVE k \in 0 .. alloced' - 1
    <3>1. PICK j \in b : j >= upto /\ k = j - upto
      BY DEF drop_slots
    <3>2. j \in 0 .. alloced - 1
      BY <3>1
    <3>3. QED  BY <1>1, <1>2, <3>1, <3>2, SMTT(30)
  <2>2. QED  BY <1>1, <2>1 DEF do_truncate
<1>6. skipped' \in Nat /\ skipped' + alloced' <= room'
  <2>1. skipped' = 0 \/ skipped' = skipped + upto
    BY DEF do_truncate
  <2>2. QED  BY <1>1, <1>2, <2>1, SMTT(30)
<1>7. DOMAIN slots' = 0 .. alloced' - 1 /\ slots' = [k \in DOMAIN slots' |-> slots'[k]]
  BY <1>2
<1>8. StreamTypeOK'
  BY <1>1, <1>2, <1>3, <1>5, <1>6, <1>7 DEF StreamTypeOK
<1>9. BitsAreDone'
  <2>1. ASSUME NEW i \in done' PROVE i \in ref' .. ref' + alloced' - 1
    <3>1. i \in ref .. ref + alloced - 1 /\ i >= ref + upto
      BY <1>1, <1>2
    <3>2. QED  BY <1>1, <1>2, <1>3, <3>1, SMTT(30)
  <2>2. ASSUME NEW k \in 0 .. alloced' - 1 PROVE k \in comp' <=> ref' + k \in done'
    <3>1. ref' + k >= ref + upto
      BY <1>1, <1>2, SMTT(30)
    <3>2. QED  BY <1>1, <1>2, <1>4, <3>1
  <2>3. QED  BY <2>1, <2>2 DEF BitsAreDone
<1>10. ActiveBuilt'
  <2>1. ASSUME NEW k \in active' PROVE slots'[k] = ref' + k
    <3>1. k \in 0 .. alloced' - 1
      BY <1>5
    <3>2. slots'[k] = slots[k + upto]
      BY <1>2, <3>1
    <3>3. QED  BY <1>1, <1>4, <3>1, <3>2
  <2>2. QED  BY <2>1 DEF ActiveBuilt
<1>11. ASSUME NEW u \in Updaters PROVE SlotHeld(u)'
  BY NobodyInside, NoUpdateFacts DEF SlotHeld
<1>12. QED  BY <1>8, <1>9, <1>10, <1>11 DEF StreamInv

LEMMA SweepInv == ASSUME StreamInv, NEW t \in Updaters, Sweep(t) PROVE StreamInv'
<1>1. /\ doing' \in [Updaters -> StreamCalls] /\ UNCHANGED sinceTrunc /\ Inside = {}
      /\ \A u \in Updaters : doing'[u] = doing[u] \/ doing'[u] = NoUpdate
  BY NoUpdateFacts DEF Sweep, Return, StreamInv, StreamTypeOK
<1>2. CASE UNCHANGED <<ref, comp, active, slots, room, skipped, alloced, done>>
  <2>1. StreamTypeOK' /\ BitsAreDone' /\ ActiveBuilt'
    BY <1>1, <1>2 DEF StreamInv, StreamTypeOK, BitsAreDone, ActiveBuilt
  <2>2. ASSUME NEW u \in Updaters PROVE SlotHeld(u)'
    BY <1>1, NobodyInside, NoUpdateFacts DEF SlotHeld
  <2>3. QED  BY <2>1, <2>2 DEF StreamInv
<1>3. CASE do_truncate(SweptUpto)
  BY <1>1, <1>3, SweptFacts, TruncateFacts
<1>4. QED  BY <1>2, <1>3 DEF Sweep

LEMMA TruncateInv == StreamInv /\ Truncate => StreamInv'
<1> SUFFICES ASSUME StreamInv, Truncate PROVE StreamInv'
  OBVIOUS
<1>1. alloced \in Nat /\ doing \in [Updaters -> StreamCalls]
  BY DEF StreamInv, StreamTypeOK
<1>2. PICK upto \in 1 .. alloced : do_truncate(upto)
  BY DEF Truncate
<1>3. upto \in 0 .. alloced /\ UNCHANGED <<sinceTrunc, doing>> /\ Inside = {}
  BY <1>1, SMTT(30) DEF Truncate
<1>4. QED  BY <1>1, <1>2, <1>3, TruncateFacts

LEMMA StreamStepInv == StreamInv /\ [StreamNext]_streamVars => StreamInv'
<1> SUFFICES ASSUME StreamInv, [StreamNext]_streamVars PROVE StreamInv'
  OBVIOUS
<1>1. CASE UNCHANGED streamVars
  <2>1. UNCHANGED <<ref, comp, active, slots, room, skipped, alloced, sinceTrunc, doing, done>>
    BY <1>1 DEF streamVars
  <2>2. QED
    BY <2>1 DEF StreamInv, StreamTypeOK, BitsAreDone, ActiveBuilt, SlotHeld
<1>2. ASSUME NEW t \in Updaters,
             \/ Update(t) \/ FindSlot(t) \/ do_resize(t) \/ BuildSlot(t) \/ PublishSlot(t)
             \/ ProcessSlot(t) \/ Sweep(t) \/ Rollback(t) \/ RollbackCompletions(t)
      PROVE  StreamInv'
  BY <1>2, LookUpInv, ResizeInv, BuildSlotInv, PublishSlotInv, ProcessSlotInv, SweepInv, RollbackInv
<1>3. QED  BY <1>1, <1>2, TruncateInv, CompleteInv DEF StreamNext

(* For any number of threads, any block size and any indexes: the bits, the
   data and the reported completions of StreamTracker's window stay aligned
   while updates, completions, rollbacks, resizes and truncations overlap,
   completed_upto is the end of the completed prefix, and do_update's sweep
   passes no index that is not completed.                                     *)
THEOREM StreamHolds == StreamSpec => StreamSound
<1> DEFINE Swept == \A t \in Updaters : Sweep(t) => ref .. ref' - 1 \subseteq done
<1>1. ASSUME StreamInv PROVE Swept
  <2> SUFFICES ASSUME NEW t \in Updaters, Sweep(t) PROVE ref .. ref' - 1 \subseteq done
    OBVIOUS
  <2>1. PICK n \in 0 .. alloced : n = SweptUpto
    BY <1>1, SweptFacts
  <2>2. ref \in Nat /\ alloced \in Nat /\ \A k \in 0 .. n - 1 : ref + k \in done
    BY <1>1, <2>1, SweptFacts DEF StreamInv, StreamTypeOK, BitsAreDone
  <2>3. ref' = ref \/ ref' = ref + n
    BY <2>1 DEF Sweep, do_truncate
  <2>4. ASSUME NEW i \in ref .. ref' - 1 PROVE i \in done
    <3>1. i - ref \in 0 .. n - 1 /\ ref + (i - ref) = i
      BY <2>2, <2>3, SMTT(30)
    <3>2. QED  BY <2>2, <3>1
  <2>5. QED  BY <2>4
<1>2. StreamInv => WindowsAgree /\ DataFollowsIndex /\ CompletionsExact /\ UptoIsPrefix
  BY StreamInvSound
<1>3. QED
  BY <1>1, <1>2, StreamInitInv, StreamStepInv, PTL DEF StreamSpec, StreamSound, SweepsOnlyCompleted
------------------------------------------------------------------------------
(* BitsetHandles: the order of two locks.                                     *)

HandleOps == Deep \cup Assigning \cup {"operator==", "resize"}

HandlesTypeOK ==
  /\ DOMAIN buf = Handles /\ buf = [h \in Handles |-> buf[h]]
  /\ hop \in [HandleThreads -> [op : HandleOps \cup {"none"}, dst : Handles \cup {0},
                                src : Handles \cup {0}, taken : 0 .. 2]]

\* What a call is about, and how far it is with its locks.
CallPlanned(t) ==
  Busy(t) => /\ hop[t].dst \in Handles /\ hop[t].src \in Handles
             /\ (hop[t].dst = hop[t].src) <=> (hop[t].op = "resize")
             /\ hop[t].taken <= Len(PlanOf(t))

HandlesInv == HandlesTypeOK /\ \A t \in HandleThreads : CallPlanned(t)

\* A plan has at most two locks; one that is not an assignment's takes them in
\* the order of the addresses.
LEMMA PlanFacts ==
  ASSUME NEW op \in HandleOps, NEW dst \in Handles, NEW src \in Handles, (dst = src) <=> (op = "resize")
  PROVE  /\ Len(Plan(op, dst, src)) \in 1 .. 2
         /\ \A i \in 1 .. Len(Plan(op, dst, src)) :
              Plan(op, dst, src)[i][1] \in {dst, src} /\ Plan(op, dst, src)[i][2] \in {"R", "W"}
         /\ op \notin Assigning /\ Len(Plan(op, dst, src)) = 2 =>
              Plan(op, dst, src)[1][1] < Plan(op, dst, src)[2][1]
<1>1. dst \in Nat /\ src \in Nat
  BY HandlesAssumption
<1>2. CASE op = "resize"
  <2>1. op \notin Assigning /\ op \notin Deep \cup {"operator=="}
    BY <1>2 DEF Deep, Assigning
  <2>2. Plan(op, dst, src) = <<<<dst, "W">>>>
    BY <1>2, <2>1 DEF Plan
  <2>3. QED  BY <2>1, <2>2, SMTT(30)
<1>3. CASE op \in Assigning
  BY <1>3, SMTT(30) DEF Plan, Assigning
<1>4. CASE op \in Deep \cup {"operator=="}
  <2>1. dst < src \/ src < dst
    BY <1>1, <1>4, SMTT(30) DEF Deep
  <2>2. op # "resize" /\ op \notin Assigning
    BY <1>4 DEF Deep, Assigning
  <2>3. CASE dst < src
    <3>1. PICK m, o : m = (IF op = "operator==" THEN "R" ELSE "W") /\ o = (IF op = "move=" THEN "W" ELSE "R")
      OBVIOUS
    <3>2. m \in {"R", "W"} /\ o \in {"R", "W"}
      BY <3>1
    <3>3. Plan(op, dst, src) = <<<<dst, m>>, <<src, o>>>>
      BY <1>4, <2>2, <2>3, <3>1 DEF Plan
    <3>4. QED  BY <2>3, <3>2, <3>3, SMTT(30)
  <2>4. CASE src < dst
    <3>1. ~(dst < src)
      BY <1>1, <2>4, SMTT(30)
    <3>2. QED  BY <1>1, <1>4, <2>2, <2>4, <3>1, SMTT(30) DEF Plan
  <2>5. QED  BY <2>1, <2>3, <2>4
<1>5. QED  BY <1>2, <1>3, <1>4 DEF HandleOps

LEMMA HandlesInitInv == HandlesInit => HandlesInv
<1> SUFFICES ASSUME HandlesInit PROVE HandlesInv
  OBVIOUS
<1>1. HandlesTypeOK
  BY SMTT(30) DEF HandlesInit, HandlesTypeOK, NoHandleCall, HandleOps
<1>2. \A t \in HandleThreads : ~Busy(t)
  BY DEF HandlesInit, NoHandleCall, Busy
<1>3. QED  BY <1>1, <1>2 DEF HandlesInv, CallPlanned

LEMMA HandlesStepInv == HandlesInv /\ [HandlesNext]_handleVars => HandlesInv'
<1> SUFFICES ASSUME HandlesInv, [HandlesNext]_handleVars PROVE HandlesInv'
  OBVIOUS
<1> USE DEF HandlesInv
<1>1. CASE UNCHANGED handleVars
  BY <1>1 DEF handleVars, HandlesTypeOK, CallPlanned, Busy, PlanOf
<1>2. ASSUME NEW t \in HandleThreads, CallBitset(t) PROVE HandlesInv'
  <2>1. PICK dst \in Handles, src \in Handles, op \in HandleOps :
          /\ (dst = src) <=> (op = "resize")
          /\ hop' = [hop EXCEPT ![t] = [op |-> op, dst |-> dst, src |-> src, taken |-> 0]]
          /\ UNCHANGED buf
    <3>1. PICK d \in Handles, s \in Handles, o \in HandleOps :
            /\ (d = s) = (o = "resize")
            /\ buf[d] # 0 /\ buf[s] # 0
            /\ hop' = [hop EXCEPT ![t] = [op |-> o, dst |-> d, src |-> s, taken |-> 0]]
      BY <1>2 DEF CallBitset, HandleOps
    <3>2. ((d = s) <=> (o = "resize")) /\ UNCHANGED buf
      BY <1>2, <3>1 DEF CallBitset
    <3>3. QED  BY <3>1, <3>2
  <2>2. HandlesTypeOK'
    BY <2>1, SMTT(30) DEF HandlesTypeOK
  <2>3. Len(Plan(op, dst, src)) \in 1 .. 2
    BY <2>1, PlanFacts
  <2>4. CallPlanned(t)'
    BY <2>1, <2>3, SMTT(30) DEF HandlesTypeOK, CallPlanned, PlanOf
  <2>5. ASSUME NEW u \in HandleThreads, u # t PROVE CallPlanned(u)'
    BY <2>1, <2>5 DEF HandlesTypeOK, CallPlanned, PlanOf, Busy
  <2>6. QED  BY <2>2, <2>4, <2>5
<1>3. ASSUME NEW t \in HandleThreads, TakeLock(t) PROVE HandlesInv'
  <2>1. Busy(t) /\ hop[t].taken < Len(PlanOf(t)) /\ Len(PlanOf(t)) \in 1 .. 2 /\ hop[t].taken \in 0 .. 2
    BY <1>3, PlanFacts, SMTT(30) DEF TakeLock, Waits, HandlesTypeOK, CallPlanned, PlanOf, Busy
  <2>2. /\ hop' \in [HandleThreads -> [op : HandleOps \cup {"none"}, dst : Handles \cup {0},
                                src : Handles \cup {0}, taken : 0 .. 2]]
        /\ hop'[t].op = hop[t].op /\ hop'[t].dst = hop[t].dst /\ hop'[t].src = hop[t].src
        /\ hop'[t].taken = hop[t].taken + 1
        /\ \A u \in HandleThreads \ {t} : hop'[u] = hop[u]
    <3>1. /\ hop \in [HandleThreads -> [op : HandleOps \cup {"none"}, dst : Handles \cup {0},
                                        src : Handles \cup {0}, taken : 0 .. 2]]
          /\ hop[t].taken + 1 \in 0 .. 2
      <4>0. PICK n \in 1 .. 2 : n = Len(PlanOf(t))
        BY <2>1
      <4>1. hop[t].taken + 1 \in 0 .. 2
        <5>1. hop[t].taken < n /\ hop[t].taken \in 0 .. 2
          BY <2>1, <4>0
        <5>2. QED  BY <5>1, SMTT(30)
      <4>2. QED  BY <4>1 DEF HandlesTypeOK
    <3>2. hop' = [hop EXCEPT ![t] = [hop[t] EXCEPT !.taken = hop[t].taken + 1]]
      BY <1>3, <3>1 DEF TakeLock
    <3>3. QED  BY <3>1, <3>2
  <2>3. HandlesTypeOK'
    BY <1>3, <2>2 DEF TakeLock, HandlesTypeOK
  <2>4. CallPlanned(t)'
    BY <2>1, <2>2, SMTT(30) DEF CallPlanned, PlanOf, Busy
  <2>5. ASSUME NEW u \in HandleThreads, u # t PROVE CallPlanned(u)'
    BY <2>2, <2>5 DEF CallPlanned, PlanOf, Busy
  <2>6. QED  BY <2>3, <2>4, <2>5
<1>4. ASSUME NEW t \in HandleThreads, Operate(t) PROVE HandlesInv'
  <2>1. hop' = [hop EXCEPT ![t] = NoHandleCall]
    BY <1>4 DEF Operate
  <2>2. DOMAIN buf' = Handles /\ buf' = [h \in Handles |-> buf'[h]]
    <3>1. ASSUME NEW a, NEW b, NEW x, NEW y
          PROVE  /\ DOMAIN [buf EXCEPT ![a] = x] = Handles
                 /\ [buf EXCEPT ![a] = x] = [h \in Handles |-> [buf EXCEPT ![a] = x][h]]
                 /\ DOMAIN [buf EXCEPT ![a] = x, ![b] = y] = Handles
                 /\ [buf EXCEPT ![a] = x, ![b] = y] = [h \in Handles |-> [buf EXCEPT ![a] = x, ![b] = y][h]]
      BY DEF HandlesTypeOK
    <3>2. \/ UNCHANGED buf
          \/ \E a, x : buf' = [buf EXCEPT ![a] = x]
          \/ \E a, b, x, y : buf' = [buf EXCEPT ![a] = x, ![b] = y]
      BY <1>4 DEF Operate
    <3>3. QED  BY <3>1, <3>2 DEF HandlesTypeOK
  <2>3. HandlesTypeOK'
    BY <2>1, <2>2, SMTT(30) DEF HandlesTypeOK, NoHandleCall
  <2>4. ASSUME NEW u \in HandleThreads PROVE CallPlanned(u)'
    BY <2>1 DEF HandlesTypeOK, CallPlanned, PlanOf, Busy, NoHandleCall
  <2>5. QED  BY <2>3, <2>4
<1>5. QED  BY <1>1, <1>2, <1>3, <1>4 DEF HandlesNext

------------------------------------------------------------------------------
\* A thread that holds a lock and waits for another, and is in no assignment,
\* waits for one of a higher address.
LEMMA WaitsHigher ==
  ASSUME HandlesInv, NEW u \in HandleThreads, Waits(u), hop[u].op \notin Assigning,
         NEW h, NEW m, Holds(u, <<h, m>>)
  PROVE  Wanted(u)[1] \in Handles /\ h < Wanted(u)[1]
<1>1. /\ hop[u].op \in HandleOps /\ hop[u].dst \in Handles /\ hop[u].src \in Handles
      /\ (hop[u].dst = hop[u].src) <=> (hop[u].op = "resize")
      /\ hop[u].taken \in 0 .. 2 /\ hop[u].taken < Len(PlanOf(u))
  BY DEF HandlesInv, HandlesTypeOK, CallPlanned, Waits, Busy
<1>2. /\ Len(PlanOf(u)) \in 1 .. 2
      /\ \A i \in 1 .. Len(PlanOf(u)) : PlanOf(u)[i][1] \in Handles
      /\ Len(PlanOf(u)) = 2 => PlanOf(u)[1][1] < PlanOf(u)[2][1]
  BY <1>1, PlanFacts, SMTT(30) DEF PlanOf
<1>3. PICK i \in 1 .. hop[u].taken : PlanOf(u)[i] = <<h, m>>
  BY DEF Holds
<1>4. hop[u].taken = 1 /\ i = 1 /\ Len(PlanOf(u)) = 2
  BY <1>1, <1>2, <1>3, SMTT(30)
<1>5. Wanted(u) = PlanOf(u)[2]
  BY <1>4, SMTT(30) DEF Wanted
<1>6. QED  BY <1>2, <1>3, <1>4, <1>5, SMTT(30)

LEMMA WantedFacts ==
  ASSUME HandlesInv, NEW u \in HandleThreads, Waits(u)
  PROVE  Wanted(u)[1] \in Handles /\ Wanted(u)[2] \in {"R", "W"}
<1>1. /\ hop[u].op \in HandleOps /\ hop[u].dst \in Handles /\ hop[u].src \in Handles
      /\ (hop[u].dst = hop[u].src) <=> (hop[u].op = "resize")
      /\ hop[u].taken \in 0 .. 2 /\ hop[u].taken < Len(PlanOf(u))
  BY DEF HandlesInv, HandlesTypeOK, CallPlanned, Waits, Busy
<1>2. /\ Len(PlanOf(u)) \in 1 .. 2
      /\ \A i \in 1 .. Len(PlanOf(u)) : PlanOf(u)[i][1] \in Handles /\ PlanOf(u)[i][2] \in {"R", "W"}
  BY <1>1, PlanFacts, SMTT(30) DEF PlanOf
<1>3. hop[u].taken + 1 \in 1 .. Len(PlanOf(u))
  BY <1>1, <1>2, SMTT(30)
<1>4. QED  BY <1>2, <1>3 DEF Wanted

\* A finite set of numbers has an upper bound: else some first few of its
\* elements had none.
LEMMA FiniteIsBounded ==
  ASSUME NEW S \in SUBSET Nat, IsFiniteSet(S)
  PROVE  \E m \in Nat : \A x \in S : x <= m
<1>0. PICK n \in Nat : ExistsBijection(1 .. n, S)
  BY FS_CardinalityType
<1>1. PICK f : f \in Bijection(1 .. n, S)
  BY <1>0 DEF ExistsBijection
<1>2. (\A i \in 1 .. n : f[i] \in Nat) /\ (\A x \in S : \E i \in 1 .. n : f[i] = x)
  BY <1>1 DEF Bijection, Injection, Surjection
<1> DEFINE Bounded(k) == \E m \in Nat : \A i \in 1 .. k : f[i] <= m
           K == {k \in 0 .. n : ~Bounded(k)}
<1>3. ASSUME NEW k \in 1 .. n, Bounded(k - 1) PROVE Bounded(k)
  <2>1. PICK m \in Nat : \A i \in 1 .. k - 1 : f[i] <= m
    BY <1>3
  <2>2. PICK c \in Nat : c = f[k]
    BY <1>2
  <2>3. PICK b \in Nat : b >= m /\ b >= c
    BY <2>1, <2>2, SMTT(30)
  <2>4. ASSUME NEW i \in 1 .. k PROVE f[i] <= b
    <3>1. CASE i = k
      BY <2>2, <2>3, <3>1
    <3>2. CASE i \in 1 .. k - 1
      <4>1. PICK x \in Nat : x = f[i]
        BY <1>2, <3>2, SMTT(30)
      <4>2. x <= m
        BY <2>1, <3>2, <4>1
      <4>3. QED  BY <2>1, <2>3, <4>1, <4>2, SMTT(30)
    <3>3. QED  BY <3>1, <3>2, SMTT(30)
  <2>5. QED  BY <2>3, <2>4
<1>4. Bounded(0)
  BY SMTT(30)
<1>5. K = {}
  <2> HIDE DEF Bounded
  <2> SUFFICES ASSUME K # {} PROVE FALSE
    OBVIOUS
  <2>1. K \in SUBSET Nat
    BY SMTT(30)
  <2>2. PICK k \in K : \A j \in K : k <= j
    <3> HIDE DEF K
    <3>1. QED  BY <2>1, NatMin
  <2>3. k \in 1 .. n
    BY <1>4, <2>2, SMTT(30)
  <2>4. k - 1 \in 0 .. n /\ ~(k <= k - 1)
    BY <2>3, SMTT(30)
  <2>5. Bounded(k - 1)
    BY <2>2, <2>4
  <2>6. QED  BY <1>3, <2>2, <2>3, <2>5
<1>6. PICK m \in Nat : \A i \in 1 .. n : f[i] <= m
  <2>1. Bounded(n)
    <3> HIDE DEF Bounded
    <3>1. QED  BY <1>0, <1>5, SMTT(30)
  <2>2. QED  BY <2>1
<1>7. QED  BY <1>2, <1>6

\* Of the locks waited for, take one of the highest address.
LEMMA HighestHandle ==
  ASSUME NEW S \in SUBSET Handles, S # {}
  PROVE  \E h \in S : \A g \in S : g <= h
<1>1. PICK n \in Nat : \A h \in Handles : h <= n
  BY HandlesAssumption, FiniteIsBounded
<1> DEFINE D == {n - h : h \in S}
<1>2. D \in SUBSET Nat /\ D # {}
  <2>1. ASSUME NEW h \in S PROVE n - h \in Nat
    BY <1>1, HandlesAssumption, SMTT(30)
  <2>2. QED  BY <2>1
<1>3. Min(D) \in D /\ \A y \in D : Min(D) <= y
  <2> HIDE DEF D
  <2>1. QED  BY <1>2, NatMin
<1>4. PICK h \in S : Min(D) = n - h
  BY <1>3
<1>5. ASSUME NEW g \in S PROVE g <= h
  <2>1. n - h <= n - g
    BY <1>3, <1>4
  <2>2. g \in Nat /\ h \in Nat
    BY HandlesAssumption
  <2>3. QED  BY <2>1, <2>2, SMTT(30)
<1>6. QED  BY <1>5

LEMMA NoCircle == HandlesInv => CirclesNeedAssignment
<1> SUFFICES ASSUME HandlesInv,
                    NEW S \in (SUBSET HandleThreads) \ {{}},
                    \A t \in S : \E u \in S : MakesWait(t, u),
                    \A t \in S : hop[t].op \notin Assigning
             PROVE  FALSE
  BY DEF CirclesNeedAssignment
<1>1. ASSUME NEW t \in S PROVE t \in HandleThreads /\ Waits(t) /\ Wanted(t)[1] \in Handles /\ Wanted(t)[2] \in {"R", "W"}
  BY WantedFacts DEF MakesWait
<1> DEFINE H == {Wanted(t)[1] : t \in S}
<1>2. PICK h \in H : \A g \in H : g <= h
  <2>1. H \in SUBSET Handles /\ H # {}
    BY <1>1
  <2>2. QED  BY <2>1, HighestHandle
<1>3. ASSUME NEW t \in S, Wanted(t)[1] = h, NEW u \in S, NEW m, Holds(u, <<h, m>>) PROVE FALSE
  <2>1. Wanted(u)[1] \in Handles /\ h < Wanted(u)[1]
    BY <1>1, <1>3, WaitsHigher
  <2>2. Wanted(u)[1] <= h
    BY <1>2
  <2>3. h \in Nat /\ Wanted(u)[1] \in Nat
    BY <1>1, <1>2, HandlesAssumption
  <2>4. QED  BY <2>1, <2>2, <2>3, SMTT(30)
<1>4. PICK t \in S : Wanted(t)[1] = h
  BY <1>2
<1>5. PICK u \in S : MakesWait(t, u)
  OBVIOUS
<1>6. CASE Waits(u) /\ Wanted(u) = <<h, "W">>
  <2>1. Wanted(u)[1] = h /\ Wanted(u)[2] = "W"
    BY <1>6, SMTT(30)
  <2>2. PICK v \in S : MakesWait(u, v)
    OBVIOUS
  <2>3. \E m : Holds(v, <<h, m>>)
    BY <2>1, <2>2 DEF MakesWait
  <2>4. QED  BY <1>3, <2>1, <2>3
<1>7. CASE \E m : Holds(u, <<h, m>>)
  BY <1>3, <1>4, <1>7
<1>8. QED  BY <1>4, <1>5, <1>6, <1>7 DEF MakesWait

------------------------------------------------------------------------------
\* There are more buffers than objects, so that a new one is new.
LEMMA UnusedIsNew ==
  ASSUME HandlesInv
  PROVE  \A h \in Handles : buf[h] # Unused
<1> DEFINE n == Cardinality(Handles)
           B == Buffers \cup {n + 1}
           R == {buf[h] : h \in Handles}
<1>1. IsFiniteSet(Handles) /\ n \in Nat
  BY HandlesAssumption, FS_CardinalityType
<1>2. IsFiniteSet(R) /\ Cardinality(R) <= n
  <2>1. buf \in Surjection(Handles, R)
    BY DEF HandlesInv, HandlesTypeOK, Surjection
  <2> HIDE DEF R
  <2>2. QED  BY <1>1, <2>1, FS_Surjection
<1>3. Cardinality(B) = n + 1
  <2>1. B = 1 .. n + 1
    BY <1>1, SMTT(30) DEF Buffers
  <2>2. Cardinality(1 .. n + 1) = n + 1
    <3> HIDE DEF n
    <3>1. QED  BY <1>1, FS_Interval, SMTT(30)
  <2>3. QED  BY <2>1, <2>2
<1>4. ~(B \subseteq R)
  <2> HIDE DEF B, R, n
  <2>1. SUFFICES ASSUME B \subseteq R PROVE FALSE
    OBVIOUS
  <2>2. Cardinality(B) <= Cardinality(R) /\ Cardinality(R) \in Nat
    BY <1>2, <2>1, FS_Subset, FS_CardinalityType
  <2>3. QED  BY <1>1, <1>2, <1>3, <2>2, SMTT(30)
<1>5. \E b \in B : \A h \in Handles : buf[h] # b
  BY <1>4
<1>6. QED  BY <1>5 DEF Unused

(* For any bitset objects and any threads: copies and comparisons take their
   two locks by address, so threads that wait in a circle include one inside
   an assignment; and copy leaves its two objects with different buffers.     *)
THEOREM HandlesHold == HandlesSpec => HandlesSound
<1> DEFINE Detaches ==
      \A t \in HandleThreads :
        hop[t].op \in Deep /\ hop'[t] = NoHandleCall /\ buf[hop[t].src] # 0 /\ buf[hop[t].dst] # 0
        => buf'[hop[t].dst] # buf'[hop[t].src]
<1>1. ASSUME HandlesInv, HandlesNext PROVE Detaches
  <2> SUFFICES ASSUME NEW t \in HandleThreads, hop[t].op \in Deep, hop'[t] = NoHandleCall,
                      buf[hop[t].src] # 0, buf[hop[t].dst] # 0
               PROVE  buf'[hop[t].dst] # buf'[hop[t].src]
    OBVIOUS
  <2>1. /\ hop[t].dst \in Handles /\ hop[t].src \in Handles /\ hop[t].dst # hop[t].src
        /\ hop[t].op \notin {"none", "operator=", "move=", "resize"} /\ Busy(t)
    BY <1>1 DEF HandlesInv, CallPlanned, Deep, Busy
  <2>2. Operate(t)
    <3>1. ASSUME NEW u \in HandleThreads, CallBitset(u) PROVE FALSE
      BY <1>1, <2>1, <3>1, SMTT(30) DEF CallBitset, HandlesInv, HandlesTypeOK, NoHandleCall, Busy
    <3>2. ASSUME NEW u \in HandleThreads, TakeLock(u) PROVE FALSE
      BY <1>1, <2>1, <3>2, SMTT(30) DEF TakeLock, HandlesInv, HandlesTypeOK, NoHandleCall
    <3>3. ASSUME NEW u \in HandleThreads, Operate(u), u # t PROVE FALSE
      BY <1>1, <2>1, <3>3, SMTT(30) DEF Operate, HandlesInv, HandlesTypeOK, NoHandleCall
    <3>4. QED  BY <1>1, <3>1, <3>2, <3>3 DEF HandlesNext
  <2>3. PICK b \in CopyTarget(hop[t].dst, hop[t].src) : buf' = [buf EXCEPT ![hop[t].dst] = b]
    BY <2>1, <2>2 DEF Operate
  <2>4. b # buf[hop[t].src]
    BY <1>1, <2>1, <2>3, UnusedIsNew DEF CopyTarget
  <2>5. QED  BY <1>1, <2>1, <2>3, <2>4 DEF HandlesInv, HandlesTypeOK
<1>2. ASSUME HandlesInv, [HandlesNext]_handleVars PROVE [Detaches]_handleVars
  BY <1>1, <1>2
<1>3. QED
  BY <1>2, HandlesInitInv, HandlesStepInv, NoCircle, PTL DEF HandlesSpec, HandlesSound, CopyDetaches

------------------------------------------------------------------------------
(* Flip: as many executions as the frequency says, and no timer left behind.  *)

FlipInstances == [spec : FlipSpecs, hits : Nat, remain : Int, fired : Int]
FlipPlaces == {"out", "hit", "count", "schedule", "complete"} \cup FlipActions
FlipPoints == [pc : FlipPlaces, inst : Nat, completed : BOOLEAN, arg : {0, 1}]
Closures == [at : {"pending", "ran", "done"}, cancelled : BOOLEAN]

FlipTypeOK ==
  /\ insts \in Seq(FlipInstances) /\ listed \in Seq(Nat) /\ closures \in Seq(Closures)
  /\ fop \in [FlipThreads -> FlipPoints]
  /\ \A k \in 1 .. Len(listed) : listed[k] \in 1 .. Len(insts)
  /\ \A t \in FlipThreads : fop[t].pc # "out" => fop[t].inst \in 1 .. Len(insts)

\* The executions that `hits' hits ask for.
Due(hits, nth) == (hits + nth - 1) \div nth

\* The points that were granted an execution of flip i and have not counted it.
Counting(i) == {t \in FlipThreads : fop[t].pc = "count" /\ fop[t].inst = i}

\* What was counted is what was due, but for the points that still count; what
\* fired is what was counted, up to the limit.
FlipCounts ==
  \A i \in 1 .. Len(insts) :
    LET f == insts[i] IN
    /\ f.remain <= f.spec.count
    /\ f.fired = IF f.remain >= 0 THEN f.spec.count - f.remain ELSE f.spec.count
    /\ f.spec.every_nth # 0
         => f.spec.count - f.remain = Due(f.hits, f.spec.every_nth) - Cardinality(Counting(i))

\* A flip that is listed and has just used its last execution has the point that
\* used it, which will remove it.
LastOneRemoves ==
  \A i \in 1 .. Len(insts) :
    /\ i \in Range(listed) /\ insts[i].remain = 0
    /\ insts[i].spec.count > 0 /\ insts[i].spec.action # "get_callback"
    => \E t \in FlipThreads : /\ fop[t].inst = i /\ fop[t].completed
                              /\ fop[t].pc \in {"returns", "callback", "delays", "complete"}

FlipInv == FlipTypeOK /\ FlipCounts /\ LastOneRemoves /\ TimersTracked

\* A quotient is the one number with a remainder less than the divisor.
LEMMA QuotientIs ==
  ASSUME NEW a \in Int, NEW n \in Nat \ {0}, NEW d \in Int, d * n <= a, a < d * n + n
  PROVE  a \div n = d
<1>1. PICK e \in Int : e = a \div n  BY SMTT(30)
<1>2. e * n <= a /\ a < e * n + n
  BY <1>1, SMTT(30)
<1>3. ~(e < d)
  <2> SUFFICES ASSUME e < d PROVE FALSE  OBVIOUS
  <2>1. PICK k \in Nat : d = e + 1 + k  BY SMTT(30)
  <2>2. d * n = e * n + n + k * n /\ k * n >= 0  BY <2>1, SMTT(30)
  <2>3. QED  BY <1>2, <2>2, SMTT(30)
<1>4. ~(d < e)
  <2> SUFFICES ASSUME d < e PROVE FALSE  OBVIOUS
  <2>1. PICK k \in Nat : e = d + 1 + k  BY SMTT(30)
  <2>2. e * n = d * n + n + k * n /\ k * n >= 0  BY <2>1, SMTT(30)
  <2>3. QED  BY <1>2, <2>2, SMTT(30)
<1>5. QED  BY <1>1, <1>3, <1>4, SMTT(30)

\* One hit more is one execution more, if the hits so far are a multiple.
LEMMA DueStep ==
  ASSUME NEW h \in Nat, NEW n \in Nat \ {0}
  PROVE  /\ Due(h, n) \in Nat
         /\ Due(h + 1, n) = IF h % n = 0 THEN Due(h, n) + 1 ELSE Due(h, n)
         /\ Due(0, n) = 0
<1>1. PICK q \in Nat, r \in Nat : q = h \div n /\ r = h % n /\ h = q * n + r /\ r < n
  BY SMTT(30)
<1>2. PICK p \in Int : p = q * n /\ (q + 1) * n = p + n  BY SMTT(30)
<1>3. /\ \A a \in Int : p <= a /\ a < p + n => a \div n = q
      /\ \A a \in Int : p + n <= a /\ a < p + n + n => a \div n = q + 1
  BY <1>2, QuotientIs, SMTT(30)
<1>4. Due(0, n) = 0
  <2>1. 0 \in Int /\ 0 + n - 1 \in Int /\ 0 * n <= 0 + n - 1 /\ 0 + n - 1 < 0 * n + n  BY SMTT(30)
  <2>2. QED  BY <2>1, QuotientIs DEF Due
<1>5. CASE r = 0
  <2>1. Due(h, n) = q
    <3>1. h + n - 1 \in Int /\ p <= h + n - 1 /\ h + n - 1 < p + n  BY <1>1, <1>2, <1>5, SMTT(30)
    <3>2. QED  BY <1>3, <3>1 DEF Due
  <2>2. Due(h + 1, n) = q + 1
    <3>1. h + 1 + n - 1 \in Int /\ p + n <= h + 1 + n - 1 /\ h + 1 + n - 1 < p + n + n
      BY <1>1, <1>2, <1>5, SMTT(30)
    <3>2. QED  BY <1>3, <3>1 DEF Due
  <2>3. QED  BY <1>1, <1>4, <1>5, <2>1, <2>2
<1>6. CASE r # 0
  <2>1. Due(h, n) = q + 1
    <3>1. h + n - 1 \in Int /\ p + n <= h + n - 1 /\ h + n - 1 < p + n + n
      BY <1>1, <1>2, <1>6, SMTT(30)
    <3>2. QED  BY <1>3, <3>1 DEF Due
  <2>2. Due(h + 1, n) = q + 1
    <3>1. h + 1 + n - 1 \in Int /\ p + n <= h + 1 + n - 1 /\ h + 1 + n - 1 < p + n + n
      BY <1>1, <1>2, <1>6, SMTT(30)
    <3>2. QED  BY <1>3, <3>1 DEF Due
  <2>3. QED  BY <1>1, <1>4, <1>6, <2>1, <2>2, SMTT(30)
<1>7. QED  BY <1>5, <1>6

\* Two nulls are equal and a null is less than a string.
LEMMA NullsOrdered == NullIsLeast
<1> SUFFICES ASSUME NEW v1 \in {-1, 0, 1}, NEW v2 \in {-1, 0, 1}, NEW oper \in FlipOperators
             PROVE  compare_cstr(v1, v2, oper) = compare_val(v1, v2, oper)
  BY DEF NullIsLeast, NullStr
<1>1. CASE oper \in {"DONT_CARE", "EQUAL", "NOT_EQUAL"}
  BY <1>1 DEF compare_cstr, compare_val, NullStr
<1>2. CASE oper \in {"GREATER_THAN", "LESS_THAN"}
  BY <1>2, SMTT(30) DEF compare_cstr, compare_val, NullStr
<1>3. CASE oper \in {"GREATER_THAN_OR_EQUAL", "LESS_THAN_OR_EQUAL"}
  BY <1>3, SMTT(30) DEF compare_cstr, compare_val, NullStr
<1>4. QED  BY <1>1, <1>2, <1>3 DEF FlipOperators

LEMMA CountingFinite ==
  ASSUME NEW i
  PROVE  IsFiniteSet(Counting(i)) /\ Cardinality(Counting(i)) \in Nat
<1>1. Counting(i) \subseteq FlipThreads  BY DEF Counting
<1>2. QED  BY <1>1, FlipAssumption, FS_Subset, FS_CardinalityType

LEMMA FlipInvSound == FlipInv => FlipsSound
<1> SUFFICES ASSUME FlipInv PROVE FlipsSound  OBVIOUS
<1>1. DOMAIN insts = 1 .. Len(insts) /\ \A i \in DOMAIN insts : insts[i] \in FlipInstances
  BY SMTT(30) DEF FlipInv, FlipTypeOK
<1>2. FiresExactly
  <2> SUFFICES ASSUME NEW i \in DOMAIN insts
               PROVE  /\ insts[i].fired <= insts[i].spec.count
                      /\ insts[i].spec.every_nth # 0 /\ InsideFlip(i) \cap InShared = {}
                           => insts[i].fired = IF Due(insts[i].hits, insts[i].spec.every_nth) < insts[i].spec.count
                                               THEN Due(insts[i].hits, insts[i].spec.every_nth) ELSE insts[i].spec.count
    BY DEF FiresExactly, Due
  <2>1. PICK n \in Nat, c \in Nat, h \in Nat :
          n = insts[i].spec.every_nth /\ c = insts[i].spec.count /\ h = insts[i].hits
    BY <1>1, FlipAssumption DEF FlipInstances
  <2>2. insts[i].remain \in Int  BY <1>1 DEF FlipInstances
  <2>3. insts[i].remain <= c /\ insts[i].fired = IF insts[i].remain >= 0 THEN c - insts[i].remain ELSE c
    BY <1>1, <2>1 DEF FlipInv, FlipCounts
  <2>4. ASSUME n # 0, InsideFlip(i) \cap InShared = {}
        PROVE  c - insts[i].remain = Due(h, n) /\ Due(h, n) \in Nat
    <3>1. Counting(i) = {}  BY <2>4 DEF Counting, InsideFlip, InShared
    <3>2. c - insts[i].remain = Due(h, n) - Cardinality(Counting(i))
      BY <1>1, <2>1, <2>4 DEF FlipInv, FlipCounts
    <3>3. Cardinality(Counting(i)) = 0  BY <3>1, FS_EmptySet
    <3>4. Due(h, n) \in Nat  BY <2>4, DueStep
    <3>5. QED  BY <3>2, <3>3, <3>4, SMTT(30)
  <2>5. QED  BY <2>1, <2>2, <2>3, <2>4, SMTT(30)
<1>3. CompletedIsGone
  BY <1>1 DEF FlipInv, LastOneRemoves, CompletedIsGone, InsideFlip
<1>4. QED  BY <1>2, <1>3, NullsOrdered DEF FlipsSound, FlipInv

LEMMA FlipInitInv == FlipInit => FlipInv
<1> SUFFICES ASSUME FlipInit PROVE FlipInv  OBVIOUS
<1>1. Len(insts) = 0 /\ Len(listed) = 0 /\ DOMAIN closures = {}
  BY SMTT(30) DEF FlipInit
<1>2. FlipTypeOK
  BY <1>1, SMTT(30) DEF FlipInit, FlipTypeOK, FlipPoints, FlipPlaces, NotInFlip
<1>3. QED  BY <1>1, <1>2, SMTT(30) DEF FlipInit, FlipInv, FlipCounts, LastOneRemoves, TimersTracked

\* A point that is not counting, before and after, leaves the counts alone.
LEMMA SameCounting ==
  ASSUME NEW t \in FlipThreads, NEW x \in FlipPoints, FlipTypeOK,
         fop[t].pc # "count", x.pc # "count", fop' = [fop EXCEPT ![t] = x]
  PROVE  \A i : Counting(i)' = Counting(i)
BY DEF Counting, FlipTypeOK

LEMMA CountsStay ==
  ASSUME FlipInv, UNCHANGED insts, \A i : Counting(i)' = Counting(i)
  PROVE  FlipCounts'
BY DEF FlipInv, FlipCounts

LEMMA AddFlipInv ==
  ASSUME FlipInv, NEW s \in FlipSpecs, AddFlip(s)
  PROVE  FlipInv'
<1> DEFINE n == Len(insts)
<1>1. /\ insts \in Seq(FlipInstances) /\ listed \in Seq(Nat) /\ fop \in [FlipThreads -> FlipPoints]
      /\ n \in Nat /\ flip_instance(s) \in FlipInstances
      /\ s.count \in Nat /\ s.every_nth \in Nat
  BY FlipAssumption, SMTT(30) DEF FlipInv, FlipTypeOK, flip_instance, FlipInstances
<1>2. /\ insts' = Append(insts, flip_instance(s)) /\ listed' = Append(listed, Len(insts'))
      /\ UNCHANGED <<closures, entries, fop>>
  BY DEF AddFlip
<1>3. /\ insts' \in Seq(FlipInstances) /\ Len(insts') = n + 1 /\ insts'[n + 1] = flip_instance(s)
      /\ \A i \in 1 .. n : insts'[i] = insts[i]
  BY <1>1, <1>2, SMTT(30)
<1>4. /\ listed' \in Seq(Nat) /\ Len(listed') = Len(listed) + 1 /\ listed'[Len(listed) + 1] = n + 1
      /\ \A k \in 1 .. Len(listed) : listed'[k] = listed[k]
  BY <1>1, <1>2, <1>3, SMTT(30)
<1>5. FlipTypeOK'
  <2>1. ASSUME NEW k \in 1 .. Len(listed') PROVE listed'[k] \in 1 .. Len(insts')
    <3>1. CASE k = Len(listed) + 1  BY <1>1, <1>3, <1>4, <3>1, SMTT(30)
    <3>2. CASE k \in 1 .. Len(listed)
      <4>1. listed[k] \in 1 .. n  BY <3>2 DEF FlipInv, FlipTypeOK
      <4>2. QED  BY <1>1, <1>3, <1>4, <3>2, <4>1, SMTT(30)
    <3>3. QED  BY <1>1, <1>4, <3>1, <3>2, SMTT(30)
  <2>2. ASSUME NEW t \in FlipThreads, fop'[t].pc # "out" PROVE fop'[t].inst \in 1 .. Len(insts')
    BY <1>1, <1>2, <1>3, <2>2, SMTT(30) DEF FlipInv, FlipTypeOK
  <2>3. QED  BY <1>1, <1>2, <1>3, <1>4, <2>1, <2>2 DEF FlipInv, FlipTypeOK
<1>6. \A i : Counting(i)' = Counting(i)
  BY <1>2 DEF Counting
<1>7. Counting(n + 1) = {}
  <2>1. ASSUME NEW t \in FlipThreads, fop[t].pc = "count" PROVE fop[t].inst # n + 1
    BY <1>1, <2>1, SMTT(30) DEF FlipInv, FlipTypeOK
  <2>2. QED  BY <2>1 DEF Counting
<1>8. FlipCounts'
  <2> SUFFICES ASSUME NEW i \in 1 .. Len(insts')
               PROVE  LET f == insts'[i] IN
                      /\ f.remain <= f.spec.count
                      /\ f.fired = IF f.remain >= 0 THEN f.spec.count - f.remain ELSE f.spec.count
                      /\ f.spec.every_nth # 0
                           => f.spec.count - f.remain = Due(f.hits, f.spec.every_nth) - Cardinality(Counting(i)')
    BY DEF FlipCounts
  <2>1. CASE i = n + 1
    <3>1. Cardinality(Counting(i)') = 0  BY <1>6, <1>7, <2>1, FS_EmptySet
    <3>2. s.every_nth # 0 => Due(0, s.every_nth) = 0  BY <1>1, DueStep
    <3>3. QED  BY <1>1, <1>3, <2>1, <3>1, <3>2, SMTT(30) DEF flip_instance
  <2>2. CASE i \in 1 .. n
    BY <1>3, <1>6, <2>2 DEF FlipInv, FlipCounts
  <2>3. QED  BY <1>1, <1>3, <2>1, <2>2, SMTT(30)
<1>9. LastOneRemoves'
  <2> SUFFICES ASSUME NEW i \in 1 .. Len(insts'), i \in Range(listed'), insts'[i].remain = 0,
                      insts'[i].spec.count > 0, insts'[i].spec.action # "get_callback"
               PROVE  \E t \in FlipThreads : /\ fop'[t].inst = i /\ fop'[t].completed
                                             /\ fop'[t].pc \in {"returns", "callback", "delays", "complete"}
    BY DEF LastOneRemoves
  <2>1. i \in 1 .. n
    BY <1>1, <1>3, SMTT(30) DEF flip_instance
  <2>2. i \in Range(listed)
    <3>1. PICK k \in 1 .. Len(listed') : i = listed'[k]  BY <1>4, SMTT(30) DEF Range
    <3>2. k \in 1 .. Len(listed)  BY <1>1, <1>4, <2>1, <3>1, SMTT(30)
    <3>3. k \in DOMAIN listed /\ i = listed[k]  BY <1>1, <1>4, <3>1, <3>2, SMTT(30)
    <3>4. QED  BY <3>3 DEF Range
  <2>3. QED  BY <1>2, <1>3, <2>1, <2>2 DEF FlipInv, LastOneRemoves
<1>10. TimersTracked'
  BY <1>2 DEF FlipInv, TimersTracked
<1>11. QED  BY <1>5, <1>8, <1>9, <1>10 DEF FlipInv

\* A removal empties the list and cancels what is scheduled.
LEMMA RemoveFlipInv ==
  ASSUME FlipInv, NEW t \in FlipThreads, RemoveFlip(t)
  PROVE  FlipInv'
<1>1. /\ UNCHANGED <<insts, fop>> /\ listed' = <<>> /\ Len(listed') = 0 /\ entries' = {}
      /\ closures' = [c \in DOMAIN closures |-> [closures[c] EXCEPT !.cancelled = TRUE]]
  BY DEF RemoveFlip
<1>2. closures \in Seq(Closures)  BY DEF FlipInv, FlipTypeOK
<1>3. \A c \in DOMAIN closures : [closures[c] EXCEPT !.cancelled = TRUE] \in Closures
  <2>1. ASSUME NEW c \in DOMAIN closures PROVE closures[c] \in Closures  BY <1>2, SMTT(30)
  <2>2. ASSUME NEW c \in Closures PROVE [c EXCEPT !.cancelled = TRUE] \in Closures  BY DEF Closures
  <2>3. QED  BY <2>1, <2>2
<1>4. closures' \in Seq(Closures)
  <2>1. PICK k \in Nat : closures \in [1 .. k -> Closures]
    BY <1>2, SMTT(30)
  <2>2. closures' \in [1 .. k -> Closures]
    BY <1>1, <1>3, <2>1
  <2>3. QED  BY <2>2, SMTT(30)
<1>5. FlipTypeOK'
  BY <1>1, <1>4, SMTT(30) DEF FlipInv, FlipTypeOK
<1>6. FlipCounts'
  <2>1. \A i : Counting(i)' = Counting(i)  BY <1>1 DEF Counting
  <2>2. QED  BY <1>1, <2>1, CountsStay
<1>7. LastOneRemoves'
  BY <1>1, SMTT(30) DEF LastOneRemoves, Range
<1>8. TimersTracked'
  BY <1>1, <1>2, SMTT(30) DEF TimersTracked, Closures
<1>9. QED  BY <1>5, <1>6, <1>7, <1>8 DEF FlipInv

\* What match_flip finds is on the list.
LEMMA MatchIsListed ==
  ASSUME NEW arg, match_flip(arg) # 0, listed \in Seq(Nat)
  PROVE  match_flip(arg) \in 1 .. Len(listed)
<1> DEFINE S == {p \in DOMAIN listed : condition_matches(arg, insts[listed[p]].spec.cond)}
<1>1. match_flip(arg) = IF S = {} THEN 0 ELSE Min(S)
  BY DEF match_flip
<1>2. S \in SUBSET Nat /\ S \subseteq 1 .. Len(listed)  BY SMTT(30)
<1> HIDE DEF S
<1>3. QED  BY <1>1, <1>2, NatMin

LEMMA MatchFlipInv ==
  ASSUME FlipInv, NEW t \in FlipThreads, MatchFlip(t)
  PROVE  FlipInv'
<1>1. PICK arg \in {0, 1} :
        /\ fop[t].pc = "out" /\ match_flip(arg) # 0
        /\ fop' = [fop EXCEPT ![t] = [NotInFlip EXCEPT !.pc = "hit", !.inst = listed[match_flip(arg)], !.arg = arg]]
        /\ UNCHANGED <<insts, listed, closures, entries>>
  BY DEF MatchFlip
<1>2. PICK i : i = listed[match_flip(arg)]  OBVIOUS
<1>3. i \in 1 .. Len(insts) /\ i \in Nat
  BY <1>1, <1>2, MatchIsListed, SMTT(30) DEF FlipInv, FlipTypeOK
<1>4. PICK x \in FlipPoints : x.pc = "hit" /\ x.inst = i /\ fop' = [fop EXCEPT ![t] = x]
  <2>1. [NotInFlip EXCEPT !.pc = "hit", !.inst = i, !.arg = arg] \in FlipPoints
    BY <1>3 DEF NotInFlip, FlipPoints, FlipPlaces
  <2>2. QED  BY <1>1, <1>2, <2>1 DEF NotInFlip
<1>5. FlipTypeOK'
  BY <1>1, <1>3, <1>4 DEF FlipInv, FlipTypeOK
<1>6. FlipCounts'
  BY <1>1, <1>4, SameCounting, CountsStay DEF FlipInv
<1>7. LastOneRemoves'
  <2>1. ASSUME NEW u \in FlipThreads, fop[u].pc # "out" PROVE fop'[u] = fop[u]
    BY <1>1, <2>1 DEF FlipInv, FlipTypeOK
  <2>2. QED  BY <1>1, <2>1, SMTT(30) DEF FlipInv, LastOneRemoves
<1>8. TimersTracked'
  BY <1>1 DEF FlipInv, TimersTracked
<1>9. QED  BY <1>5, <1>6, <1>7, <1>8 DEF FlipInv

\* What one flip's counts say, for a step that changes one flip.
CountsOf(f, waiting) ==
  /\ f.remain <= f.spec.count
  /\ f.fired = IF f.remain >= 0 THEN f.spec.count - f.remain ELSE f.spec.count
  /\ f.spec.every_nth # 0
       => f.spec.count - f.remain = Due(f.hits, f.spec.every_nth) - Cardinality(waiting)

LEMMA OneFlipCounts ==
  ASSUME FlipInv, NEW i \in 1 .. Len(insts), NEW f, insts' = [insts EXCEPT ![i] = f],
         CountsOf(f, Counting(i)'), \A j : j # i => Counting(j)' = Counting(j)
  PROVE  FlipCounts'
<1>1. insts \in Seq(FlipInstances)  BY DEF FlipInv, FlipTypeOK
<1>2. Len(insts') = Len(insts) /\ insts'[i] = f /\ \A j \in 1 .. Len(insts) : j # i => insts'[j] = insts[j]
  BY <1>1, SMTT(30)
<1>3. \A j \in 1 .. Len(insts) : CountsOf(insts[j], Counting(j))
  BY DEF FlipInv, FlipCounts, CountsOf
<1>4. \A j \in 1 .. Len(insts') : CountsOf(insts'[j], Counting(j)')
  BY <1>2, <1>3
<1>5. QED  BY <1>4 DEF FlipCounts, CountsOf

LEMMA HandleHitsInv ==
  ASSUME FlipInv, NEW t \in FlipThreads, HandleHits(t)
  PROVE  FlipInv'
<1>1. PICK i : i = fop[t].inst  OBVIOUS
<1>2. /\ i \in 1 .. Len(insts) /\ i \in Nat /\ insts[i] \in FlipInstances /\ insts \in Seq(FlipInstances)
      /\ fop \in [FlipThreads -> FlipPoints] /\ fop[t] \in FlipPoints /\ fop[t].pc = "hit"
  BY <1>1, SMTT(30) DEF FlipInv, FlipTypeOK, HandleHits
<1>3. PICK f, n, h : f = insts[i] /\ n = f.spec.every_nth /\ h = f.hits  OBVIOUS
<1>4. f \in FlipInstances /\ n \in Nat /\ h \in Nat /\ f.spec.count \in Nat /\ f.remain \in Int
  BY <1>2, <1>3, FlipAssumption DEF FlipInstances
<1>5. PICK g \in FlipInstances : /\ g = [f EXCEPT !.hits = h + 1] /\ g.hits = h + 1 /\ g.spec = f.spec
                                 /\ g.remain = f.remain /\ g.fired = f.fired
  <2>1. [f EXCEPT !.hits = h + 1] \in FlipInstances  BY <1>4, SMTT(30) DEF FlipInstances
  <2>2. QED  BY <1>4, <2>1 DEF FlipInstances
<1>6. insts' = [insts EXCEPT ![i] = g] /\ UNCHANGED <<listed, closures, entries>>
  BY <1>1, <1>2, <1>3, <1>5 DEF HandleHits
<1>7. PICK go \in BOOLEAN :
        /\ fop' = [fop EXCEPT ![t] = IF go THEN [fop[t] EXCEPT !.pc = "count"] ELSE NotInFlip]
        /\ n # 0 => go = (h % n = 0)
  BY <1>1, <1>3 DEF HandleHits
<1>8. PICK x \in FlipPoints : /\ fop' = [fop EXCEPT ![t] = x]
                              /\ IF go THEN x.pc = "count" /\ x.inst = i ELSE x.pc = "out"
  <2>1. [fop[t] EXCEPT !.pc = "count"] \in FlipPoints /\ NotInFlip \in FlipPoints
    BY <1>2 DEF FlipPoints, FlipPlaces, NotInFlip
  <2>2. QED  BY <1>1, <1>2, <1>7, <2>1 DEF NotInFlip, FlipPoints
<1>9. /\ insts' \in Seq(FlipInstances) /\ Len(insts') = Len(insts) /\ insts'[i] = g
      /\ \A j \in 1 .. Len(insts) : j # i => insts'[j] = insts[j]
  BY <1>2, <1>6, SMTT(30)
<1>10. FlipTypeOK'
  BY <1>2, <1>6, <1>8, <1>9 DEF FlipInv, FlipTypeOK
<1>11. Counting(i)' = IF go THEN Counting(i) \cup {t} ELSE Counting(i)
  BY <1>2, <1>8 DEF Counting
<1>12. ASSUME NEW j, j # i PROVE Counting(j)' = Counting(j)
  BY <1>1, <1>2, <1>8, <1>12 DEF Counting
<1>13. Cardinality(Counting(i)') = IF go THEN Cardinality(Counting(i)) + 1 ELSE Cardinality(Counting(i))
  <2>1. t \notin Counting(i)  BY <1>2 DEF Counting
  <2>2. CASE go  BY <1>11, <2>1, <2>2, CountingFinite, FS_AddElement
  <2>3. CASE ~go  BY <1>11, <2>3
  <2>4. QED  BY <2>2, <2>3
<1>14. CountsOf(g, Counting(i)')
  <2>1. CountsOf(f, Counting(i))  BY <1>2, <1>3 DEF FlipInv, FlipCounts, CountsOf
  <2>2. n # 0 => Due(h + 1, n) = (IF go THEN Due(h, n) + 1 ELSE Due(h, n)) /\ Due(h, n) \in Nat
    BY <1>4, <1>7, DueStep
  <2>3. Cardinality(Counting(i)) \in Nat  BY CountingFinite
  <2>4. QED  BY <1>3, <1>4, <1>5, <1>13, <2>1, <2>2, <2>3, SMTT(30) DEF CountsOf
<1>15. FlipCounts'
  BY <1>2, <1>6, <1>12, <1>14, OneFlipCounts
<1>16. LastOneRemoves'
  <2>1. ASSUME NEW u \in FlipThreads, fop[u].pc # "hit" PROVE fop'[u] = fop[u]
    BY <1>2, <1>8, <2>1
  <2>2. ASSUME NEW j \in 1 .. Len(insts) PROVE insts'[j].remain = insts[j].remain /\ insts'[j].spec = insts[j].spec
    BY <1>3, <1>5, <1>9
  <2>3. QED  BY <1>6, <1>9, <2>1, <2>2, SMTT(30) DEF FlipInv, LastOneRemoves
<1>17. TimersTracked'
  BY <1>6 DEF FlipInv, TimersTracked
<1>18. QED  BY <1>10, <1>15, <1>16, <1>17 DEF FlipInv

LEMMA CountExecutionInv ==
  ASSUME FlipInv, NEW t \in FlipThreads, CountExecution(t)
  PROVE  FlipInv'
<1>1. PICK i : i = fop[t].inst  OBVIOUS
<1>2. /\ i \in 1 .. Len(insts) /\ i \in Nat /\ insts[i] \in FlipInstances /\ insts \in Seq(FlipInstances)
      /\ fop \in [FlipThreads -> FlipPoints] /\ fop[t] \in FlipPoints /\ fop[t].pc = "count"
  BY <1>1, SMTT(30) DEF FlipInv, FlipTypeOK, CountExecution
<1>3. PICK f, r : f = insts[i] /\ r = f.remain - 1  OBVIOUS
<1>4. /\ f \in FlipInstances /\ r \in Int /\ f.remain = r + 1 /\ f.fired \in Int /\ f.hits \in Nat
      /\ f.spec.count \in Nat /\ f.spec.every_nth \in Nat /\ f.spec.action \in FlipActions
  <2>1. f \in FlipInstances
    BY <1>2, <1>3
  <2>2. /\ f.remain \in Int /\ f.fired \in Int /\ f.hits \in Nat /\ f.spec \in FlipSpecs
    BY <2>1 DEF FlipInstances
  <2>3. /\ f.spec.count \in Nat /\ f.spec.every_nth \in Nat /\ f.spec.action \in FlipActions
    BY <2>2, FlipAssumption, SMTT(30)
  <2>4. r \in Int /\ f.remain = r + 1
    BY <1>3, <2>2, SMTT(30)
  <2>5. QED  BY <2>1, <2>2, <2>3, <2>4
<1>5. PICK g \in FlipInstances :
        /\ g = [f EXCEPT !.remain = r, !.fired = IF r >= 0 THEN @ + 1 ELSE @]
        /\ g.remain = r /\ g.fired = (IF r >= 0 THEN f.fired + 1 ELSE f.fired) /\ g.spec = f.spec /\ g.hits = f.hits
  <2>1. [f EXCEPT !.remain = r, !.fired = IF r >= 0 THEN @ + 1 ELSE @] \in FlipInstances
    <3>1. PICK k \in Int : k = IF r >= 0 THEN f.fired + 1 ELSE f.fired  BY <1>4, SMTT(30)
    <3>2. [f EXCEPT !.remain = r, !.fired = k] \in FlipInstances  BY <1>4 DEF FlipInstances
    <3>3. [f EXCEPT !.remain = r, !.fired = IF r >= 0 THEN @ + 1 ELSE @] = [f EXCEPT !.remain = r, !.fired = k]
      BY <1>4, <3>1 DEF FlipInstances
    <3>4. QED  BY <3>2, <3>3
  <2>2. QED  BY <1>4, <2>1 DEF FlipInstances
<1>6. insts' = [insts EXCEPT ![i] = g] /\ UNCHANGED <<listed, closures, entries>>
  BY <1>1, <1>2, <1>3, <1>5 DEF CountExecution, FlipInstances
<1>7. PICK x \in FlipPoints :
        /\ fop' = [fop EXCEPT ![t] = x]
        /\ IF r < 0 THEN x.pc = "out" ELSE x.pc = f.spec.action /\ x.inst = i /\ (r = 0 => x.completed)
  <2>1. [fop[t] EXCEPT !.pc = f.spec.action, !.completed = r = 0] \in FlipPoints /\ NotInFlip \in FlipPoints
    BY <1>2, <1>4 DEF FlipPoints, FlipPlaces, NotInFlip
  <2>2. fop' = [fop EXCEPT ![t] = IF r < 0 THEN NotInFlip
                                  ELSE [fop[t] EXCEPT !.pc = f.spec.action, !.completed = r = 0]]
    BY <1>1, <1>3 DEF CountExecution
  <2>3. QED  BY <1>1, <1>2, <2>1, <2>2 DEF NotInFlip, FlipPoints
<1>8. /\ insts' \in Seq(FlipInstances) /\ Len(insts') = Len(insts) /\ insts'[i] = g
      /\ \A j \in 1 .. Len(insts) : j # i => insts'[j] = insts[j]
  BY <1>2, <1>6, SMTT(30)
<1>9. FlipTypeOK'
  BY <1>2, <1>6, <1>7, <1>8 DEF FlipInv, FlipTypeOK
<1>10. x.pc # "count"
  BY <1>4, <1>7 DEF FlipActions
<1>11. Counting(i)' = Counting(i) \ {t} /\ t \in Counting(i)
  BY <1>1, <1>2, <1>7, <1>10 DEF Counting
<1>12. ASSUME NEW j, j # i PROVE Counting(j)' = Counting(j)
  BY <1>1, <1>2, <1>7, <1>10, <1>12 DEF Counting
<1>13. CountsOf(g, Counting(i)')
  <2>1. CountsOf(f, Counting(i))  BY <1>2, <1>3 DEF FlipInv, FlipCounts, CountsOf
  <2>2. Cardinality(Counting(i)') = Cardinality(Counting(i)) - 1 /\ Cardinality(Counting(i)) \in Nat
    BY <1>11, CountingFinite, FS_RemoveElement
  <2>3. f.spec.every_nth # 0 => Due(f.hits, f.spec.every_nth) \in Nat
    BY <1>4, DueStep
  <2>4. QED  BY <1>4, <1>5, <2>1, <2>2, <2>3, SMTT(30) DEF CountsOf
<1>14. FlipCounts'
  BY <1>2, <1>6, <1>12, <1>13, OneFlipCounts
<1>15. LastOneRemoves'
  <2>1. ASSUME NEW u \in FlipThreads, fop[u].pc # "count" PROVE fop'[u] = fop[u]
    BY <1>2, <1>7, <2>1
  <2>2. ASSUME r = 0, f.spec.action # "get_callback"
        PROVE  /\ fop'[t].inst = i /\ fop'[t].completed
               /\ fop'[t].pc \in {"returns", "callback", "delays", "complete"}
    <3>1. fop'[t] = x  BY <1>2, <1>7
    <3>2. x.pc = f.spec.action /\ x.inst = i /\ x.completed  BY <1>7, <2>2, SMTT(30)
    <3>3. QED  BY <1>4, <2>2, <3>1, <3>2 DEF FlipActions
  <2>3. QED  BY <1>3, <1>5, <1>6, <1>8, <2>1, <2>2, SMTT(30) DEF FlipInv, LastOneRemoves
<1>16. TimersTracked'
  BY <1>6 DEF FlipInv, TimersTracked
<1>17. QED  BY <1>9, <1>14, <1>15, <1>16 DEF FlipInv

\* A point that acts keeps what it has to complete, or is done; the list and the
\* counts stay.
LEMMA PointActs ==
  ASSUME FlipInv, NEW t \in FlipThreads, NEW x \in FlipPoints, fop[t].pc \notin {"out", "hit", "count"},
         fop' = [fop EXCEPT ![t] = x], UNCHANGED <<insts, listed>>,
         x.pc \in {"out", "schedule", "complete"}, x.pc # "out" => x.inst = fop[t].inst,
         fop[t].completed /\ fop[t].pc \in {"returns", "callback", "delays"}
           => x.pc = "complete" /\ x.completed,
         fop[t].pc # "complete"
  PROVE  /\ FlipCounts' /\ LastOneRemoves'
         /\ fop' \in [FlipThreads -> FlipPoints]
         /\ \A u \in FlipThreads : fop'[u].pc # "out" => fop'[u].inst \in 1 .. Len(insts)
<1>1. fop \in [FlipThreads -> FlipPoints] /\ \A u \in FlipThreads : fop[u].pc # "out" => fop[u].inst \in 1 .. Len(insts)
  BY DEF FlipInv, FlipTypeOK
<1>2. fop'[t] = x /\ \A u \in FlipThreads : u # t => fop'[u] = fop[u]
  BY <1>1
<1>3. FlipCounts'
  BY SameCounting, CountsStay DEF FlipInv
<1>4. LastOneRemoves'
  <2> SUFFICES ASSUME NEW i \in 1 .. Len(insts), i \in Range(listed), insts[i].remain = 0,
                      insts[i].spec.count > 0, insts[i].spec.action # "get_callback"
               PROVE  \E u \in FlipThreads : /\ fop'[u].inst = i /\ fop'[u].completed
                                             /\ fop'[u].pc \in {"returns", "callback", "delays", "complete"}
    BY DEF LastOneRemoves
  <2>1. PICK u \in FlipThreads : /\ fop[u].inst = i /\ fop[u].completed
                                 /\ fop[u].pc \in {"returns", "callback", "delays", "complete"}
    BY DEF FlipInv, LastOneRemoves
  <2>2. CASE u = t
    <3>1. x.pc = "complete" /\ x.completed /\ x.inst = i  BY <2>1, <2>2
    <3>2. QED  BY <1>2, <3>1
  <2>3. CASE u # t  BY <1>2, <2>1, <2>3
  <2>4. QED  BY <2>2, <2>3
<1>5. QED  BY <1>1, <1>2, <1>3, <1>4

\* The value is returned, the callback has run, the delay is about to be timed.
LEMMA PointInv ==
  ASSUME FlipInv, NEW t \in FlipThreads, TestReturns(t) \/ CallbackReturns(t) \/ DelayFlip(t)
  PROVE  FlipInv'
<1>1. fop[t] \in FlipPoints /\ UNCHANGED <<insts, listed, closures, entries>>
  BY DEF FlipInv, FlipTypeOK, TestReturns, CallbackReturns, DelayFlip
<1>2. /\ NotInFlip \in FlipPoints /\ NotInFlip.pc = "out"
      /\ \A p \in {"schedule", "complete"} :
           LET y == [fop[t] EXCEPT !.pc = p]
           IN  y \in FlipPoints /\ y.pc = p /\ y.inst = fop[t].inst /\ y.completed = fop[t].completed
  BY <1>1 DEF NotInFlip, FlipPoints, FlipPlaces
<1>3. PICK x \in FlipPoints :
        /\ fop' = [fop EXCEPT ![t] = x]
        /\ x.pc \in {"out", "schedule", "complete"} /\ (x.pc # "out" => x.inst = fop[t].inst)
        /\ fop[t].completed /\ fop[t].pc \in {"returns", "callback", "delays"} => x.pc = "complete" /\ x.completed
        /\ fop[t].pc \in FlipActions
  <2>1. CASE TestReturns(t)
    <3>1. fop[t].pc = "returns" /\ fop' = [fop EXCEPT ![t] = IF fop[t].completed THEN [fop[t] EXCEPT !.pc = "complete"] ELSE NotInFlip]
      BY <2>1 DEF TestReturns, AfterFlip
    <3>2. QED  BY <1>2, <3>1 DEF FlipActions
  <2>2. CASE CallbackReturns(t)
    <3>1. PICK ok \in BOOLEAN :
            /\ fop[t].pc \in {"callback", "get_callback"} /\ (fop[t].pc = "callback" => ok)
            /\ fop' = [fop EXCEPT ![t] = IF ok THEN (IF fop[t].completed THEN [fop[t] EXCEPT !.pc = "complete"] ELSE NotInFlip)
                                         ELSE NotInFlip]
      BY <2>2 DEF CallbackReturns, AfterFlip
    <3>2. QED  BY <1>2, <3>1 DEF FlipActions
  <2>3. CASE DelayFlip(t)
    <3>1. fop[t].pc = "delays" /\ fop' = [fop EXCEPT ![t] = IF fop[t].completed THEN [fop[t] EXCEPT !.pc = "complete"]
                                                             ELSE [fop[t] EXCEPT !.pc = "schedule"]]
      BY <2>3 DEF DelayFlip
    <3>2. QED  BY <1>2, <3>1 DEF FlipActions
  <2>4. QED  BY <2>1, <2>2, <2>3
<1>4. fop[t].pc \notin {"out", "hit", "count", "complete"}  BY <1>3 DEF FlipActions
<1>5. /\ FlipCounts' /\ LastOneRemoves' /\ fop' \in [FlipThreads -> FlipPoints]
      /\ \A u \in FlipThreads : fop'[u].pc # "out" => fop'[u].inst \in 1 .. Len(insts)
  BY <1>1, <1>3, <1>4, PointActs
<1>6. QED  BY <1>1, <1>5 DEF FlipInv, FlipTypeOK, TimersTracked

\* The timer is made and is on the map.
LEMMA ScheduleTimerInv ==
  ASSUME FlipInv, NEW t \in FlipThreads, ScheduleTimer(t)
  PROVE  FlipInv'
<1>1. /\ fop[t].pc = "schedule" /\ fop' = [fop EXCEPT ![t] = NotInFlip] /\ UNCHANGED <<insts, listed>>
      /\ closures' = Append(closures, [at |-> "pending", cancelled |-> FALSE])
      /\ entries' = entries \cup {Len(closures')}
  BY DEF ScheduleTimer
<1>2. NotInFlip \in FlipPoints /\ NotInFlip.pc = "out"  BY DEF NotInFlip, FlipPoints, FlipPlaces
<1>3. /\ FlipCounts' /\ LastOneRemoves' /\ fop' \in [FlipThreads -> FlipPoints]
      /\ \A u \in FlipThreads : fop'[u].pc # "out" => fop'[u].inst \in 1 .. Len(insts)
  BY <1>1, <1>2, PointActs
<1>4. closures \in Seq(Closures) /\ [at |-> "pending", cancelled |-> FALSE] \in Closures
  BY DEF FlipInv, FlipTypeOK, Closures
<1>5. /\ closures' \in Seq(Closures) /\ Len(closures) \in Nat /\ Len(closures') = Len(closures) + 1
      /\ DOMAIN closures = 1 .. Len(closures) /\ DOMAIN closures' = 1 .. Len(closures) + 1
      /\ closures'[Len(closures) + 1] = [at |-> "pending", cancelled |-> FALSE]
      /\ \A c \in 1 .. Len(closures) : closures'[c] = closures[c]
  BY <1>1, <1>4, SMTT(30)
<1>6. TimersTracked'
  <2>1. entries = {c \in 1 .. Len(closures) : closures[c].at # "done" /\ ~closures[c].cancelled}
    BY <1>5 DEF FlipInv, TimersTracked
  <2>2. ASSUME NEW c
        PROVE  c \in entries' <=> c \in 1 .. Len(closures) + 1 /\ closures'[c].at # "done" /\ ~closures'[c].cancelled
    <3>1. CASE c = Len(closures) + 1  BY <1>1, <1>5, <2>1, <3>1, SMTT(30)
    <3>2. CASE c # Len(closures) + 1
      <4>1. c \in 1 .. Len(closures) + 1 <=> c \in 1 .. Len(closures)  BY <1>5, <3>2, SMTT(30)
      <4>2. QED  BY <1>1, <1>5, <2>1, <3>2, <4>1
    <3>3. QED  BY <3>1, <3>2
  <2>3. QED  BY <1>5, <2>2 DEF TimersTracked
<1>7. QED  BY <1>1, <1>3, <1>5, <1>6 DEF FlipInv, FlipTypeOK

\* The point that used the last execution takes the flip off, unless an execution
\* was counted since.
LEMMA CompleteFlipInv ==
  ASSUME FlipInv, NEW t \in FlipThreads, CompleteFlip(t)
  PROVE  FlipInv'
<1>1. PICK i : i = fop[t].inst  OBVIOUS
<1>2. /\ fop[t].pc = "complete" /\ UNCHANGED <<insts, closures, entries>>
      /\ listed' = IF insts[i].remain = 0 THEN <<>> ELSE listed
      /\ fop' = [fop EXCEPT ![t] = IF insts[i].spec.action = "delays"
                                   THEN [fop[t] EXCEPT !.pc = "schedule"] ELSE NotInFlip]
  BY <1>1 DEF CompleteFlip
<1>3. /\ fop \in [FlipThreads -> FlipPoints] /\ fop[t] \in FlipPoints /\ i \in 1 .. Len(insts)
      /\ listed \in Seq(Nat) /\ \A k \in 1 .. Len(listed) : listed[k] \in 1 .. Len(insts)
  BY <1>1, <1>2 DEF FlipInv, FlipTypeOK
<1>4. PICK x \in FlipPoints : /\ fop' = [fop EXCEPT ![t] = x] /\ x.pc \in {"out", "schedule"}
                              /\ x.pc # "out" => x.inst = i
  <2>1. [fop[t] EXCEPT !.pc = "schedule"] \in FlipPoints /\ NotInFlip \in FlipPoints
    BY <1>3 DEF FlipPoints, FlipPlaces, NotInFlip
  <2>2. QED  BY <1>1, <1>2, <1>3, <2>1 DEF FlipPoints, NotInFlip
<1>5. fop'[t] = x /\ \A u \in FlipThreads : u # t => fop'[u] = fop[u]
  BY <1>3, <1>4
<1>6. FlipTypeOK'
  <2>1. listed' \in Seq(Nat) /\ \A k \in 1 .. Len(listed') : listed'[k] \in 1 .. Len(insts)
    <3>1. CASE insts[i].remain = 0
      <4>1. listed' = <<>> /\ Len(listed') = 0  BY <1>2, <3>1
      <4>2. QED  BY <4>1, SMTT(30)
    <3>2. CASE insts[i].remain # 0  BY <1>2, <1>3, <3>2
    <3>3. QED  BY <3>1, <3>2
  <2>2. \A u \in FlipThreads : fop'[u].pc # "out" => fop'[u].inst \in 1 .. Len(insts)
    BY <1>3, <1>4, <1>5 DEF FlipInv, FlipTypeOK
  <2>3. QED  BY <1>2, <1>3, <1>4, <2>1, <2>2 DEF FlipInv, FlipTypeOK
<1>7. FlipCounts'
  BY <1>2, <1>4, SameCounting, CountsStay DEF FlipInv
<1>8. LastOneRemoves'
  <2> SUFFICES ASSUME NEW j \in 1 .. Len(insts), j \in Range(listed'), insts[j].remain = 0,
                      insts[j].spec.count > 0, insts[j].spec.action # "get_callback"
               PROVE  \E u \in FlipThreads : /\ fop'[u].inst = j /\ fop'[u].completed
                                             /\ fop'[u].pc \in {"returns", "callback", "delays", "complete"}
    BY <1>2 DEF LastOneRemoves
  <2>1. insts[i].remain # 0 /\ listed' = listed
    <3>1. CASE insts[i].remain = 0
      <4>1. Range(listed') = {}  BY <1>2, <3>1, SMTT(30) DEF Range
      <4>2. QED  BY <4>1
    <3>2. QED  BY <1>2, <3>1
  <2>2. PICK u \in FlipThreads : /\ fop[u].inst = j /\ fop[u].completed
                                 /\ fop[u].pc \in {"returns", "callback", "delays", "complete"}
    BY <2>1 DEF FlipInv, LastOneRemoves
  <2>3. u # t  BY <1>1, <2>1, <2>2
  <2>4. QED  BY <1>5, <2>2, <2>3
<1>9. QED  BY <1>2, <1>6, <1>7, <1>8 DEF FlipInv, TimersTracked

LEMMA TimerInv ==
  ASSUME FlipInv, NEW c \in DOMAIN closures, TimerFires(c) \/ RemoveTimer(c)
  PROVE  FlipInv'
<1>1. UNCHANGED <<insts, listed, fop>>
  BY DEF TimerFires, RemoveTimer
<1>2. closures \in Seq(Closures) /\ closures[c] \in Closures
  BY SMTT(30) DEF FlipInv, FlipTypeOK
<1>3. PICK x \in Closures : /\ closures' = [closures EXCEPT ![c] = x] /\ x.cancelled = closures[c].cancelled
                            /\ \/ x.at = "ran" /\ closures[c].at # "done" /\ entries' = entries
                               \/ x.at = "done" /\ entries' = entries \ {c}
  <2>1. ASSUME NEW a \in {"ran", "done"}
        PROVE  LET y == [closures[c] EXCEPT !.at = a] IN y \in Closures /\ y.at = a /\ y.cancelled = closures[c].cancelled
    BY <1>2 DEF Closures
  <2>2. CASE TimerFires(c)
    <3>1. /\ closures' = [closures EXCEPT ![c] = [closures[c] EXCEPT !.at = "ran"]]
          /\ closures[c].at = "pending" /\ entries' = entries
      BY <2>2 DEF TimerFires
    <3>2. QED  BY <2>1, <3>1
  <2>3. CASE RemoveTimer(c)
    <3>1. /\ closures' = [closures EXCEPT ![c] = [closures[c] EXCEPT !.at = "done"]] /\ entries' = entries \ {c}
      BY <2>3 DEF RemoveTimer
    <3>2. QED  BY <2>1, <3>1
  <2>4. QED  BY <2>2, <2>3
<1>4. /\ closures' \in Seq(Closures) /\ DOMAIN closures' = DOMAIN closures /\ closures'[c] = x
      /\ \A d \in DOMAIN closures : d # c => closures'[d] = closures[d]
  BY <1>2, <1>3, SMTT(30)
<1>5. FlipTypeOK'
  BY <1>1, <1>4 DEF FlipInv, FlipTypeOK
<1>6. FlipCounts'
  <2>1. \A i : Counting(i)' = Counting(i)  BY <1>1 DEF Counting
  <2>2. QED  BY <1>1, <2>1, CountsStay
<1>7. LastOneRemoves'
  BY <1>1 DEF FlipInv, LastOneRemoves
<1>8. TimersTracked'
  <2>1. entries = {d \in DOMAIN closures : closures[d].at # "done" /\ ~closures[d].cancelled}
    BY DEF FlipInv, TimersTracked
  <2>2. entries' = {d \in DOMAIN closures : closures'[d].at # "done" /\ ~closures'[d].cancelled}
    BY <1>3, <1>4, <2>1
  <2>3. QED  BY <1>4, <2>2 DEF TimersTracked
<1>9. QED  BY <1>5, <1>6, <1>7, <1>8 DEF FlipInv

(* Fault injection, for any threads and flips: however injection points, removals
   and timers overlap, a flip fires as often as its frequency says, is gone when
   it is used up, and no timer is left behind or lost.                        *)
THEOREM FlipsHold == FlipSpec => []FlipsSound
<1>1. FlipInv /\ [FlipNext]_flipVars => FlipInv'
  <2> SUFFICES ASSUME FlipInv, [FlipNext]_flipVars PROVE FlipInv'  OBVIOUS
  <2>1. CASE UNCHANGED flipVars
    <3>1. \A i : Counting(i)' = Counting(i)  BY <2>1 DEF flipVars, Counting
    <3>2. FlipCounts'  BY <2>1, <3>1, CountsStay DEF flipVars
    <3>3. QED  BY <2>1, <3>2 DEF flipVars, FlipInv, FlipTypeOK, LastOneRemoves, TimersTracked
  <2>2. CASE \E s \in FlipSpecs : AddFlip(s)
    BY <2>2, AddFlipInv
  <2>3. ASSUME NEW t \in FlipThreads,
               \/ RemoveFlip(t) \/ MatchFlip(t) \/ HandleHits(t) \/ CountExecution(t)
               \/ TestReturns(t) \/ CallbackReturns(t) \/ DelayFlip(t) \/ ScheduleTimer(t) \/ CompleteFlip(t)
        PROVE  FlipInv'
    BY <2>3, RemoveFlipInv, MatchFlipInv, HandleHitsInv, CountExecutionInv, PointInv,
       ScheduleTimerInv, CompleteFlipInv
  <2>4. CASE \E c \in DOMAIN closures : TimerFires(c) \/ RemoveTimer(c)
    BY <2>4, TimerInv
  <2>5. QED  BY <2>1, <2>2, <2>3, <2>4 DEF FlipNext
<1>2. QED  BY <1>1, FlipInitInv, FlipInvSound, PTL DEF FlipSpec
===============================================================================
