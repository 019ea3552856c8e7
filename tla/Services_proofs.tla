--------------------------- MODULE Services_proofs ----------------------------
(* Proofs about the services of the library, for any number of threads.       *)
EXTENDS FlushCache, FileWatcher, SObject, Settings, FiniteSetTheorems, TLAPS

\* The provers of a leaf that names none, and how long each may take.
USE ZenonT(40), SMTT(20)

(* A set of numbers that is not empty has a least one, which Min is.       *)
LEMMA NatMin ==
    ASSUME NEW S \in SUBSET Nat, S # {}
    PROVE  Min(S) \in S /\ \A y \in S : Min(S) <= y
<1>1. PICK x \in S : \A y \in S : ~(<<y, x>> \in OpToRel(<, Nat))
  BY WFMin, NatLessThanWellFounded
<1>2. \A y \in S : x <= y
  <2>1. ASSUME NEW y \in S, y < x PROVE FALSE
    <3>1. <<y, x>> \in {ss \in Nat \X Nat : ss[1] < ss[2]}
      BY <2>1
    <3>2. QED  BY <1>1, <3>1 DEF OpToRel
  <2>2. QED  BY <2>1, SMTT(30)
<1>3. QED  BY <1>2 DEF Min

(* flush_core_cache.  The count is the number of signals that are pending,    *)
(* being handled or about to be sent; a thread that was signalled has fenced  *)
(* unless its signal is pending.                                              *)
FlushPlaces == {"idle", "count", "counting", "signal", "wait", "done"}

FlushTypeOK ==
  /\ outstanding_flush \in Int
  /\ running \subseteq FlushThreads /\ pending \subseteq FlushThreads /\ handler \subseteq FlushThreads
  /\ fl \in [Flushers -> [at : FlushPlaces, todo : SUBSET FlushThreads,
                          cur : FlushThreads \cup {Nobody}, due : SUBSET FlushThreads,
                          fenced : SUBSET FlushThreads]]

About(g) == IF fl[g].at = "signal" THEN 1 ELSE 0

FlushInv(g) ==
  /\ FlushTypeOK
  /\ outstanding_flush = Cardinality(pending) + Cardinality(handler) + About(g)
  /\ pending \cap handler = {}
  /\ pending \cup handler \subseteq fl[g].due
  /\ fl[g].due \subseteq fl[g].fenced \cup pending
  /\ fl[g].due \cap fl[g].todo = {}
  /\ fl[g].at \in {"count", "counting", "signal"} => fl[g].todo \subseteq running
  /\ fl[g].at \in {"counting", "signal"} =>
       fl[g].cur \in running /\ fl[g].cur \notin fl[g].due \cup fl[g].todo
  /\ fl[g].at \in {"idle", "done"} => pending = {} /\ handler = {}

LEMMA FlushCounts ==
  ASSUME FlushTypeOK
  PROVE  /\ IsFiniteSet(pending) /\ Cardinality(pending) \in Nat
         /\ IsFiniteSet(handler) /\ Cardinality(handler) \in Nat
         /\ Cardinality(pending) = 0 <=> pending = {}
         /\ Cardinality(handler) = 0 <=> handler = {}
<1>1. IsFiniteSet(pending) /\ IsFiniteSet(handler)
  BY FlushAssumption, FS_Subset DEF FlushTypeOK
<1>2. QED  BY <1>1, FS_CardinalityType, FS_EmptySet

LEMMA FlushInitInv == ASSUME NEW g, Flushers = {g}, FlushInit PROVE FlushInv(g)
<1>1. FlushTypeOK
  BY FlushAssumption, SMTT(30) DEF FlushInit, FlushTypeOK, NoFlush, FlushPlaces
<1>2. fl[g] = NoFlush
  BY DEF FlushInit
<1>3. Cardinality(pending) = 0 /\ Cardinality(handler) = 0
  BY <1>1, FlushCounts DEF FlushInit
<1>4. QED  BY <1>1, <1>2, <1>3, SMTT(30) DEF FlushInit, FlushInv, NoFlush, About

(* A step of the caller.                                                      *)
LEMMA CallerInv ==
  ASSUME NEW g, Flushers = {g}, FlushInv(g),
         \/ FlushStart(g) \/ CountLock(g) \/ CountOne(g) \/ SendSignal(g)
         \/ FlushWait(g) \/ FlushDone(g) \/ FlushEnd(g)
  PROVE  FlushInv(g)'
<1>1. FlushTypeOK /\ g \in Flushers
  BY DEF FlushInv
<1> USE FlushAssumption
<1>2. CASE FlushStart(g)
  <2>1. /\ fl'[g] = [at |-> "count", todo |-> running, cur |-> Nobody, due |-> {}, fenced |-> {}]
        /\ outstanding_flush' = 0 /\ UNCHANGED <<running, pending, handler>>
        /\ pending = {} /\ handler = {}
    BY <1>1, <1>2 DEF FlushStart, At, FlushTypeOK, FlushInv, NoFlush
  <2>2. FlushTypeOK'
    <3>1. [NoFlush EXCEPT !.at = "count", !.todo = running] \in
            [at : FlushPlaces, todo : SUBSET FlushThreads, cur : FlushThreads \cup {Nobody},
             due : SUBSET FlushThreads, fenced : SUBSET FlushThreads]
      BY <1>1 DEF NoFlush, FlushPlaces, FlushTypeOK
    <3>2. QED  BY <1>1, <1>2, <3>1, SMTT(30) DEF FlushStart, FlushTypeOK
  <2>3. Cardinality(pending) = 0 /\ Cardinality(handler) = 0
    BY <1>1, <2>1, FlushCounts
  <2>4. QED  BY <2>1, <2>2, <2>3, SMTT(30) DEF FlushInv, About
<1>3. CASE CountLock(g)
  <2>1. PICK t \in fl[g].todo :
          fl' = [fl EXCEPT ![g].at = "counting", ![g].cur = t, ![g].todo = @ \ {t}]
    BY <1>3 DEF CountLock
  <2>2. /\ fl[g].at = "count" /\ fl'[g].at = "counting" /\ fl'[g].cur = t
        /\ fl'[g].todo = fl[g].todo \ {t} /\ fl'[g].due = fl[g].due /\ fl'[g].fenced = fl[g].fenced
        /\ UNCHANGED <<outstanding_flush, running, pending, handler>>
    <3>1. fl[g].at = "count" /\ UNCHANGED <<outstanding_flush, running, pending, handler>>
      BY <1>3 DEF CountLock, At
    <3>2. fl'[g].at = "counting" /\ fl'[g].due = fl[g].due /\ fl'[g].fenced = fl[g].fenced
      BY <1>1, <2>1 DEF FlushTypeOK
    <3>3. fl'[g].cur = t
      BY <1>1, <2>1 DEF FlushTypeOK
    <3>4. fl'[g].todo = fl[g].todo \ {t}
      BY <1>1, <2>1 DEF FlushTypeOK
    <3>5. QED  BY <3>1, <3>2, <3>3, <3>4
  <2>3. FlushTypeOK'
    BY <1>1, <2>1, <2>2, SMTT(30) DEF FlushTypeOK, FlushPlaces
  <2>4. QED  BY <2>2, <2>3 DEF FlushInv, About
<1>4. CASE CountOne(g)
  <2>1. /\ fl[g].at = "counting" /\ fl'[g] = [fl[g] EXCEPT !.at = "signal"]
        /\ outstanding_flush' = outstanding_flush + 1
        /\ UNCHANGED <<running, pending, handler>>
    BY <1>1, <1>4 DEF CountOne, At, FlushTypeOK
  <2>2. FlushTypeOK'
    BY <1>1, <1>4, SMTT(30) DEF CountOne, FlushTypeOK, FlushPlaces
  <2>3. /\ fl'[g].at = "signal" /\ fl'[g].cur = fl[g].cur /\ fl'[g].todo = fl[g].todo
        /\ fl'[g].due = fl[g].due /\ fl'[g].fenced = fl[g].fenced
    BY <1>1, <2>1 DEF FlushTypeOK
  <2>4. outstanding_flush' = Cardinality(pending') + Cardinality(handler') + About(g)'
    BY <1>1, <2>1, <2>3, FlushCounts, SMTT(30) DEF FlushInv, About
  <2>5. QED  BY <2>1, <2>2, <2>3, <2>4 DEF FlushInv
<1>5. CASE SendSignal(g)
  <2>1. /\ fl[g].at = "signal" /\ fl[g].cur \in running
        /\ fl[g].cur \notin fl[g].due \cup fl[g].todo
    BY <1>5 DEF SendSignal, At, FlushInv
  <2>2. /\ pending' = pending \cup {fl[g].cur} /\ UNCHANGED <<outstanding_flush, running, handler>>
        /\ fl' = [fl EXCEPT ![g].at = "count", ![g].due = @ \cup {fl[g].cur}]
    BY <1>5, <2>1 DEF SendSignal
  <2>3. /\ fl'[g].at = "count" /\ fl'[g].todo = fl[g].todo
        /\ fl'[g].due = fl[g].due \cup {fl[g].cur} /\ fl'[g].fenced = fl[g].fenced
    BY <1>1, <2>2 DEF FlushTypeOK
  <2>4. FlushTypeOK'
    BY <1>1, <2>1, <2>2, SMTT(30) DEF FlushTypeOK, FlushPlaces
  <2>5. fl[g].cur \notin pending /\ fl[g].cur \notin handler
    BY <2>1 DEF FlushInv
  <2>6. Cardinality(pending') = Cardinality(pending) + 1
    BY <1>1, <2>2, <2>5, FlushCounts, FS_AddElement
  <2>7. outstanding_flush' = Cardinality(pending') + Cardinality(handler') + About(g)'
    BY <1>1, <2>1, <2>2, <2>3, <2>6, FlushCounts, SMTT(30) DEF FlushInv, About
  <2>8. QED  BY <2>1, <2>2, <2>3, <2>4, <2>5, <2>7 DEF FlushInv
<1>6. CASE FlushWait(g) \/ FlushDone(g)
  <2>1. /\ UNCHANGED <<outstanding_flush, running, pending, handler>>
        /\ \/ fl[g].at = "count" /\ fl' = [fl EXCEPT ![g].at = "wait"]
           \/ fl[g].at = "wait" /\ outstanding_flush = 0 /\ fl' = [fl EXCEPT ![g].at = "done"]
    BY <1>6 DEF FlushWait, FlushDone, At
  <2>2. FlushTypeOK'
    BY <1>1, <2>1, SMTT(30) DEF FlushTypeOK, FlushPlaces
  <2>3. /\ fl'[g].at \in {"wait", "done"} /\ fl'[g].todo = fl[g].todo
        /\ fl'[g].due = fl[g].due /\ fl'[g].fenced = fl[g].fenced
    BY <1>1, <2>1 DEF FlushTypeOK
  <2>4. fl'[g].at = "done" => pending = {} /\ handler = {}
    BY <1>1, <2>1, FlushCounts, SMTT(30) DEF FlushInv, About, FlushTypeOK
  <2>5. About(g)' = About(g)
    BY <2>1, <2>3 DEF About
  <2>6. QED  BY <2>1, <2>2, <2>3, <2>4, <2>5 DEF FlushInv
<1>7. CASE FlushEnd(g)
  <2>1. /\ fl[g].at = "done" /\ fl'[g] = NoFlush
        /\ UNCHANGED <<outstanding_flush, running, pending, handler>>
    BY <1>1, <1>7 DEF FlushEnd, At, FlushTypeOK
  <2>2. FlushTypeOK'
    BY <1>1, <1>7 DEF FlushEnd, FlushTypeOK, NoFlush, FlushPlaces
  <2>3. pending = {} /\ handler = {}
    BY <2>1 DEF FlushInv
  <2>4. About(g)' = About(g)
    BY <2>1, SMTT(30) DEF About, NoFlush
  <2>5. QED  BY <2>1, <2>2, <2>3, <2>4, SMTT(30) DEF FlushInv, NoFlush
<1>8. QED  BY <1>2, <1>3, <1>4, <1>5, <1>6, <1>7

(* A handler's step, and threads that come and go.                            *)
LEMMA HandlerInv ==
  ASSUME NEW g, Flushers = {g}, FlushInv(g), NEW t \in FlushThreads,
         HandlerFence(t) \/ HandlerCount(t) \/ FlushThreadDetach(t) \/ FlushThreadAttach(t)
  PROVE  FlushInv(g)'
<1>1. FlushTypeOK /\ g \in Flushers
  BY DEF FlushInv
<1> USE FlushAssumption
<1>2. CASE HandlerFence(t)
  <2>1. /\ t \in pending /\ pending' = pending \ {t} /\ handler' = handler \cup {t}
        /\ t \notin handler /\ fl' = Fences(t) /\ UNCHANGED <<outstanding_flush, running>>
    BY <1>2 DEF HandlerFence
  <2>2. fl'[g] = [fl[g] EXCEPT !.fenced = @ \cup {t}]
    BY <1>1, <2>1 DEF Fences
  <2>3. /\ fl'[g].at = fl[g].at /\ fl'[g].todo = fl[g].todo /\ fl'[g].cur = fl[g].cur
        /\ fl'[g].due = fl[g].due /\ fl'[g].fenced = fl[g].fenced \cup {t}
    BY <1>1, <2>2 DEF FlushTypeOK
  <2>4. FlushTypeOK'
    BY <1>1, <2>1, SMTT(30) DEF FlushTypeOK, Fences
  <2>5. /\ Cardinality(pending') = Cardinality(pending) - 1
        /\ Cardinality(handler') = Cardinality(handler) + 1
    BY <1>1, <2>1, FlushCounts, FS_AddElement, FS_RemoveElement
  <2>6. outstanding_flush' = Cardinality(pending') + Cardinality(handler') + About(g)'
    BY <1>1, <2>1, <2>3, <2>5, FlushCounts, SMTT(30) DEF FlushInv, About
  <2>7. QED  BY <2>1, <2>3, <2>4, <2>6 DEF FlushInv
<1>3. CASE HandlerCount(t)
  <2>1. /\ t \in handler /\ handler' = handler \ {t}
        /\ outstanding_flush' = outstanding_flush - 1 /\ UNCHANGED <<running, pending, fl>>
    BY <1>3 DEF HandlerCount
  <2>2. FlushTypeOK'
    BY <1>1, <2>1, SMTT(30) DEF FlushTypeOK
  <2>3. Cardinality(handler') = Cardinality(handler) - 1
    BY <1>1, <2>1, FlushCounts, FS_RemoveElement
  <2>4. outstanding_flush' = Cardinality(pending') + Cardinality(handler') + About(g)'
    BY <1>1, <2>1, <2>3, FlushCounts, SMTT(30) DEF FlushInv, About
  <2>5. QED  BY <2>1, <2>2, <2>4 DEF FlushInv
<1>4. CASE FlushThreadDetach(t) \/ FlushThreadAttach(t)
  <2>1. /\ Walking = {} /\ running' \subseteq FlushThreads
        /\ UNCHANGED <<outstanding_flush, pending, handler, fl>>
    BY <1>1, <1>4 DEF FlushThreadDetach, FlushThreadAttach, FlushTypeOK
  <2>2. fl[g].at \notin {"count", "counting", "signal"}
    BY <1>1, <2>1 DEF Walking
  <2>3. FlushTypeOK' /\ About(g)' = About(g)
    BY <1>1, <2>1 DEF FlushTypeOK, About
  <2>4. QED  BY <2>1, <2>2, <2>3 DEF FlushInv
<1>5. QED  BY <1>2, <1>3, <1>4

(* For any set of threads that come and go: when one thread gathers,
   flush_core_cache returns only after every thread it signalled has fenced,
   and outstanding_flush is back at 0 when no handler is left to count it down.
   With two threads that gather at once the plain store of 0 at its beginning
   would lose the other's signals.                                            *)
THEOREM FlushHolds ==
  ASSUME NEW g, Flushers = {g}
  PROVE  FlushSpec => []FlushSound
<1>1. FlushInit => FlushInv(g)
  BY FlushInitInv
<1>2. FlushInv(g) /\ [FlushNext]_flushVars => FlushInv(g)'
  <2> SUFFICES ASSUME FlushInv(g), [FlushNext]_flushVars PROVE FlushInv(g)'  OBVIOUS
  <2>1. CASE UNCHANGED flushVars
    BY <2>1 DEF flushVars, FlushInv, FlushTypeOK, About
  <2>2. CASE FlushNext
    BY <2>2, CallerInv, HandlerInv DEF FlushNext
  <2>3. QED  BY <2>1, <2>2
<1>3. FlushInv(g) => FlushSound
  <2> SUFFICES ASSUME FlushInv(g) PROVE FlushSound  OBVIOUS
  <2>1. FencedBeforeReturn
    BY DEF FlushInv, FencedBeforeReturn
  <2>2. ASSUME pending = {}, handler = {}, Walking = {} PROVE outstanding_flush = 0
    <3>1. fl[g].at # "signal"
      BY <2>2 DEF Walking
    <3>2. QED  BY <2>2, <3>1, FlushCounts, SMTT(30) DEF FlushInv, About
  <2>3. QED  BY <2>1, <2>2 DEF FlushSound, FlushNotStuck
<1>4. QED  BY <1>1, <1>2, <1>3, PTL DEF FlushSpec

------------------------------------------------------------------------------
(* FileWatcher.  A watch number is never given out twice, so an event being   *)
(* handled for the watch there is was taken for the entry there is.  Contents *)
(* that are not recorded yet are announced by an event that is queued or      *)
(* being handled.                                                             *)
Kinds == {"close_write", "delete_self"}
Entries == [wd : Nat, contents : Nat, handlers : SUBSET Listeners, gap : BOOLEAN]
Registers == [pc : {"idle", "watch", "insert"}, contents : Nat, wd : Nat, gap : BOOLEAN]
Events == [pc : Kinds \cup {"poll", "notify", "record"}, wd : Nat, info : Entries,
           late : SUBSET Listeners, seen : Nat]

FileTypeOK ==
  /\ written \in Nat /\ disk \in 0 .. written
  /\ wds \in Nat /\ watch \in 0 .. wds
  /\ queue \in Seq([wd : Nat, kind : Kinds])
  /\ m_files \in Entries
  /\ cop \in [Listeners -> Registers]
  /\ ev \in Events
  /\ known \in [Listeners -> Nat]

\* No watch and no contents come from the future.
NotAhead ==
  /\ \A i \in 1 .. Len(queue) : queue[i].wd \in 1 .. wds
  /\ m_files.wd <= wds /\ m_files.contents <= written
  /\ ev.wd <= wds /\ ev.info.contents <= written /\ ev.seen <= written
  /\ \A l \in Listeners : /\ cop[l].wd <= wds /\ cop[l].contents <= written
                          /\ cop[l].pc = "insert" => cop[l].wd # 0

InfoShape ==
  /\ m_files.wd = 0 => m_files.handlers = {}
  /\ ev.info.wd = 0 => ev.info.handlers = {}
  /\ ev.info.wd # 0 => ev.info.wd = ev.wd
  /\ ev.pc = "poll" => ev.info.wd = 0
  /\ ev.pc \in {"notify", "record"} => ev.info.wd # 0

\* A registration under way carries the contents of the file unless it has
\* noted that the file was written.
Registering ==
  \A l \in Listeners : cop[l].pc # "idle" =>
    /\ l \notin m_files.handlers
    /\ l \notin ev.late => l \notin ev.info.handlers /\ known[l] = cop[l].contents
    /\ ~cop[l].gap /\ disk # 0 => cop[l].contents = disk

\* The event being handled is one of the watch there is, and has an entry.
Current == ev.wd # 0 /\ ev.wd = watch /\ ev.info.wd # 0

SameEntry ==
  /\ Current => /\ m_files.wd = watch /\ m_files.contents = ev.info.contents
                /\ ev.info.handlers \subseteq m_files.handlers
                /\ m_files.handlers \subseteq ev.info.handlers \cup ev.late
  /\ \A l \in (ev.info.handlers \cap m_files.handlers) \ ev.late : m_files.wd = ev.wd

Announced == \E i \in 1 .. Len(queue) : queue[i] = [wd |-> watch, kind |-> "close_write"]

Calling ==
  /\ ev.pc \in {"notify", "record"} /\ Current =>
       ev.info.contents # disk /\ (disk # 0 => ev.seen = disk \/ Announced)
  /\ ev.pc = "record" /\ Current => \A l \in ev.info.handlers \ ev.late : known[l] = ev.seen

Working ==
  /\ Current
  /\ \/ ev.pc = "close_write" /\ ev.info.contents # disk
     \/ ev.pc = "notify" /\ ev.seen = disk
Recording == Current /\ ev.pc = "record" /\ ev.seen = disk

Watched == m_files.wd # 0 /\ m_files.wd = watch /\ disk # 0 /\ ~m_files.gap

Following ==
  Watched =>
    /\ m_files.contents = disk \/ Announced \/ Working \/ Recording
    /\ \A l \in m_files.handlers \ ev.late :
         /\ known[l] = disk \/ Announced \/ Working
         /\ m_files.contents = disk => known[l] = disk

FileInv ==
  FileTypeOK /\ NotAhead /\ InfoShape /\ Registering /\ SameEntry /\ Calling /\ Following

LEMMA FileInitInv == FileInit => FileInv
<1> SUFFICES ASSUME FileInit PROVE FileInv
  OBVIOUS
<1>1. NoFile \in Entries /\ NoRegister \in Registers
  BY DEF NoFile, Entries, NoRegister, Registers
<1>2. FileTypeOK
  BY <1>1, SMTT(30) DEF FileInit, FileTypeOK, NoEvent, Events
<1>3. NotAhead /\ InfoShape /\ Registering /\ SameEntry
  BY SMTT(30)
     DEF FileInit, NotAhead, InfoShape, Registering, SameEntry, Current, NoEvent, NoFile, NoRegister
<1>4. Calling /\ Following
  BY DEF FileInit, Calling, Current, Following, Watched, NoEvent, NoFile
<1>5. QED  BY <1>2, <1>3, <1>4 DEF FileInv

LEMMA FileInvFollowed == FileInv => FileFollowed
<1> SUFFICES ASSUME FileInv PROVE FileFollowed
  OBVIOUS
<1>1. CaughtUp => ~Announced /\ ~Working /\ ~Recording
  BY SMTT(30) DEF CaughtUp, Announced, Working, Recording
<1>2. QED  BY <1>1 DEF FileInv, Following, Watched, FileFollowed, ContentsFollow, ListenersTold

(* What inotify's queue holds after a write or a deletion.                    *)
LEMMA QueuedFacts ==
  ASSUME FileTypeOK, NotAhead, NEW kind \in Kinds
  PROVE  /\ FileQueued(kind) \in Seq([wd : Nat, kind : Kinds])
         /\ \A i \in 1 .. Len(FileQueued(kind)) : FileQueued(kind)[i].wd \in 1 .. wds
         /\ watch # 0 => \E i \in 1 .. Len(FileQueued(kind)) :
                           FileQueued(kind)[i] = [wd |-> watch, kind |-> kind]
<1> DEFINE e == [wd |-> watch, kind |-> kind]
           q == Append(queue, e)
<1>1. e \in [wd : Nat, kind : Kinds] /\ e.wd = watch
  BY SMTT(30) DEF FileTypeOK
<1>2. CASE watch = 0
  BY <1>2 DEF FileQueued, FileTypeOK, NotAhead
<1>3. CASE watch # 0 /\ queue # <<>> /\ queue[Len(queue)] = e
  <2>1. FileQueued(kind) = queue /\ Len(queue) \in 1 .. Len(queue)
    BY <1>3, SMTT(30) DEF FileQueued, FileTypeOK
  <2>2. QED  BY <2>1, <1>3 DEF FileTypeOK, NotAhead
<1>4. CASE watch # 0 /\ ~(queue # <<>> /\ queue[Len(queue)] = e)
  <2>1. FileQueued(kind) = q
    BY <1>4 DEF FileQueued
  <2>2. /\ q \in Seq([wd : Nat, kind : Kinds]) /\ Len(q) = Len(queue) + 1 /\ q[Len(queue) + 1] = e
        /\ \A i \in 1 .. Len(queue) : q[i] = queue[i]
    BY <1>1, SMTT(30) DEF FileTypeOK
  <2>3. QED  BY <2>1, <2>2, <1>1, <1>4, SMTT(30) DEF FileTypeOK, NotAhead
<1>5. QED  BY <1>2, <1>3, <1>4

LEMMA WriteFileInv == ASSUME FileInv, WriteFile PROVE FileInv'
<1> USE DEF FileInv
<1>1. /\ written' = written + 1 /\ disk' = written + 1 /\ queue' = FileQueued("close_write")
      /\ watch' = watch /\ wds' = wds /\ m_files' = m_files /\ ev' = ev /\ known' = known
  BY DEF WriteFile
<1>2. /\ queue' \in Seq([wd : Nat, kind : Kinds])
      /\ \A i \in 1 .. Len(queue') : queue'[i].wd \in 1 .. wds
      /\ watch # 0 => Announced'
  <2>1. "close_write" \in Kinds
    BY DEF Kinds
  <2>2. QED  BY <1>1, <2>1, QueuedFacts DEF Announced
<1>3. /\ cop' \in [Listeners -> Registers]
      /\ \A l \in Listeners : /\ cop'[l].pc = cop[l].pc /\ cop'[l].contents = cop[l].contents
                              /\ cop'[l].wd = cop[l].wd
                              /\ cop[l].pc # "idle" => cop'[l].gap
  <2>1. ASSUME NEW l \in Listeners
        PROVE  /\ cop'[l] \in Registers /\ cop'[l].pc = cop[l].pc
               /\ cop'[l].contents = cop[l].contents /\ cop'[l].wd = cop[l].wd
               /\ cop[l].pc # "idle" => cop'[l].gap
    <3>1. cop[l] \in Registers
      BY DEF FileTypeOK
    <3>2. PICK b \in BOOLEAN : b = (cop[l].gap \/ cop[l].pc # "idle")
      OBVIOUS
    <3>3. cop'[l] = [cop[l] EXCEPT !.gap = b]
      BY <3>2 DEF WriteFile
    <3>4. /\ cop'[l] \in Registers /\ cop'[l].pc = cop[l].pc
          /\ cop'[l].contents = cop[l].contents /\ cop'[l].wd = cop[l].wd /\ cop'[l].gap = b
      BY <3>1, <3>3 DEF Registers
    <3>5. QED  BY <3>2, <3>4
  <2>2. cop' = [l \in Listeners |-> cop'[l]]
    BY DEF WriteFile
  <2>3. QED  BY <2>1, <2>2
<1>4. FileTypeOK'
  BY <1>1, <1>2, <1>3, SMTT(30) DEF FileTypeOK
<1>5. NotAhead'
  BY <1>1, <1>2, <1>3, SMTT(30) DEF NotAhead, FileTypeOK, Entries, Events, Registers
<1>6. InfoShape' /\ SameEntry' /\ Registering'
  BY <1>1, <1>3 DEF InfoShape, SameEntry, Current, Registering
<1>7. m_files'.contents # disk' /\ ev'.info.contents # disk'
  BY <1>1, SMTT(30) DEF NotAhead, FileTypeOK, Entries, Events
<1>8. Calling'
  BY <1>1, <1>2, <1>7 DEF Calling, Current
<1>9. Following'
  BY <1>1, <1>2, <1>7 DEF Following, Watched
<1>10. QED  BY <1>4, <1>5, <1>6, <1>8, <1>9

LEMMA DeleteFileInv == ASSUME FileInv, DeleteFile PROVE FileInv'
<1> USE DEF FileInv
<1>1. /\ disk' = 0 /\ watch' = 0 /\ queue' = FileQueued("delete_self")
      /\ UNCHANGED <<written, wds, m_files, cop, ev, known>>
  BY DEF DeleteFile
<1>2. /\ queue' \in Seq([wd : Nat, kind : Kinds])
      /\ \A i \in 1 .. Len(queue') : queue'[i].wd \in 1 .. wds
  <2>1. "delete_self" \in Kinds
    BY DEF Kinds
  <2>2. QED  BY <1>1, <2>1, QueuedFacts
<1>3. FileTypeOK' /\ NotAhead'
  <2>1. 0 \in 0 .. written /\ 0 \in 0 .. wds
    BY SMTT(30) DEF FileTypeOK
  <2>2. QED  BY <1>1, <1>2, <2>1 DEF FileTypeOK, NotAhead
<1>4. ~Current' /\ ~Watched'
  BY <1>1 DEF Current, Watched
<1>5. InfoShape' /\ SameEntry' /\ Registering' /\ Calling' /\ Following'
  BY <1>1, <1>4 DEF InfoShape, SameEntry, Registering, Calling, Following
<1>6. QED  BY <1>3, <1>5

(* What a registration may change of an event: a listener that comes while it *)
(* is handled is late for it.                                                 *)
LEMMA LateFacts ==
  ASSUME ev \in Events, NEW l \in Listeners, ev' = Late(l)
  PROVE  /\ ev' \in Events
         /\ ev'.pc = ev.pc /\ ev'.wd = ev.wd /\ ev'.info = ev.info /\ ev'.seen = ev.seen
         /\ \A m \in Listeners \ {l} : m \in ev'.late <=> m \in ev.late
         /\ l \in ev'.late <=> ev.pc # "poll"
BY DEF Late, Events

LEMMA RegisterJoinInv == ASSUME FileInv, NEW l \in Listeners, RegisterJoin(l) PROVE FileInv'
<1> USE DEF FileInv
<1>1. /\ cop[l].pc = "idle" /\ l \notin m_files.handlers /\ disk # 0 /\ m_files.wd # 0
      /\ m_files' = [m_files EXCEPT !.handlers = @ \cup {l}]
      /\ known' = [known EXCEPT ![l] = disk] /\ ev' = Late(l)
      /\ UNCHANGED <<disk, written, watch, wds, queue, cop>>
  BY DEF RegisterJoin, check_file_size
<1>2. /\ ev' \in Events
      /\ ev'.pc = ev.pc /\ ev'.wd = ev.wd /\ ev'.info = ev.info /\ ev'.seen = ev.seen
      /\ \A m \in Listeners \ {l} : m \in ev'.late <=> m \in ev.late
      /\ l \in ev'.late <=> ev.pc # "poll"
  BY <1>1, LateFacts DEF FileTypeOK
<1>3. /\ m_files' \in Entries /\ m_files'.wd = m_files.wd /\ m_files'.contents = m_files.contents
      /\ m_files'.gap = m_files.gap /\ m_files'.handlers = m_files.handlers \cup {l}
      /\ m_files.handlers \subseteq Listeners /\ ev.info.handlers \subseteq Listeners
  BY <1>1 DEF FileTypeOK, Entries, Events
<1>4. /\ known' \in [Listeners -> Nat] /\ known'[l] = disk
      /\ \A m \in Listeners \ {l} : known'[m] = known[m]
  BY <1>1, SMTT(30) DEF FileTypeOK
<1>5. FileTypeOK' /\ NotAhead'
  BY <1>1, <1>2, <1>3, <1>4 DEF FileTypeOK, NotAhead
<1>6. InfoShape'
  BY <1>1, <1>2, <1>3 DEF InfoShape
<1>7. Registering'
  BY <1>1, <1>2, <1>3, <1>4 DEF Registering
<1>8. Current' = Current /\ (Current => l \in ev'.late)
  BY <1>1, <1>2 DEF Current, InfoShape
<1>9. SameEntry'
  BY <1>1, <1>2, <1>3, <1>8 DEF SameEntry, InfoShape
<1>10. Announced' = Announced /\ Working' = Working /\ Recording' = Recording /\ Watched' = Watched
  BY <1>1, <1>2, <1>3, <1>8 DEF Announced, Working, Recording, Watched
<1>11. Calling'
  BY <1>1, <1>2, <1>3, <1>4, <1>8, <1>10 DEF Calling, SameEntry
<1>12. Following'
  BY <1>1, <1>2, <1>3, <1>4, <1>10 DEF Following
<1>13. QED  BY <1>5, <1>6, <1>7, <1>9, <1>11, <1>12

LEMMA RegisterReadInv == ASSUME FileInv, NEW l \in Listeners, RegisterRead(l) PROVE FileInv'
<1> USE DEF FileInv
<1>1. /\ cop[l].pc = "idle" /\ disk # 0 /\ m_files.wd = 0
      /\ cop' = [cop EXCEPT ![l] = [NoRegister EXCEPT !.pc = "watch", !.contents = disk]]
      /\ known' = [known EXCEPT ![l] = disk] /\ ev' = Late(l)
      /\ UNCHANGED <<disk, written, watch, wds, queue, m_files>>
  BY DEF RegisterRead, check_file_size
<1>2. /\ ev' \in Events
      /\ ev'.pc = ev.pc /\ ev'.wd = ev.wd /\ ev'.info = ev.info /\ ev'.seen = ev.seen
      /\ \A m \in Listeners \ {l} : m \in ev'.late <=> m \in ev.late
      /\ l \in ev'.late <=> ev.pc # "poll"
  BY <1>1, LateFacts DEF FileTypeOK
<1>3. /\ cop' \in [Listeners -> Registers] /\ cop'[l].contents = disk /\ cop'[l].wd = 0
      /\ cop'[l].pc = "watch"
      /\ \A m \in Listeners \ {l} : cop'[m] = cop[m]
  <2> DEFINE r == [NoRegister EXCEPT !.pc = "watch", !.contents = disk]
  <2>1. r \in Registers /\ r.contents = disk /\ r.wd = 0 /\ r.pc = "watch"
    <3>1. disk \in Nat
      BY SMTT(30) DEF FileTypeOK
    <3>2. NoRegister \in Registers /\ NoRegister.wd = 0
      BY DEF NoRegister, Registers
    <3>3. QED  BY <3>1, <3>2 DEF Registers
  <2> HIDE DEF r
  <2>2. cop' = [cop EXCEPT ![l] = r]
    BY <1>1 DEF r
  <2>3. QED  BY <2>1, <2>2 DEF FileTypeOK
<1>4. /\ known' \in [Listeners -> Nat] /\ known'[l] = disk
      /\ \A m \in Listeners \ {l} : known'[m] = known[m]
  BY <1>1, SMTT(30) DEF FileTypeOK
<1>5. FileTypeOK' /\ NotAhead'
  BY <1>1, <1>2, <1>3, <1>4, SMTT(30) DEF FileTypeOK, NotAhead
<1>6. InfoShape' /\ m_files.handlers = {}
  BY <1>1, <1>2 DEF InfoShape
<1>7. Registering'
  BY <1>1, <1>2, <1>3, <1>4, <1>6 DEF Registering, InfoShape
<1>8. ~Current /\ ~Current' /\ ~Watched'
  BY <1>1, <1>2 DEF Current, SameEntry, Watched
<1>9. SameEntry' /\ Calling' /\ Following'
  BY <1>1, <1>6, <1>8 DEF SameEntry, Calling, Following
<1>10. QED  BY <1>5, <1>6, <1>7, <1>9

LEMMA RegisterWatchInv == ASSUME FileInv, NEW l \in Listeners, RegisterWatch(l) PROVE FileInv'
<1> USE DEF FileInv
<1>1. cop[l].pc = "watch" /\ UNCHANGED <<disk, written, queue, m_files, ev, known>>
  BY DEF RegisterWatch
<1>2. CASE disk = 0 \/ stopping = "ended"
  <2>1. cop' = [cop EXCEPT ![l] = NoRegister] /\ watch' = watch /\ wds' = wds
    BY <1>2 DEF RegisterWatch
  <2>2. NoRegister \in Registers /\ NoRegister.pc = "idle" /\ NoRegister.wd = 0 /\ NoRegister.contents = 0
    BY DEF NoRegister, Registers
  <2>3. FileTypeOK' /\ NotAhead'
    BY <1>1, <2>1, <2>2, SMTT(30) DEF FileTypeOK, NotAhead
  <2>4. InfoShape' /\ Registering' /\ SameEntry'
    BY <1>1, <2>1, <2>2 DEF InfoShape, Registering, SameEntry, Current, FileTypeOK
  <2>5. Calling' /\ Following'
    BY <1>1, <2>1 DEF Calling, Following, Current, Announced, Working, Recording, Watched
  <2>6. QED  BY <2>3, <2>4, <2>5
<1>3. CASE ~(disk = 0 \/ stopping = "ended")
  <2>1. /\ wds' = IF watch = 0 THEN wds + 1 ELSE wds
        /\ watch' = IF watch = 0 THEN wds' ELSE watch
        /\ cop' = [cop EXCEPT ![l].pc = "insert", ![l].wd = watch']
    BY <1>3 DEF RegisterWatch
  <2>2. /\ wds' \in Nat /\ wds <= wds' /\ watch' \in 0 .. wds'
        /\ watch' # 0 /\ (watch' # watch => watch' > wds)
    BY <2>1, SMTT(30) DEF FileTypeOK
  <2>3. /\ cop' \in [Listeners -> Registers]
        /\ \A m \in Listeners : /\ cop'[m].contents = cop[m].contents /\ cop'[m].gap = cop[m].gap
                                /\ (cop'[m].pc = "idle") = (cop[m].pc = "idle")
                                /\ \/ cop'[m].wd = watch' /\ cop'[m].pc = "insert"
                                   \/ cop'[m] = cop[m]
    <3>1. cop[l] \in Registers /\ watch' \in Nat
      BY <2>2, SMTT(30) DEF FileTypeOK
    <3> DEFINE r == [cop[l] EXCEPT !.pc = "insert", !.wd = watch']
    <3>2. /\ r \in Registers /\ r.contents = cop[l].contents /\ r.gap = cop[l].gap
          /\ r.pc = "insert" /\ r.wd = watch'
      BY <3>1 DEF Registers
    <3>3. cop' = [cop EXCEPT ![l] = r]
      BY <2>1, <3>1 DEF FileTypeOK
    <3> HIDE DEF r
    <3>4. QED  BY <1>1, <3>2, <3>3 DEF FileTypeOK
  <2>4. FileTypeOK'
    BY <1>1, <2>2, <2>3 DEF FileTypeOK
  <2>5. NotAhead'
    <3>1. wds \in Nat /\ m_files.wd \in Nat /\ ev.wd \in Nat
      BY DEF FileTypeOK, Entries, Events
    <3>2. \A i \in 1 .. Len(queue) : queue[i].wd \in 1 .. wds'
      BY <2>2, <3>1, SMTT(30) DEF NotAhead
    <3>3. \A m \in Listeners : /\ cop'[m].wd <= wds' /\ cop'[m].contents <= written
                               /\ cop'[m].pc = "insert" => cop'[m].wd # 0
      <4> TAKE m \in Listeners
      <4>1. cop[m].wd \in Nat /\ cop[m].wd <= wds
        BY DEF FileTypeOK, Registers, NotAhead
      <4>2. QED  BY <2>2, <2>3, <3>1, <4>1, SMTT(30) DEF NotAhead
    <3>4. QED  BY <1>1, <2>2, <3>1, <3>2, <3>3, SMTT(30) DEF NotAhead
  <2>6. InfoShape' /\ Registering'
    BY <1>1, <2>3 DEF InfoShape, Registering
  <2>7. CASE watch' = watch
    <3>1. /\ Current' = Current /\ Announced' = Announced /\ Working' = Working
          /\ Recording' = Recording /\ Watched' = Watched
      BY <1>1, <2>7 DEF Current, Announced, Working, Recording, Watched
    <3>2. SameEntry' /\ Calling' /\ Following'
      BY <1>1, <2>7, <3>1 DEF SameEntry, Calling, Following
    <3>3. QED  BY <2>4, <2>5, <2>6, <3>2
  <2>8. CASE watch' # watch
    <3>1. ~Current' /\ ~Watched'
      BY <1>1, <2>2, <2>8, SMTT(30) DEF Current, Watched, NotAhead, FileTypeOK, Entries, Events
    <3>2. SameEntry' /\ Calling' /\ Following'
      BY <1>1, <3>1 DEF SameEntry, Calling, Following
    <3>3. QED  BY <2>4, <2>5, <2>6, <3>2
  <2>9. QED  BY <2>7, <2>8
<1>4. QED  BY <1>2, <1>3

LEMMA RegisterInsertInv == ASSUME FileInv, NEW l \in Listeners, RegisterInsert(l) PROVE FileInv'
<1> USE DEF FileInv
<1>1. /\ cop[l].pc = "insert" /\ cop' = [cop EXCEPT ![l] = NoRegister]
      /\ UNCHANGED <<disk, written, watch, wds, queue, ev, known>>
  BY DEF RegisterInsert
<1>2. NoRegister \in Registers /\ NoRegister.pc = "idle" /\ NoRegister.wd = 0 /\ NoRegister.contents = 0
  BY DEF NoRegister, Registers
<1>3. /\ cop' \in [Listeners -> Registers] /\ cop'[l] = NoRegister
      /\ \A m \in Listeners \ {l} : cop'[m] = cop[m]
  BY <1>1, <1>2 DEF FileTypeOK
<1>4. Current' = Current /\ Announced' = Announced /\ Working' = Working /\ Recording' = Recording
  BY <1>1 DEF Current, Announced, Working, Recording
<1>5. CASE m_files.wd # 0
  <2>1. m_files' = m_files
    BY <1>5 DEF RegisterInsert
  <2>2. FileTypeOK' /\ NotAhead'
    BY <1>1, <1>2, <1>3, <2>1, SMTT(30) DEF FileTypeOK, NotAhead
  <2>3. InfoShape' /\ Registering' /\ SameEntry'
    BY <1>1, <1>2, <1>3, <1>4, <2>1 DEF InfoShape, Registering, SameEntry
  <2>4. Calling' /\ Following'
    BY <1>1, <1>4, <2>1 DEF Calling, Following, Watched
  <2>5. QED  BY <2>2, <2>3, <2>4
<1>6. CASE m_files.wd = 0
  <2>1. /\ m_files' \in Entries /\ m_files'.wd = cop[l].wd /\ m_files'.contents = cop[l].contents
        /\ m_files'.handlers = {l} /\ m_files'.gap = cop[l].gap
    <3>1. cop[l].wd \in Nat /\ cop[l].contents \in Nat /\ cop[l].gap \in BOOLEAN
      BY DEF FileTypeOK, Registers
    <3>2. m_files' = [wd |-> cop[l].wd, contents |-> cop[l].contents, handlers |-> {l},
                      gap |-> cop[l].gap]
      BY <1>6 DEF RegisterInsert
    <3>3. QED  BY <3>1, <3>2 DEF Entries
  <2>2. FileTypeOK' /\ NotAhead'
    BY <1>1, <1>2, <1>3, <2>1, SMTT(30) DEF FileTypeOK, NotAhead
  <2>3. ~Current
    BY <1>6 DEF SameEntry, Current
  <2>4. InfoShape'
    BY <1>1, <2>1 DEF InfoShape, NotAhead
  <2>5. Registering'
    BY <1>1, <1>2, <1>3, <2>1 DEF Registering
  <2>6. SameEntry'
    BY <1>1, <1>4, <2>1, <2>3 DEF SameEntry, Registering
  <2>7. Calling'
    BY <1>1, <1>4, <2>3 DEF Calling
  <2>8. Following'
    BY <1>1, <2>1 DEF Following, Watched, Registering
  <2>9. QED  BY <2>2, <2>4, <2>5, <2>6, <2>7, <2>8
<1>7. QED  BY <1>5, <1>6

LEMMA UnregisterInv == ASSUME FileInv, NEW l \in Listeners, UnregisterListener(l) PROVE FileInv'
<1> USE DEF FileInv
<1>1. /\ m_files.wd # 0 /\ m_files' = NoFile
      /\ watch' = IF watch = m_files.wd THEN 0 ELSE watch
      /\ UNCHANGED <<disk, written, wds, queue, cop, ev, known>>
  BY DEF UnregisterListener
<1>2. /\ NoFile \in Entries /\ NoFile.wd = 0 /\ NoFile.handlers = {} /\ NoFile.contents = 0
  BY DEF NoFile, Entries
<1>3. FileTypeOK' /\ NotAhead'
  <2>1. 0 \in 0 .. written /\ 0 \in 0 .. wds
    BY SMTT(30) DEF FileTypeOK
  <2>2. QED  BY <1>1, <1>2, <2>1 DEF FileTypeOK, NotAhead
<1>4. ~Current' /\ ~Watched'
  BY <1>1, <1>2 DEF Current, Watched, SameEntry
<1>5. InfoShape' /\ Registering' /\ SameEntry' /\ Calling' /\ Following'
  BY <1>1, <1>2, <1>4 DEF InfoShape, Registering, SameEntry, Calling, Following
<1>6. QED  BY <1>3, <1>5

(* The thread has no event after a step that ends with Polling.               *)
LEMMA PollingFacts ==
  ASSUME ev \in Events
  PROVE  /\ Polling \in Events /\ Polling.pc = "poll" /\ Polling.wd = 0 /\ Polling.seen = 0
         /\ Polling.late = ev.late
         /\ Polling.info.wd = 0 /\ Polling.info.contents = 0 /\ Polling.info.handlers = {}
<1>1. NoFile \in Entries /\ NoFile.wd = 0 /\ NoFile.handlers = {} /\ NoFile.contents = 0
  BY DEF NoFile, Entries
<1> HIDE DEF NoFile
<1>2. Polling = [pc |-> "poll", wd |-> 0, info |-> NoFile, late |-> ev.late, seen |-> 0]
  BY SMTT(30) DEF Polling, NoEvent
<1>3. QED  BY <1>1, <1>2 DEF Events

LEMMA TakeEventInv == ASSUME FileInv, TakeEvent PROVE FileInv'
<1> USE DEF FileInv
<1> DEFINE e == Head(queue)
           info == get_fileinfo(e.wd)
<1>1. /\ ev.pc = "poll" /\ queue # <<>> /\ queue' = Tail(queue)
      /\ ev' = [ev EXCEPT !.pc = e.kind, !.wd = e.wd, !.info = info]
      /\ UNCHANGED <<disk, written, watch, wds, m_files, cop, known>>
  BY DEF TakeEvent
<1>2. /\ e = queue[1] /\ e \in [wd : Nat, kind : Kinds] /\ e.wd \in 1 .. wds
      /\ queue' \in Seq([wd : Nat, kind : Kinds]) /\ Len(queue) \in Nat \ {0}
      /\ Len(queue') = Len(queue) - 1
      /\ \A i \in 1 .. Len(queue') : queue'[i] = queue[i + 1]
  <2>1. queue \in Seq([wd : Nat, kind : Kinds])
    BY DEF FileTypeOK
  <2>2. /\ e \in [wd : Nat, kind : Kinds] /\ queue' \in Seq([wd : Nat, kind : Kinds])
        /\ Len(queue') = Len(queue) - 1
        /\ \A i \in 1 .. Len(queue') : queue'[i] = queue[i + 1]
    <3>1. PICK K : K = [wd : Nat, kind : Kinds]
      OBVIOUS
    <3>2. queue \in Seq(K) /\ queue # <<>> /\ e = Head(queue) /\ queue' = Tail(queue)
      BY <1>1, <2>1, <3>1
    <3>3. /\ e \in K /\ queue' \in Seq(K) /\ Len(queue') = Len(queue) - 1
          /\ \A i \in 1 .. Len(queue') : queue'[i] = queue[i + 1]
      BY <3>2, SMTT(30)
    <3>4. QED  BY <3>1, <3>3
  <2>3. e = queue[1] /\ Len(queue) \in Nat \ {0}
    BY <1>1, <2>1, SMTT(30)
  <2>4. QED  BY <2>2, <2>3, SMTT(30) DEF NotAhead
<1>3. /\ m_files.wd = e.wd => info = m_files
      /\ m_files.wd # e.wd => info.wd = 0 /\ info.handlers = {} /\ info.contents = 0
      /\ info \in Entries
  BY DEF get_fileinfo, NoFile, FileTypeOK, Entries
<1> HIDE DEF e, info
<1>4. /\ ev' \in Events /\ ev'.pc = e.kind /\ ev'.pc \in Kinds /\ ev'.wd = e.wd /\ ev'.info = info
      /\ ev'.late = ev.late /\ ev'.seen = ev.seen
  BY <1>1, <1>2, <1>3 DEF FileTypeOK, Events
<1>5. FileTypeOK'
  BY <1>1, <1>2, <1>4 DEF FileTypeOK
<1>6. NotAhead'
  BY <1>1, <1>2, <1>3, <1>4, SMTT(30) DEF NotAhead, FileTypeOK
<1>7. InfoShape'
  BY <1>1, <1>2, <1>3, <1>4 DEF InfoShape, Kinds
<1>8. Registering'
  BY <1>1, <1>3, <1>4 DEF Registering
<1>9. SameEntry'
  BY <1>1, <1>2, <1>3, <1>4 DEF SameEntry, Current
<1>10. Calling'
  BY <1>4 DEF Calling, Kinds
<1>11. ~Working /\ ~Recording
  BY <1>1 DEF Working, Recording
<1>12. Announced => Announced' \/ e = [wd |-> watch, kind |-> "close_write"]
  <2> SUFFICES ASSUME Announced, e # [wd |-> watch, kind |-> "close_write"] PROVE Announced'
    OBVIOUS
  <2>1. PICK i \in 1 .. Len(queue) : queue[i] = [wd |-> watch, kind |-> "close_write"]
    BY DEF Announced
  <2>2. i # 1 /\ i - 1 \in 1 .. Len(queue') /\ queue'[i - 1] = queue[i]
    BY <1>2, <2>1, SMTT(30)
  <2>3. QED  BY <1>1, <2>1, <2>2 DEF Announced
<1>13. Watched => Watched' /\ (e = [wd |-> watch, kind |-> "close_write"]
                               => Current' /\ ev'.pc = "close_write" /\ ev'.info = m_files)
  BY <1>1, <1>2, <1>3, <1>4, SMTT(30) DEF Watched, Current
<1>14. Following'
  BY <1>1, <1>4, <1>11, <1>12, <1>13 DEF Following, Watched, Working
<1>15. QED  BY <1>5, <1>6, <1>7, <1>8, <1>9, <1>10, <1>14

LEMMA OnDeletedInv == ASSUME FileInv, OnDeleted PROVE FileInv'
<1> USE DEF FileInv
<1>1. /\ ev.pc = "delete_self" /\ ev' = Polling
      /\ known' = [l \in Listeners |-> IF l \in ev.info.handlers THEN 0 ELSE known[l]]
      /\ UNCHANGED <<disk, written, wds, queue, cop>>
  BY DEF OnDeleted
<1>2. /\ ev' \in Events /\ ev'.pc = "poll" /\ ev'.wd = 0 /\ ev'.seen = 0 /\ ev'.late = ev.late
      /\ ev'.info.wd = 0 /\ ev'.info.contents = 0 /\ ev'.info.handlers = {}
  BY <1>1, PollingFacts DEF FileTypeOK
<1>3. known' \in [Listeners -> Nat]
  BY <1>1 DEF FileTypeOK
<1>4. /\ \/ m_files' = NoFile
         \/ m_files' = m_files /\ ev.info.wd = 0
      /\ watch' \in {watch, 0}
  BY DEF OnDeleted
<1>5. NoFile \in Entries /\ NoFile.wd = 0 /\ NoFile.handlers = {} /\ NoFile.contents = 0
  BY DEF NoFile, Entries
<1>6. FileTypeOK'
  BY <1>1, <1>2, <1>3, <1>4, <1>5, SMTT(30) DEF FileTypeOK
<1>7. NotAhead' /\ InfoShape'
  BY <1>1, <1>2, <1>4, <1>5, SMTT(30) DEF NotAhead, InfoShape, FileTypeOK
<1>8. Registering'
  BY <1>1, <1>2, <1>4, <1>5 DEF Registering
<1>9. ~Current' /\ ~Working /\ ~Recording
  BY <1>1, <1>2 DEF Current, Working, Recording
<1>10. SameEntry' /\ Calling'
  BY <1>2, <1>9 DEF SameEntry, Calling
<1>11. Following'
  <2>1. CASE m_files' = NoFile
    BY <1>5, <2>1 DEF Following, Watched
  <2>2. CASE m_files' = m_files /\ ev.info.wd = 0
    <3>1. \A l \in Listeners : known'[l] = known[l]
      BY <1>1, <2>2 DEF InfoShape
    <3>2. Watched' => watch' = watch /\ Watched /\ Announced' = Announced
      BY <1>1, <1>4, <2>2 DEF Watched, Announced
    <3>3. m_files.handlers \subseteq Listeners
      BY DEF FileTypeOK, Entries
    <3>4. QED  BY <1>1, <1>2, <1>9, <2>2, <3>1, <3>2, <3>3 DEF Following
  <2>3. QED  BY <1>4, <2>1, <2>2
<1>12. QED  BY <1>6, <1>7, <1>8, <1>10, <1>11

LEMMA ReadContentsInv == ASSUME FileInv, ReadContents PROVE FileInv'
<1> USE DEF FileInv
<1>1. /\ ev.pc = "close_write" /\ UNCHANGED <<disk, written, watch, wds, queue, m_files, cop, known>>
  BY DEF ReadContents
<1>2. CASE ev.info.wd = 0 \/ disk = 0 \/ disk = ev.info.contents
  <2>1. ev' = Polling
    BY <1>2 DEF ReadContents, check_file_size
  <2>2. /\ ev' \in Events /\ ev'.pc = "poll" /\ ev'.wd = 0 /\ ev'.seen = 0 /\ ev'.late = ev.late
        /\ ev'.info.wd = 0 /\ ev'.info.contents = 0 /\ ev'.info.handlers = {}
    BY <2>1, PollingFacts DEF FileTypeOK
  <2>3. FileTypeOK' /\ NotAhead' /\ InfoShape'
    BY <1>1, <2>2, SMTT(30) DEF FileTypeOK, NotAhead, InfoShape
  <2>4. ~Current' /\ Watched' = Watched /\ Announced' = Announced
    BY <1>1, <2>2 DEF Current, Watched, Announced
  <2>5. Registering' /\ SameEntry' /\ Calling'
    BY <1>1, <2>2, <2>4 DEF Registering, SameEntry, Calling
  <2>6. Watched => ~Working /\ ~Recording
    BY <1>1, <1>2 DEF Working, Recording, Watched, Current
  <2>7. Following'
    BY <1>1, <2>2, <2>4, <2>6 DEF Following
  <2>8. QED  BY <2>3, <2>5, <2>7
<1>3. CASE ~(ev.info.wd = 0 \/ disk = 0 \/ disk = ev.info.contents)
  <2>1. ev' = [ev EXCEPT !.pc = "notify", !.seen = disk]
    BY <1>3 DEF ReadContents, check_file_size
  <2>2. /\ ev' \in Events /\ ev'.pc = "notify" /\ ev'.wd = ev.wd /\ ev'.seen = disk
        /\ ev'.late = ev.late /\ ev'.info = ev.info
    <3>1. disk \in Nat /\ ev \in Events
      BY SMTT(30) DEF FileTypeOK
    <3>2. QED  BY <2>1, <3>1 DEF Events
  <2>3. FileTypeOK' /\ NotAhead' /\ InfoShape'
    BY <1>1, <1>3, <2>2, SMTT(30) DEF FileTypeOK, NotAhead, InfoShape
  <2>4. Current' = Current /\ Watched' = Watched /\ Announced' = Announced
    BY <1>1, <2>2 DEF Current, Watched, Announced
  <2>5. Registering' /\ SameEntry' /\ Calling'
    BY <1>1, <1>3, <2>2, <2>4 DEF Registering, SameEntry, Calling
  <2>6. (Working => Working') /\ ~Recording
    BY <1>1, <2>2, <2>4 DEF Working, Recording
  <2>7. Following'
    BY <1>1, <2>2, <2>4, <2>6 DEF Following
  <2>8. QED  BY <2>3, <2>5, <2>7
<1>4. QED  BY <1>2, <1>3

LEMMA NotifyInv == ASSUME FileInv, Notify PROVE FileInv'
<1> USE DEF FileInv
<1>1. /\ ev.pc = "notify" /\ ev' = [ev EXCEPT !.pc = "record"]
      /\ known' = [l \in Listeners |-> IF l \in ev.info.handlers THEN ev.seen ELSE known[l]]
      /\ UNCHANGED <<disk, written, watch, wds, queue, m_files, cop>>
  BY DEF Notify
<1>2. /\ ev' \in Events /\ ev'.pc = "record" /\ ev'.wd = ev.wd /\ ev'.seen = ev.seen
      /\ ev'.late = ev.late /\ ev'.info = ev.info /\ ev.seen \in Nat
      /\ m_files.handlers \subseteq Listeners /\ ev.info.handlers \subseteq Listeners
  BY <1>1 DEF FileTypeOK, Events, Entries
<1>3. FileTypeOK' /\ NotAhead' /\ InfoShape'
  BY <1>1, <1>2 DEF FileTypeOK, NotAhead, InfoShape
<1>4. Current' = Current /\ Watched' = Watched /\ Announced' = Announced
  BY <1>1, <1>2 DEF Current, Watched, Announced
<1>5. Registering' /\ SameEntry'
  BY <1>1, <1>2, <1>4 DEF Registering, SameEntry
<1>6. Calling'
  BY <1>1, <1>2, <1>4 DEF Calling
<1>7. ~Recording /\ (Working => Recording')
  BY <1>1, <1>2, <1>4 DEF Working, Recording
<1>8. Following'
  <2> SUFFICES ASSUME Watched'
               PROVE  /\ m_files.contents = disk \/ Announced \/ Recording'
                      /\ \A l \in m_files.handlers \ ev.late :
                           /\ known'[l] = disk \/ Announced
                           /\ m_files.contents = disk => known'[l] = disk
    BY <1>1, <1>2, <1>4 DEF Following
  <2>1. m_files.contents = disk \/ Announced \/ Recording'
    BY <1>4, <1>7 DEF Following
  <2>2. ASSUME NEW l \in m_files.handlers \ ev.late
        PROVE  /\ known'[l] = disk \/ Announced
               /\ m_files.contents = disk => known'[l] = disk
    <3>1. CASE l \in ev.info.handlers
      <4>1. Current /\ known'[l] = ev.seen
        BY <1>1, <1>2, <1>4, <3>1 DEF SameEntry, InfoShape, Watched, Current
      <4>2. QED  BY <1>1, <4>1, <1>4 DEF Calling, SameEntry, Watched
    <3>2. CASE l \notin ev.info.handlers
      <4>1. ~Current /\ known'[l] = known[l]
        BY <1>1, <1>2, <3>2 DEF SameEntry
      <4>2. QED  BY <1>4, <4>1 DEF Following, Working
    <3>3. QED  BY <3>1, <3>2
  <2>3. QED  BY <2>1, <2>2
<1>9. QED  BY <1>3, <1>5, <1>6, <1>8

LEMMA RecordInv == ASSUME FileInv, Record PROVE FileInv'
<1> USE DEF FileInv
<1>1. /\ ev.pc = "record" /\ ev' = Polling
      /\ UNCHANGED <<disk, written, watch, wds, queue, cop, known>>
  BY DEF Record
<1>2. /\ ev' \in Events /\ ev'.pc = "poll" /\ ev'.wd = 0 /\ ev'.seen = 0 /\ ev'.late = ev.late
      /\ ev'.info.wd = 0 /\ ev'.info.contents = 0 /\ ev'.info.handlers = {}
  BY <1>1, PollingFacts DEF FileTypeOK
<1>3. /\ m_files' \in Entries /\ m_files'.wd = m_files.wd /\ m_files'.handlers = m_files.handlers
      /\ m_files.wd = ev.wd => m_files'.contents = ev.seen
      /\ m_files.wd # ev.wd => m_files' = m_files
  <2>1. CASE m_files.wd # ev.wd
    BY <2>1 DEF Record, FileTypeOK
  <2>2. CASE m_files.wd = ev.wd
    <3>1. m_files' = [m_files EXCEPT !.contents = ev.seen, !.gap = FALSE]
      BY <2>2 DEF Record
    <3>2. ev.seen \in Nat /\ m_files \in Entries
      BY DEF FileTypeOK, Events
    <3>3. QED  BY <2>2, <3>1, <3>2 DEF Entries
  <2>3. QED  BY <2>1, <2>2
<1>4. FileTypeOK'
  BY <1>1, <1>2, <1>3 DEF FileTypeOK
<1>5. NotAhead' /\ InfoShape'
  BY <1>1, <1>2, <1>3, SMTT(30) DEF NotAhead, InfoShape, FileTypeOK
<1>6. Registering' /\ ~Current' /\ Announced' = Announced
  BY <1>1, <1>2, <1>3 DEF Registering, Current, Announced
<1>7. SameEntry' /\ Calling'
  BY <1>2, <1>6 DEF SameEntry, Calling
<1>8. Following'
  <2>1. CASE m_files.wd = ev.wd
    <3> SUFFICES ASSUME Watched'
                 PROVE  /\ ev.seen = disk \/ Announced
                        /\ \A l \in m_files.handlers \ ev.late : known[l] = ev.seen
      BY <1>1, <1>2, <1>3, <1>6, <2>1 DEF Following
    <3>1. Current /\ disk # 0
      BY <1>1, <1>3, <2>1 DEF Watched, Current, InfoShape
    <3>2. QED  BY <1>1, <3>1 DEF Calling, SameEntry
  <2>2. CASE m_files.wd # ev.wd
    <3>1. Watched' => Watched /\ ~Current
      BY <1>1, <1>3, <2>2 DEF Watched, Current
    <3>2. ~Current => ~Working /\ ~Recording
      BY DEF Working, Recording
    <3>3. QED  BY <1>1, <1>2, <1>3, <1>6, <2>2, <3>1, <3>2 DEF Following
  <2>3. QED  BY <2>1, <2>2
<1>9. QED  BY <1>4, <1>5, <1>6, <1>7, <1>8

LEMMA StopInv == ASSUME FileInv, StopWatcher \/ WatcherEnds \/ UNCHANGED fwVars PROVE FileInv'
<1> USE DEF FileInv
<1>1. CASE StopWatcher \/ UNCHANGED fwVars
  <2>1. UNCHANGED <<disk, written, watch, wds, queue, m_files, cop, ev, known>>
    BY <1>1 DEF StopWatcher, fwVars
  <2>2. FileTypeOK' /\ NotAhead' /\ InfoShape' /\ Registering'
    BY <2>1 DEF FileTypeOK, NotAhead, InfoShape, Registering
  <2>3. /\ Current' = Current /\ Announced' = Announced /\ Working' = Working
        /\ Recording' = Recording /\ Watched' = Watched
    BY <2>1 DEF Current, Announced, Working, Recording, Watched
  <2>4. SameEntry' /\ Calling' /\ Following'
    BY <2>1, <2>3 DEF SameEntry, Calling, Following
  <2>5. QED  BY <2>2, <2>4
<1>2. CASE WatcherEnds
  <2>1. watch' = 0 /\ queue' = <<>> /\ UNCHANGED <<disk, written, wds, m_files, cop, ev, known>>
    BY <1>2 DEF WatcherEnds
  <2>2. FileTypeOK' /\ NotAhead' /\ InfoShape' /\ Registering'
    BY <2>1, SMTT(30) DEF FileTypeOK, NotAhead, InfoShape, Registering
  <2>3. ~Current' /\ ~Watched'
    BY <2>1 DEF Current, Watched
  <2>4. SameEntry' /\ Calling' /\ Following'
    BY <2>1, <2>3 DEF SameEntry, Calling, Following
  <2>5. QED  BY <2>2, <2>4
<1>3. QED  BY <1>1, <1>2

LEMMA FileStepInv == FileInv /\ [FileNext]_fwVars => FileInv'
<1> SUFFICES ASSUME FileInv, [FileNext]_fwVars PROVE FileInv'
  OBVIOUS
<1>1. CASE WriteFile \/ DeleteFile
  BY <1>1, WriteFileInv, DeleteFileInv
<1>2. CASE TakeEvent \/ OnDeleted \/ ReadContents \/ Notify \/ Record
  BY <1>2, TakeEventInv, OnDeletedInv, ReadContentsInv, NotifyInv, RecordInv
<1>3. CASE StopWatcher \/ WatcherEnds \/ UNCHANGED fwVars
  BY <1>3, StopInv
<1>4. ASSUME NEW l \in Listeners,
             \/ RegisterJoin(l) \/ RegisterRead(l) \/ RegisterWatch(l)
             \/ RegisterInsert(l) \/ UnregisterListener(l)
      PROVE  FileInv'
  BY <1>4, RegisterJoinInv, RegisterReadInv, RegisterWatchInv, RegisterInsertInv, UnregisterInv
<1>5. QED  BY <1>1, <1>2, <1>3, <1>4 DEF FileNext

(* For any number of listeners, writes, deletions and watches: once every     *)
(* event of inotify is through, the entry of FileWatcher holds the contents   *)
(* the file has and the listeners that were there have been called for them.  *)
THEOREM FileIsFollowed == FileSpec => []FileFollowed
<1>1. FileInit => FileInv
  BY FileInitInv
<1>2. FileInv /\ [FileNext]_fwVars => FileInv'
  BY FileStepInv
<1>3. FileInv => FileFollowed
  BY FileInvFollowed
<1>4. QED  BY <1>1, <1>2, <1>3, PTL DEF FileSpec

------------------------------------------------------------------------------
(* The tree of status objects.  A finite set of names has a first page of     *)
(* every size up to its own.                                                  *)
FirstOf(p, S, k) ==
  p \subseteq S /\ Cardinality(p) = k /\ \A n \in p, m \in S \ p : n < m

LEMMA FirstPage ==
  ASSUME NEW S \in SUBSET Nat, IsFiniteSet(S), NEW k \in 0 .. Cardinality(S)
  PROVE  \E p \in SUBSET S : FirstOf(p, S, k)
<1> DEFINE Bad == {i \in 0 .. Cardinality(S) : ~\E p \in SUBSET S : FirstOf(p, S, i)}
<1>1. Cardinality(S) \in Nat
  BY FS_CardinalityType
<1>2. SUFFICES ASSUME Bad # {} PROVE FALSE
  OBVIOUS
<1>3. PICK i \in Bad : \A j \in Bad : i <= j
  <2>1. Bad \in SUBSET Nat
    BY <1>1, SMTT(30)
  <2> HIDE DEF Bad
  <2>2. QED  BY <1>2, <2>1, NatMin
<1>4. i # 0
  BY <1>1, FS_EmptySet DEF FirstOf
<1>5. i - 1 \in 0 .. Cardinality(S) /\ i - 1 \notin Bad
  BY <1>1, <1>3, <1>4, SMTT(30)
<1>6. PICK p \in SUBSET S : FirstOf(p, S, i - 1)
  BY <1>5
<1>7. IsFiniteSet(p) /\ S \ p # {}
  <2>1. p # S
    BY <1>1, <1>6, SMTT(30) DEF FirstOf
  <2>2. QED  BY <2>1, FS_Subset
<1>8. PICK m \in S \ p : \A n \in S \ p : m <= n
  BY <1>7, NatMin
<1>9. Cardinality(p \cup {m}) = i
  <2>1. Cardinality(p \cup {m}) = Cardinality(p) + 1
    BY <1>7, <1>8, FS_AddElement
  <2>2. QED  BY <1>1, <1>6, <2>1, SMTT(30) DEF FirstOf
<1>10. \A n \in p \cup {m}, x \in S \ (p \cup {m}) : n < x
  BY <1>6, <1>8, SMTT(30) DEF FirstOf
<1>11. p \cup {m} \in SUBSET S /\ FirstOf(p \cup {m}, S, i)
  BY <1>9, <1>10 DEF FirstOf
<1>12. QED  BY <1>11

(* Locks: the manager's is held by requests on a path, an object's by the     *)
(* request that is at it or by the one add_child that changes it.             *)
Mutexes == [holders : SUBSET SoThreads, exclusive : BOOLEAN]
SoPlaces == {"idle", "emplace", "add_type", "path", "child", "paging", "done"}
SoCalls == [pc : SoPlaces, name : Nat, child : Nat, cursor : Nat, seen : SUBSET SoNames,
            due : SUBSET SoNames, full : BOOLEAN]

SoTypeOK ==
  /\ store \in [SoNames -> SoTypes \cup {NoType}]
  /\ kids \in [SoNames -> SUBSET SoNames]
  /\ types \in [SoTypes -> SUBSET SoTypes]
  /\ mgrLock \in Mutexes
  /\ objLock \in [SoNames -> Mutexes]
  /\ so \in [SoThreads -> SoCalls]
  /\ \A t \in SoThreads : so[t].pc \in {"emplace", "add_type", "path", "child"} => so[t].name \in SoNames

LocksHeld ==
  /\ \A t \in mgrLock.holders : so[t].pc \in {"path", "child"}
  /\ \A n \in SoNames, t \in SoThreads :
       t \in objLock[n].holders <=> so[t].pc \in {"emplace", "child"} /\ so[t].name = n
  /\ \A n \in SoNames, t \in SoThreads :
       t \in objLock[n].holders =>
         /\ objLock[n].exclusive <=> so[t].pc = "emplace"
         /\ objLock[n].exclusive => objLock[n].holders = {t}

\* Only objects of the store have children, and only such are children.
Linked ==
  /\ \A p \in SoNames : \A c \in kids[p] : p \in Stored /\ c \in Stored
  /\ \A t \in SoThreads : so[t].pc \in {"emplace", "add_type"} =>
       so[t].name \in Stored /\ so[t].child \in Stored

\* What a client has not been given is not before its cursor.
Paging ==
  \A t \in SoThreads : so[t].pc = "paging" =>
    /\ so[t].due \subseteq OfType("volume")
    /\ \A n \in so[t].due \ so[t].seen : so[t].cursor <= n

SoInv == SoTypeOK /\ LocksHeld /\ Linked /\ TypesCoverChildren /\ Paging /\ PagesComplete

LEMMA SoInvSound == SoInv => TreeSound
<1> SUFFICES ASSUME SoInv PROVE NoLockCycle
  BY DEF TreeSound, SoInv
<1> SUFFICES ASSUME NEW S \in SUBSET SoThreads, S # {} PROVE \E t \in S : WaitsFor(t) \cap S = {}
  BY DEF NoLockCycle
<1>1. CASE \E t \in S : so[t].pc \notin {"add_type", "path"}
  BY <1>1 DEF WaitsFor
<1>2. CASE (\A t \in S : so[t].pc \in {"add_type", "path"}) /\ \E t \in S : so[t].pc = "path"
  <2>1. PICK t \in S : so[t].pc = "path"
    BY <1>2
  <2>2. WaitsFor(t) \subseteq {u \in SoThreads : so[u].pc = "emplace"}
    BY <2>1, SMTT(30) DEF WaitsFor, SoInv, LocksHeld, SoTypeOK, Mutexes
  <2>3. QED  BY <1>2, <2>2
<1>3. CASE \A t \in S : so[t].pc = "add_type"
  <2>1. PICK t \in S : so[t].pc = "add_type"
    BY <1>3
  <2>2. WaitsFor(t) = mgrLock.holders
    BY <2>1 DEF WaitsFor
  <2>3. QED  BY <1>3, <2>2, SMTT(30) DEF SoInv, LocksHeld
<1>4. QED  BY <1>1, <1>2, <1>3

LEMMA NoSoCallFacts == NoSoCall \in SoCalls /\ NoSoCall.pc = "idle"
BY DEF NoSoCall, SoCalls, SoPlaces

LEMMA SoInitInv == SoInit => SoInv
<1> SUFFICES ASSUME SoInit PROVE SoInv
  OBVIOUS
<1>1. Free \in Mutexes /\ Free.holders = {}
  BY DEF Free, Mutexes
<1>2. SoTypeOK
  BY <1>1, NoSoCallFacts DEF SoInit, SoTypeOK, SoTypes
<1>3. LocksHeld
  BY <1>1, NoSoCallFacts DEF SoInit, LocksHeld
<1>4. Linked /\ TypesCoverChildren /\ Paging /\ PagesComplete
  BY NoSoCallFacts DEF SoInit, Linked, TypesCoverChildren, Paging, PagesComplete
<1>5. QED  BY <1>2, <1>3, <1>4 DEF SoInv

LEMMA CreateObjectInv == ASSUME SoInv, NEW t \in SoThreads, CreateObject(t) PROVE SoInv'
<1> USE DEF SoInv
<1>1. UNCHANGED <<kids, types, mgrLock, objLock, so>>
  BY DEF CreateObject
<1>2. PICK n \in SoNames \ Stored, ty \in SoTypes : store' = [store EXCEPT ![n] = ty]
  BY DEF CreateObject
<1>3. ty # NoType /\ store' \in [SoNames -> SoTypes \cup {NoType}]
  BY <1>2 DEF SoTypes, NoType, SoTypeOK
<1>4. \A m \in Stored : m \in Stored' /\ store'[m] = store[m]
  BY <1>2 DEF Stored, SoTypeOK
<1>5. OfType("volume") \subseteq OfType("volume")'
  BY <1>2, <1>4 DEF OfType, Stored, NoType
<1>6. SoTypeOK' /\ LocksHeld' /\ PagesComplete'
  BY <1>1, <1>3 DEF SoTypeOK, LocksHeld, PagesComplete
<1>7. Linked'
  BY <1>1, <1>4 DEF Linked
<1>8. TypesCoverChildren'
  BY <1>1, <1>4, SMTT(30) DEF TypesCoverChildren, Linked
<1>9. Paging'
  BY <1>1, <1>5 DEF Paging
<1>10. QED  BY <1>6, <1>7, <1>8, <1>9

(* A call that neither creates, nor links, nor pages: what its thread may     *)
(* become, and what is left of the invariant to show.                         *)
LEMMA SoCallChanges ==
  ASSUME SoInv, NEW t \in SoThreads, NEW r \in SoCalls, so' = [so EXCEPT ![t] = r],
         UNCHANGED <<store, kids, types>>, so[t].pc # "add_type", r.pc \notin {"paging", "done"},
         r.pc \in {"emplace", "add_type", "path", "child"} => r.name \in SoNames,
         r.pc \in {"emplace", "add_type"} => r.name \in Stored /\ r.child \in Stored,
         mgrLock' \in Mutexes, objLock' \in [SoNames -> Mutexes], LocksHeld'
  PROVE  SoInv'
<1> USE DEF SoInv
<1>1. so' \in [SoThreads -> SoCalls] /\ so'[t] = r /\ \A u \in SoThreads \ {t} : so'[u] = so[u]
  BY DEF SoTypeOK
<1>2. SoTypeOK'
  BY <1>1 DEF SoTypeOK
<1>3. Stored' = Stored /\ OfType("volume")' = OfType("volume")
  BY DEF Stored, OfType
<1>4. Linked'
  BY <1>1, <1>3 DEF Linked
<1>5. TypesCoverChildren'
  BY <1>1, SMTT(30) DEF TypesCoverChildren
<1>6. Paging' /\ PagesComplete'
  BY <1>1, <1>3 DEF Paging, PagesComplete
<1>7. QED  BY <1>2, <1>4, <1>5, <1>6

LEMMA AddChildInv == ASSUME SoInv, NEW t \in SoThreads, AddChild(t) PROVE SoInv'
<1> USE DEF SoInv
<1>1. PICK p \in Stored, c \in Stored :
        /\ so[t].pc = "idle" /\ objLock[p].holders = {}
        /\ objLock' = [objLock EXCEPT ![p] = Owned(t)]
        /\ so' = [so EXCEPT ![t] = [NoSoCall EXCEPT !.pc = "emplace", !.name = p, !.child = c]]
        /\ UNCHANGED <<store, kids, types, mgrLock>>
  BY DEF AddChild, CanOwn
<1> DEFINE r == [NoSoCall EXCEPT !.pc = "emplace", !.name = p, !.child = c]
<1>2. p \in SoNames /\ c \in SoNames /\ p \in Nat /\ c \in Nat
  BY SoAssumption DEF Stored
<1>3. r \in SoCalls /\ r.pc = "emplace" /\ r.name = p /\ r.child = c
  BY <1>2, NoSoCallFacts DEF SoCalls, SoPlaces
<1>4. Owned(t) \in Mutexes /\ Owned(t).holders = {t} /\ Owned(t).exclusive
  BY DEF Owned, Mutexes
<1> HIDE DEF r
<1>5. so' = [so EXCEPT ![t] = r]
  BY <1>1 DEF r
<1>6. /\ objLock' \in [SoNames -> Mutexes] /\ objLock'[p] = Owned(t)
      /\ \A n \in SoNames \ {p} : objLock'[n] = objLock[n]
  BY <1>1, <1>2, <1>4 DEF SoTypeOK
<1>7. so'[t] = r /\ \A u \in SoThreads \ {t} : so'[u] = so[u]
  BY <1>5 DEF SoTypeOK
<1>8. LocksHeld'
  <2>1. \A u \in mgrLock'.holders : so'[u].pc \in {"path", "child"}
    BY <1>1, <1>7 DEF LocksHeld, SoTypeOK, Mutexes
  <2>2. \A n \in SoNames, u \in SoThreads :
          u \in objLock'[n].holders <=> so'[u].pc \in {"emplace", "child"} /\ so'[u].name = n
    BY <1>1, <1>2, <1>3, <1>4, <1>6, <1>7, SMTT(30) DEF LocksHeld
  <2>3. \A n \in SoNames, u \in SoThreads :
          u \in objLock'[n].holders => /\ objLock'[n].exclusive <=> so'[u].pc = "emplace"
                                       /\ objLock'[n].exclusive => objLock'[n].holders = {u}
    BY <1>1, <1>2, <1>3, <1>4, <1>6, <1>7, SMTT(30) DEF LocksHeld
  <2>4. QED  BY <2>1, <2>2, <2>3 DEF LocksHeld
<1>9. QED  BY <1>1, <1>2, <1>3, <1>5, <1>6, <1>8, SoCallChanges DEF SoTypeOK

LEMMA EmplaceChildInv == ASSUME SoInv, NEW t \in SoThreads, EmplaceChild(t) PROVE SoInv'
<1> USE DEF SoInv
<1>1. PICK p : p = so[t].name
  OBVIOUS
<1>2. PICK c : c = so[t].child
  OBVIOUS
<1>3. /\ so[t].pc = "emplace" /\ kids' = [kids EXCEPT ![p] = @ \cup {c}]
      /\ objLock' = [objLock EXCEPT ![p] = Released(objLock[p], t)]
      /\ so' = [so EXCEPT ![t].pc = "add_type"] /\ UNCHANGED <<store, types, mgrLock>>
  BY <1>1, <1>2 DEF EmplaceChild, Goto
<1>4. p \in Stored /\ c \in Stored /\ p \in SoNames /\ c \in SoNames
  BY <1>1, <1>2, <1>3 DEF Linked, Stored
<1>5. /\ so' \in [SoThreads -> SoCalls] /\ so'[t].pc = "add_type" /\ so'[t].name = p
      /\ so'[t].child = c /\ \A u \in SoThreads \ {t} : so'[u] = so[u]
  BY <1>1, <1>2, <1>3 DEF SoTypeOK, SoCalls, SoPlaces
<1>6. objLock[p].holders = {t} /\ objLock[p].exclusive
  BY <1>1, <1>3, <1>4 DEF LocksHeld
<1>7. Released(objLock[p], t) \in Mutexes /\ Released(objLock[p], t).holders = {}
  BY <1>6 DEF Released, Mutexes
<1>8. /\ objLock' \in [SoNames -> Mutexes] /\ objLock'[p].holders = {}
      /\ \A n \in SoNames \ {p} : objLock'[n] = objLock[n]
  BY <1>3, <1>4, <1>7 DEF SoTypeOK
<1>9. kids' \in [SoNames -> SUBSET SoNames] /\ kids'[p] = kids[p] \cup {c}
      /\ \A n \in SoNames \ {p} : kids'[n] = kids[n]
  BY <1>3, <1>4 DEF SoTypeOK
<1>10. SoTypeOK'
  BY <1>3, <1>4, <1>5, <1>8, <1>9, SMTT(30) DEF SoTypeOK
<1>11. LocksHeld'
  <2>1. \A u \in mgrLock'.holders : so'[u].pc \in {"path", "child"}
    BY <1>3, <1>5 DEF LocksHeld, SoTypeOK, Mutexes
  <2>2. \A n \in SoNames, u \in SoThreads :
          u \in objLock'[n].holders <=> so'[u].pc \in {"emplace", "child"} /\ so'[u].name = n
    BY <1>1, <1>3, <1>4, <1>5, <1>6, <1>8, SMTT(30) DEF LocksHeld
  <2>3. \A n \in SoNames, u \in SoThreads :
          u \in objLock'[n].holders => /\ objLock'[n].exclusive <=> so'[u].pc = "emplace"
                                       /\ objLock'[n].exclusive => objLock'[n].holders = {u}
    BY <1>1, <1>3, <1>4, <1>5, <1>6, <1>8, SMTT(30) DEF LocksHeld
  <2>4. QED  BY <2>1, <2>2, <2>3 DEF LocksHeld
<1>12. Stored' = Stored /\ OfType("volume")' = OfType("volume")
  BY <1>3 DEF Stored, OfType
<1>13. Linked'
  BY <1>4, <1>5, <1>9, <1>12 DEF Linked
<1>14. TypesCoverChildren'
  BY <1>3, <1>5, <1>9, SMTT(30) DEF TypesCoverChildren
<1>15. Paging' /\ PagesComplete'
  BY <1>5, <1>12 DEF Paging, PagesComplete
<1>16. QED  BY <1>10, <1>11, <1>13, <1>14, <1>15

LEMMA AddObjectTypeInv == ASSUME SoInv, NEW t \in SoThreads, AddObjectType(t) PROVE SoInv'
<1> USE DEF SoInv
<1>1. PICK p : p = so[t].name
  OBVIOUS
<1>2. PICK c : c = so[t].child
  OBVIOUS
<1>3. /\ so[t].pc = "add_type" /\ types' = [types EXCEPT ![store[p]] = @ \cup {store[c]}]
      /\ so' = [so EXCEPT ![t] = NoSoCall] /\ UNCHANGED <<store, kids, mgrLock, objLock>>
  BY <1>1, <1>2 DEF AddObjectType
<1>4. /\ p \in SoNames /\ c \in SoNames /\ store[p] \in SoTypes /\ store[c] \in SoTypes
  BY <1>1, <1>2, <1>3 DEF Linked, Stored, SoTypeOK
<1>5. so' \in [SoThreads -> SoCalls] /\ so'[t] = NoSoCall /\ \A u \in SoThreads \ {t} : so'[u] = so[u]
  BY <1>3, NoSoCallFacts DEF SoTypeOK
<1>6. /\ types' \in [SoTypes -> SUBSET SoTypes] /\ store[c] \in types'[store[p]]
      /\ \A ty \in SoTypes : types[ty] \subseteq types'[ty]
  BY <1>3, <1>4 DEF SoTypeOK
<1>7. SoTypeOK'
  BY <1>3, <1>5, <1>6, NoSoCallFacts DEF SoTypeOK
<1>8. LocksHeld'
  <2>1. \A u \in mgrLock'.holders : so'[u].pc \in {"path", "child"}
    BY <1>3, <1>5 DEF LocksHeld, SoTypeOK, Mutexes
  <2>2. \A u \in SoThreads : \/ so'[u] = so[u]
                             \/ so[u].pc = "add_type" /\ so'[u].pc = "idle"
    BY <1>3, <1>5, NoSoCallFacts
  <2>3. QED  BY <1>3, <2>1, <2>2, SMTT(30) DEF LocksHeld
<1>9. Stored' = Stored /\ OfType("volume")' = OfType("volume")
  BY <1>3 DEF Stored, OfType
<1>10. Linked' /\ Paging' /\ PagesComplete'
  BY <1>3, <1>5, <1>9, NoSoCallFacts DEF Linked, Paging, PagesComplete
<1>11. TypesCoverChildren'
  <2> SUFFICES ASSUME NEW q \in SoNames, NEW d \in kids[q]
               PROVE  \/ store[d] \in types'[store[q]]
                      \/ \E u \in SoThreads : so'[u].pc = "add_type" /\ so'[u].name = q /\ so'[u].child = d
    BY <1>3, SMTT(30) DEF TypesCoverChildren
  <2>1. store[q] \in SoTypes
    BY DEF Linked, Stored, SoTypeOK
  <2>2. QED  BY <1>1, <1>2, <1>5, <1>6, <2>1, SMTT(30) DEF TypesCoverChildren
<1>12. QED  BY <1>7, <1>8, <1>10, <1>11

LEMMA GetByPathInv == ASSUME SoInv, NEW t \in SoThreads, GetByPath(t) PROVE SoInv'
<1> USE DEF SoInv
<1>1. PICK n \in Stored :
        /\ so[t].pc = "idle" /\ mgrLock' = SharedWith(mgrLock, t)
        /\ so' = [so EXCEPT ![t] = [NoSoCall EXCEPT !.pc = "path", !.name = n]]
        /\ UNCHANGED <<store, kids, types, objLock>>
  BY DEF GetByPath
<1> DEFINE r == [NoSoCall EXCEPT !.pc = "path", !.name = n]
<1>2. n \in SoNames /\ n \in Nat
  BY SoAssumption DEF Stored
<1>3. r \in SoCalls /\ r.pc = "path" /\ r.name = n
  BY <1>2, NoSoCallFacts DEF SoCalls, SoPlaces
<1>4. mgrLock' \in Mutexes /\ mgrLock'.holders = mgrLock.holders \cup {t}
  BY <1>1 DEF SharedWith, Mutexes, SoTypeOK
<1> HIDE DEF r
<1>5. so' = [so EXCEPT ![t] = r]
  BY <1>1 DEF r
<1>6. so'[t] = r /\ \A u \in SoThreads \ {t} : so'[u] = so[u]
  BY <1>5 DEF SoTypeOK
<1>7. LocksHeld'
  <2>1. \A u \in mgrLock'.holders : so'[u].pc \in {"path", "child"}
    BY <1>3, <1>4, <1>6 DEF LocksHeld, SoTypeOK, Mutexes
  <2>2. \A u \in SoThreads : \/ so'[u] = so[u]
                             \/ so[u].pc = "idle" /\ so'[u].pc = "path"
    BY <1>1, <1>3, <1>6
  <2>3. QED  BY <1>1, <2>1, <2>2, SMTT(30) DEF LocksHeld
<1>8. QED  BY <1>1, <1>2, <1>3, <1>4, <1>5, <1>7, SoCallChanges DEF SoTypeOK

LEMMA GetChildInv == ASSUME SoInv, NEW t \in SoThreads, GetChild(t) PROVE SoInv'
<1> USE DEF SoInv
<1>1. PICK n : n = so[t].name
  OBVIOUS
<1>2. /\ so[t].pc = "path" /\ ~objLock[n].exclusive
      /\ objLock' = [objLock EXCEPT ![n] = SharedWith(objLock[n], t)]
      /\ so' = [so EXCEPT ![t].pc = "child"] /\ UNCHANGED <<store, kids, types, mgrLock>>
  BY <1>1 DEF GetChild, CanShare, Goto
<1> DEFINE r == [so[t] EXCEPT !.pc = "child"]
<1>3. n \in SoNames /\ so[t] \in SoCalls
  BY <1>1, <1>2 DEF SoTypeOK
<1>4. r \in SoCalls /\ r.pc = "child" /\ r.name = n
  BY <1>1, <1>3 DEF SoCalls, SoPlaces
<1>5. /\ SharedWith(objLock[n], t) \in Mutexes /\ ~SharedWith(objLock[n], t).exclusive
      /\ SharedWith(objLock[n], t).holders = objLock[n].holders \cup {t}
  BY <1>3 DEF SharedWith, Mutexes, SoTypeOK
<1> HIDE DEF r
<1>6. so' = [so EXCEPT ![t] = r]
  BY <1>2 DEF r, SoTypeOK
<1>7. so'[t] = r /\ \A u \in SoThreads \ {t} : so'[u] = so[u]
  BY <1>6 DEF SoTypeOK
<1>8. /\ objLock' \in [SoNames -> Mutexes]
      /\ objLock'[n].holders = objLock[n].holders \cup {t} /\ ~objLock'[n].exclusive
      /\ \A m \in SoNames \ {n} : objLock'[m] = objLock[m]
  BY <1>2, <1>3, <1>5 DEF SoTypeOK
<1>9. LocksHeld'
  <2>1. \A u \in mgrLock'.holders : so'[u].pc \in {"path", "child"}
    BY <1>2, <1>4, <1>7 DEF LocksHeld, SoTypeOK, Mutexes
  <2>2. \A m \in SoNames, u \in SoThreads :
          u \in objLock'[m].holders <=> so'[u].pc \in {"emplace", "child"} /\ so'[u].name = m
    BY <1>1, <1>2, <1>3, <1>4, <1>7, <1>8, SMTT(30) DEF LocksHeld
  <2>3. \A m \in SoNames, u \in SoThreads :
          u \in objLock'[m].holders => /\ objLock'[m].exclusive <=> so'[u].pc = "emplace"
                                       /\ objLock'[m].exclusive => objLock'[m].holders = {u}
    BY <1>1, <1>2, <1>3, <1>4, <1>7, <1>8, SMTT(30) DEF LocksHeld
  <2>4. QED  BY <2>1, <2>2, <2>3 DEF LocksHeld
<1>10. mgrLock' \in Mutexes /\ so[t].pc # "add_type" /\ r.pc \notin {"paging", "done", "emplace", "add_type"}
  BY <1>2, <1>4 DEF SoTypeOK
<1>11. QED  BY <1>2, <1>3, <1>4, <1>6, <1>8, <1>9, <1>10, SoCallChanges

LEMMA FollowPathInv == ASSUME SoInv, NEW t \in SoThreads, FollowPath(t) PROVE SoInv'
<1> USE DEF SoInv
<1>1. PICK n : n = so[t].name
  OBVIOUS
<1>2. /\ so[t].pc = "child" /\ objLock' = [objLock EXCEPT ![n] = Released(objLock[n], t)]
      /\ UNCHANGED <<store, kids, types>>
  BY <1>1 DEF FollowPath
<1>3. n \in SoNames /\ so[t] \in SoCalls
  BY <1>1, <1>2 DEF SoTypeOK
<1>4. PICK r \in SoCalls :
        /\ so' = [so EXCEPT ![t] = r]
        /\ \/ r.pc = "path" /\ r.name \in SoNames /\ mgrLock' = mgrLock
           \/ r.pc = "idle" /\ mgrLock' = Released(mgrLock, t)
  <2>1. CASE \E c \in kids[n] : so' = [so EXCEPT ![t].pc = "path", ![t].name = c] /\ UNCHANGED mgrLock
    <3>1. PICK c \in kids[n] : so' = [so EXCEPT ![t].pc = "path", ![t].name = c] /\ UNCHANGED mgrLock
      BY <2>1
    <3>2. c \in SoNames /\ c \in Nat
      BY <1>3, SoAssumption DEF SoTypeOK
    <3> DEFINE r == [so[t] EXCEPT !.pc = "path", !.name = c]
    <3>3. r \in SoCalls /\ r.pc = "path" /\ r.name = c
      BY <1>3, <3>2 DEF SoCalls, SoPlaces
    <3>4. so' = [so EXCEPT ![t] = r]
      BY <3>1 DEF SoTypeOK
    <3>5. QED  BY <3>1, <3>2, <3>3, <3>4
  <2>2. CASE mgrLock' = Released(mgrLock, t) /\ so' = [so EXCEPT ![t] = NoSoCall]
    BY <2>2, NoSoCallFacts
  <2>3. QED  BY <1>1, <2>1, <2>2 DEF FollowPath
<1>5. so'[t] = r /\ \A u \in SoThreads \ {t} : so'[u] = so[u]
  BY <1>4 DEF SoTypeOK
<1>6. t \in objLock[n].holders /\ ~objLock[n].exclusive
  BY <1>1, <1>2, <1>3 DEF LocksHeld
<1>7. /\ Released(objLock[n], t) \in Mutexes /\ ~Released(objLock[n], t).exclusive
      /\ Released(objLock[n], t).holders = objLock[n].holders \ {t}
  BY <1>3 DEF Released, Mutexes, SoTypeOK
<1>8. /\ objLock' \in [SoNames -> Mutexes]
      /\ objLock'[n].holders = objLock[n].holders \ {t} /\ ~objLock'[n].exclusive
      /\ \A m \in SoNames \ {n} : objLock'[m] = objLock[m]
  BY <1>2, <1>3, <1>7 DEF SoTypeOK
<1>9. /\ mgrLock' \in Mutexes /\ mgrLock'.holders \subseteq mgrLock.holders
      /\ r.pc = "idle" => t \notin mgrLock'.holders
  <2>1. mgrLock \in Mutexes
    BY DEF SoTypeOK
  <2>2. Released(mgrLock, t) \in Mutexes /\ Released(mgrLock, t).holders = mgrLock.holders \ {t}
    BY <2>1 DEF Released, Mutexes
  <2>3. QED  BY <1>4, <2>1, <2>2
<1>10. LocksHeld'
  <2>1. \A u \in mgrLock'.holders : so'[u].pc \in {"path", "child"}
    BY <1>4, <1>5, <1>9 DEF LocksHeld, SoTypeOK, Mutexes
  <2>2. \A m \in SoNames, u \in SoThreads :
          u \in objLock'[m].holders <=> so'[u].pc \in {"emplace", "child"} /\ so'[u].name = m
    BY <1>1, <1>2, <1>3, <1>4, <1>5, <1>8, SMTT(30) DEF LocksHeld
  <2>3. \A m \in SoNames, u \in SoThreads :
          u \in objLock'[m].holders => /\ objLock'[m].exclusive <=> so'[u].pc = "emplace"
                                       /\ objLock'[m].exclusive => objLock'[m].holders = {u}
    <3> SUFFICES ASSUME NEW m \in SoNames, NEW u \in SoThreads, u \in objLock'[m].holders
                 PROVE  /\ objLock'[m].exclusive <=> so'[u].pc = "emplace"
                        /\ objLock'[m].exclusive => objLock'[m].holders = {u}
      OBVIOUS
    <3>1. CASE m = n
      <4>1. u # t /\ u \in objLock[n].holders  BY <1>8, <3>1
      <4>2. so[u].pc # "emplace" /\ so'[u] = so[u]  BY <1>3, <1>5, <1>6, <4>1 DEF LocksHeld
      <4>3. QED  BY <1>8, <3>1, <4>2
    <3>2. CASE m # n
      <4>1. objLock'[m] = objLock[m]  BY <1>8, <3>2
      <4>2. u # t  BY <1>1, <3>2, <4>1, SMTT(30) DEF LocksHeld
      <4>3. QED  BY <1>5, <4>1, <4>2, SMTT(30) DEF LocksHeld
    <3>3. QED  BY <3>1, <3>2
  <2>4. QED  BY <2>1, <2>2, <2>3 DEF LocksHeld
<1>11. QED  BY <1>2, <1>4, <1>8, <1>9, <1>10, SoCallChanges

LEMMA PagingDoneInv == ASSUME SoInv, NEW t \in SoThreads, PagingDone(t) PROVE SoInv'
<1> USE DEF SoInv
<1>1. /\ so[t].pc = "done" /\ so' = [so EXCEPT ![t] = NoSoCall]
      /\ UNCHANGED <<store, kids, types, mgrLock, objLock>>
  BY DEF PagingDone
<1>2. \A u \in SoThreads : \/ so'[u] = so[u]
                           \/ so[u].pc = "done" /\ so'[u].pc = "idle"
  BY <1>1, NoSoCallFacts DEF SoTypeOK
<1>3. LocksHeld'
  BY <1>1, <1>2, SMTT(30) DEF LocksHeld, SoTypeOK, Mutexes
<1>4. QED  BY <1>1, <1>3, NoSoCallFacts, SoCallChanges DEF SoTypeOK

(* A page: the first objects of the type from the cursor on, as many as a     *)
(* page takes.                                                                *)
LEMMA PageFacts ==
  ASSUME NEW vol \in SUBSET SoNames, NEW page,
         page = CHOOSE p \in SUBSET vol :
                  /\ Cardinality(p) = Min({BatchSize, Cardinality(vol)})
                  /\ \A n \in p, m \in vol \ p : n < m
  PROVE  /\ page \subseteq vol
         /\ Cardinality(page) # BatchSize => page = vol
         /\ \A n \in page, m \in vol \ page : n < m
<1>1. vol \in SUBSET Nat /\ IsFiniteSet(vol) /\ Cardinality(vol) \in Nat
  BY SoAssumption, FS_Subset, FS_CardinalityType
<1>2. PICK k : k = Min({BatchSize, Cardinality(vol)})
  OBVIOUS
<1>3. k \in {BatchSize, Cardinality(vol)} /\ k <= Cardinality(vol) /\ k \in Nat
  <2>1. {BatchSize, Cardinality(vol)} \in SUBSET Nat /\ {BatchSize, Cardinality(vol)} # {}
    BY <1>1, SoAssumption
  <2>2. QED  BY <1>2, <2>1, NatMin
<1>4. \E p \in SUBSET vol : FirstOf(p, vol, k)
  BY <1>1, <1>3, FirstPage, SMTT(30)
<1>5. page = CHOOSE p \in SUBSET vol : Cardinality(p) = k /\ \A n \in p, m \in vol \ p : n < m
  BY <1>2
<1>6. page \in SUBSET vol /\ Cardinality(page) = k /\ \A n \in page, m \in vol \ page : n < m
  BY <1>4, <1>5 DEF FirstOf
<1>7. Cardinality(page) = Cardinality(vol) => page = vol
  BY <1>1, <1>6, FS_Subset
<1>8. QED  BY <1>3, <1>6, <1>7

LEMMA GetObjectsInv == ASSUME SoInv, NEW t \in SoThreads, GetObjects(t) PROVE SoInv'
<1> USE DEF SoInv
<1> DEFINE from == IF so[t].pc = "idle" THEN Stored ELSE {n \in Stored : n >= so[t].cursor}
           vol == from \cap OfType("volume")
           page == CHOOSE p \in SUBSET vol :
                     /\ Cardinality(p) = Min({BatchSize, Cardinality(vol)})
                     /\ \A n \in p, m \in vol \ p : n < m
           after == {n \in from : \A m \in page : n > m}
           next == NextCursor(page, IF Cardinality(page) < BatchSize THEN {} ELSE after)
           due == IF so[t].pc = "idle" THEN OfType("volume") ELSE so[t].due
           isFull == Cardinality(page) = BatchSize
           r == [NoSoCall EXCEPT !.pc = IF next = 0 THEN "done" ELSE "paging", !.cursor = next,
                   !.seen = so[t].seen \cup page, !.full = isFull, !.due = due]
<1>1. /\ so[t].pc \in {"idle", "paging"} /\ so' = [so EXCEPT ![t] = r]
      /\ UNCHANGED <<store, kids, types, mgrLock, objLock>>
  BY DEF GetObjects
<1>2. /\ from \subseteq SoNames /\ vol \in SUBSET SoNames /\ OfType("volume") \subseteq Stored
      /\ OfType("volume") \subseteq SoNames /\ so[t] \in SoCalls /\ SoNames \subseteq Nat
  BY SoAssumption DEF Stored, OfType, NoType, SoTypeOK
<1>3. /\ page \subseteq vol
      /\ ~isFull => page = vol
      /\ \A n \in page, m \in vol \ page : n < m
  <2> HIDE DEF vol
  <2>1. QED  BY <1>2, PageFacts
<1> HIDE DEF page
<1>4. next = 0 \/ (isFull /\ after # {} /\ next = Min(after))
  BY DEF NextCursor
<1>5. after \in SUBSET Nat
  BY <1>2
<1>6. next \in Nat /\ (next # 0 => isFull /\ \A n \in after : next <= n)
  <2> HIDE DEF after, next, isFull
  <2>1. PICK m : m = Min(after)
    OBVIOUS
  <2>2. after # {} => m \in after /\ m \in Nat /\ \A n \in after : m <= n
    BY <1>5, <2>1, NatMin
  <2>3. next = 0 \/ (isFull /\ after # {} /\ next = m)
    BY <1>4, <2>1
  <2>4. CASE next = 0
    BY <2>4
  <2>5. CASE next # 0
    BY <2>2, <2>3, <2>5
  <2>6. QED  BY <2>4, <2>5
<1>7. due \subseteq SoNames /\ due \subseteq OfType("volume")
  BY <1>1, <1>2 DEF Paging
<1>8. \A n \in due \ so[t].seen : n \in vol
  BY <1>1, <1>2, <1>7 DEF Paging
<1>9. next = 0 /\ ~isFull => due \subseteq so[t].seen \cup page
  BY <1>3, <1>8
<1>10. \A n \in due \ (so[t].seen \cup page) : n \in after
  BY <1>2, <1>3, <1>8
<1>11. /\ r \in SoCalls /\ r.pc = (IF next = 0 THEN "done" ELSE "paging") /\ r.cursor = next
       /\ r.seen = so[t].seen \cup page /\ r.due = due /\ r.full = isFull
  <2>1. page \subseteq SoNames /\ so[t].seen \subseteq SoNames
    BY <1>2, <1>3 DEF SoCalls
  <2>2. PICK b \in BOOLEAN : b = isFull
    OBVIOUS
  <2> HIDE DEF next, isFull, due
  <2>3. r = [NoSoCall EXCEPT !.pc = IF next = 0 THEN "done" ELSE "paging", !.cursor = next,
               !.seen = so[t].seen \cup page, !.full = b, !.due = due]
    BY <2>2
  <2> HIDE DEF r
  <2>4. /\ r \in SoCalls /\ r.pc = (IF next = 0 THEN "done" ELSE "paging") /\ r.cursor = next
        /\ r.seen = so[t].seen \cup page /\ r.due = due /\ r.full = b
    BY <1>6, <1>7, <2>1, <2>3, NoSoCallFacts DEF SoCalls, SoPlaces
  <2>5. QED  BY <2>2, <2>4
<1> HIDE DEF r, next, due, after, isFull, vol, from
<1>12. so' \in [SoThreads -> SoCalls] /\ so'[t] = r /\ \A u \in SoThreads \ {t} : so'[u] = so[u]
  BY <1>1, <1>11 DEF SoTypeOK
<1>13. r.pc \in {"done", "paging"} /\ (r.pc = "paging" => next # 0) /\ (r.pc = "done" => next = 0)
  BY <1>11
<1>14. SoTypeOK'
  BY <1>1, <1>12, <1>13 DEF SoTypeOK
<1>15. LocksHeld'
  <2>1. \A u \in SoThreads : \/ so'[u] = so[u]
                             \/ /\ so[u].pc \in {"idle", "paging"}
                                /\ so'[u].pc \in {"done", "paging"}
    BY <1>1, <1>12, <1>13
  <2>2. QED  BY <1>1, <2>1, SMTT(30) DEF LocksHeld, SoTypeOK, Mutexes
<1>16. Stored' = Stored /\ OfType("volume")' = OfType("volume")
  BY <1>1 DEF Stored, OfType
<1>17. Linked' /\ TypesCoverChildren'
  BY <1>1, <1>12, <1>13, <1>16, SMTT(30) DEF Linked, TypesCoverChildren
<1>18. Paging'
  BY <1>6, <1>7, <1>10, <1>11, <1>12, <1>13, <1>16 DEF Paging
<1>19. PagesComplete'
  BY <1>9, <1>11, <1>12, <1>13 DEF PagesComplete
<1>20. QED  BY <1>14, <1>15, <1>17, <1>18, <1>19

LEMMA SoStepInv == SoInv /\ [SoNext]_soVars => SoInv'
<1> SUFFICES ASSUME SoInv, [SoNext]_soVars PROVE SoInv'
  OBVIOUS
<1>1. ASSUME NEW t \in SoThreads,
             \/ CreateObject(t) \/ AddChild(t) \/ EmplaceChild(t) \/ AddObjectType(t)
             \/ GetByPath(t) \/ GetChild(t) \/ FollowPath(t) \/ GetObjects(t) \/ PagingDone(t)
      PROVE  SoInv'
  BY <1>1, CreateObjectInv, AddChildInv, EmplaceChildInv, AddObjectTypeInv, GetByPathInv,
     GetChildInv, FollowPathInv, GetObjectsInv, PagingDoneInv
<1>2. CASE UNCHANGED soVars
  <2>1. UNCHANGED <<store, kids, types, mgrLock, objLock, so>>
    BY <1>2 DEF soVars
  <2>2. Stored' = Stored /\ OfType("volume")' = OfType("volume")
    BY <2>1 DEF Stored, OfType
  <2>3. SoTypeOK' /\ LocksHeld'
    BY <2>1 DEF SoInv, SoTypeOK, LocksHeld
  <2>4. Linked' /\ TypesCoverChildren'
    BY <2>1, <2>2, SMTT(30) DEF SoInv, Linked, TypesCoverChildren
  <2>5. Paging' /\ PagesComplete'
    BY <2>1, <2>2 DEF SoInv, Paging, PagesComplete
  <2>6. QED  BY <2>3, <2>4, <2>5 DEF SoInv
<1>3. QED  BY <1>1, <1>2 DEF SoNext

(* For any number of threads and objects: however add_child, requests on a    *)
(* path and paging requests overlap, no threads wait for each other's locks,  *)
(* no type of a child is missing and no object is left out of the pages.      *)
THEOREM TreeHolds == SoSpec => []TreeSound
<1>1. SoInit => SoInv
  BY SoInitInv
<1>2. SoInv /\ [SoNext]_soVars => SoInv'
  BY SoStepInv
<1>3. SoInv => TreeSound
  BY SoInvSound
<1>4. QED  BY <1>1, <1>2, <1>3, PTL DEF SoSpec
------------------------------------------------------------------------------
(* The settings.                                                              *)

HasFields(s) == DOMAIN s = {"load", "port", "host", "tags"}

OverridesIn(s) == \A f \in DOMAIN Override : s[f] = Override[f]

ReloadOK(r) ==
  /\ r = [pc |-> r.pc, new |-> r.new, old |-> r.old, waits |-> r.waits]
  /\ r.pc \in {"idle", "check", "restart", "exchange", "synchronize"}
  /\ HasFields(r.new) /\ r.waits \subseteq SettingsReaders

Reads == [pc : {"out", "got", "reading"}, node : Nat, early : BOOLEAN]

SettingsTypeOK ==
  /\ HasFields(file) /\ HasFields(config_js) /\ ReloadOK(rop)
  /\ boot \in {"save", "merge", "truncate", "write", "load", "loading", "up", "down"}
  /\ \E n \in Nat : DOMAIN val = 1 .. n
  /\ cur \in DOMAIN val /\ \A n \in DOMAIN val : HasFields(val[n])
  /\ rd \in [SettingsReaders -> Reads]

\* The node in use, the one a reload has replaced and the ones given to call_rcu
\* are different ones.
NodesApart ==
  /\ freed \cup DOMAIN old \subseteq DOMAIN val
  /\ cur \notin freed \cup DOMAIN old
  /\ rop.pc = "synchronize" => /\ rop.old \in DOMAIN val
                               /\ rop.old \notin freed \cup DOMAIN old \cup {cur}

\* make_and_exchange waits for whoever still reads the node it has replaced.
WaitedFor ==
  \A r \in Reading : rd[r].early =>
    \/ rd[r].node = cur
    \/ rop.pc = "synchronize" /\ rd[r].node = rop.old /\ r \in rop.waits

\* What a load or a reload that has read the file knows.
ReloadKnows ==
  /\ rop.pc \in {"check", "exchange"} => text = rop.new
  /\ rop.pc = "restart" => text = NoText
  /\ boot = "up" /\ rop.pc = "exchange" => ~diff(rop.new, val[cur])

\* What register_factory has done so far.
BootKnows ==
  /\ boot \in {"truncate", "write"} => OverridesIn(config_js)
  /\ boot = "load" /\ file # Torn => OverridesIn(file)
  /\ boot = "loading" => rop.pc = "exchange" /\ rop.new = file /\ OverridesIn(file)
  /\ boot \notin {"loading", "up"} => rop.pc = "idle"

SettingsInv ==
  SettingsTypeOK /\ NodesApart /\ WaitedFor /\ ReloadKnows /\ BootKnows /\ TextMatches

LEMMA SomeSettings ==
  /\ HasFields(Default) /\ HasFields(Absent) /\ HasFields(Torn)
  /\ \A s \in Configs : HasFields(s)
BY DEF HasFields, Default, Absent, Torn, Configs

LEMMA SchemaFields == DOMAIN Default = {"load", "port", "host", "tags"} /\ Cold = {"port", "host", "tags"}
BY DEF Default, Cold, Hotswap

LEMMA DiffIs ==
  ASSUME NEW new, NEW cold, HasFields(new)
  PROVE  diff(new, cold) <=> \/ new["port"] # cold["port"]
                             \/ diff_string(cold["host"], new["host"])
                             \/ diff_vector(cold["tags"], new["tags"])
<1> DEFINE D(f) == CASE f = "port" -> new[f] # cold[f]
                     [] f = "host" -> diff_string(cold[f], new[f])
                     [] f = "tags" -> diff_vector(cold[f], new[f])
<1>1. DOMAIN new \ Hotswap = {"port", "host", "tags"}
  BY DEF HasFields, Hotswap
<1>2. D("port") <=> new["port"] # cold["port"]
  OBVIOUS
<1>3. D("host") <=> diff_string(cold["host"], new["host"])
  OBVIOUS
<1>4. D("tags") <=> diff_vector(cold["tags"], new["tags"])
  OBVIOUS
<1>5. diff(new, cold) <=> \E f \in DOMAIN new \ Hotswap : D(f)
  BY DEF diff
<1> HIDE DEF D
<1>6. QED  BY <1>1, <1>2, <1>3, <1>4, <1>5

\* What a reload lets pass differs in no cold setting, but for an empty string.
LEMMA DiffKeepsCold ==
  ASSUME NEW new, NEW cold, HasFields(new), ~diff(new, cold)
  PROVE  \A f \in Cold : new[f] = cold[f] \/ (f = "host" /\ "" \in {new[f], cold[f]})
BY DiffIs, SchemaFields DEF diff_string, diff_vector

\* A hotswap setting is not compared.
LEMMA DiffIgnoresLoad ==
  ASSUME NEW new, NEW s, NEW t, HasFields(new), \A f \in Cold : s[f] = t[f], ~diff(new, s)
  PROVE  ~diff(new, t)
<1>1. s["port"] = t["port"] /\ s["host"] = t["host"] /\ s["tags"] = t["tags"]
  BY SchemaFields
<1>2. QED  BY <1>1, DiffIs

LEMMA MergeFacts ==
  ASSUME NEW s, HasFields(s)
  PROVE  HasFields(merge_patch(s, Override)) /\ OverridesIn(merge_patch(s, Override))
BY OverrideAssumption, SchemaFields DEF HasFields, OverridesIn, merge_patch

LEMMA ReloadBegins ==
  ASSUME NEW p \in {"check", "exchange"}, NEW s, HasFields(s), NEW r,
         r = [NoReload EXCEPT !.pc = p, !.new = s]
  PROVE  ReloadOK(r) /\ r.pc = p /\ r.new = s
BY DEF ReloadOK, NoReload

LEMMA NoReloadOK == ReloadOK(NoReload) /\ NoReload.pc = "idle"
BY SomeSettings DEF ReloadOK, NoReload

LEMMA ReloadGoesOn ==
  ASSUME ReloadOK(rop), NEW p \in {"restart", "exchange"}, rop' = [rop EXCEPT !.pc = p]
  PROVE  ReloadOK(rop)' /\ rop'.pc = p /\ rop'.new = rop.new
BY DEF ReloadOK

LEMMA SettingsInitInv == SettingsInit => SettingsInv
<1> SUFFICES ASSUME SettingsInit PROVE SettingsInv
  OBVIOUS
<1>1. /\ boot = "save" /\ config_js = Default /\ cur = 1 /\ val = [n \in {1} |-> Default]
      /\ freed = {} /\ old = [n \in {} |-> {}] /\ rop = NoReload
      /\ rd = [r \in SettingsReaders |-> NoRead] /\ HasFields(file)
  BY SomeSettings DEF SettingsInit, Memory
<1>2. SettingsTypeOK
  <2>1. rd \in [SettingsReaders -> Reads]
    BY <1>1 DEF Reads, NoRead
  <2>2. DOMAIN val = 1 .. 1 /\ HasFields(val[1])
    BY <1>1, SomeSettings, SMTT(30)
  <2>3. QED  BY <1>1, <2>1, <2>2, SomeSettings, NoReloadOK DEF SettingsTypeOK
<1>3. NodesApart /\ ReloadKnows /\ BootKnows /\ TextMatches
  BY <1>1, NoReloadOK DEF NodesApart, ReloadKnows, BootKnows, TextMatches
<1>4. WaitedFor
  BY <1>1 DEF WaitedFor, Reading, NoRead
<1>5. QED  BY <1>2, <1>3, <1>4 DEF SettingsInv

------------------------------------------------------------------------------
\* register_factory: no settings are in use yet.
LEMMA RegisterStepInv ==
  ASSUME SettingsInv, SaveDefault \/ ReadToMerge \/ TruncateFile \/ WriteMerged
  PROVE  SettingsInv'
<1>1. UNCHANGED <<cur, val, freed, old, text, rop, rd>>
  BY DEF SaveDefault, ReadToMerge, TruncateFile, WriteMerged
<1>2. /\ boot \notin {"loading", "up"} /\ rop.pc = "idle"
      /\ boot' \in {"load", "merge", "truncate", "write", "down"}
  BY DEF SettingsInv, BootKnows, SaveDefault, ReadToMerge, TruncateFile, WriteMerged
<1>3. HasFields(file)' /\ HasFields(config_js)'
  BY SomeSettings, MergeFacts
     DEF SettingsInv, SettingsTypeOK, SaveDefault, ReadToMerge, TruncateFile, WriteMerged
<1>4. SettingsTypeOK'
  BY <1>1, <1>2, <1>3 DEF SettingsInv, SettingsTypeOK
<1>5. NodesApart' /\ ReloadKnows' /\ TextMatches'
  BY <1>1, <1>2 DEF SettingsInv, NodesApart, ReloadKnows, TextMatches
<1>6. WaitedFor'
  BY <1>1 DEF SettingsInv, WaitedFor, Reading
<1>7. BootKnows'
  <2>1. CASE SaveDefault
    BY <1>1, <1>2, <2>1 DEF SaveDefault, BootKnows, OverridesIn
  <2>2. CASE ReadToMerge
    BY <1>1, <1>2, <2>2, MergeFacts, SMTT(30)
       DEF ReadToMerge, BootKnows, SettingsInv, SettingsTypeOK, OverridesIn
  <2>3. CASE TruncateFile
    BY <1>1, <1>2, <2>3 DEF TruncateFile, BootKnows, SettingsInv, OverridesIn
  <2>4. CASE WriteMerged
    BY <1>1, <1>2, <2>4 DEF WriteMerged, BootKnows, SettingsInv, OverridesIn
  <2>5. QED  BY <2>1, <2>2, <2>3, <2>4
<1>8. QED  BY <1>4, <1>5, <1>6, <1>7 DEF SettingsInv

LEMMA LoadInv == SettingsInv /\ Load => SettingsInv'
<1> SUFFICES ASSUME SettingsInv, Load PROVE SettingsInv'
  OBVIOUS
<1>1. /\ UNCHANGED <<file, config_js, cur, val, freed, old, rd>>
      /\ boot = "load" /\ rop.pc = "idle" /\ HasFields(file)
  BY DEF Load, SettingsInv, SettingsTypeOK, BootKnows
<1>2. WaitedFor'
  BY <1>1 DEF SettingsInv, WaitedFor, Reading
<1>3. CASE file = Torn
  <2>1. boot' = "down" /\ UNCHANGED <<text, rop>>
    BY <1>3 DEF Load
  <2>2. QED
    BY <1>1, <1>2, <2>1
       DEF SettingsInv, SettingsTypeOK, NodesApart, ReloadKnows, BootKnows, TextMatches
<1>4. CASE file # Torn
  <2>1. boot' = "loading" /\ text' = file /\ ReloadOK(rop)' /\ rop'.pc = "exchange" /\ rop'.new = file
    BY <1>1, <1>4, ReloadBegins DEF Load
  <2>2. OverridesIn(file)' 
    BY <1>1, <1>4 DEF SettingsInv, BootKnows, OverridesIn
  <2>3. QED
    BY <1>1, <1>2, <2>1, <2>2
       DEF SettingsInv, SettingsTypeOK, NodesApart, ReloadKnows, BootKnows, TextMatches
<1>5. QED  BY <1>3, <1>4

------------------------------------------------------------------------------
LEMMA ReloadStepInv ==
  ASSUME SettingsInv, ReloadParse \/ ReloadCheck \/ RestartNeeded
  PROVE  SettingsInv'
<1>1. UNCHANGED <<file, boot, config_js, cur, val, freed, old, rd>>
  BY DEF ReloadParse, ReloadCheck, RestartNeeded
<1>2. boot = "up" /\ HasFields(file) /\ ReloadOK(rop) /\ rop.pc # "synchronize"
  BY DEF ReloadParse, ReloadCheck, RestartNeeded, SettingsInv, SettingsTypeOK, BootKnows
<1>3. /\ ReloadOK(rop)'
      /\ \/ rop'.pc = "check" /\ text' = rop'.new
         \/ rop'.pc = "restart" /\ text' = NoText
         \/ rop'.pc = "exchange" /\ text' = rop'.new /\ ~diff(rop'.new, val[cur])
         \/ rop'.pc = "idle" /\ text' = NoText
  <2>1. CASE ReloadParse
    <3>1. text' = file /\ rop' = [NoReload EXCEPT !.pc = "check", !.new = file]
      BY <2>1 DEF ReloadParse
    <3>2. ReloadOK(rop)' /\ rop'.pc = "check" /\ rop'.new = file
      BY <1>2, <3>1 DEF ReloadOK, NoReload
    <3>3. QED  BY <3>1, <3>2
  <2>2. CASE ReloadCheck
    <3>1. text = rop.new
      BY <2>2 DEF ReloadCheck, SettingsInv, ReloadKnows
    <3>2. QED  BY <1>2, <2>2, <3>1, ReloadGoesOn DEF ReloadCheck
  <2>3. CASE RestartNeeded
    BY <2>3, NoReloadOK DEF RestartNeeded, SettingsInv, ReloadKnows
  <2>4. QED  BY <2>1, <2>2, <2>3
<1>4. SettingsTypeOK' /\ NodesApart'
  BY <1>1, <1>3 DEF SettingsInv, SettingsTypeOK, NodesApart
<1>5. WaitedFor'
  BY <1>1, <1>2 DEF SettingsInv, WaitedFor, Reading
<1>6. ReloadKnows' /\ TextMatches' /\ BootKnows'
  BY <1>1, <1>2, <1>3 DEF ReloadKnows, TextMatches, BootKnows
<1>7. QED  BY <1>4, <1>5, <1>6 DEF SettingsInv

LEMMA ExchangeFacts ==
  ASSUME SettingsInv, Exchange
  PROVE  /\ cur' \notin DOMAIN val /\ cur' \in DOMAIN val' /\ DOMAIN val \subseteq DOMAIN val'
         /\ \E n \in Nat : DOMAIN val' = 1 .. n
         /\ val'[cur'] = rop.new /\ \A m \in DOMAIN val : val'[m] = val[m]
         /\ \A m \in DOMAIN val' : m \in DOMAIN val \/ m = cur'
         /\ boot' = "up" /\ rop.pc = "exchange" /\ ReloadOK(rop)'
         /\ rop'.pc = "synchronize" /\ rop'.old = cur /\ rop'.waits = Reading /\ rop'.new = rop.new
<1>1. PICK k \in Nat : DOMAIN val = 1 .. k
  BY DEF SettingsInv, SettingsTypeOK
<1>2. Cardinality(1 .. k) = k
  BY FS_Interval, SMTT(30)
<1>3. cur' = k + 1 /\ val' = [m \in 1 .. k + 1 |-> IF m = k + 1 THEN rop.new ELSE val[m]]
  BY <1>1, <1>2 DEF Exchange
<1>4. /\ ReloadOK(rop)' /\ rop'.pc = "synchronize" /\ rop'.old = cur /\ rop'.waits = Reading
      /\ rop'.new = rop.new
  <2>1. ReloadOK(rop) /\ Reading \subseteq SettingsReaders
    BY DEF SettingsInv, SettingsTypeOK, Reading
  <2>2. QED  BY <2>1 DEF Exchange, ReloadOK
<1>5. QED  BY <1>1, <1>3, <1>4, SMTT(30) DEF Exchange

LEMMA ExchangeInv == SettingsInv /\ Exchange => SettingsInv'
<1> SUFFICES ASSUME SettingsInv, Exchange PROVE SettingsInv'
  OBVIOUS
<1>1. UNCHANGED <<file, config_js, freed, old, text, rd>>
  BY DEF Exchange
<1>2. ReloadOK(rop) /\ text = rop.new /\ HasFields(rop.new) /\ cur \in DOMAIN val
  BY DEF Exchange, SettingsInv, SettingsTypeOK, ReloadKnows, ReloadOK
<1>3. SettingsTypeOK'
  <2>1. \A m \in DOMAIN val' : HasFields(val'[m])
    BY <1>2, ExchangeFacts DEF SettingsInv, SettingsTypeOK
  <2>2. QED  BY <1>1, <2>1, ExchangeFacts DEF SettingsInv, SettingsTypeOK
<1>4. NodesApart'
  BY <1>1, <1>2, ExchangeFacts DEF SettingsInv, NodesApart
<1>5. WaitedFor'
  <2>1. Reading' = Reading
    BY <1>1 DEF Reading
  <2>2. \A r \in Reading : rd[r].early => rd[r].node = cur
    BY ExchangeFacts DEF SettingsInv, WaitedFor
  <2>3. QED  BY <1>1, <2>1, <2>2, ExchangeFacts DEF WaitedFor
<1>6. ReloadKnows' /\ BootKnows'
  BY ExchangeFacts DEF ReloadKnows, BootKnows
<1>7. TextMatches'
  BY <1>1, <1>2, ExchangeFacts DEF TextMatches
<1>8. QED  BY <1>3, <1>4, <1>5, <1>6, <1>7 DEF SettingsInv

LEMMA SynchronizeInv == SettingsInv /\ SynchronizeRcu => SettingsInv'
<1> SUFFICES ASSUME SettingsInv, SynchronizeRcu PROVE SettingsInv'
  OBVIOUS
<1>1. /\ UNCHANGED <<file, boot, config_js, cur, val, freed, text, rd>>
      /\ rop.pc = "synchronize" /\ rop.waits = {} /\ rop' = NoReload
      /\ DOMAIN old' = DOMAIN old \cup {rop.old}
  BY DEF SynchronizeRcu
<1>2. ReloadOK(rop)' /\ rop'.pc = "idle"
  BY <1>1, NoReloadOK
<1>3. SettingsTypeOK'
  BY <1>1, <1>2 DEF SettingsInv, SettingsTypeOK
<1>4. NodesApart'
  BY <1>1, <1>2 DEF SettingsInv, NodesApart
<1>5. WaitedFor'
  BY <1>1 DEF SettingsInv, WaitedFor, Reading
<1>6. ReloadKnows' /\ BootKnows' /\ TextMatches'
  BY <1>1, <1>2 DEF SettingsInv, ReloadKnows, BootKnows, OverridesIn, TextMatches
<1>7. QED  BY <1>3, <1>4, <1>5, <1>6 DEF SettingsInv

LEMMA FreeNodeInv == SettingsInv /\ FreeNode => SettingsInv'
<1> SUFFICES ASSUME SettingsInv, FreeNode PROVE SettingsInv'
  OBVIOUS
<1>1. UNCHANGED <<file, boot, config_js, cur, val, text, rop, rd>>
  BY DEF FreeNode
<1>2. freed' \cup DOMAIN old' \subseteq freed \cup DOMAIN old
  BY DEF FreeNode
<1>3. SettingsTypeOK' /\ NodesApart'
  BY <1>1, <1>2 DEF SettingsInv, SettingsTypeOK, NodesApart
<1>4. WaitedFor'
  BY <1>1 DEF SettingsInv, WaitedFor, Reading
<1>5. ReloadKnows' /\ BootKnows' /\ TextMatches'
  BY <1>1 DEF SettingsInv, ReloadKnows, BootKnows, OverridesIn, TextMatches
<1>6. QED  BY <1>3, <1>4, <1>5 DEF SettingsInv

------------------------------------------------------------------------------
LEMMA ReaderInv ==
  ASSUME SettingsInv, NEW r \in SettingsReaders, GetPointer(r) \/ ReadLock(r) \/ ReadUnlock(r)
  PROVE  SettingsInv'
<1>1. UNCHANGED <<file, boot, config_js, cur, val, freed, text>>
  BY DEF GetPointer, ReadLock, ReadUnlock
<1>2. rd \in [SettingsReaders -> Reads] /\ cur \in Nat
  BY SMTT(30) DEF SettingsInv, SettingsTypeOK
<1>3. /\ rd' \in [SettingsReaders -> Reads]
      /\ \A q \in SettingsReaders \ {r} : rd'[q] = rd[q]
      /\ rd'[r].pc = "reading" => /\ rd'[r].node = rd[r].node /\ UNCHANGED <<old, rop>>
                                  /\ rd'[r].early => rd[r].node = cur
      /\ rd'[r].pc # "reading" => rd[r].pc # "reading" \/ ReadUnlock(r)
  <2>1. CASE GetPointer(r)
    BY <1>2, <2>1 DEF GetPointer, Reads, NoRead
  <2>2. CASE ReadLock(r)
    <3>1. PICK e \in BOOLEAN : e = (rd[r].node = cur)
      OBVIOUS
    <3>2. rd' = [rd EXCEPT ![r].pc = "reading", ![r].early = e]
      BY <2>2, <3>1 DEF ReadLock
    <3>3. rd' \in [SettingsReaders -> Reads]
      BY <1>2, <3>2 DEF Reads
    <3>4. rd'[r].early = e /\ rd'[r].node = rd[r].node /\ rd'[r].pc = "reading"
      BY <1>2, <3>2 DEF Reads
    <3>5. \A q \in SettingsReaders \ {r} : rd'[q] = rd[q]
      BY <1>2, <3>2
    <3>6. UNCHANGED <<old, rop>>
      BY <2>2 DEF ReadLock
    <3>7. QED  BY <3>1, <3>3, <3>4, <3>5, <3>6
  <2>3. CASE ReadUnlock(r)
    BY <1>2, <2>3 DEF ReadUnlock, Reads, NoRead
  <2>4. QED  BY <2>1, <2>2, <2>3
<1>4. /\ ReloadOK(rop)' /\ rop'.pc = rop.pc /\ rop'.new = rop.new /\ rop'.old = rop.old
      /\ DOMAIN old' = DOMAIN old
      /\ \A q \in SettingsReaders \ {r} : q \in rop.waits => q \in rop'.waits
  <2>1. ReloadOK(rop)
    BY DEF SettingsInv, SettingsTypeOK
  <2>2. CASE UNCHANGED <<old, rop>>
    BY <2>1, <2>2
  <2>3. CASE ReadUnlock(r)
    BY <2>1, <2>3 DEF ReadUnlock, ReloadOK
  <2>4. QED  BY <2>2, <2>3 DEF GetPointer, ReadLock
<1>5. SettingsTypeOK' /\ NodesApart'
  BY <1>1, <1>3, <1>4 DEF SettingsInv, SettingsTypeOK, NodesApart
<1>6. WaitedFor'
  <2>1. ASSUME NEW q \in SettingsReaders, rd'[q].pc = "reading", rd'[q].early
        PROVE  \/ rd'[q].node = cur'
               \/ rop'.pc = "synchronize" /\ rd'[q].node = rop'.old /\ q \in rop'.waits
    <3>1. CASE q = r
      BY <1>1, <1>3, <2>1, <3>1
    <3>2. CASE q # r
      <4>1. q \in Reading /\ rd[q].early /\ rd'[q] = rd[q]
        BY <1>3, <2>1, <3>2 DEF Reading
      <4>2. QED  BY <1>1, <1>4, <3>2, <4>1 DEF SettingsInv, WaitedFor
    <3>3. QED  BY <3>1, <3>2
  <2>2. QED  BY <2>1 DEF WaitedFor, Reading
<1>7. ReloadKnows' /\ BootKnows' /\ TextMatches'
  BY <1>1, <1>4 DEF SettingsInv, ReloadKnows, BootKnows, OverridesIn, TextMatches
<1>8. QED  BY <1>5, <1>6, <1>7 DEF SettingsInv

LEMMA FileWrittenInv == SettingsInv /\ (SaveFile \/ EditFile) => SettingsInv'
<1> SUFFICES ASSUME SettingsInv, SaveFile \/ EditFile PROVE SettingsInv'
  OBVIOUS
<1>1. UNCHANGED <<boot, config_js, cur, val, freed, old, text, rop, rd>> /\ boot \in {"up", "down"}
  BY DEF SaveFile, EditFile
<1>2. HasFields(file)'
  BY SomeSettings DEF SaveFile, EditFile, SettingsInv, SettingsTypeOK
<1>3. SettingsTypeOK' /\ NodesApart'
  BY <1>1, <1>2 DEF SettingsInv, SettingsTypeOK, NodesApart
<1>4. WaitedFor'
  BY <1>1 DEF SettingsInv, WaitedFor, Reading
<1>5. ReloadKnows' /\ BootKnows' /\ TextMatches'
  BY <1>1 DEF SettingsInv, ReloadKnows, BootKnows, TextMatches
<1>6. QED  BY <1>3, <1>4, <1>5 DEF SettingsInv

LEMMA ModifyFacts ==
  ASSUME SettingsInv, ModifyInPlace
  PROVE  /\ DOMAIN val' = DOMAIN val /\ \A n \in DOMAIN val : HasFields(val'[n])
         /\ \A f \in Cold : val'[cur][f] = val[cur][f]
<1>1. PICK v \in {1, 2} : val' = [val EXCEPT ![cur].load = v]
  BY DEF ModifyInPlace
<1>2. cur \in DOMAIN val /\ \A n \in DOMAIN val : HasFields(val[n])
  BY DEF SettingsInv, SettingsTypeOK
<1>3. val' = [val EXCEPT ![cur] = [val[cur] EXCEPT !.load = v]]
  BY <1>1
<1>4. DOMAIN val' = DOMAIN val /\ val'[cur] = [val[cur] EXCEPT !.load = v]
      /\ \A n \in DOMAIN val \ {cur} : val'[n] = val[n]
  BY <1>2, <1>3
<1>5. HasFields([val[cur] EXCEPT !.load = v])
  BY <1>2 DEF HasFields
<1>6. \A f \in Cold : [val[cur] EXCEPT !.load = v][f] = val[cur][f]
  BY <1>2, SchemaFields DEF HasFields
<1>7. QED  BY <1>2, <1>4, <1>5, <1>6

LEMMA ModifyInv == SettingsInv /\ ModifyInPlace => SettingsInv'
<1> SUFFICES ASSUME SettingsInv, ModifyInPlace PROVE SettingsInv'
  OBVIOUS
<1>1. UNCHANGED <<file, boot, config_js, cur, freed, old, text, rop, rd>> /\ boot = "up"
  BY DEF ModifyInPlace
<1>2. SettingsTypeOK' /\ NodesApart'
  BY <1>1, ModifyFacts DEF SettingsInv, SettingsTypeOK, NodesApart
<1>3. WaitedFor'
  BY <1>1 DEF SettingsInv, WaitedFor, Reading
<1>4. ReloadKnows'
  <2>1. HasFields(rop.new)
    BY DEF SettingsInv, SettingsTypeOK, ReloadOK
  <2>2. rop.pc = "exchange" => ~diff(rop.new, val'[cur])
    BY <1>1, <2>1, ModifyFacts, DiffIgnoresLoad DEF SettingsInv, ReloadKnows
  <2>3. QED  BY <1>1, <2>2 DEF SettingsInv, ReloadKnows
<1>5. BootKnows' /\ TextMatches'
  BY <1>1, ModifyFacts DEF SettingsInv, BootKnows, TextMatches
<1>6. QED  BY <1>2, <1>3, <1>4, <1>5 DEF SettingsInv

\* A process that starts knows nothing but the file.
LEMMA StartAgainInv == SettingsInv /\ StartAgain => SettingsInv'
<1> SUFFICES ASSUME SettingsInv, StartAgain PROVE SettingsInv'
  OBVIOUS
<1>1. /\ boot' = "save" /\ config_js' = Default /\ cur' = 1 /\ val' = [n \in {1} |-> Default]
      /\ freed' = {} /\ old' = [n \in {} |-> {}] /\ rop' = NoReload
      /\ rd' = [r \in SettingsReaders |-> NoRead] /\ file' = file
  BY DEF StartAgain, Memory
<1>2. SettingsTypeOK'
  <2>1. rd' \in [SettingsReaders -> Reads]
    BY <1>1 DEF Reads, NoRead
  <2>2. DOMAIN val' = 1 .. 1 /\ HasFields(val'[1])
    BY <1>1, SomeSettings, SMTT(30)
  <2>3. QED  BY <1>1, <2>1, <2>2, SomeSettings, NoReloadOK DEF SettingsTypeOK, SettingsInv
<1>3. NodesApart' /\ ReloadKnows' /\ BootKnows' /\ TextMatches'
  BY <1>1, NoReloadOK DEF NodesApart, ReloadKnows, BootKnows, TextMatches
<1>4. WaitedFor'
  BY <1>1 DEF WaitedFor, Reading, NoRead
<1>5. QED  BY <1>2, <1>3, <1>4 DEF SettingsInv

LEMMA SettingsStepInv == SettingsInv /\ [SettingsNext]_settingsVars => SettingsInv'
<1> SUFFICES ASSUME SettingsInv, [SettingsNext]_settingsVars PROVE SettingsInv'
  OBVIOUS
<1>1. CASE UNCHANGED settingsVars
  <2>1. UNCHANGED <<file, boot, config_js, cur, val, freed, old, text, rop, rd>>
    BY <1>1 DEF settingsVars
  <2>2. SettingsTypeOK' /\ NodesApart'
    BY <2>1 DEF SettingsInv, SettingsTypeOK, NodesApart
  <2>3. WaitedFor'
    BY <2>1 DEF SettingsInv, WaitedFor, Reading
  <2>4. ReloadKnows' /\ BootKnows' /\ TextMatches'
    BY <2>1 DEF SettingsInv, ReloadKnows, BootKnows, OverridesIn, TextMatches
  <2>5. QED  BY <2>2, <2>3, <2>4 DEF SettingsInv
<1>2. CASE SettingsNext
  BY <1>2, RegisterStepInv, LoadInv, ReloadStepInv, ExchangeInv, SynchronizeInv, FreeNodeInv,
     ReaderInv, FileWrittenInv, ModifyInv, StartAgainInv
     DEF SettingsNext
<1>3. QED  BY <1>1, <1>2

(* For any number of readers and reloads, any overrides of known settings, and
   a crash at any step: a reader that took its read lock while its settings were
   in use keeps them, the text kept is that of the settings in use, no setting
   that is not hotswap changes under a running process, and the process comes
   up with the overrides in its settings and in its file.                     *)
THEOREM SettingsHold == SettingsSpec => SettingsSound
<1> DEFINE ColdSame == boot = "up" /\ boot' = "up" =>
             \A f \in Cold : \/ val'[cur'][f] = val[cur][f]
                             \/ f = "host" /\ "" \in {val'[cur'][f], val[cur][f]}
<1> DEFINE Overridden == boot # "up" /\ boot' = "up" =>
             \A f \in DOMAIN Override : val'[cur'][f] = Override[f] /\ file[f] = Override[f]
<1>1. SettingsInv => ReadersProtected /\ TextMatches
  BY DEF SettingsInv, WaitedFor, NodesApart, ReadersProtected
<1>2. ASSUME SettingsInv, Exchange PROVE ColdSame /\ Overridden
  <2>1. val'[cur'] = rop.new /\ rop.pc = "exchange" /\ HasFields(rop.new)
    BY <1>2, ExchangeFacts DEF SettingsInv, SettingsTypeOK, ReloadOK
  <2>2. CASE boot = "up"
    <3>1. ~diff(rop.new, val[cur])
      BY <1>2, <2>1, <2>2 DEF SettingsInv, ReloadKnows
    <3>2. \A f \in Cold : rop.new[f] = val[cur][f] \/ (f = "host" /\ "" \in {rop.new[f], val[cur][f]})
      BY <2>1, <3>1, DiffKeepsCold
    <3>3. QED  BY <2>1, <2>2, <3>2
  <2>3. CASE boot # "up"
    BY <1>2, <2>1, <2>3 DEF SettingsInv, BootKnows, OverridesIn
  <2>4. QED  BY <2>2, <2>3
<1>3. ASSUME SettingsInv, ModifyInPlace PROVE ColdSame /\ Overridden
  <2>1. boot = "up" /\ cur' = cur
    BY <1>3 DEF ModifyInPlace
  <2>2. QED  BY <1>3, <2>1, ModifyFacts
<1>4. ASSUME UNCHANGED <<cur, val, boot>> PROVE ColdSame /\ Overridden
  BY <1>4
<1>5. ASSUME boot' # "up" PROVE ColdSame /\ Overridden
  BY <1>5
<1>6. ASSUME [SettingsNext]_settingsVars
      PROVE  Exchange \/ ModifyInPlace \/ UNCHANGED <<cur, val, boot>> \/ boot' # "up"
  BY <1>6
     DEF SettingsNext, settingsVars, SaveDefault, ReadToMerge, TruncateFile, WriteMerged, Load,
         ReloadParse, ReloadCheck, RestartNeeded, SynchronizeRcu, FreeNode, GetPointer, ReadLock,
         ReadUnlock, SaveFile, EditFile, StartAgain, Memory
<1>7. SettingsInv /\ [SettingsNext]_settingsVars => ColdSame /\ Overridden
  BY <1>2, <1>3, <1>4, <1>5, <1>6
<1>8. QED
  BY <1>1, <1>7, SettingsInitInv, SettingsStepInv, PTL
     DEF SettingsSpec, SettingsSound, ColdKept, OverridesApplied
===============================================================================
