-------------------------------- MODULE SObject -------------------------------
(* The tree of status objects (sobject/sobject.cpp): objects are created and  *)
(* linked to their parents while requests walk the tree and page through the  *)
(* objects of a type.  The manager and every object have a shared mutex.      *)
EXTENDS Integers, FiniteSets, FiniteSetsExt

CONSTANTS SoThreads, SoNames,      \* names are numbers, in the order of the map
          BatchSize

ASSUME SoAssumption == SoNames \subseteq Nat /\ IsFiniteSet(SoNames) /\ BatchSize \in Nat

VARIABLES store,           \* m_object_store: name -> type, NoType if not there
          kids,            \* name -> names of its m_children
          types,           \* m_object_types: parent type -> types of children
          mgrLock, objLock,\* shared mutexes: holders, and whether exclusive
          so               \* thread -> its call

soVars == <<store, kids, types, mgrLock, objLock, so>>

NoType == "none"
SoTypes == {"module", "volume"}
Free == [holders |-> {}, exclusive |-> FALSE]
NoSoCall == [pc |-> "idle", name |-> 0, child |-> 0, cursor |-> 0, seen |-> {}, due |-> {},
           full |-> FALSE]

CanShare(l) == ~l.exclusive
CanOwn(l) == l.holders = {}
SharedWith(l, t) == [holders |-> l.holders \cup {t}, exclusive |-> FALSE]
Owned(t) == [holders |-> {t}, exclusive |-> TRUE]
Released(l, t) == [holders |-> l.holders \ {t}, exclusive |-> FALSE]
Goto(t, pc) == so' = [so EXCEPT ![t].pc = pc]

Stored == {n \in SoNames : store[n] # NoType}
OfType(ty) == {n \in SoNames : store[n] = ty}

------------------------------------------------------------------------------
CreateObject(t) ==
  /\ so[t].pc = "idle" /\ CanOwn(mgrLock)
  /\ \E n \in SoNames \ Stored, ty \in SoTypes : store' = [store EXCEPT ![n] = ty]
  /\ UNCHANGED <<kids, types, mgrLock, objLock, so>>

\* add_child: the object's lock, then the manager's.
AddChild(t) ==
  \E p \in Stored, c \in Stored :
    /\ so[t].pc = "idle" /\ CanOwn(objLock[p])
    /\ p # c /\ c \notin kids[p] /\ p \notin kids[c]
    /\ objLock' = [objLock EXCEPT ![p] = Owned(t)]
    /\ so' = [so EXCEPT ![t] = [NoSoCall EXCEPT !.pc = "emplace", !.name = p, !.child = c]]
    /\ UNCHANGED <<store, kids, types, mgrLock>>

\* Slip: the object's lock is kept for add_object_type.
EmplaceKept(t) ==
  /\ so[t].pc = "emplace"
  /\ kids' = [kids EXCEPT ![so[t].name] = @ \cup {so[t].child}]
  /\ Goto(t, "add_type")
  /\ UNCHANGED <<store, types, mgrLock, objLock>>

EmplaceChild(t) ==
  /\ so[t].pc = "emplace"
  /\ kids' = [kids EXCEPT ![so[t].name] = @ \cup {so[t].child}]
  /\ objLock' = [objLock EXCEPT ![so[t].name] = Released(@, t)]
  /\ Goto(t, "add_type")
  /\ UNCHANGED <<store, types, mgrLock>>

\* Slip: the type of the child is entered as a parent.
TypesSwapped(t) ==
  /\ so[t].pc = "add_type" /\ CanOwn(mgrLock)
  /\ types' = [types EXCEPT ![store[so[t].child]] = @ \cup {store[so[t].name]}]
  /\ so' = [so EXCEPT ![t] = NoSoCall]
  /\ UNCHANGED <<store, kids, mgrLock, objLock>>

AddObjectType(t) ==
  /\ so[t].pc = "add_type" /\ CanOwn(mgrLock)
  /\ types' = [types EXCEPT ![store[so[t].name]] = @ \cup {store[so[t].child]}]
  /\ so' = [so EXCEPT ![t] = NoSoCall]
  /\ UNCHANGED <<store, kids, mgrLock, objLock>>

\* get_status holds the manager's lock; get_object_by_path takes the lock of
\* each object of the path in turn, inside of it.
GetByPath(t) ==
  \E n \in Stored :
    /\ so[t].pc = "idle" /\ CanShare(mgrLock)
    /\ mgrLock' = SharedWith(mgrLock, t)
    /\ so' = [so EXCEPT ![t] = [NoSoCall EXCEPT !.pc = "path", !.name = n]]
    /\ UNCHANGED <<store, kids, types, objLock>>

GetChild(t) ==
  LET n == so[t].name
  IN /\ so[t].pc = "path" /\ CanShare(objLock[n])
     /\ objLock' = [objLock EXCEPT ![n] = SharedWith(@, t)]
     /\ Goto(t, "child")
     /\ UNCHANGED <<store, kids, types, mgrLock>>

\* The path goes on with a child, or ends and the callback is run.
FollowPath(t) ==
  LET n == so[t].name
  IN /\ so[t].pc = "child"
     /\ objLock' = [objLock EXCEPT ![n] = Released(@, t)]
     /\ \/ /\ \E c \in kids[n] : so' = [so EXCEPT ![t].pc = "path", ![t].name = c]
           /\ UNCHANGED mgrLock
        \/ /\ mgrLock' = Released(mgrLock, t)
           /\ so' = [so EXCEPT ![t] = NoSoCall]
     /\ UNCHANGED <<store, kids, types>>

\* Slip: the cursor names the object after the next.
CursorPast(page, after) == IF after = {} \/ Cardinality(page) < BatchSize THEN 0
                           ELSE Max(page) + 2

\* The page ends the map, or the next object is of another type: no cursor.
NextCursor(page, after) ==
  IF after # {} /\ Cardinality(page) = BatchSize /\ store[Min(after)] = "volume"
  THEN Min(after) ELSE 0

\* get_objects, a page: from the cursor on, the objects of the type.
GetObjects(t) ==
  /\ so[t].pc \in {"idle", "paging"} /\ CanShare(mgrLock)
  /\ LET from == IF so[t].pc = "idle" THEN Stored ELSE {n \in Stored : n >= so[t].cursor}
         page == CHOOSE p \in SUBSET (from \cap OfType("volume")) :
                   /\ Cardinality(p) = Min({BatchSize, Cardinality(from \cap OfType("volume"))})
                   /\ \A n \in p, m \in (from \cap OfType("volume")) \ p : n < m
         after == {n \in from : \A m \in page : n > m}
         next == NextCursor(page, IF Cardinality(page) < BatchSize THEN {} ELSE after)
     IN so' = [so EXCEPT ![t] =
          [NoSoCall EXCEPT !.pc = IF next = 0 THEN "done" ELSE "paging", !.cursor = next,
             !.seen = so[t].seen \cup page, !.full = Cardinality(page) = BatchSize,
             !.due = IF so[t].pc = "idle" THEN OfType("volume") ELSE so[t].due]]
  /\ UNCHANGED <<store, kids, types, mgrLock, objLock>>

PagingDone(t) ==
  /\ so[t].pc = "done"
  /\ so' = [so EXCEPT ![t] = NoSoCall]
  /\ UNCHANGED <<store, kids, types, mgrLock, objLock>>

SoInit ==
  /\ store = [n \in SoNames |-> NoType] /\ kids = [n \in SoNames |-> {}]
  /\ types = [ty \in SoTypes |-> {}] /\ mgrLock = Free
  /\ objLock = [n \in SoNames |-> Free] /\ so = [t \in SoThreads |-> NoSoCall]

SoNext ==
  \E t \in SoThreads :
    \/ CreateObject(t) \/ AddChild(t) \/ EmplaceChild(t) \/ AddObjectType(t)
    \/ GetByPath(t) \/ GetChild(t) \/ FollowPath(t) \/ GetObjects(t) \/ PagingDone(t)

SoSpec == SoInit /\ [][SoNext]_soVars

------------------------------------------------------------------------------
\* The threads a thread cannot go on without.
WaitsFor(t) ==
  CASE so[t].pc = "add_type" -> mgrLock.holders
    [] so[t].pc = "path" /\ objLock[so[t].name].exclusive -> objLock[so[t].name].holders
    [] OTHER -> {}

\* "manager lock must be acquired after releasing per-object locks to preserve the
\* global lock order" (sobject.cpp:36): no threads wait for each other's locks.
NoLockCycle ==
  \A S \in (SUBSET SoThreads) \ {{}} : \E t \in S : WaitsFor(t) \cap S = {}

\* The type of every child is entered under the type of its parent, but for
\* those whose add_child has not come to it yet.
TypesCoverChildren ==
  \A p \in SoNames : \A c \in kids[p] :
    \/ store[c] \in types[store[p]]
    \/ \E t \in SoThreads : so[t].pc = "add_type" /\ so[t].name = p /\ so[t].child = c

\* A client that follows next_cursor to the end has been given every object of
\* the type there was when it began, whatever was created meanwhile, if its last
\* page was not full.
PagesComplete ==
  \A t \in SoThreads : so[t].pc = "done" /\ ~so[t].full => so[t].due \subseteq so[t].seen

\* Objects can be created and linked under requests: no circle of locks, no type
\* of a child missing, no object left out of the pages.
TreeSound == NoLockCycle /\ TypesCoverChildren /\ PagesComplete
===============================================================================
