---------------------------- MODULE BitsetHandles -----------------------------
(* Bitset objects that share buffers and are assigned, moved, copied and      *)
(* compared by several threads (fds/bitset.hpp).  Each object has a lock of   *)
(* its own, a folly::SharedMutex under which a waiting writer holds back new  *)
(* readers; an operation on two objects takes both locks one after the other. *)
EXTENDS Integers, FiniteSets, Sequences

CONSTANTS Handles,         \* bitset objects, by address
          HandleThreads

ASSUME HandlesAssumption == Handles \in SUBSET Nat /\ IsFiniteSet(Handles)

VARIABLES buf,             \* handle -> m_buf, 0 once moved from
          hop              \* thread -> operation, objects, locks taken of its plan

handleVars == <<buf, hop>>

NoHandleCall == [op |-> "none", dst |-> 0, src |-> 0, taken |-> 0]
Buffers == 1 .. Cardinality(Handles)
Deep == {"copy", "copy_unshifted"}
Assigning == {"operator=", "move="}

\* Slip: copy takes the lock of the target first, whatever the addresses.
TargetFirst(op, dst, src) ==
  IF op = "operator==" THEN <<<<dst, "R">>, <<src, "R">>>> ELSE <<<<dst, "W">>, <<src, "R">>>>

\* The locks of an operation in the order it takes them: by address for the
\* deep copies and the comparison, target first for the assignments.
Plan(op, dst, src) ==
  LET mine  == <<dst, IF op = "operator==" THEN "R" ELSE "W">>
      other == <<src, IF op = "move=" THEN "W" ELSE "R">>
  IN CASE op = "resize" -> <<mine>>
       [] op \in Assigning -> <<mine, other>>
       [] op \in Deep \cup {"operator=="} -> IF dst < src THEN <<mine, other>> ELSE <<other, mine>>

PlanOf(t) == Plan(hop[t].op, hop[t].dst, hop[t].src)
Busy(t) == hop[t].op # "none"
Holds(t, lock) == Busy(t) /\ \E i \in 1 .. hop[t].taken : PlanOf(t)[i] = lock
Waits(t) == Busy(t) /\ hop[t].taken < Len(PlanOf(t))
Wanted(t) == PlanOf(t)[hop[t].taken + 1]

\* t cannot have the lock it wants because of u.
MakesWait(t, u) ==
  /\ t # u
  /\ Waits(t)
  /\ LET h == Wanted(t)[1]
     IN \/ Holds(u, <<h, "W">>)
        \/ Wanted(t)[2] = "W" /\ Holds(u, <<h, "R">>)
        \/ Wanted(t)[2] = "R" /\ Waits(u) /\ Wanted(u) = <<h, "W">>

HandlesInit ==
  /\ buf \in {f \in [Handles -> Buffers] : \A h \in Handles : f[h] <= h}
  /\ hop = [t \in HandleThreads |-> NoHandleCall]

\* Operations on a moved-from object fail their assertion.
CallBitset(t) ==
  /\ ~Busy(t)
  /\ \E dst, src \in Handles, op \in Deep \cup Assigning \cup {"operator==", "resize"} :
       /\ (dst = src) = (op = "resize")
       /\ buf[dst] # 0 /\ buf[src] # 0
       /\ hop' = [hop EXCEPT ![t] = [op |-> op, dst |-> dst, src |-> src, taken |-> 0]]
  /\ UNCHANGED buf

TakeLock(t) ==
  /\ Waits(t)
  /\ \A u \in HandleThreads : ~MakesWait(t, u)
  /\ hop' = [hop EXCEPT ![t].taken = @ + 1]
  /\ UNCHANGED buf

Unused == CHOOSE b \in Buffers \cup {Cardinality(Handles) + 1} : \A h \in Handles : buf[h] # b

\* Slip: a target that shares the source's buffer is copied onto itself.
KeepsSharedBuffer(dst, src) == {buf[dst], Unused}

\* copy_locked: a buffer of another size, or the one both share, is replaced;
\* one that fits is overwritten.
CopyTarget(dst, src) == IF buf[dst] = buf[src] THEN {Unused} ELSE {buf[dst], Unused}

Operate(t) ==
  LET dst == hop[t].dst
      src == hop[t].src
  IN /\ Busy(t) /\ ~Waits(t)
     /\ CASE hop[t].op = "operator=" -> buf' = [buf EXCEPT ![dst] = buf[src]]
          [] hop[t].op = "move=" -> buf' = [buf EXCEPT ![dst] = buf[src], ![src] = 0]
          [] hop[t].op \in Deep /\ 0 \notin {buf[dst], buf[src]} ->
               \E b \in CopyTarget(dst, src) : buf' = [buf EXCEPT ![dst] = b]
          [] hop[t].op = "resize" /\ buf[dst] # 0 -> buf' = [buf EXCEPT ![dst] = Unused]
          [] OTHER -> UNCHANGED buf
     /\ hop' = [hop EXCEPT ![t] = NoHandleCall]

HandlesNext == \E t \in HandleThreads : CallBitset(t) \/ TakeLock(t) \/ Operate(t)

HandlesSpec == HandlesInit /\ [][HandlesNext]_handleVars

------------------------------------------------------------------------------
\* "canonical address order to prevent lock-order inversion" (copy): threads
\* that wait for each other in a circle include one inside an assignment, the
\* only operation that takes its locks in the order of its operands.
CirclesNeedAssignment ==
  \A S \in (SUBSET HandleThreads) \ {{}} :
    (\A t \in S : \E u \in S : MakesWait(t, u)) => \E t \in S : hop[t].op \in Assigning

\* "create deep copy of other bitset": after a copy the two objects do not
\* share a buffer, also when the target was assigned from the source before.
CopyDetaches ==
  [][\A t \in HandleThreads :
       hop[t].op \in Deep /\ hop'[t] = NoHandleCall /\ buf[hop[t].src] # 0 /\ buf[hop[t].dst] # 0
       => buf'[hop[t].dst] # buf'[hop[t].src]]_handleVars

\* Two bitset objects can be copied in both directions at once without waiting
\* for each other forever, and are apart afterwards.
HandlesSound == []CirclesNeedAssignment /\ CopyDetaches
===============================================================================
