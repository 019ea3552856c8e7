---------------------------- MODULE StatusCounter -----------------------------
(* atomic_status_counter (fds/atomic_status_counter.hpp): a counter and a     *)
(* status in one word that every operation replaces with a compare-exchange   *)
(* loop, and atomic_counter (utility/atomic_counter.hpp), whose tests look at *)
(* the value the fetch returned.  The threads use the first as its operations *)
(* are made for: references are taken while the status is open, any thread    *)
(* closes it, the release that finds no reference left turns closing into     *)
(* closed, and the thread that was told so may open it again.  The second is  *)
(* a gate all threads pass, in and out.                                       *)
EXTENDS Integers, FiniteSets

CONSTANTS CounterThreads,
          Releases,        \* the operations references are given up with
          MaxRefs          \* bound: references of one thread

\* Threads give their references up with the operations made for that; one
\* that uses dec_set_status_ifz closes the counter on the others' references.
ASSUME CounterAssumption ==
  /\ IsFiniteSet(CounterThreads) /\ CounterThreads # {}
  /\ MaxRefs \in Nat
  /\ Releases \subseteq {"decrement", "decrement_testz", "decrement_testz_and_test_status",
                         "dec_xchng_status_ifz", "dec_xchng_status_only_ifz"}

VARIABLES sval,            \* m_val of the atomic_status_counter
          sop,             \* thread -> the operation it is inside of
          refs,            \* thread -> references it holds
          did,             \* thread -> its last operation did what it reports
          answer,          \* thread -> what its last operation returned
          gate,            \* m_count of the atomic_counter
          gop              \* thread -> where it is in passing the gate

counterVars == <<sval, sop, refs, did, answer>>
gateVars == <<gate, gop>>

SameValue == [counter |-> 0, status |-> "open"]
NoOp == [pc |-> "idle", op |-> "none", old |-> SameValue, new |-> SameValue]

\* What the modifier of an operation makes of a value.
dec(v) == [v EXCEPT !.counter = @ - 1]
xchng(v, exp, new) == IF v.status = exp THEN [v EXCEPT !.status = new] ELSE v
\* Slip: the reference is taken whatever the status is.
TakenAnyway(v) == [v EXCEPT !.counter = @ + 1]

reference_taken(v) == IF v.status = "open" THEN [v EXCEPT !.counter = @ + 1] ELSE v

Modified(op, v) ==
  CASE op = "set_status" -> [v EXCEPT !.status = "open"]
    [] op = "xchng_status" -> xchng(v, "open", "closing")
    [] op \in {"increment_if_status", "set_atomic_value"} -> reference_taken(v)
    [] op = "increment" -> [v EXCEPT !.counter = @ + 1]
    [] op \in {"decrement", "decrement_testz", "decrement_testz_and_test_status"} -> dec(v)
    [] op = "dec_xchng_status_ifz" ->
         IF v.counter = 1 THEN xchng(dec(v), "closing", "closed") ELSE dec(v)
    [] op = "dec_xchng_status_only_ifz" ->
         IF v = [counter |-> 1, status |-> "closing"]
         THEN [counter |-> 0, status |-> "closed"] ELSE v
    [] op = "dec_set_status_ifz" -> [counter |-> v.counter - 1, status |-> "closed"]

\* What the operation returns, from the value it stored.
Returned(op, new) ==
  CASE op \in {"increment_if_status", "set_atomic_value"} -> new.status = "open"
    [] op = "decrement_testz_and_test_status" -> new.counter = 0 /\ new.status = "closing"
    [] op \in {"dec_xchng_status_ifz", "dec_xchng_status_only_ifz", "dec_set_status_ifz",
               "decrement_testz"} -> new.counter = 0
    [] OTHER -> FALSE

\* What it reports, in terms of the step it takes.
Effect(op, old, new) ==
  CASE op \in {"increment_if_status", "set_atomic_value"} -> new.counter > old.counter
    [] op = "decrement_testz_and_test_status" ->
         old.counter = 1 /\ new.counter = 0 /\ new.status = "closing"
    [] op \in {"dec_xchng_status_ifz", "dec_xchng_status_only_ifz", "dec_set_status_ifz",
               "decrement_testz"} -> old.counter = 1 /\ new.counter = 0
    [] OTHER -> FALSE

Acquires == {"increment_if_status", "set_atomic_value"}

\* The calls the protocol allows a thread.
Allowed(t, op) ==
  CASE op \in Acquires -> refs[t] < MaxRefs
    [] op = "increment" -> refs[t] \in 1 .. MaxRefs - 1
    [] op = "xchng_status" -> TRUE
    [] op = "set_status" -> answer[t] /\ sval.status = "closed"
    [] op \in Releases -> refs[t] > 0

CallCounter(t) ==
  /\ sop[t].pc = "idle"
  /\ \E op \in Acquires \cup Releases \cup {"increment", "xchng_status", "set_status"} :
       /\ Allowed(t, op)
       /\ sop' = [sop EXCEPT ![t] = [NoOp EXCEPT !.pc = "load", !.op = op]]
  /\ UNCHANGED <<sval, refs, did, answer>>

\* One turn of the loop: the load and the modifier; set_atomic_value leaves the
\* loop when the modifier declines.
LoadModify(t) ==
  LET new == Modified(sop[t].op, sval)
  IN /\ sop[t].pc = "load"
     /\ sop' = [sop EXCEPT ![t].old = sval, ![t].new = new,
                           ![t].pc = IF sop[t].op = "set_atomic_value" /\ new = sval
                                     THEN "return" ELSE "exchange"]
     /\ did' = [did EXCEPT ![t] = FALSE]
     /\ UNCHANGED <<sval, refs, answer>>

\* Slip: a store where the compare-exchange is.
PlainStore(t) ==
  /\ sop[t].pc = "exchange"
  /\ sval' = sop[t].new
  /\ refs' = [refs EXCEPT ![t] = @ + sop[t].new.counter - sop[t].old.counter]
  /\ did' = [did EXCEPT ![t] = Effect(sop[t].op, sop[t].old, sop[t].new)]
  /\ sop' = [sop EXCEPT ![t].pc = "return"]
  /\ UNCHANGED answer

\* compare_exchange_weak: it may fail for no reason.  References are the
\* caller's: it has them from the moment the value is replaced.
CounterExchange(t) ==
  /\ sop[t].pc = "exchange"
  /\ \/ /\ sval = sop[t].old
        /\ sval' = sop[t].new
        /\ refs' = [refs EXCEPT ![t] = @ + sop[t].new.counter - sop[t].old.counter]
        /\ did' = [did EXCEPT ![t] = Effect(sop[t].op, sop[t].old, sop[t].new)]
        /\ sop' = [sop EXCEPT ![t].pc = "return"]
     \/ /\ sop' = [sop EXCEPT ![t].pc = "load"]
        /\ UNCHANGED <<sval, refs, did>>
  /\ UNCHANGED answer

\* Slip: the result is taken from the counter as it is now.
ReturnReloaded(t) ==
  /\ sop[t].pc = "return"
  /\ answer' = [answer EXCEPT ![t] = Returned(sop[t].op, sval)]
  /\ sop' = [sop EXCEPT ![t] = NoOp]
  /\ UNCHANGED <<sval, refs, did>>

ReturnValue(t) ==
  /\ sop[t].pc = "return"
  /\ answer' = [answer EXCEPT ![t] = Returned(sop[t].op, sop[t].new)]
  /\ sop' = [sop EXCEPT ![t] = NoOp]
  /\ UNCHANGED <<sval, refs, did>>

------------------------------------------------------------------------------
\* increment_test_eq, increment_test_ge and their kin, for the last thread in;
\* decrement_testz, decrement_test_eq and decrement_test_le for the last out.
Enter(t) ==
  /\ gop[t].pc = "out"
  /\ gop' = [gop EXCEPT ![t] = [pc |-> "entering", count |-> gate, last |-> FALSE]]
  /\ gate' = gate + 1

TestIn(t) ==
  LET count == gop[t].count
      check == Cardinality(CounterThreads)
  IN /\ gop[t].pc = "entering"
     /\ \E last \in {count = check - 1, count >= check - 1} :
          gop' = [gop EXCEPT ![t] = [@ EXCEPT !.pc = "in", !.last = last]]
     /\ UNCHANGED gate

Leave(t) ==
  /\ \A u \in CounterThreads : gop[u].pc \in {"in", "leaving", "left"}
  /\ gop[t].pc = "in"
  /\ gop' = [gop EXCEPT ![t] = [pc |-> "leaving", count |-> gate, last |-> FALSE]]
  /\ gate' = gate - 1

\* Slip: the counter is read again for the test.
TestOutReloaded(t) ==
  /\ gop[t].pc = "leaving"
  /\ gop' = [gop EXCEPT ![t] = [@ EXCEPT !.pc = "left", !.last = gate = 0]]
  /\ UNCHANGED gate

TestOut(t) ==
  LET count == gop[t].count
  IN /\ gop[t].pc = "leaving"
     /\ \E last \in {count = 1, count <= 1} :
          gop' = [gop EXCEPT ![t] = [@ EXCEPT !.pc = "left", !.last = last]]
     /\ UNCHANGED gate

CounterInit ==
  /\ sval = SameValue
  /\ sop = [t \in CounterThreads |-> NoOp]
  /\ refs = [t \in CounterThreads |-> 0]
  /\ did = [t \in CounterThreads |-> FALSE]
  /\ answer = [t \in CounterThreads |-> FALSE]

CounterNext ==
  \E t \in CounterThreads : CallCounter(t) \/ LoadModify(t) \/ CounterExchange(t) \/ ReturnValue(t)

GateInit ==
  /\ gate = 0
  /\ gop = [t \in CounterThreads |-> [pc |-> "out", count |-> 0, last |-> FALSE]]

GateNext == \E t \in CounterThreads : Enter(t) \/ TestIn(t) \/ Leave(t) \/ TestOut(t)

------------------------------------------------------------------------------
\* The references the threads hold: each thread's, numbered from 1.
RefsHeld == {x \in CounterThreads \X (1 .. MaxRefs) : x[2] <= refs[x[1]]}

\* No operation is lost or done twice, although each is a load, a computation
\* and an exchange that others come in between: the counter is the number of
\* references the threads hold, and no thread has given up one it did not have.
CounterIsRefs ==
  /\ sval.counter = Cardinality(RefsHeld)
  /\ \A t \in CounterThreads : refs[t] \in 0 .. MaxRefs

\* "if the count is now 0 and if the status is same as expected status, then set
\* the new status, all done atomically" (atomic_status_counter.hpp:114): the
\* status is closed only while nobody holds a reference, and no reference is
\* taken before it is opened again.
ClosedIsUnreferenced == sval.status = "closed" => \A t \in CounterThreads : refs[t] = 0

\* What an operation returns is what its own exchange did: the thread told that
\* the counter came to 0, or that it has a reference, is the one that brought it
\* there, whatever has happened to the word since.
ReturnsTruth ==
  [][\A t \in CounterThreads :
       sop[t].pc = "return" /\ sop'[t].pc = "idle" => answer'[t] = did[t]]_counterVars

\* However the threads come and go, one of them is told that it is the last in
\* and one that it is the last out.
OneIsLast ==
  LET lasts == {t \in CounterThreads : gop[t].last}
  IN /\ (\A t \in CounterThreads : gop[t].pc = "in") => Cardinality(lasts) = 1
     /\ (\A t \in CounterThreads : gop[t].pc = "left") => Cardinality(lasts) = 1

\* The compare-exchange loops lose no reference, close only what nobody
\* holds, tell each thread what its own exchange did, and find one last thread.
CounterSound ==
  [](CounterIsRefs /\ ClosedIsUnreferenced /\ OneIsLast) /\ ReturnsTruth
===============================================================================
