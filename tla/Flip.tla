--------------------------------- MODULE Flip ---------------------------------
(* Fault injection (flip/flip.hpp).  Flips of one name are added and removed  *)
(* (by a client or through the RPC server, which calls the same methods)      *)
(* while threads pass the injection points of that name.  Points look a flip  *)
(* up, count the hit and the execution inside a shared lock, act on it after  *)
(* the lock is released, and the one that uses the last execution removes the *)
(* flip under the exclusive lock.  Delays are closures of the timer.          *)
EXTENDS Integers, Sequences, FiniteSets, FiniteSetsExt, Functions

CONSTANTS FlipThreads, FlipSpecs,
          MaxAdds,         \* bound: flips added
          MaxHits          \* bound: hits of one flip

FlipActions == {"returns", "callback", "get_callback", "delays"}

\* The counts of FlipFrequency are unsigned; a point acts in one of four ways.
ASSUME FlipAssumption ==
  /\ IsFiniteSet(FlipThreads)
  /\ \A s \in FlipSpecs : s.count \in Nat /\ s.every_nth \in Nat /\ s.action \in FlipActions

VARIABLES insts,           \* the flip_instances made
          listed,          \* m_flip_specs: indexes of insts, in order
          has_timer,       \* m_timer is there
          closures,        \* scheduled closures: pending, ran or done; cancelled
          entries,         \* m_timer_instances
          fop,             \* thread -> its injection point
          crashed          \* a null m_timer was called

flipVars == <<insts, listed, has_timer, closures, entries, fop, crashed>>

NotInFlip == [pc |-> "out", inst |-> 0, completed |-> FALSE, arg |-> 0]
NullStr == -1                 \* a null string, as compare_val orders it
FlipOperators == {"DONT_CARE", "EQUAL", "NOT_EQUAL", "GREATER_THAN", "LESS_THAN",
              "GREATER_THAN_OR_EQUAL", "LESS_THAN_OR_EQUAL"}

\* compare_val for numbers and std::string; REG_EX is left out.
compare_val(v1, v2, oper) ==
  CASE oper = "DONT_CARE" -> TRUE
    [] oper = "EQUAL" -> v1 = v2
    [] oper = "NOT_EQUAL" -> v1 # v2
    [] oper = "GREATER_THAN" -> v1 > v2
    [] oper = "LESS_THAN" -> v1 < v2
    [] oper = "GREATER_THAN_OR_EQUAL" -> v1 >= v2
    [] oper = "LESS_THAN_OR_EQUAL" -> v1 <= v2

\* Slip: two null strings are not "less than or equal".
NullsDiffer(v1, v2, oper) ==
  LET both == v1 # NullStr /\ v2 # NullStr
      rest == CASE oper = "EQUAL" -> v1 = v2
                [] oper \in {"GREATER_THAN", "GREATER_THAN_OR_EQUAL"} -> v1 # NullStr /\ v2 = NullStr
                [] oper \in {"LESS_THAN", "LESS_THAN_OR_EQUAL"} -> v1 = NullStr /\ v2 # NullStr
                [] oper = "NOT_EQUAL" -> (v1 = NullStr) # (v2 = NullStr)
                [] OTHER -> TRUE
  IN IF both THEN compare_val(v1, v2, oper) ELSE rest

\* compare_val for const char*: strcmp of two strings, or the nulls told apart.
compare_cstr(v1, v2, oper) ==
  LET both == v1 # NullStr /\ v2 # NullStr
      less == v1 = NullStr /\ v2 # NullStr
      more == v1 # NullStr /\ v2 = NullStr
      none == v1 = NullStr /\ v2 = NullStr
  IN CASE oper = "DONT_CARE" -> TRUE
       [] oper = "EQUAL" -> (both /\ v1 = v2) \/ none
       [] oper = "NOT_EQUAL" -> (both /\ v1 # v2) \/ less \/ more
       [] oper = "GREATER_THAN" -> (both /\ v1 > v2) \/ more
       [] oper = "LESS_THAN" -> (both /\ v1 < v2) \/ less
       [] oper = "GREATER_THAN_OR_EQUAL" -> (both /\ v1 >= v2) \/ more \/ none
       [] oper = "LESS_THAN_OR_EQUAL" -> (both /\ v1 <= v2) \/ less \/ none

\* A value of another kind than the argument's converts to 0.
val_converter(val) == IF val.kind = "int" THEN val.v ELSE 0

condition_matches(arg, cond) == compare_val(arg, val_converter(cond.value), cond.oper)

match_flip(arg) ==
  LET matching == {p \in DOMAIN listed : condition_matches(arg, insts[listed[p]].spec.cond)}
  IN  IF matching = {} THEN 0 ELSE Min(matching)

InShared == {t \in FlipThreads : fop[t].pc \in {"hit", "count"}}

------------------------------------------------------------------------------
\* Ghost fired: the points that were told to act.
flip_instance(s) == [spec |-> s, hits |-> 0, remain |-> s.count, fired |-> 0]

\* The flip is added under the exclusive lock; delays make the timer.
AddFlip(s) ==
  /\ InShared = {} /\ Len(insts) < MaxAdds
  /\ insts' = Append(insts, flip_instance(s))
  /\ listed' = Append(listed, Len(insts'))
  /\ has_timer' = (has_timer \/ s.action = "delays")
  /\ UNCHANGED <<closures, entries, fop, crashed>>

\* Between injection points, or from the callback of a flip; cancel takes the
\* timers off the map, and their handlers still hold them.
RemoveFlip(t) ==
  /\ InShared = {} /\ fop[t].pc \in {"out", "callback", "get_callback"} /\ listed # <<>>
  /\ listed' = <<>>
  /\ entries' = {}
  /\ closures' = [c \in DOMAIN closures |-> [closures[c] EXCEPT !.cancelled = TRUE]]
  /\ crashed' = (crashed \/ ~has_timer)
  /\ UNCHANGED <<insts, has_timer, fop>>

\* test_flip and its kin; nothing happens when no flip matches.
MatchFlip(t) ==
  \E arg \in {0, 1} :
    /\ fop[t].pc = "out" /\ match_flip(arg) # 0
    /\ LET i == listed[match_flip(arg)]
       IN /\ insts[i].hits < MaxHits
          /\ fop' = [fop EXCEPT ![t] = [NotInFlip EXCEPT !.pc = "hit", !.inst = i, !.arg = arg]]
    /\ UNCHANGED <<insts, listed, has_timer, closures, entries, crashed>>

\* handle_hits: a flip without every_nth goes by rand().
HandleHits(t) ==
  LET i == fop[t].inst
      nth == insts[i].spec.every_nth
      granted == IF nth # 0 THEN {insts[i].hits % nth = 0} ELSE BOOLEAN
  IN /\ fop[t].pc = "hit"
     /\ insts' = [insts EXCEPT ![i].hits = @ + 1]
     /\ \E go \in granted : fop' = [fop EXCEPT ![t] = IF go THEN [@ EXCEPT !.pc = "count"] ELSE NotInFlip]
     /\ UNCHANGED <<listed, has_timer, closures, entries, crashed>>

\* Slip: the flip that uses the last execution is refused.
LastRefused(t) ==
  LET i == fop[t].inst
      remain == insts[i].remain - 1
  IN /\ fop[t].pc = "count"
     /\ insts' = [insts EXCEPT ![i].remain = remain, ![i].fired = IF remain > 0 THEN @ + 1 ELSE @]
     /\ fop' = [fop EXCEPT ![t] = IF remain <= 0 THEN NotInFlip
                                  ELSE [@ EXCEPT !.pc = insts[i].spec.action]]
     /\ UNCHANGED <<listed, has_timer, closures, entries, crashed>>

\* fetch_sub on m_remain_exec_count, and the end of the shared section; a
\* callback has been cloned by then.
CountExecution(t) ==
  LET i == fop[t].inst
      remain == insts[i].remain - 1
  IN /\ fop[t].pc = "count"
     /\ insts' = [insts EXCEPT ![i].remain = remain, ![i].fired = IF remain >= 0 THEN @ + 1 ELSE @]
     /\ fop' = [fop EXCEPT ![t] = IF remain < 0 THEN NotInFlip
                                  ELSE [@ EXCEPT !.pc = insts[i].spec.action, !.completed = remain = 0]]
     /\ UNCHANGED <<listed, has_timer, closures, entries, crashed>>

\* Where a flip goes once it has acted.
AfterFlip(t) == IF fop[t].completed THEN [fop[t] EXCEPT !.pc = "complete"] ELSE NotInFlip

\* test_flip, get_test_flip: the value is taken from the flip.
TestReturns(t) ==
  /\ fop[t].pc = "returns"
  /\ fop' = [fop EXCEPT ![t] = AfterFlip(t)]
  /\ UNCHANGED <<insts, listed, has_timer, closures, entries, crashed>>

\* The clone of the callback has run.  A get_callback_flip whose callback threw
\* or gave another type returns there, before the flip is completed.
CallbackReturns(t) ==
  /\ fop[t].pc \in {"callback", "get_callback"}
  /\ \E ok \in IF fop[t].pc = "get_callback" THEN BOOLEAN ELSE {TRUE} :
       fop' = [fop EXCEPT ![t] = IF ok THEN AfterFlip(t) ELSE NotInFlip]
  /\ UNCHANGED <<insts, listed, has_timer, closures, entries, crashed>>

\* delay_flip: what __test_flip does at the end comes before schedule.
DelayFlip(t) ==
  /\ fop[t].pc = "delays"
  /\ fop' = [fop EXCEPT ![t] = IF @.completed THEN [@ EXCEPT !.pc = "complete"]
                               ELSE [@ EXCEPT !.pc = "schedule"]]
  /\ UNCHANGED <<insts, listed, has_timer, closures, entries, crashed>>

ScheduleTimer(t) ==
  /\ fop[t].pc = "schedule"
  /\ closures' = Append(closures, [at |-> "pending", cancelled |-> FALSE])
  /\ entries' = entries \cup {Len(closures')}
  /\ fop' = [fop EXCEPT ![t] = NotInFlip]
  /\ UNCHANGED <<insts, listed, has_timer, crashed>>

\* Slip: the flip is left where it is.
LeftListed(t) ==
  /\ fop[t].pc = "complete" /\ InShared = {}
  /\ fop' = [fop EXCEPT ![t] = IF insts[@.inst].spec.action = "delays"
                               THEN [@ EXCEPT !.pc = "schedule"] ELSE NotInFlip]
  /\ UNCHANGED <<insts, listed, has_timer, closures, entries, crashed>>

\* The exclusive lock; erase takes every flip of the name off.
CompleteFlip(t) ==
  /\ fop[t].pc = "complete" /\ InShared = {}
  /\ listed' = IF insts[fop[t].inst].remain = 0 THEN <<>> ELSE listed
  /\ fop' = [fop EXCEPT ![t] = IF insts[@.inst].spec.action = "delays"
                               THEN [@ EXCEPT !.pc = "schedule"] ELSE NotInFlip]
  /\ UNCHANGED <<insts, has_timer, closures, entries, crashed>>

TimerFires(c) ==
  /\ closures[c].at = "pending"
  /\ closures' = [closures EXCEPT ![c].at = "ran"]
  /\ UNCHANGED <<insts, listed, has_timer, entries, fop, crashed>>

\* Slip: every timer of the name is taken off.
RemoveByName(c) ==
  /\ closures[c].at = "ran"
  /\ closures' = [closures EXCEPT ![c].at = "done"]
  /\ entries' = {}
  /\ UNCHANGED <<insts, listed, has_timer, fop, crashed>>

RemoveTimer(c) ==
  /\ closures[c].at = "ran"
  /\ closures' = [closures EXCEPT ![c].at = "done"]
  /\ entries' = entries \ {c}
  /\ UNCHANGED <<insts, listed, has_timer, fop, crashed>>

FlipInit ==
  /\ insts = <<>> /\ listed = <<>> /\ has_timer = FALSE /\ closures = <<>> /\ entries = {}
  /\ fop = [t \in FlipThreads |-> NotInFlip] /\ crashed = FALSE

FlipNext ==
  /\ ~crashed
  /\ \/ \E s \in FlipSpecs : AddFlip(s)
     \/ \E t \in FlipThreads :
          \/ RemoveFlip(t) \/ MatchFlip(t) \/ HandleHits(t) \/ CountExecution(t)
          \/ TestReturns(t) \/ CallbackReturns(t) \/ DelayFlip(t) \/ ScheduleTimer(t) \/ CompleteFlip(t)
     \/ \E c \in DOMAIN closures : TimerFires(c) \/ RemoveTimer(c)

FlipSpec == FlipInit /\ [][FlipNext]_flipVars

------------------------------------------------------------------------------
InsideFlip(i) == {t \in FlipThreads : fop[t].pc # "out" /\ fop[t].inst = i}

\* However many points hit a flip at once, it fires for the first hit and every
\* every_nth after it, until `count' have fired, and never more.
FiresExactly ==
  \A i \in DOMAIN insts :
    LET s == insts[i].spec
        due == (insts[i].hits + s.every_nth - 1) \div s.every_nth
    IN /\ insts[i].fired <= s.count
       /\ s.every_nth # 0 /\ InsideFlip(i) \cap InShared = {}
            => insts[i].fired = IF due < s.count THEN due ELSE s.count

\* "If we completed the execution, need to remove them" (flip.hpp:762): when all
\* points are through, no flip is listed that has just used its last execution.
\* (A get_callback_flip that fails on it leaves the flip listed.)
CompletedIsGone ==
  \A i \in DOMAIN insts :
    /\ i \in Range(listed) /\ insts[i].remain = 0
    /\ insts[i].spec.count > 0 /\ insts[i].spec.action # "get_callback"
    => InsideFlip(i) # {}

\* The timers on the map are those that have not fired and were not cancelled:
\* none stays behind, and none goes because another of its name has fired.
TimersTracked ==
  entries = {c \in DOMAIN closures : closures[c].at # "done" /\ ~closures[c].cancelled}

\* The order of const char* is that of the other types, null being the least.
NullIsLeast ==
  \A v1, v2 \in {NullStr, 0, 1}, oper \in FlipOperators :
    compare_cstr(v1, v2, oper) = compare_val(v1, v2, oper)

\* However points, removals and timers overlap, a flip fires as often as its
\* frequency says, is gone when it is used up, and no timer is left or lost.
FlipsSound == FiresExactly /\ CompletedIsGone /\ TimersTracked /\ NullIsLeast
===============================================================================
