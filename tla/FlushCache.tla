----------------------------- MODULE FlushCache -----------------------------
(***************************************************************************)
(* flush_core_cache of the thread buffer metrics: the caller signals every *)
(* running thread, each handler executes a fence and counts itself off, and*)
(* the caller waits until the count is back at 0.  A handler interrupts the*)
(* thread it runs on, which may be a caller inside its critical section.   *)
(* The registry's shared lock keeps threads from detaching meanwhile.      *)
(***************************************************************************)
EXTENDS Integers, FiniteSets

CONSTANTS FlushThreads,   \* threads of the registry
          Flushers        \* those of them that gather metrics

ASSUME FlushAssumption == IsFiniteSet(FlushThreads) /\ Flushers \subseteq FlushThreads

VARIABLES outstanding_flush,
          flush_cv_mtx,   \* the thread that holds it, or Nobody
          running,        \* attached threads
          pending,        \* threads SIGUSR4 is pending for
          handler,        \* threads that wait in flush_cache_handler
          fl              \* per caller: [at, todo, cur, due, fenced]

flushVars == <<outstanding_flush, flush_cv_mtx, running, pending, handler, fl>>

Nobody == 0
NoFlush == [at |-> "idle", todo |-> {}, cur |-> Nobody, due |-> {}, fenced |-> {}]

FlushInit ==
  /\ outstanding_flush = 0 /\ flush_cv_mtx = Nobody
  /\ running = FlushThreads /\ pending = {} /\ handler = {}
  /\ fl = [f \in Flushers |-> NoFlush]

At(f, place) == fl[f].at = place /\ f \notin handler /\ f \in running

\* flush_core_cache: outstanding_flush = 0 (no lock), then foreach_running.
FlushStart(f) ==
  /\ At(f, "idle")
  /\ outstanding_flush' = 0
  /\ fl' = [fl EXCEPT ![f] = [NoFlush EXCEPT !.at = "count", !.todo = running]]
  /\ UNCHANGED <<flush_cv_mtx, running, pending, handler>>

CountLock(f) ==
  /\ At(f, "count") /\ flush_cv_mtx = Nobody
  /\ \E t \in fl[f].todo :
       fl' = [fl EXCEPT ![f].at = "counting", ![f].cur = t, ![f].todo = @ \ {t}]
  /\ flush_cv_mtx' = f
  /\ UNCHANGED <<outstanding_flush, running, pending, handler>>

CountOne(f) ==
  /\ At(f, "counting")
  /\ outstanding_flush' = outstanding_flush + 1 /\ flush_cv_mtx' = Nobody
  /\ fl' = [fl EXCEPT ![f].at = "signal"]
  /\ UNCHANGED <<running, pending, handler>>

\* send_thread_signal: pthread_kill; its failure is not looked at.
SendSignal(f) ==
  /\ At(f, "signal")
  /\ pending' = pending \cup ({fl[f].cur} \cap running)
  /\ fl' = [fl EXCEPT ![f].at = "count", ![f].due = @ \cup {fl[f].cur}]
  /\ UNCHANGED <<outstanding_flush, flush_cv_mtx, running, handler>>

FlushWait(f) ==
  /\ At(f, "count") /\ fl[f].todo = {}
  /\ fl' = [fl EXCEPT ![f].at = "wait"]
  /\ UNCHANGED <<outstanding_flush, flush_cv_mtx, running, pending, handler>>

\* flush_cv.wait returns.
FlushDone(f) ==
  /\ At(f, "wait") /\ flush_cv_mtx = Nobody /\ outstanding_flush = 0
  /\ fl' = [fl EXCEPT ![f].at = "done"]
  /\ UNCHANGED <<outstanding_flush, flush_cv_mtx, running, pending, handler>>

FlushEnd(f) ==
  /\ At(f, "done")
  /\ fl' = [fl EXCEPT ![f] = NoFlush]
  /\ UNCHANGED <<outstanding_flush, flush_cv_mtx, running, pending, handler>>

Fences(t) == [f \in Flushers |-> [fl[f] EXCEPT !.fenced = @ \cup {t}]]

\* Slip: the handler fences only after it has counted itself off.
FenceLate(t) ==
  /\ t \in pending /\ t \notin handler
  /\ pending' = pending \ {t} /\ handler' = handler \cup {t}
  /\ UNCHANGED <<outstanding_flush, flush_cv_mtx, running, fl>>

\* flush_cache_handler: the fence.
HandlerFence(t) ==
  /\ t \in pending /\ t \notin handler
  /\ pending' = pending \ {t} /\ handler' = handler \cup {t}
  /\ fl' = Fences(t)
  /\ UNCHANGED <<outstanding_flush, flush_cv_mtx, running>>

\* flush_cache_handler: --outstanding_flush under the mutex, notify_one.
HandlerCount(t) ==
  /\ t \in handler /\ flush_cv_mtx = Nobody
  /\ outstanding_flush' = outstanding_flush - 1
  /\ handler' = handler \ {t}
  /\ UNCHANGED <<flush_cv_mtx, running, pending, fl>>

Walking == {f \in Flushers : fl[f].at \in {"count", "counting", "signal"}}

\* Slip: a thread detaches while the running threads are walked.
DetachUnlocked(t) ==
  /\ t \in running \ Flushers /\ t \notin pending \cup handler
  /\ running' = running \ {t}
  /\ UNCHANGED <<outstanding_flush, flush_cv_mtx, pending, handler, fl>>

\* ThreadRegistry::detach, under the registry's exclusive lock.
FlushThreadDetach(t) ==
  /\ t \in running \ Flushers /\ t \notin pending \cup handler /\ Walking = {}
  /\ running' = running \ {t}
  /\ UNCHANGED <<outstanding_flush, flush_cv_mtx, pending, handler, fl>>

FlushThreadAttach(t) ==
  /\ t \in FlushThreads \ running /\ Walking = {}
  /\ running' = running \cup {t}
  /\ UNCHANGED <<outstanding_flush, flush_cv_mtx, pending, handler, fl>>

FlushNext ==
  \/ \E f \in Flushers :
       \/ FlushStart(f) \/ CountLock(f) \/ CountOne(f) \/ SendSignal(f)
       \/ FlushWait(f) \/ FlushDone(f) \/ FlushEnd(f)
  \/ \E t \in FlushThreads :
       \/ HandlerFence(t) \/ HandlerCount(t)
       \/ FlushThreadDetach(t) \/ FlushThreadAttach(t)

FlushSpec == FlushInit /\ [][FlushNext]_flushVars

----------------------------------------------------------------------------
(* Properties. *)

\* When flush_core_cache returns, every thread it signalled has executed its
\* fence: what the comment on it says ("Once all threads run atomic barrier,
\* notify the caller").
FencedBeforeReturn ==
  \A f \in Flushers : fl[f].at = "done" => fl[f].due \subseteq fl[f].fenced

\* A caller is not left waiting once every handler has run: with no signal
\* pending, no handler under way and nobody counting, the count is back at 0.
FlushNotStuck ==
  (pending = {} /\ handler = {} /\ Walking = {}) => outstanding_flush = 0

\* flush_core_cache waits for every fence it has asked for, and for no more.
FlushSound == FencedBeforeReturn /\ FlushNotStuck
=============================================================================
