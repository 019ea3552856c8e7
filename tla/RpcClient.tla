----------------------------- MODULE RpcClient -----------------------------
(***************************************************************************)
(* The asynchronous gRPC client: GrpcAsyncClientWorker (a completion queue *)
(* and the threads that run client_loop), the registry of workers, and the *)
(* calls made through an AsyncStub or GenericAsyncStub.  A call's data is  *)
(* allocated by call_unary or call_rpc, travels as the tag of the queue,   *)
(* and is deleted by client_loop after its handle_response.  The channel is*)
(* external: ChannelAnswers gives any call its one final status.  The      *)
(* application stops calling before it shuts its workers down, and its     *)
(* response handlers do not enter the worker registry.                     *)
(***************************************************************************)
EXTENDS Integers, FiniteSets

CONSTANTS Calls,          \* calls of the application
          ClientThreads,  \* threads of the worker
          CallKinds       \* "callback", "future", "rpc", "rpc_deletes"

VARIABLES worker,   \* m_state of the worker, "none" before, "gone" after reset
          cqDown,   \* m_cq.Shutdown() was called
          stub,     \* a stub holds the worker's address
          call,     \* per call: [at, kind, status, ran, outcome, frees]
          cl        \* per thread: [at, id] of client_loop

clientVars == <<worker, cqDown, stub, call, cl>>

\* run() throws when it is given no thread.
ASSUME WorkerAssumption == ClientThreads # {}

Ok == "OK"
Statuses == {Ok, "DEADLINE_EXCEEDED", "UNAVAILABLE", "REFUSED"}
Unsent == [at |-> "unsent", kind |-> "callback", status |-> Ok, ran |-> 0,
           outcome |-> "none", frees |-> 0]
Looping == [at |-> "next", id |-> 0]

ClientInit ==
  /\ worker = "none" /\ cqDown = FALSE /\ stub = FALSE
  /\ call = [c \in Calls |-> Unsent]
  /\ cl = [t \in ClientThreads |-> Looping]

\* create_worker and run, under s_workers_mtx; a second one does nothing.
CreateWorker ==
  /\ worker = "none"
  /\ worker' = "RUNNING"
  /\ UNCHANGED <<cqDown, stub, call, cl>>

\* make_stub, make_generic_stub: get_worker or throw.
MakeStub ==
  /\ worker = "RUNNING" /\ ~stub
  /\ stub' = TRUE
  /\ UNCHANGED <<worker, cqDown, call, cl>>

\* StartCall and Finish, which posts the tag with the data's address.
StartAndFinish(c, k) ==
  /\ stub /\ worker = "RUNNING" /\ ~cqDown /\ call[c].at = "unsent"
  /\ call' = [call EXCEPT ![c] = [@ EXCEPT !.at = "sent", !.kind = k]]
  /\ UNCHANGED <<worker, cqDown, stub, cl>>

\* AsyncStub: call_unary or call_rpc, prepare_and_send_unary.
SendUnary(c, k) == StartAndFinish(c, k)

\* GenericAsyncStub: the same over byte buffers; what comes back as blobs is a
\* future too.
SendGeneric(c, k) == StartAndFinish(c, k)

\* External: the channel ends the call; its tag can be taken off the queue.
ChannelAnswers(c, status) ==
  /\ call[c].at = "sent"
  /\ call' = [call EXCEPT ![c].at = "queued", ![c].status = status]
  /\ UNCHANGED <<worker, cqDown, stub, cl>>

\* CompletionQueue::Next returned a tag.
TakeTag(t, c) ==
  /\ cl[t].at = "next" /\ call[c].at = "queued"
  /\ cl' = [cl EXCEPT ![t] = [at |-> "handle", id |-> c]]
  /\ call' = [call EXCEPT ![c].at = "taken"]
  /\ UNCHANGED <<worker, cqDown, stub>>

\* Slip: the handler of a future frees its data once the promise is set.
HandlerFrees(t) ==
  /\ cl[t].at = "handle"
  /\ LET c == cl[t].id
     IN  call' = [call EXCEPT ![c].ran = @ + 1, ![c].outcome = call[c].status,
                    ![c].frees = @ + IF call[c].kind = "callback" THEN 0 ELSE 1]
  /\ cl' = [cl EXCEPT ![t].at = "delete"]
  /\ UNCHANGED <<worker, cqDown, stub>>

\* handle_response: a callback is given reply and status, a future the reply
\* or the failed status, and the completion callback of call_rpc the data
\* itself, which it may delete.
HandleResponse(t) ==
  /\ cl[t].at = "handle"
  /\ LET c == cl[t].id
     IN  call' = [call EXCEPT ![c].ran = @ + 1, ![c].outcome = call[c].status,
                    ![c].frees = @ + IF call[c].kind = "rpc_deletes" THEN 1 ELSE 0]
  /\ cl' = [cl EXCEPT ![t].at = "delete"]
  /\ UNCHANGED <<worker, cqDown, stub>>

\* client_loop: delete cm.
DeleteData(t) ==
  /\ cl[t].at = "delete"
  /\ call' = [call EXCEPT ![cl[t].id].frees = @ + 1]
  /\ cl' = [cl EXCEPT ![t] = Looping]
  /\ UNCHANGED <<worker, cqDown, stub>>

\* shutdown_all -> shutdown: m_cq.Shutdown(), then the state; s_workers_mtx
\* is held until every thread has been joined.
WorkerShutdown ==
  /\ worker = "RUNNING"
  /\ cqDown' = TRUE /\ worker' = "SHUTTING_DOWN"
  /\ UNCHANGED <<stub, call, cl>>

\* Slip: the loop ends at the shutdown, whatever is still under way.
LoopEndsAtShutdown(t) ==
  /\ cl[t].at = "next" /\ cqDown
  /\ cl' = [cl EXCEPT ![t].at = "ended"]
  /\ UNCHANGED <<worker, cqDown, stub, call>>

\* CompletionQueue::Next returns false: shut down and drained.
LoopEnds(t) ==
  /\ cl[t].at = "next" /\ cqDown
  /\ \A c \in Calls : call[c].at \notin {"sent", "queued"}
  /\ cl' = [cl EXCEPT ![t].at = "ended"]
  /\ UNCHANGED <<worker, cqDown, stub, call>>

\* The threads are joined; shutdown_all releases the worker and its queue.
WorkerReleased ==
  /\ worker = "SHUTTING_DOWN" /\ \A t \in ClientThreads : cl[t].at = "ended"
  /\ worker' = "gone"
  /\ UNCHANGED <<cqDown, stub, call, cl>>

LoopNext(t) ==
  \/ \E c \in Calls : TakeTag(t, c)
  \/ HandleResponse(t) \/ DeleteData(t) \/ LoopEnds(t)

ClientNext ==
  \/ CreateWorker \/ MakeStub \/ WorkerShutdown \/ WorkerReleased
  \/ \E c \in Calls, k \in CallKinds : SendUnary(c, k) \/ SendGeneric(c, k)
  \/ \E c \in Calls, s \in Statuses : ChannelAnswers(c, s)
  \/ \E t \in ClientThreads : LoopNext(t)

ClientSpec == ClientInit /\ [][ClientNext]_clientVars

----------------------------------------------------------------------------
(* Properties. *)

\* Each call's response handler runs once and is given that call's own final
\* status; when shutdown_all has returned no call is left without it: no
\* future stays unfulfilled and no callback is lost in the drained queue.
HandledOnce ==
  \A c \in Calls :
    /\ call[c].ran <= 1
    /\ call[c].ran = 1 => call[c].outcome = call[c].status
    /\ worker = "gone" /\ call[c].at # "unsent" => call[c].ran = 1

\* The data of a call is freed once, after its handler ran.  A completion
\* callback of call_rpc that deletes the data, as the comment of
\* ClientRpcData::handle_response allows, frees what client_loop frees again.
DataFreedOnce ==
  \A c \in Calls : /\ call[c].frees <= 1
                   /\ call[c].frees = 1 => call[c].ran = 1

\* A call ends once: its handler runs once, with its own status, and its data
\* is freed once, also when the worker is shut down under it.
CallsEndOnce == HandledOnce /\ DataFreedOnce
=============================================================================
