----------------------------- MODULE RpcServer -----------------------------
(***************************************************************************)
(* The asynchronous gRPC server: GrpcServer, its service threads (one per  *)
(* completion queue), RpcData (unary calls, with or without a completion   *)
(* callback) and GenericRpcData.  A call object is reference counted; every*)
(* tag handed to gRPC owns one reference and the processing of the request *)
(* owns one more.  gRPC itself is external: it matches a request with a    *)
(* waiting call object, completes the operations started on it, and on     *)
(* Server::Shutdown refuses waiting calls and waits for the begun ones.    *)
(***************************************************************************)
EXTENDS Integers, FiniteSets, Sequences

CONSTANTS NumCqs,     \* m_num_threads: queues, one service thread each
          Rpcs,       \* rpcs to register: "plain", "notified" or "generic"
          MaxRpcs     \* bound: call objects made in a behaviour

ASSUME ServerAssumption ==
  NumCqs \in Nat /\ MaxRpcs \in Nat /\ Rpcs \subseteq {"plain", "notified", "generic"}

VARIABLES m_state,    \* GrpcServer::m_state
          services,   \* registered services: "unary", "generic"
          registry,   \* registered rpcs
          grpcDown,   \* 0 up, 1 after Server::Shutdown, 2 after cq Shutdown
          rpc,        \* sequence of call objects
          held,       \* <<object, tag>> handed to gRPC, not yet completed
          events,     \* completions a queue can return: [id, tag, ok]
          th          \* per queue: the service thread's place

serverVars == <<m_state, services, registry, grpcDown, rpc, held, events, th>>

Cqs == 1..NumCqs
FirstTags(k) == {"received"} \cup (IF k = "notified" THEN {"done"} ELSE {})
Polled == [at |-> "poll", id |-> 0, refill |-> FALSE]

\* RpcData::create_new / make, then enqueue_call_request: each tag takes a ref.
NewCall(k, c) == [kind |-> k, cq |-> c, refs |-> Cardinality(FirstTags(k)),
                  live |-> TRUE, call |-> "waiting", canceled |-> FALSE,
                  app |-> FALSE, finishes |-> 0,
                  retstatus |-> "OK", handled |-> FALSE]

ServerInit ==
  /\ m_state = "INITED" /\ services = {} /\ registry = {} /\ grpcDown = 0
  /\ rpc = <<>> /\ held = {}
  /\ events = [c \in Cqs |-> {}]
  /\ th = [c \in Cqs |-> Polled]

\* register_async_service, before run.
RegisterService ==
  /\ m_state = "INITED" /\ "unary" \notin services
  /\ services' = services \cup {"unary"}
  /\ UNCHANGED <<m_state, registry, grpcDown, rpc, held, events, th>>

\* register_async_generic_service, before run.
RegisterGenericService ==
  /\ m_state = "INITED" /\ "generic" \notin services
  /\ services' = services \cup {"generic"}
  /\ UNCHANGED <<m_state, registry, grpcDown, rpc, held, events, th>>

RunServer ==
  /\ m_state = "INITED"
  /\ m_state' = "RUNNING"
  /\ UNCHANGED <<services, registry, grpcDown, rpc, held, events, th>>

\* One waiting call object per queue.
OnePerQueue(k) ==
  /\ Len(rpc) + NumCqs <= MaxRpcs
  /\ rpc' = rpc \o [c \in Cqs |-> NewCall(k, c)]
  /\ held' = held \cup ((Len(rpc) + 1 .. Len(rpc) + NumCqs) \X FirstTags(k))
  /\ registry' = registry \cup {k}
  /\ UNCHANGED <<m_state, services, grpcDown, events, th>>

\* register_rpc, once for each rpc.
RegisterRpc(k) ==
  /\ m_state = "RUNNING" /\ "unary" \in services /\ k \in Rpcs \ (registry \cup {"generic"})
  /\ OnePerQueue(k)

\* register_generic_rpc; a name given again is refused.
RegisterGenericRpc ==
  /\ m_state = "RUNNING" /\ "generic" \in services /\ "generic" \in Rpcs \ registry
  /\ OnePerQueue("generic")

\* ref()/unref() net of a step; the object is deleted at zero.
Refs(i, d) == [rpc[i] EXCEPT !.refs = @ + d, !.live = @ /\ rpc[i].refs + d > 0]

----------------------------------------------------------------------------
(* gRPC (external). *)

Fire(i, tag, ok) ==
  /\ held' = held \ {<<i, tag>>}
  /\ events' = [events EXCEPT ![rpc[i].cq] = @ \cup {[id |-> i, tag |-> tag, ok |-> ok]}]

\* A request of a client is matched with a waiting call object.
Arrive(i) ==
  /\ grpcDown = 0 /\ <<i, "received">> \in held
  /\ Cardinality({j \in DOMAIN rpc : rpc[j].call = "open"}) + Len(rpc) < MaxRpcs
  /\ Fire(i, "received", TRUE)
  /\ rpc' = [rpc EXCEPT ![i].call = "open"]
  /\ UNCHANGED <<m_state, services, registry, grpcDown, th>>

\* The client gives up: its deadline passed or it cancelled the call.
ClientCancels(i) ==
  /\ rpc[i].call = "open"
  /\ rpc' = [rpc EXCEPT ![i].call = "canceled"]
  /\ UNCHANGED <<m_state, services, registry, grpcDown, held, events, th>>

\* An operation started on the call completes; the last one ends the call.
Completes(i, tag) ==
  /\ <<i, tag>> \in held /\ tag \in {"read", "write", "sent", "completed"}
  /\ Fire(i, tag, rpc[i].call = "open")
  /\ rpc' = IF tag \in {"sent", "completed"} /\ rpc[i].call = "open"
              THEN [rpc EXCEPT ![i].call = "finished"] ELSE rpc
  /\ UNCHANGED <<m_state, services, registry, grpcDown, th>>

\* The AsyncNotifyWhenDone tag of a call that was begun and has ended.
NotifiesDone(i) ==
  /\ <<i, "done">> \in held /\ rpc[i].call \in {"finished", "canceled"}
  /\ Fire(i, "done", TRUE)
  /\ UNCHANGED <<m_state, services, registry, grpcDown, rpc, th>>

----------------------------------------------------------------------------
(* The application's handlers and the service threads. *)

\* Slip: the processing's reference is kept once the response is under way.
SendKeepsRef(i, q) ==
  /\ held' = held \cup {<<i, "sent">>}
  /\ rpc' = [q EXCEPT ![i].refs = @ + 1, ![i].finishes = @ + 1]

\* do_non_streaming_send: Finish or FinishWithError unless cancelled, then
\* give up the processing's reference.
do_non_streaming_send(i, q) ==
  IF q[i].canceled
    THEN /\ rpc' = [q EXCEPT ![i].refs = @ - 1, ![i].live = q[i].refs > 1]
         /\ UNCHANGED held
    ELSE /\ held' = held \cup {<<i, "sent">>}
         /\ rpc' = [q EXCEPT ![i].finishes = @ + 1]

\* send_response of either class.
send_response(i, q) ==
  IF q[i].kind # "generic"
    THEN do_non_streaming_send(i, q)
    ELSE /\ held' = held \cup {<<i, "write">>}
         /\ rpc' = [q EXCEPT ![i].refs = @ + 1]

\* The application answers a call whose handler returned false.
AppResponds(i) ==
  /\ rpc[i].app
  /\ send_response(i, [rpc EXCEPT ![i].app = FALSE])
  /\ UNCHANGED <<m_state, services, registry, grpcDown, events, th>>

Goes(c, place, i, more) ==
  th' = [th EXCEPT ![c] = [at |-> place, id |-> i, refill |-> more]]

\* do_authorization sets m_retstatus; the handler runs only for an OK one.
Judged(r, verdict) ==
  [r EXCEPT !.refs = @ + 1, !.app = verdict = "deferred",
            !.handled = verdict # "refused",
            !.retstatus = IF verdict = "refused" THEN "REFUSED" ELSE "OK"]

\* Slip: no reference is taken for the processing of the request.
ReceivedUnref(c, i, ok, verdict) ==
  /\ rpc' = IF ~ok THEN rpc
            ELSE [rpc EXCEPT ![i] = [Judged(@, verdict) EXCEPT !.refs = rpc[i].refs]]
  /\ UNCHANGED held
  /\ Goes(c, IF ok /\ verdict # "deferred" THEN "send" ELSE "return", i,
          ok /\ m_state = "RUNNING")

\* Slip: the handler's result is ignored and the response sent at once.
AnswersAnyway(c, i, ok, verdict) ==
  /\ rpc' = IF ~ok THEN rpc
            ELSE [rpc EXCEPT ![i] = Judged(@, verdict)]
  /\ UNCHANGED held
  /\ Goes(c, IF ok THEN "send" ELSE "return", i, ok /\ m_state = "RUNNING")

\* Slip: a refused request is answered with the status of an accepted one.
RefusalLost(c, i, ok, verdict) ==
  /\ rpc' = IF ~ok THEN rpc
            ELSE [rpc EXCEPT ![i] = [Judged(@, verdict) EXCEPT !.retstatus = "OK"]]
  /\ UNCHANGED held
  /\ Goes(c, IF ok /\ verdict # "deferred" THEN "send" ELSE "return", i,
          ok /\ m_state = "RUNNING")

\* RpcData::on_request_received: verdict is the authorization and the handler.
UnaryReceived(c, i, ok, verdict) ==
  /\ rpc' = IF ~ok THEN rpc
            ELSE [rpc EXCEPT ![i] = Judged(@, verdict)]
  /\ UNCHANGED held
  /\ Goes(c, IF ok /\ verdict # "deferred" THEN "send" ELSE "return", i,
          ok /\ m_state = "RUNNING")

\* GenericRpcData::on_request_received: refuse, or start reading the payload.
GenericReceived(c, i, ok, verdict) ==
  /\ rpc' = IF ~ok THEN rpc
            ELSE IF verdict = "refused"
              THEN [rpc EXCEPT ![i] = [Judged(rpc[i], verdict) EXCEPT !.finishes = @ + 1]]
            ELSE [rpc EXCEPT ![i].refs = @ + 1]
  /\ held' = IF ~ok THEN held
             ELSE held \cup {<<i, IF verdict = "refused" THEN "completed" ELSE "read">>}
  /\ Goes(c, "return", i, ok /\ m_state = "RUNNING")

\* What the handler of a generic call may do; a method without one is refused
\* with UNIMPLEMENTED.
run_generic_handler_cb == {"refused", "replied", "deferred"}

\* GenericRpcData::on_buf_read
BufRead(c, i, verdict) ==
  /\ rpc' = [rpc EXCEPT ![i] = Judged(@, verdict)]
  /\ UNCHANGED held
  /\ Goes(c, IF verdict = "deferred" THEN "return" ELSE "send", i, FALSE)

\* GenericRpcData::on_buf_write: Finish (its tag takes a ref), unref.
BufWritten(c, i) ==
  /\ held' = held \cup {<<i, "completed">>}
  /\ rpc' = [rpc EXCEPT ![i].finishes = @ + 1]
  /\ Goes(c, "return", i, FALSE)

\* on_request_completed of a unary call: note a cancellation.
RequestDone(c, i) ==
  /\ rpc' = [rpc EXCEPT ![i].canceled = @ \/ rpc[i].call = "canceled"]
  /\ UNCHANGED held
  /\ Goes(c, "return", i, FALSE)

\* handle_rpcs: take a completion and run its tag's callback.
HandleRpcs(c) ==
  /\ th[c].at = "poll"
  /\ \E e \in events[c] :
       /\ events' = [events EXCEPT ![c] = @ \ {e}]
       /\ \/ /\ e.tag = "received"
             /\ \E v \in {"refused", "replied", "deferred"} :
                  IF rpc[e.id].kind = "generic" THEN GenericReceived(c, e.id, e.ok, v)
                  ELSE UnaryReceived(c, e.id, e.ok, v)
          \/ /\ e.tag = "read"
             /\ \E v \in run_generic_handler_cb : BufRead(c, e.id, v)
          \/ e.tag = "write" /\ BufWritten(c, e.id)
          \/ e.tag = "done" /\ RequestDone(c, e.id)
          \/ /\ e.tag \in {"sent", "completed"}     \* on_response_sent, comp_cb
             /\ Goes(c, "return", e.id, FALSE)
             /\ UNCHANGED <<rpc, held>>
  /\ UNCHANGED <<m_state, services, registry, grpcDown>>

\* The handler returned true, or the request was refused: answer now.
RespondsNow(c) ==
  /\ th[c].at = "send"
  /\ send_response(th[c].id, rpc)
  /\ th' = [th EXCEPT ![c].at = "return"]
  /\ UNCHANGED <<m_state, services, registry, grpcDown, events>>

\* Slip: only requests that were answered at once are replaced.
RefillAnswered(c) ==
  /\ th[c].at = "return"
  /\ rpc' = [rpc EXCEPT ![th[c].id] = Refs(th[c].id, -1)]
  /\ th' = [th EXCEPT ![c] = IF @.refill /\ ~rpc[@.id].app
                               THEN [@ EXCEPT !.at = "check"] ELSE Polled]
  /\ UNCHANGED <<m_state, services, registry, grpcDown, held, events>>

\* RpcTag::process returns: undo the tag's ref; a replacement may follow.
TagProcessed(c) ==
  /\ th[c].at = "return"
  /\ rpc' = [rpc EXCEPT ![th[c].id] = Refs(th[c].id, -1)]
  /\ th' = [th EXCEPT ![c] = IF @.refill THEN [@ EXCEPT !.at = "check"] ELSE Polled]
  /\ UNCHANGED <<m_state, services, registry, grpcDown, held, events>>

\* handle_rpcs: has_server_shutdown decides whether to enqueue or to delete.
RefillCheck(c) ==
  /\ th[c].at = "check"
  /\ th' = [th EXCEPT ![c] = IF m_state = "RUNNING"
                               THEN [@ EXCEPT !.at = "enqueue"] ELSE Polled]
  /\ UNCHANGED <<m_state, services, registry, grpcDown, rpc, held, events>>

\* enqueue_call_request; after Server::Shutdown gRPC drops the tags.
Refill(c) ==
  /\ th[c].at = "enqueue"
  /\ LET k == rpc[th[c].id].kind
     IN  /\ rpc' = Append(rpc, [NewCall(k, c) EXCEPT
                                 !.call = IF grpcDown = 0 THEN @ ELSE "dropped"])
         /\ held' = IF grpcDown # 0 THEN held
                    ELSE held \cup ({Len(rpc) + 1} \X FirstTags(k))
  /\ th' = [th EXCEPT ![c] = Polled]
  /\ UNCHANGED <<m_state, services, registry, grpcDown, events>>

----------------------------------------------------------------------------
(* shutdown() *)

ShutdownBegins ==
  /\ m_state = "RUNNING"
  /\ m_state' = "SHUTTING_DOWN"
  /\ UNCHANGED <<services, registry, grpcDown, rpc, held, events, th>>

Refused == {i \in DOMAIN rpc : <<i, "received">> \in held}

\* m_server->Shutdown(): waiting calls are refused, new requests rejected.
ServerShutdown ==
  /\ m_state = "SHUTTING_DOWN" /\ grpcDown = 0
  /\ grpcDown' = 1
  /\ held' = held \ (Refused \X {"received"})
  /\ events' = [c \in Cqs |-> events[c] \cup
       {[id |-> i, tag |-> "received", ok |-> FALSE] : i \in {j \in Refused : rpc[j].cq = c}}]
  /\ rpc' = [i \in DOMAIN rpc |-> IF i \in Refused
                THEN [rpc[i] EXCEPT !.call = "refused"] ELSE rpc[i]]
  /\ UNCHANGED <<m_state, services, registry, th>>

\* Server::Shutdown has returned: no begun call is left; shut the queues down.
QueuesShutdown ==
  /\ grpcDown = 1
  /\ \A i \in DOMAIN rpc : \/ rpc[i].call \notin {"open", "canceled"}
                           \/ ~rpc[i].live
  /\ grpcDown' = 2
  /\ UNCHANGED <<m_state, services, registry, rpc, held, events, th>>

PendingOn(c) == {h \in held : rpc[h[1]].cq = c /\ h[2] # "done"}

\* CompletionQueue::Next returns false: shut down and drained.
ThreadExits(c) ==
  /\ grpcDown = 2 /\ th[c].at = "poll" /\ events[c] = {} /\ PendingOn(c) = {}
  /\ \A h \in held : rpc[h[1]].cq = c => rpc[h[1]].call \notin {"finished", "canceled"}
  /\ th' = [th EXCEPT ![c].at = "exited"]
  /\ UNCHANGED <<m_state, services, registry, grpcDown, rpc, held, events>>

ShutdownEnds ==
  /\ m_state = "SHUTTING_DOWN" /\ \A c \in Cqs : th[c].at = "exited"
  /\ m_state' = "TERMINATED"
  /\ UNCHANGED <<services, registry, grpcDown, rpc, held, events, th>>

GrpcNext ==
  \E i \in DOMAIN rpc :
    \/ Arrive(i) \/ ClientCancels(i) \/ NotifiesDone(i)
    \/ \E tag \in {"read", "write", "sent", "completed"} : Completes(i, tag)

ThreadNext(c) ==
  \/ HandleRpcs(c) \/ RespondsNow(c) \/ TagProcessed(c)
  \/ RefillCheck(c) \/ Refill(c) \/ ThreadExits(c)

ShutdownNext == ShutdownBegins \/ ServerShutdown \/ QueuesShutdown \/ ShutdownEnds

ServerNext ==
  \/ RegisterService \/ RegisterGenericService \/ RegisterGenericRpc
  \/ RunServer
  \/ \E k \in Rpcs : RegisterRpc(k)
  \/ GrpcNext
  \/ \E i \in DOMAIN rpc : AppResponds(i)
  \/ \E c \in Cqs : ThreadNext(c)
  \/ ShutdownNext

ServerSpec == ServerInit /\ [][ServerNext]_serverVars

\* gRPC completes what was started, its threads run, the application answers
\* the calls it deferred, and shutdown() runs on once begun.
ServerFairness ==
  /\ \A c \in Cqs : WF_serverVars(ThreadNext(c))
  /\ WF_serverVars(ServerShutdown \/ QueuesShutdown \/ ShutdownEnds)
  /\ WF_serverVars(\E i \in DOMAIN rpc : AppResponds(i))
  /\ WF_serverVars(\E i \in DOMAIN rpc :
       \/ NotifiesDone(i)
       \/ \E tag \in {"read", "write", "sent", "completed"} : Completes(i, tag))

----------------------------------------------------------------------------
(* Properties. *)

\* The tags of an object that gRPC or a service thread still holds.
Outstanding(i) ==
  held \cap ({i} \X {"received", "done", "read", "write", "sent", "completed"})
Queued(i) == {e \in UNION {events[c] : c \in Cqs} : e.id = i}
Serving(i) == {c \in Cqs : th[c].id = i /\ th[c].at \in {"send", "return"}}

\* A call object is alive as long as gRPC can return one of its tags, a
\* service thread runs its callback or the application has yet to answer it:
\* the ref/unref protocol of RpcTag, on_request_received and send_response
\* never frees an object somebody still points to.
TagsOnLive ==
  \A i \in DOMAIN rpc :
    (Outstanding(i) # {} \/ Queued(i) # {} \/ Serving(i) # {} \/ rpc[i].app)
      => rpc[i].live

\* While the server runs, each queue has for each registered rpc exactly one
\* waiting call object, or one about to be put back by the thread that took
\* its predecessor: requests never meet a server that stopped listening.
ListenersKept ==
  m_state = "RUNNING" =>
    \A k \in registry, c \in Cqs :
      Cardinality({i \in DOMAIN rpc : /\ rpc[i].kind = k /\ rpc[i].cq = c
                     /\ \/ <<i, "received">> \in held
                        \/ \E e \in events[c] : e.id = i /\ e.tag = "received"})
        + (IF th[c].refill /\ rpc[th[c].id].kind = k THEN 1 ELSE 0) = 1

\* No call is finished twice, and when shutdown() has returned every call that
\* was begun has been finished, unless its client had given it up.
AnsweredOnce ==
  \A i \in DOMAIN rpc :
    /\ rpc[i].finishes <= 1
    /\ m_state = "TERMINATED" /\ rpc[i].finishes = 0
         => rpc[i].call \in {"refused", "dropped", "canceled"}

\* Once terminated, no call object is left but those that were never begun
\* and wait for a done notification, and those enqueued by a thread that had
\* found the server running just before it was shut down.
NothingLeft ==
  m_state = "TERMINATED" =>
    \A i \in DOMAIN rpc : rpc[i].live =>
      \/ rpc[i].call = "dropped"
      \/ rpc[i].kind = "notified" /\ rpc[i].call = "refused"

\* shutdown() returns.
ShutdownReturns == (m_state = "SHUTTING_DOWN") ~> (m_state = "TERMINATED")

\* A call object lives exactly as long as a tag, a thread or the application
\* needs it, and its call is answered once, up to the end of shutdown().
CallObjectsSound == TagsOnLive /\ AnsweredOnce /\ NothingLeft
=============================================================================
