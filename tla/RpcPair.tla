------------------------------ MODULE RpcPair ------------------------------
(***************************************************************************)
(* A client (RpcClient) and a server (RpcServer) joined by a channel: the  *)
(* request of a call is matched with a waiting call object of the server,  *)
(* the reply travels back once the server finished the call, and the call  *)
(* may at any time end for the client alone: its deadline passes, or the   *)
(* connection breaks.  A reply may so be lost or come too late.            *)
(***************************************************************************)
EXTENDS RpcServer, RpcClient

VARIABLE link   \* per call of the client: the server's call object, 0 if none

pairVars == <<serverVars, clientVars, link>>

PairInit == ServerInit /\ ClientInit /\ link = [c \in Calls |-> 0]

\* External: the request reaches the server.
RequestArrives(c) ==
  /\ call[c].at = "sent" /\ link[c] = 0
  /\ \E i \in DOMAIN rpc : Arrive(i) /\ link' = [link EXCEPT ![c] = i]
  /\ UNCHANGED clientVars

\* External: the reply, with the status the server gave it, reaches the client.
ReplyArrives(c) ==
  /\ link[c] # 0 /\ rpc[link[c]].call = "finished"
  /\ ChannelAnswers(c, rpc[link[c]].retstatus)
  /\ UNCHANGED <<serverVars, link>>

\* External: the deadline passes or the connection is lost; a server that is
\* still serving the call will see it cancelled.
CallFails(c) ==
  /\ \E s \in {"DEADLINE_EXCEEDED", "UNAVAILABLE"} : ChannelAnswers(c, s)
  /\ IF link[c] # 0 /\ rpc[link[c]].call = "open"
       THEN ClientCancels(link[c]) ELSE UNCHANGED serverVars
  /\ UNCHANGED link

ClientAlone ==
  /\ \/ CreateWorker \/ MakeStub \/ WorkerShutdown \/ WorkerReleased
     \/ \E c \in Calls, k \in CallKinds : SendUnary(c, k) \/ SendGeneric(c, k)
     \/ \E t \in ClientThreads : LoopNext(t)
  /\ UNCHANGED <<serverVars, link>>

ServerAlone ==
  /\ \/ RegisterService \/ RegisterGenericService \/ RegisterGenericRpc
     \/ RunServer
     \/ \E k \in Rpcs : RegisterRpc(k)
     \/ \E i \in DOMAIN rpc :
          \/ NotifiesDone(i) \/ AppResponds(i)
          \/ \E tag \in {"read", "write", "sent", "completed"} : Completes(i, tag)
     \/ \E c \in Cqs : ThreadNext(c)
     \/ ShutdownNext
  /\ UNCHANGED <<clientVars, link>>

PairNext ==
  \/ \E c \in Calls : RequestArrives(c) \/ ReplyArrives(c) \/ CallFails(c)
  \/ ClientAlone \/ ServerAlone

PairSpec == PairInit /\ [][PairNext]_pairVars

\* A call that ends with OK was authorised and run by the server's handler,
\* and answered once; a request is served by no two call objects, nor two
\* requests by one.  Refused, late, lost and dropped calls end with an error.
OkMeansServed ==
  \A c \in Calls :
    /\ call[c].ran = 1 /\ call[c].outcome = Ok =>
         link[c] # 0 /\ rpc[link[c]].handled /\ rpc[link[c]].finishes = 1
    /\ \A d \in Calls : link[c] = link[d] /\ link[c] # 0 => c = d
=============================================================================
