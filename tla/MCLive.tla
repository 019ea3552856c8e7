-------------------------------- MODULE MCLive --------------------------------
(* The collections of the wait-free framework and the rpc server for model    *)
(* checking of what must end.  They share no state, so a behaviour is one of  *)
(* either, `focus', the other staying as it was built.                        *)
EXTENDS Wisr, RpcServer, TLC

CONSTANTS c1, c2

VARIABLE focus

LiveInit == focus \in {"wisr", "server"} /\ Init /\ ServerInit

LiveNext ==
  /\ UNCHANGED focus
  /\ \/ focus = "wisr" /\ Next /\ UNCHANGED serverVars
     \/ focus = "server" /\ ServerNext /\ UNCHANGED vars

liveVars == <<focus, vars, serverVars>>

LiveSpec == /\ LiveInit /\ [][LiveNext]_liveVars
            /\ WisrFairness /\ ServerFairness

\* A collection and a reset, both of which swap objects, and a walk over them.
LiveOps == c1 :> {"now", "reset"} @@ c2 :> {"foreach"}
===============================================================================
