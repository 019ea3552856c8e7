------------------------------ MODULE MCServices ------------------------------
(* The services of the library for model checking: settings, status           *)
(* objects, fault injection, the file watcher, an rpc client with its server, *)
(* and metrics.  They share no state, so a behaviour is one of a single       *)
(* service, `focus', the others staying as they were built.                   *)
EXTENDS Settings, SObject, Flip, FileWatcher, RpcPair, FlushCache, Metrics, MetricsFarm,
        TLC

VARIABLE focus

Services == {"settings", "sobject", "flip", "watcher", "rpc", "flush", "metrics", "farm"}

ServicesInit ==
  /\ focus \in Services
  /\ FlipInit /\ FileInit /\ PairInit /\ FlushInit /\ FarmInit
  /\ (IF focus = "settings" THEN TRUE ELSE file = Absent) /\ SettingsInit /\ SoInit
  /\ (IF focus = "metrics" THEN TRUE ELSE kind = "atomic") /\ MetricsInit

Idle(name, v) == IF focus = name THEN TRUE ELSE UNCHANGED v

ServicesNext ==
  /\ UNCHANGED focus
  /\ \/ focus = "settings" /\ SettingsNext
     \/ focus = "sobject" /\ SoNext
     \/ focus = "flip" /\ FlipNext
     \/ focus = "watcher" /\ FileNext
     \/ focus = "rpc" /\ PairNext
     \/ focus = "flush" /\ FlushNext
     \/ focus = "metrics" /\ MetricsNext
     \/ focus = "farm" /\ FarmNext
  /\ Idle("settings", settingsVars) /\ Idle("sobject", soVars)
  /\ Idle("flip", flipVars) /\ Idle("watcher", fwVars) /\ Idle("rpc", pairVars)
  /\ Idle("flush", flushVars) /\ Idle("metrics", metricVars) /\ Idle("farm", farmVars)

servicesVars == <<focus, settingsVars, soVars, flipVars, fwVars, pairVars, flushVars,
                  metricVars, farmVars>>

ServicesSpec == ServicesInit /\ [][ServicesNext]_servicesVars

\* Four flips: a delay on every second call with parameter 1, a callback on
\* every call, a callback with a value, and a return on the first call with a
\* certain string.
AFlip(oper, value, nth, count, action) ==
  [cond |-> [oper |-> oper, value |-> value], every_nth |-> nth, count |-> count, action |-> action]
SomeFlips == {AFlip("EQUAL", [kind |-> "int", v |-> 1], 2, 2, "delays"),
              AFlip("DONT_CARE", [kind |-> "int", v |-> 0], 1, 2, "callback"),
              AFlip("DONT_CARE", [kind |-> "int", v |-> 0], 1, 1, "get_callback"),
              AFlip("EQUAL", [kind |-> "string", v |-> 1], 0, 1, "returns")}

\* --override_config port=2
PortOverridden == "port" :> 2

TwoBoundaries == <<2, 3>>
UpAndDown == {1, -1}

\* Two group names whose metrics have different names; one instance name.
TwoClasses == "A" :> <<"reads", "writes">> @@ "B" :> <<"hits">>
OneName == {<<"x">>}

\* The same model values stand for the threads, listeners, calls and groups of
\* every service, so that exchanging two of them is a symmetry of all.
Alike == Permutations(FlipThreads)
===============================================================================
