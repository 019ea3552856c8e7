----------------------------- MODULE MCStructures -----------------------------
(* The data structures of fds/ and cache/ and the small concurrent objects of  *)
(* utility/ and grpc/ for model checking.  They share no state, so a behaviour *)
(* is one of a single structure, `focus', the others staying as they were      *)
(* built.                                                                      *)
EXTENDS BitsetOps, CompactBitSet, IDReserver, StreamTracker, RangeHashMap,
        StatusCounter, BitsetHandles, Pools, ThreadVectors, ScopedPtr, RpcClient

VARIABLE focus

Structures == {"bitset", "compact", "ids", "stream", "ranges", "counter", "gate",
               "handles", "lists", "vectors", "threadvec", "scoped", "client"}

OnlyIf(name, Init, built) == IF focus = name THEN Init ELSE built

StructInit ==
  /\ focus \in Structures
  /\ OnlyIf("bitset", BitsetInit, bits = new_bitset(0))
  /\ OnlyIf("compact", CompactInit, cwords = [k \in 0 .. CompactWords - 1 |-> {}])
  /\ OnlyIf("handles", HandlesInit, /\ buf = [h \in Handles |-> h]
                                    /\ hop = [t \in HandleThreads |-> NoHandleCall])
  /\ OnlyIf("threadvec", TRUE, inPlace = TRUE) /\ TVInit
  /\ IDInit /\ StreamInit /\ RangeInit
  /\ CounterInit /\ GateInit /\ PoolInit /\ ScopedInit /\ ClientInit

Idle(names, v) == IF focus \in names THEN TRUE ELSE UNCHANGED v

StructNext ==
  /\ UNCHANGED focus
  /\ \/ focus = "bitset" /\ BitsetNext
     \/ focus = "compact" /\ CompactNext
     \/ focus = "ids" /\ IDNext
     \/ focus = "stream" /\ StreamNext
     \/ focus = "ranges" /\ RangeNext
     \/ focus = "counter" /\ CounterNext
     \/ focus = "gate" /\ GateNext
     \/ focus = "handles" /\ HandlesNext
     \/ focus = "lists" /\ PoolNext
     \/ focus = "vectors" /\ VectorNext
     \/ focus = "threadvec" /\ TVNext
     \/ focus = "scoped" /\ ScopedNext
     \/ focus = "client" /\ ClientNext
  /\ Idle({"bitset"}, bits) /\ Idle({"compact"}, cwords) /\ Idle({"ids"}, idVars)
  /\ Idle({"stream"}, streamVars) /\ Idle({"ranges"}, rangeVars)
  /\ Idle({"counter"}, counterVars) /\ Idle({"gate"}, gateVars)
  /\ Idle({"handles"}, handleVars) /\ Idle({"lists", "vectors"}, poolVars)
  /\ Idle({"threadvec"}, tvVars) /\ Idle({"scoped"}, scopedVars)
  /\ Idle({"client"}, clientVars)

structVars == <<focus, bits, cwords, idVars, streamVars, rangeVars, counterVars, gateVars,
                handleVars, poolVars, tvVars, scopedVars, clientVars>>

StructSpec == StructInit /\ [][StructNext]_structVars

\* The searches of both kinds of bitset agree with their bits (bitset.hpp,
\* compact_bitset.hpp).
SearchesExact == /\ focus = "bitset" => BitsetExact
                 /\ focus = "compact" => CompactSearchesExact

\* The same two or three model values stand for the threads and calls of every
\* structure, so that exchanging two of them is a symmetry of all.
Alike == Permutations(CounterThreads)
================================================================================
