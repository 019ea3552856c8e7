------------------------------ MODULE Rpc_proofs ------------------------------
(* Proofs about the gRPC client, for any number of calls and of worker        *)
(* threads, about the server, for any number of queues and call objects, and  *)
(* about the two joined by a channel.                                         *)
EXTENDS RpcServerInv, RpcPair, FiniteSetTheorems, TLAPS

\* The provers of a leaf that names none, and how long each may take.
USE ZenonT(40), SMTT(20)

LEMMA NewLife ==
  ASSUME NEW k \in {"plain", "notified", "generic"}, NEW c \in Cqs,
         NEW n, n = NewCall(k, c), NEW d, d = [NewCall(k, c) EXCEPT !.call = "dropped"]
  PROVE  /\ n \in CallObjects /\ n.kind = k /\ n.cq = c /\ Life(n, FirstTags(k), {}, {}, "idle")
         /\ n.call = "waiting" /\ n.call # "open"
         /\ d \in CallObjects /\ d.kind = k /\ d.cq = c /\ Life(d, {}, {}, {}, "idle")
         /\ d.call = "dropped"
<1>1. Cardinality(FirstTags(k)) = One("received" \in FirstTags(k)) + One("done" \in FirstTags(k))
      /\ Cardinality(FirstTags(k)) \in Nat \ {0}
  <2>1. IsFiniteSet({"received"}) /\ Cardinality({"received"}) = 1
    BY FS_Singleton
  <2>2. CASE k = "notified"
    <3>1. FirstTags(k) = {"received"} \cup {"done"} /\ "done" \notin {"received"}
      BY <2>2 DEF FirstTags
    <3>2. Cardinality(FirstTags(k)) = 2
      BY <2>1, <3>1, FS_AddElement, SMTT(30)
    <3>3. QED  BY <3>1, <3>2, SMTT(30) DEF One
  <2>3. CASE k # "notified"
    <3>1. FirstTags(k) = {"received"}
      BY <2>3 DEF FirstTags
    <3>2. QED  BY <2>1, <3>1, SMTT(30) DEF One
  <2>4. QED  BY <2>2, <2>3
<1>2. FirstTags(k) \subseteq {"received", "done"} /\ "received" \in FirstTags(k)
      /\ ("done" \in FirstTags(k) => k = "notified")
  BY DEF FirstTags
<1>3. n \in CallObjects /\ d \in CallObjects
  BY <1>1 DEF NewCall, CallObjects
<1>4. /\ n.refs = Cardinality(FirstTags(k)) /\ n.kind = k /\ n.cq = c /\ n.live /\ n.call = "waiting"
      /\ ~n.canceled /\ ~n.app /\ n.finishes = 0
  BY DEF NewCall
<1>5. /\ d.refs = Cardinality(FirstTags(k)) /\ d.kind = k /\ d.cq = c /\ d.live /\ d.call = "dropped"
      /\ ~d.canceled /\ ~d.app /\ d.finishes = 0
  BY DEF NewCall
<1>6. Life(n, FirstTags(k), {}, {}, "idle")
  BY <1>1, <1>2, <1>4, SMTT(30) DEF Life, RefsExact, OnePlace, CallStands, Answers, Processed, One
<1>7. Life(d, {}, {}, {}, "idle")
  BY <1>1, <1>5, SMTT(30) DEF Life, RefsExact, OnePlace, CallStands, Answers, Processed, One
<1>8. QED  BY <1>3, <1>4, <1>5, <1>6, <1>7

(* m new call objects, whose tags N gRPC holds.                               *)
Grows(m, N) ==
  /\ m \in Nat /\ rpc' \in Seq(CallObjects) /\ Len(rpc') = Len(rpc) + m
  /\ \A j \in 1 .. Len(rpc) : rpc'[j] = rpc[j]
  /\ held' = held \cup N /\ N \subseteq (Len(rpc) + 1 .. Len(rpc) + m) \X Tags
  /\ UNCHANGED <<m_state, grpcDown, events>>

LEMMA Grown ==
  ASSUME ServerInv, NEW m, NEW N, Grows(m, N)
  PROVE  /\ Len(rpc) \in Nat /\ Len(rpc') \in Nat /\ 1 .. Len(rpc) \subseteq 1 .. Len(rpc')
         /\ held' \subseteq (1 .. Len(rpc')) \X Tags
         /\ events' \in [Cqs -> SUBSET [id : 1 .. Len(rpc'), tag : Tags, ok : BOOLEAN]]
         /\ \A c \in Cqs : \A e \in events'[c] : rpc'[e.id].cq = c
         /\ \A j \in 1 .. Len(rpc) :
              /\ HeldOf(j)' = HeldOf(j) /\ FiredOf(j, TRUE)' = FiredOf(j, TRUE)
              /\ FiredOf(j, FALSE)' = FiredOf(j, FALSE) /\ (Listens(j)' <=> Listens(j))
         /\ \A j \in Len(rpc) + 1 .. Len(rpc') :
              /\ HeldOf(j)' = {t \in Tags : <<j, t>> \in N}
              /\ rpc'[j].cq \in Cqs => FiredOf(j, TRUE)' = {} /\ FiredOf(j, FALSE)' = {}
<1>1. /\ Len(rpc) \in Nat /\ Len(rpc') \in Nat /\ 1 .. Len(rpc) \subseteq 1 .. Len(rpc')
      /\ Len(rpc) + 1 .. Len(rpc) + m \subseteq 1 .. Len(rpc') /\ m \in Nat /\ Len(rpc') = Len(rpc) + m
      /\ held \subseteq (1 .. Len(rpc)) \X Tags /\ N \subseteq (Len(rpc) + 1 .. Len(rpc')) \X Tags
      /\ held' = held \cup N /\ events' = events
  BY SMTT(30) DEF ServerInv, ServerTypeOK, Grows
<1>2. held' \subseteq (1 .. Len(rpc')) \X Tags
  BY <1>1
<1>3. \A c \in Cqs : \A e \in events[c] : e \in [id : 1 .. Len(rpc), tag : Tags, ok : BOOLEAN]
  BY DEF ServerInv, ServerTypeOK
<1>4. events' \in [Cqs -> SUBSET [id : 1 .. Len(rpc'), tag : Tags, ok : BOOLEAN]]
  <2>1. \A e \in [id : 1 .. Len(rpc), tag : Tags, ok : BOOLEAN] :
          e \in [id : 1 .. Len(rpc'), tag : Tags, ok : BOOLEAN]
    BY <1>1
  <2>2. QED  BY <1>1, <2>1 DEF ServerInv, ServerTypeOK
<1>5. \A c \in Cqs : \A e \in events'[c] : rpc'[e.id].cq = c
  BY <1>1, <1>3, SMTT(30) DEF ServerInv, ThreadInv, Grows
<1>6. ASSUME NEW j \in 1 .. Len(rpc)
      PROVE  /\ HeldOf(j)' = HeldOf(j) /\ FiredOf(j, TRUE)' = FiredOf(j, TRUE)
             /\ FiredOf(j, FALSE)' = FiredOf(j, FALSE) /\ (Listens(j)' <=> Listens(j))
  <2>1. \A t : <<j, t>> \notin N
    BY <1>1, SMTT(30)
  <2>2. HeldOf(j)' = HeldOf(j)
    BY <1>1, <2>1 DEF HeldOf
  <2>3. FiredOf(j, TRUE)' = FiredOf(j, TRUE) /\ FiredOf(j, FALSE)' = FiredOf(j, FALSE)
    BY DEF FiredOf, Grows
  <2>4. QED  BY <2>2, <2>3 DEF Listens
<1>7. ASSUME NEW j \in Len(rpc) + 1 .. Len(rpc')
      PROVE  /\ HeldOf(j)' = {t \in Tags : <<j, t>> \in N}
             /\ rpc'[j].cq \in Cqs => FiredOf(j, TRUE)' = {} /\ FiredOf(j, FALSE)' = {}
  <2>1. j \notin 1 .. Len(rpc)
    BY <1>1, SMTT(30)
  <2>2. \A t : <<j, t>> \notin held
    BY <1>1, <2>1
  <2>3. HeldOf(j)' = {t \in Tags : <<j, t>> \in N}
    BY <1>1, <2>2 DEF HeldOf
  <2>4. ASSUME rpc'[j].cq \in Cqs, NEW t, NEW ok
        PROVE  [id |-> j, tag |-> t, ok |-> ok] \notin events'[rpc'[j].cq]
    BY <1>1, <1>3, <2>1, <2>4
  <2>5. rpc'[j].cq \in Cqs => FiredOf(j, TRUE)' = {} /\ FiredOf(j, FALSE)' = {}
    BY <2>4 DEF FiredOf
  <2>6. QED  BY <2>3, <2>5
<1>8. QED  BY <1>1, <1>2, <1>4, <1>5, <1>6, <1>7

(* Of the old objects, only what the threads do can matter.                   *)
LEMMA OldObjects ==
  ASSUME ServerInv, NEW m, NEW N, Grows(m, N), NEW j \in 1 .. Len(rpc), PlaceOf(j)' = PlaceOf(j)
  PROVE  ObjectInv(j)'
<1>1. /\ HeldOf(j)' = HeldOf(j) /\ FiredOf(j, TRUE)' = FiredOf(j, TRUE)
      /\ FiredOf(j, FALSE)' = FiredOf(j, FALSE)
  BY Grown
<1>2. rpc'[j] = rpc[j] /\ grpcDown' = grpcDown
  BY DEF Grows
<1>3. QED  BY <1>1, <1>2 DEF ServerInv, ObjectInv

(* A thread puts back an object of the kind it took; Server::Shutdown may have
   come between its test of the state and the enqueueing.                     *)
LEMMA RefillInv == ASSUME ServerInv, NEW c \in Cqs, Refill(c) PROVE ServerInv'
<1>1. PICK k, n, N, z :
        /\ k = rpc[th[c].id].kind /\ z = Len(rpc) + 1
        /\ n = [NewCall(k, c) EXCEPT !.call = IF grpcDown = 0 THEN @ ELSE "dropped"]
        /\ N = IF grpcDown # 0 THEN {} ELSE {z} \X FirstTags(k)
  OBVIOUS
<1>2. /\ th[c].at = "enqueue" /\ rpc' = Append(rpc, n) /\ held' = held \cup N
      /\ th' = [th EXCEPT ![c] = Polled] /\ UNCHANGED <<m_state, registry, grpcDown, events>>
  <2>1. /\ th[c].at = "enqueue" /\ rpc' = Append(rpc, n)
        /\ held' = IF grpcDown # 0 THEN held ELSE held \cup ({z} \X FirstTags(k))
        /\ th' = [th EXCEPT ![c] = Polled] /\ UNCHANGED <<m_state, registry, grpcDown, events>>
    BY <1>1 DEF Refill
  <2>2. QED  BY <1>1, <2>1
<1>3. /\ th[c] \in [at : ThreadPlaces, id : 0 .. Len(rpc), refill : BOOLEAN]
      /\ th \in [Cqs -> [at : ThreadPlaces, id : 0 .. Len(rpc), refill : BOOLEAN]]
      /\ th[c].id \in 1 .. Len(rpc) /\ rpc[th[c].id].cq = c /\ th[c].refill
      /\ rpc \in Seq(CallObjects) /\ Len(rpc) \in Nat
  BY <1>2, ThreadTypes, SMTT(30) DEF ServerInv, ThreadInv
<1>4. k \in {"plain", "notified", "generic"} /\ k \in registry
  BY <1>1, <1>3, ObjectTypes DEF ServerInv, ListenInv
<1>5. PICK p, d : p = NewCall(k, c) /\ d = [NewCall(k, c) EXCEPT !.call = "dropped"]
  OBVIOUS
<1>6. /\ p \in CallObjects /\ p.kind = k /\ p.cq = c /\ Life(p, FirstTags(k), {}, {}, "idle")
      /\ p.call = "waiting"
      /\ d \in CallObjects /\ d.kind = k /\ d.cq = c /\ Life(d, {}, {}, {}, "idle")
      /\ d.call = "dropped"
  BY <1>4, <1>5, NewLife, SMTT(30)
<1>7. /\ grpcDown = 0 => n = p /\ N = {z} \X FirstTags(k)
      /\ grpcDown # 0 => n = d /\ N = {}
  <2>1. grpcDown = 0 => n = [p EXCEPT !.call = p.call]
    BY <1>1, <1>5
  <2>2. [p EXCEPT !.call = p.call] = p
    BY <1>6 DEF CallObjects
  <2>3. grpcDown # 0 => n = d
    BY <1>1, <1>5
  <2>4. QED  BY <1>1, <2>1, <2>2, <2>3
<1>8. n \in CallObjects /\ n.kind = k /\ n.cq = c
  BY <1>6, <1>7
<1>9. FirstTags(k) \subseteq Tags /\ "received" \in FirstTags(k)
  BY DEF FirstTags, Tags
<1>10. Grows(1, N)
  <2>1. /\ rpc' \in Seq(CallObjects) /\ Len(rpc') = Len(rpc) + 1
        /\ \A j \in 1 .. Len(rpc) : rpc'[j] = rpc[j]
    BY <1>2, <1>3, <1>8, SMTT(30)
  <2>2. N \subseteq (Len(rpc) + 1 .. Len(rpc) + 1) \X Tags
    BY <1>1, <1>3, <1>7, <1>9, SMTT(30)
  <2>3. QED  BY <1>2, <2>1, <2>2 DEF Grows
<1>11. /\ rpc' \in Seq(CallObjects) /\ Len(rpc') = z /\ rpc'[z] = n /\ z \in Nat \ {0}
       /\ \A j \in 1 .. Len(rpc) : rpc'[j] = rpc[j]
       /\ 1 .. Len(rpc') = (1 .. Len(rpc)) \cup {z} /\ z \notin 1 .. Len(rpc)
       /\ z \in Len(rpc) + 1 .. Len(rpc')
  BY <1>1, <1>2, <1>3, <1>8, SMTT(30)
<1>12. /\ th' \in [Cqs -> [at : ThreadPlaces, id : 0 .. Len(rpc'), refill : BOOLEAN]]
       /\ th'[c] = Polled /\ \A b \in Cqs \ {c} : th'[b] = th[b]
       /\ Polled.at = "poll" /\ Polled.id = 0 /\ ~Polled.refill
  <2>1. Polled \in [at : ThreadPlaces, id : 0 .. Len(rpc'), refill : BOOLEAN]
    BY <1>11, SMTT(30) DEF Polled, ThreadPlaces
  <2>2. \A b \in Cqs : th[b] \in [at : ThreadPlaces, id : 0 .. Len(rpc'), refill : BOOLEAN]
    BY <1>1, <1>3, <1>11, SMTT(30)
  <2>3. QED  BY <1>2, <1>3, <2>1, <2>2 DEF Polled
<1>13. /\ held' \subseteq (1 .. Len(rpc')) \X Tags
       /\ events' \in [Cqs -> SUBSET [id : 1 .. Len(rpc'), tag : Tags, ok : BOOLEAN]]
       /\ \A b \in Cqs : \A e \in events'[b] : rpc'[e.id].cq = b
       /\ \A j \in 1 .. Len(rpc) : Listens(j)' <=> Listens(j)
       /\ HeldOf(z)' = {t \in Tags : <<z, t>> \in N}
       /\ FiredOf(z, TRUE)' = {} /\ FiredOf(z, FALSE)' = {}
  <2>1. rpc'[z].cq \in Cqs
    BY <1>8, <1>11
  <2>2. /\ held' \subseteq (1 .. Len(rpc')) \X Tags
        /\ events' \in [Cqs -> SUBSET [id : 1 .. Len(rpc'), tag : Tags, ok : BOOLEAN]]
        /\ \A b \in Cqs : \A e \in events'[b] : rpc'[e.id].cq = b
        /\ \A j \in 1 .. Len(rpc) : Listens(j)' <=> Listens(j)
        /\ \A j \in Len(rpc) + 1 .. Len(rpc') :
             /\ HeldOf(j)' = {t \in Tags : <<j, t>> \in N}
             /\ rpc'[j].cq \in Cqs => FiredOf(j, TRUE)' = {} /\ FiredOf(j, FALSE)' = {}
    BY <1>10, Grown
  <2>3. QED  BY <1>11, <2>1, <2>2
<1>14. ServerTypeOK'
  BY <1>2, <1>11, <1>12, <1>13 DEF ServerInv, ServerTypeOK, ThreadPlaces
<1>15. \A b \in Cqs : ThreadInv(b)'
  <2>1. ThreadInv(c)'
    BY <1>12, <1>13 DEF ThreadInv
  <2>2. ASSUME NEW b \in Cqs \ {c} PROVE ThreadInv(b)'
    BY <1>2, <1>11, <1>12, <1>13, SMTT(30) DEF ServerInv, ThreadInv
  <2>3. QED  BY <2>1, <2>2
<1>16. ASSUME NEW j \in 1 .. Len(rpc) PROVE ObjectInv(j)'
  <2>1. rpc[j].cq \in Cqs /\ rpc'[j].cq = rpc[j].cq
    BY <1>11, ObjectTypes DEF ServerInv
  <2>2. PlaceOf(j)' = PlaceOf(j)
    BY <1>2, <1>12, <2>1 DEF PlaceOf
  <2>3. QED  BY <1>10, <2>2, OldObjects
<1>17. ObjectInv(z)'
  <2>1. PlaceOf(z)' = "idle"
    BY <1>8, <1>11, <1>12 DEF PlaceOf
  <2>2. CASE grpcDown = 0
    <3>1. HeldOf(z)' = FirstTags(k)
      BY <1>7, <1>9, <1>13, <2>2
    <3>2. Late(n, FirstTags(k), {}, {}, "idle", grpcDown)
      BY <1>6, <1>7, <2>2 DEF Late
    <3>3. QED  BY <1>2, <1>6, <1>7, <1>11, <1>13, <2>1, <2>2, <3>1, <3>2 DEF ObjectInv
  <2>3. CASE grpcDown # 0
    <3>1. HeldOf(z)' = {}
      BY <1>7, <1>13, <2>3
    <3>2. Late(n, {}, {}, {}, "idle", grpcDown)
      BY <1>6, <1>7, <2>3 DEF Late
    <3>3. QED  BY <1>2, <1>6, <1>7, <1>11, <1>13, <2>1, <2>3, <3>1, <3>2 DEF ObjectInv
  <2>4. QED  BY <2>2, <2>3
<1>18. ListenInv'
  <2>1. /\ \A x : ~Refilling(c, x)'
        /\ \A x : Refilling(c, x) <=> x = k
        /\ \A b \in Cqs \ {c} : \A x : Refilling(b, x)' <=> Refilling(b, x)
    <3>1. \A b \in Cqs : th[b].refill => th[b].id \in 1 .. Len(rpc)
      BY DEF ServerInv, ThreadInv
    <3>2. QED  BY <1>1, <1>3, <1>11, <1>12, <3>1, SMTT(30) DEF Refilling
  <2>2. Listens(z)' <=> grpcDown = 0
    BY <1>7, <1>9, <1>13 DEF Listens, Tags
  <2>3. \A j \in 1 .. Len(rpc') : rpc'[j].kind \in registry'
    BY <1>2, <1>4, <1>8, <1>11 DEF ServerInv, ListenInv
  <2>4. \A j \in 1 .. Len(rpc) : Listens(j)' => ~(rpc[j].kind = k /\ rpc[j].cq = c)
    BY <1>13, <2>1, SMTT(30) DEF ServerInv, ListenInv
  <2>5. ASSUME NEW i \in 1 .. Len(rpc'), NEW j \in 1 .. Len(rpc'), Listens(i)', Listens(j)',
               rpc'[i].kind = rpc'[j].kind, rpc'[i].cq = rpc'[j].cq
        PROVE  i = j
    <3>1. CASE i = z \/ j = z
      BY <1>8, <1>11, <2>4, <2>5, <3>1
    <3>2. CASE i # z /\ j # z
      BY <1>11, <1>13, <2>5, <3>2, SMTT(30) DEF ServerInv, ListenInv
    <3>3. QED  BY <3>1, <3>2
  <2>6. ASSUME NEW j \in 1 .. Len(rpc'), Listens(j)' PROVE ~Refilling(rpc[j].cq, rpc[j].kind)'
    <3>1. PICK b, x : b = rpc'[j].cq /\ x = rpc'[j].kind
      OBVIOUS
    <3>2. ~Refilling(b, x)'
      <4>1. CASE j = z
        BY <1>8, <1>11, <2>1, <3>1, <4>1
      <4>2. CASE j # z
        <5>1. ~Refilling(b, x) /\ b \in Cqs
          BY <1>11, <1>13, <2>6, <3>1, <4>2, ObjectTypes, SMTT(30) DEF ServerInv, ListenInv
        <5>2. QED  BY <2>1, <5>1
      <4>3. QED  BY <4>1, <4>2
    <3>3. QED  BY <3>1, <3>2 DEF Refilling
  <2>7. ASSUME m_state = "RUNNING", NEW x \in registry, NEW b \in Cqs
        PROVE  \/ Refilling(b, x)'
               \/ \E j \in 1 .. Len(rpc') : Listens(j)' /\ rpc'[j].kind = x /\ rpc'[j].cq = b
    <3>1. CASE b = c /\ x = k
      <4>1. grpcDown = 0
        BY <2>7 DEF ServerInv
      <4>2. QED  BY <1>8, <1>11, <2>2, <3>1, <4>1
    <3>2. CASE ~(b = c /\ x = k)
      <4>1. \/ Refilling(b, x)'
            \/ \E j \in 1 .. Len(rpc) : Listens(j) /\ rpc[j].kind = x /\ rpc[j].cq = b
        BY <2>1, <2>7, <3>2, SMTT(30) DEF ServerInv, ListenInv
      <4>2. QED  BY <1>11, <1>13, <4>1
    <3>3. QED  BY <3>1, <3>2
  <2>8. QED  BY <1>2, <2>3, <2>5, <2>6, <2>7 DEF ListenInv
<1>19. \A j \in 1 .. Len(rpc') : ObjectInv(j)'
  BY <1>11, <1>16, <1>17
<1>20. m_state' = "TERMINATED" => \A b \in Cqs : th'[b].at = "exited"
  BY <1>2 DEF ServerInv
<1>21. QED  BY <1>2, <1>14, <1>15, <1>18, <1>19, <1>20 DEF ServerInv

(* An rpc is registered once, on a running server, with an object per queue.  *)
LEMMA OnePerQueueInv ==
  ASSUME ServerInv, NEW k, k \in Rpcs \ registry, m_state = "RUNNING", OnePerQueue(k)
  PROVE  ServerInv'
<1>1. PICK L, new, N : /\ L = Len(rpc) /\ new = [c \in Cqs |-> NewCall(k, c)]
                       /\ N = (L + 1 .. L + NumCqs) \X FirstTags(k)
  OBVIOUS
<1>2. /\ rpc' = rpc \o new /\ held' = held \cup N /\ registry' = registry \cup {k}
      /\ UNCHANGED <<m_state, grpcDown, events, th>>
  BY <1>1 DEF OnePerQueue
<1>3. /\ k \in {"plain", "notified", "generic"} /\ k \notin registry /\ grpcDown = 0 /\ NumCqs \in Nat
      /\ rpc \in Seq(CallObjects) /\ L \in Nat
      /\ th \in [Cqs -> [at : ThreadPlaces, id : 0 .. L, refill : BOOLEAN]]
  BY <1>1, ServerAssumption, SMTT(30) DEF ServerInv, ServerTypeOK, ThreadPlaces
<1>4. ASSUME NEW c \in Cqs
      PROVE  /\ new[c] \in CallObjects /\ new[c].kind = k /\ new[c].cq = c
             /\ Life(new[c], FirstTags(k), {}, {}, "idle") /\ new[c].call = "waiting"
  <2>1. PICK n, d : n = NewCall(k, c) /\ d = [NewCall(k, c) EXCEPT !.call = "dropped"]
    OBVIOUS
  <2>2. n \in CallObjects /\ n.kind = k /\ n.cq = c /\ Life(n, FirstTags(k), {}, {}, "idle") /\ n.call = "waiting"
    BY <1>3, <2>1, NewLife, SMTT(30)
  <2>3. new[c] = n
    BY <1>1, <2>1
  <2>4. QED  BY <2>2, <2>3
<1>5. new \in Seq(CallObjects) /\ Len(new) = NumCqs
  <2>1. new \in [1 .. NumCqs -> CallObjects]
    BY <1>1, <1>4 DEF Cqs
  <2>2. QED  BY <1>3, <2>1, SMTT(30)
<1>6. /\ rpc' \in Seq(CallObjects) /\ Len(rpc') = L + NumCqs
      /\ \A j \in 1 .. L : rpc'[j] = rpc[j]
      /\ \A j \in L + 1 .. L + NumCqs : j - L \in Cqs /\ rpc'[j] = new[j - L]
      /\ \A c \in Cqs : L + c \in L + 1 .. L + NumCqs /\ rpc'[L + c] = new[c]
      /\ 1 .. Len(rpc') = (1 .. L) \cup (L + 1 .. L + NumCqs)
      /\ (1 .. L) \cap (L + 1 .. L + NumCqs) = {}
  BY <1>1, <1>2, <1>3, <1>5, SMTT(30) DEF Cqs
<1>7. FirstTags(k) \subseteq Tags /\ "received" \in FirstTags(k)
  BY DEF FirstTags, Tags
<1>8. Grows(NumCqs, N)
  <2>1. N \subseteq (Len(rpc) + 1 .. Len(rpc) + NumCqs) \X Tags
    BY <1>1, <1>7
  <2>2. QED  BY <1>1, <1>2, <1>3, <1>6, <2>1 DEF Grows
<1>9. /\ held' \subseteq (1 .. Len(rpc')) \X Tags
      /\ events' \in [Cqs -> SUBSET [id : 1 .. Len(rpc'), tag : Tags, ok : BOOLEAN]]
      /\ \A b \in Cqs : \A e \in events'[b] : rpc'[e.id].cq = b
      /\ \A j \in 1 .. Len(rpc) : Listens(j)' <=> Listens(j)
      /\ \A j \in Len(rpc) + 1 .. Len(rpc') :
           /\ HeldOf(j)' = {t \in Tags : <<j, t>> \in N}
           /\ rpc'[j].cq \in Cqs => FiredOf(j, TRUE)' = {} /\ FiredOf(j, FALSE)' = {}
  BY <1>8, Grown
<1>10. ASSUME NEW j \in L + 1 .. L + NumCqs
       PROVE  /\ rpc'[j].kind = k /\ rpc'[j].cq = j - L /\ j - L \in Cqs
              /\ HeldOf(j)' = FirstTags(k) /\ FiredOf(j, TRUE)' = {} /\ FiredOf(j, FALSE)' = {}
              /\ Life(rpc'[j], FirstTags(k), {}, {}, "idle") /\ rpc'[j].call = "waiting"
              /\ Listens(j)'
  <2>1. PICK c \in Cqs : c = j - L /\ rpc'[j] = new[c]
    BY <1>6
  <2>2. /\ rpc'[j].kind = k /\ rpc'[j].cq = c
        /\ Life(rpc'[j], FirstTags(k), {}, {}, "idle") /\ rpc'[j].call = "waiting"
    BY <1>4, <2>1
  <2>3. j \in Len(rpc) + 1 .. Len(rpc')
    BY <1>1, <1>6
  <2>4. {t \in Tags : <<j, t>> \in N} = FirstTags(k)
    BY <1>1, <1>7
  <2>5. HeldOf(j)' = FirstTags(k) /\ FiredOf(j, TRUE)' = {} /\ FiredOf(j, FALSE)' = {}
    BY <1>9, <2>2, <2>3, <2>4
  <2>6. Listens(j)'
    BY <1>7, <2>5 DEF Listens
  <2>7. QED  BY <2>1, <2>2, <2>5, <2>6
<1>11. ServerTypeOK'
  <2>1. th' \in [Cqs -> [at : ThreadPlaces, id : 0 .. Len(rpc'), refill : BOOLEAN]]
    <3>1. \A b \in Cqs : th[b] \in [at : ThreadPlaces, id : 0 .. Len(rpc'), refill : BOOLEAN]
      BY <1>3, <1>6, SMTT(30)
    <3>2. QED  BY <1>2, <1>3, <3>1
  <2>2. registry' \subseteq {"plain", "notified", "generic"}
    BY <1>2, <1>3 DEF ServerInv, ServerTypeOK
  <2>3. QED  BY <1>2, <1>6, <1>9, <2>1, <2>2 DEF ServerInv, ServerTypeOK, ThreadPlaces
<1>12. ASSUME NEW b \in Cqs
       PROVE  /\ ThreadInv(b)' /\ th[b].at # "exited"
              /\ th[b].id \in 0 .. L /\ (th[b].refill => th[b].id \in 1 .. L)
  <2>1. /\ th[b].at # "exited" /\ th[b].id \in 0 .. L
        /\ (th[b].refill => th[b].id \in 1 .. L)
        /\ th[b].at \notin {"poll", "exited"} => th[b].id \in 1 .. L
    BY <1>1, <1>3, SMTT(30) DEF ServerInv, ThreadInv
  <2>2. ThreadInv(b)'
    BY <1>1, <1>2, <1>6, <1>9, <2>1 DEF ServerInv, ThreadInv
  <2>3. QED  BY <2>1, <2>2
<1>13. ASSUME NEW j \in 1 .. Len(rpc') PROVE ObjectInv(j)'
  <2>1. CASE j \in 1 .. L
    <3>1. PlaceOf(j)' = PlaceOf(j)
      BY <1>2, <1>6, <2>1 DEF PlaceOf
    <3>2. QED  BY <1>1, <1>8, <2>1, <3>1, OldObjects
  <2>2. CASE j \in L + 1 .. L + NumCqs
    <3>1. rpc'[j].cq \in Cqs /\ th'[rpc'[j].cq].at # "exited" /\ th'[rpc'[j].cq].id # j
      <4>1. PICK b \in Cqs : b = rpc'[j].cq
        BY <1>10, <2>2
      <4>2. th[b].at # "exited" /\ th[b].id # j
        BY <1>3, <1>6, <1>12, <2>2, SMTT(30)
      <4>3. QED  BY <1>2, <4>1, <4>2
    <3>2. PlaceOf(j)' = "idle"
      BY <3>1 DEF PlaceOf
    <3>3. Late(rpc'[j], FirstTags(k), {}, {}, "idle", 0)
      BY <1>10, <2>2 DEF Late
    <3>4. QED  BY <1>2, <1>3, <1>10, <2>2, <3>2, <3>3 DEF ObjectInv
  <2>3. QED  BY <1>6, <2>1, <2>2
<1>14. ListenInv'
  <2>1. \A b \in Cqs : \A x : Refilling(b, x)' <=> Refilling(b, x)
    BY <1>2, <1>6, <1>12 DEF Refilling
  <2>2. \A b \in Cqs : ~Refilling(b, k)
    BY <1>1, <1>3, <1>12, SMTT(30) DEF Refilling, ServerInv, ListenInv
  <2>3. \A j \in 1 .. L : rpc[j].kind # k /\ rpc[j].kind \in registry
    BY <1>1, <1>3, SMTT(30) DEF ServerInv, ListenInv
  <2>4. \A j \in 1 .. Len(rpc') : rpc'[j].kind \in registry'
    BY <1>2, <1>6, <1>10, <2>3
  <2>5. ASSUME NEW i \in 1 .. Len(rpc'), NEW j \in 1 .. Len(rpc'), Listens(i)', Listens(j)',
               rpc'[i].kind = rpc'[j].kind, rpc'[i].cq = rpc'[j].cq
        PROVE  i = j
    <3>1. CASE i \in 1 .. L /\ j \in 1 .. L
      BY <1>1, <1>6, <1>9, <2>5, <3>1, SMTT(30) DEF ServerInv, ListenInv
    <3>2. CASE i \in L + 1 .. L + NumCqs /\ j \in L + 1 .. L + NumCqs
      <4>1. i - L = j - L
        BY <1>10, <2>5, <3>2
      <4>2. QED  BY <1>3, <3>2, <4>1, SMTT(30)
    <3>3. CASE (i \in 1 .. L /\ j \in L + 1 .. L + NumCqs) \/ (j \in 1 .. L /\ i \in L + 1 .. L + NumCqs)
      BY <1>6, <1>10, <2>3, <2>5, <3>3
    <3>4. QED  BY <1>6, <3>1, <3>2, <3>3
  <2>6. ASSUME NEW j \in 1 .. Len(rpc'), Listens(j)' PROVE ~Refilling(rpc[j].cq, rpc[j].kind)'
    <3>1. PICK b, x : b = rpc'[j].cq /\ x = rpc'[j].kind
      OBVIOUS
    <3>2. ~Refilling(b, x)'
      <4>1. CASE j \in L + 1 .. L + NumCqs
        BY <1>10, <2>1, <2>2, <3>1, <4>1
      <4>2. CASE j \in 1 .. L
        <5>1. ~Refilling(b, x) /\ b \in Cqs
          BY <1>1, <1>6, <1>9, <2>6, <3>1, <4>2, ObjectTypes DEF ServerInv, ListenInv
        <5>2. QED  BY <2>1, <5>1
      <4>3. QED  BY <1>6, <4>1, <4>2
    <3>3. QED  BY <3>1, <3>2 DEF Refilling
  <2>7. ASSUME NEW x \in registry', NEW b \in Cqs
        PROVE  \/ Refilling(b, x)'
               \/ \E j \in 1 .. Len(rpc') : Listens(j)' /\ rpc'[j].kind = x /\ rpc'[j].cq = b
    <3>1. CASE x = k
      <4>1. L + b \in L + 1 .. L + NumCqs /\ (L + b) - L = b
        BY <1>3, <1>6, SMTT(30) DEF Cqs
      <4>2. Listens(L + b)' /\ rpc'[L + b].kind = k /\ rpc'[L + b].cq = b
        BY <1>10, <4>1
      <4>3. QED  BY <1>6, <3>1, <4>1, <4>2
    <3>2. CASE x \in registry
      <4>1. \/ Refilling(b, x)'
            \/ \E j \in 1 .. L : Listens(j) /\ rpc[j].kind = x /\ rpc[j].cq = b
        BY <1>1, <2>1, <3>2, SMTT(30) DEF ServerInv, ListenInv
      <4>2. QED  BY <1>1, <1>6, <1>9, <4>1
    <3>3. QED  BY <1>2, <3>1, <3>2
  <2>8. QED  BY <2>4, <2>5, <2>6, <2>7 DEF ListenInv
<1>15. QED  BY <1>2, <1>3, <1>11, <1>12, <1>13, <1>14 DEF ServerInv

LEMMA ServerInitInv == ServerInit => ServerInv
<1> SUFFICES ASSUME ServerInit PROVE ServerInv
  OBVIOUS
<1>1. /\ m_state = "INITED" /\ registry = {} /\ grpcDown = 0 /\ held = {}
      /\ events = [c \in Cqs |-> {}] /\ th = [c \in Cqs |-> Polled]
      /\ rpc \in Seq(CallObjects) /\ Len(rpc) = 0 /\ 1 .. Len(rpc) = {}
  BY SMTT(30) DEF ServerInit
<1>2. Polled \in [at : {"poll", "send", "return", "check", "enqueue", "exited"},
                  id : 0 .. Len(rpc), refill : BOOLEAN]
  BY <1>1, SMTT(30) DEF Polled
<1>3. ServerTypeOK
  BY <1>1, <1>2, SMTT(30) DEF ServerTypeOK
<1>4. ListenInv
  BY <1>1 DEF ListenInv
<1>5. \A c \in Cqs : ThreadInv(c)
  BY <1>1 DEF ThreadInv, Polled
<1>6. QED  BY <1>1, <1>3, <1>4, <1>5 DEF ServerInv

LEMMA ServerStepInv == ServerInv /\ [ServerNext]_serverVars => ServerInv'
<1> SUFFICES ASSUME ServerInv, [ServerNext]_serverVars PROVE ServerInv'
  OBVIOUS
<1> USE DEF serverVars
<1>0. DOMAIN rpc = 1 .. Len(rpc)
  BY SMTT(30) DEF ServerInv, ServerTypeOK
<1>1. CASE RegisterService \/ RegisterGenericService \/ UNCHANGED serverVars
  BY <1>1, StateInv DEF RegisterService, RegisterGenericService
<1>2. CASE RunServer \/ ShutdownBegins \/ QueuesShutdown \/ ShutdownEnds
  BY <1>2, StateInv DEF RunServer, ShutdownBegins, QueuesShutdown, ShutdownEnds
<1>3. CASE RegisterGenericRpc \/ \E k \in Rpcs : RegisterRpc(k)
  BY <1>3, OnePerQueueInv DEF RegisterGenericRpc, RegisterRpc
<1>4. CASE GrpcNext
  BY <1>0, <1>4, ArriveInv, ClientCancelsInv, NotifiesDoneInv, CompletesInv DEF GrpcNext
<1>5. CASE \E i \in DOMAIN rpc : AppResponds(i)
  BY <1>0, <1>5, AppRespondsInv
<1>6. CASE \E c \in Cqs : ThreadNext(c)
  BY <1>6, HandleRpcsInv, RespondsNowInv, TagProcessedInv, RefillCheckInv, RefillInv, ThreadExitsInv
     DEF ThreadNext
<1>7. CASE ServerShutdown
  BY <1>7, ServerShutdownInv
<1>8. QED  BY <1>1, <1>2, <1>3, <1>4, <1>5, <1>6, <1>7 DEF ServerNext, ShutdownNext

(* What the invariant says of the objects: who points to one keeps it alive.  *)
LEMMA InvTagsOnLive == ServerInv => TagsOnLive
<1> SUFFICES ASSUME ServerInv, NEW i \in DOMAIN rpc,
                    Outstanding(i) # {} \/ Queued(i) # {} \/ Serving(i) # {} \/ rpc[i].app
             PROVE  rpc[i].live
  BY DEF TagsOnLive
<1>0. i \in 1 .. Len(rpc)
  BY SMTT(30) DEF ServerInv, ServerTypeOK
<1>1. PICK r \in CallObjects, H \in SUBSET Tags, T \in SUBSET Tags, F \in SUBSET Tags, a \in Places :
        /\ r = rpc[i] /\ H = HeldOf(i) /\ T = FiredOf(i, TRUE) /\ F = FiredOf(i, FALSE)
        /\ a = PlaceOf(i) /\ Life(r, H, T, F, a) /\ Late(r, H, T, F, a, grpcDown)
  BY <1>0, ObjectNow
<1>2. CASE H \cup T \cup F # {} \/ a \in {"send", "return"} \/ r.app
  <2>1. PICK P \in SUBSET Tags : P = H \cup T \cup F
    OBVIOUS
  <2>2. RefsExact(r, P, a) /\ (r.live <=> r.refs > 0)
    BY <1>1, <1>2, <2>1 DEF Life
  <2>3. PICK t \in Tags : t \in P \/ a \in {"send", "return"} \/ r.app
    BY <1>2, <2>1 DEF Tags
  <2>4. r.refs > 0
    BY <2>2, <2>3, SMTT(30) DEF RefsExact, Processed, One, Tags
  <2>5. QED  BY <1>1, <2>2, <2>4
<1>3. CASE Outstanding(i) # {}
  <2>1. PICK t \in Tags : <<i, t>> \in held
    BY <1>3, SMTT(30) DEF Outstanding, Tags
  <2>2. t \in H
    BY <1>1, <2>1 DEF HeldOf
  <2>3. QED  BY <1>2, <2>2
<1>4. CASE Queued(i) # {}
  <2>1. PICK c \in Cqs : \E e \in events[c] : e.id = i
    BY <1>4 DEF Queued
  <2> PICK e \in events[c] : e.id = i
    BY <2>1
  <2>2. rpc[i].cq = c
    BY <2>1 DEF ServerInv, ThreadInv
  <2>3. e \in [id : 1 .. Len(rpc), tag : Tags, ok : BOOLEAN]
    BY ThreadTypes
  <2>4. e = [id |-> i, tag |-> e.tag, ok |-> e.ok] /\ e.tag \in Tags /\ e.ok \in BOOLEAN
    BY <2>1, <2>3
  <2>5. e.tag \in T \cup F
    <3>1. CASE e.ok = TRUE
      BY <1>1, <2>1, <2>2, <2>4, <3>1 DEF FiredOf
    <3>2. CASE e.ok = FALSE
      BY <1>1, <2>1, <2>2, <2>4, <3>2 DEF FiredOf
    <3>3. QED  BY <2>4, <3>1, <3>2
  <2>6. QED  BY <1>2, <2>5
<1>5. CASE Serving(i) # {}
  <2>1. PICK c \in Cqs : th[c].id = i /\ th[c].at \in {"send", "return"}
    BY <1>5 DEF Serving
  <2>2. rpc[i].cq = c
    BY <2>1 DEF ServerInv, ThreadInv
  <2>3. a \in {"send", "return"}
    BY <1>1, <2>1, <2>2 DEF PlaceOf
  <2>4. QED  BY <1>2, <2>3
<1>6. QED  BY <1>1, <1>2, <1>3, <1>4, <1>5

(* When shutdown() has returned every thread has drained its queue.           *)
LEMMA InvEnded ==
  ASSUME ServerInv, NEW i \in DOMAIN rpc
  PROVE  /\ rpc[i].finishes <= 1
         /\ m_state = "TERMINATED" =>
              /\ rpc[i].finishes = 0 => rpc[i].call \in {"refused", "dropped", "canceled"}
              /\ rpc[i].live => \/ rpc[i].call = "dropped"
                                \/ rpc[i].kind = "notified" /\ rpc[i].call = "refused"
<1>0. i \in 1 .. Len(rpc)
  BY SMTT(30) DEF ServerInv, ServerTypeOK
<1>1. PICK r \in CallObjects, H \in SUBSET Tags, T \in SUBSET Tags, F \in SUBSET Tags, a \in Places :
        /\ r = rpc[i] /\ H = HeldOf(i) /\ T = FiredOf(i, TRUE) /\ F = FiredOf(i, FALSE)
        /\ a = PlaceOf(i) /\ Life(r, H, T, F, a) /\ Late(r, H, T, F, a, grpcDown)
  BY <1>0, ObjectNow
<1>2. rpc[i].finishes <= 1
  BY <1>1 DEF Life, Answers
<1>3. ASSUME m_state = "TERMINATED"
      PROVE  /\ r.finishes = 0 => r.call \in {"refused", "dropped", "canceled"}
             /\ r.live => r.call = "dropped" \/ (r.kind = "notified" /\ r.call = "refused")
  <2>1. a = "exited"
    BY <1>0, <1>1, <1>3, ObjectTypes DEF ServerInv, PlaceOf
  <2>2. /\ T = {} /\ F = {} /\ H \subseteq {"done"} /\ grpcDown = 2
        /\ H # {} => r.call \notin {"finished", "canceled"}
        /\ r.call # "waiting" /\ (r.live => r.call \notin {"open", "canceled"})
    <3>1. Late(r, H, T, F, "exited", grpcDown)
      BY <1>1, <2>1
    <3>2. Late(r, H, T, F, "exited", 2) /\ grpcDown = 2
      BY <3>1 DEF Late
    <3>3. QED  BY <3>2, SMTT(30) DEF Late
  <2>3. r.call # "open"
    BY <1>1, <2>2, OpenLives
  <2>4. r.call = "finished" => r.finishes = 1
    BY <1>1 DEF Life, CallStands
  <2>5. r.finishes = 0 => r.call \in {"refused", "dropped", "canceled"}
    BY <2>2, <2>3, <2>4, SMTT(30) DEF CallObjects
  <2>6. ASSUME r.live, r.call # "dropped" PROVE r.kind = "notified" /\ r.call = "refused"
    <3>1. ~r.app
      BY <1>1, <2>2, <2>6 DEF Life, CallStands, Processed
    <3>2. H = {"done"}
      <4>1. PICK P : P = H \cup T \cup F
        OBVIOUS
      <4>2. RefsExact(r, P, "exited") /\ r.refs > 0
        BY <1>1, <2>1, <2>6, <4>1 DEF Life
      <4>3. "done" \in P
        <5>1. \A t \in Tags \ {"done"} : t \notin P
          BY <2>2, <4>1
        <5>2. QED  BY <3>1, <4>2, <5>1, SMTT(30) DEF RefsExact, Processed, One, Tags
      <4>4. QED  BY <2>2, <4>1, <4>3
    <3>3. QED  BY <1>1, <2>2, <2>6, <3>2 DEF Life, CallObjects
  <2>7. QED  BY <2>5, <2>6
<1>4. QED  BY <1>1, <1>2, <1>3

LEMMA InvListens ==
  ASSUME ServerInv, NEW c \in Cqs, NEW i \in DOMAIN rpc, rpc[i].cq = c
  PROVE  Listens(i) <=> \/ <<i, "received">> \in held
                        \/ \E e \in events[c] : e.id = i /\ e.tag = "received"
<1>1. "received" \in HeldOf(i) <=> <<i, "received">> \in held
  BY DEF HeldOf, Tags
<1>2. \A e \in events[c] : e \in [id : 1 .. Len(rpc), tag : Tags, ok : BOOLEAN]
  BY ThreadTypes
<1>3. "received" \in FiredOf(i, TRUE) \cup FiredOf(i, FALSE)
        <=> \E e \in events[c] : e.id = i /\ e.tag = "received"
  <2>1. ASSUME NEW e \in events[c], e.id = i, e.tag = "received"
        PROVE  "received" \in FiredOf(i, TRUE) \cup FiredOf(i, FALSE)
    <3>1. e = [id |-> i, tag |-> "received", ok |-> e.ok] /\ e.ok \in BOOLEAN
      BY <1>2, <2>1
    <3>2. CASE e.ok = TRUE
      BY <3>1, <3>2 DEF FiredOf, Tags
    <3>3. CASE e.ok = FALSE
      BY <3>1, <3>3 DEF FiredOf, Tags
    <3>4. QED  BY <3>1, <3>2, <3>3
  <2>2. ASSUME NEW ok \in BOOLEAN, "received" \in FiredOf(i, ok)
        PROVE  \E e \in events[c] : e.id = i /\ e.tag = "received"
    BY <2>2 DEF FiredOf
  <2>3. QED  BY <2>1, <2>2
<1>4. QED  BY <1>1, <1>3 DEF Listens

LEMMA InvListenersKept == ServerInv => ListenersKept
<1> SUFFICES ASSUME ServerInv, m_state = "RUNNING", NEW k \in registry, NEW c \in Cqs
             PROVE  Cardinality({i \in DOMAIN rpc : /\ rpc[i].kind = k /\ rpc[i].cq = c
                      /\ \/ <<i, "received">> \in held
                         \/ \E e \in events[c] : e.id = i /\ e.tag = "received"})
                      + (IF th[c].refill /\ rpc[th[c].id].kind = k THEN 1 ELSE 0) = 1
  BY DEF ListenersKept
<1>1. PICK S : S = {i \in DOMAIN rpc : /\ rpc[i].kind = k /\ rpc[i].cq = c
                      /\ \/ <<i, "received">> \in held
                         \/ \E e \in events[c] : e.id = i /\ e.tag = "received"}
  OBVIOUS
<1>2. \A i : i \in S <=> i \in DOMAIN rpc /\ rpc[i].kind = k /\ rpc[i].cq = c /\ Listens(i)
  BY <1>1, InvListens
<1>3. DOMAIN rpc = 1 .. Len(rpc)
  BY SMTT(30) DEF ServerInv, ServerTypeOK
<1>4. CASE Refilling(c, k)
  <2>1. S = {}
    BY <1>2, <1>3, <1>4, SMTT(30) DEF ServerInv, ListenInv
  <2>2. Cardinality(S) = 0
    BY <2>1, FS_EmptySet
  <2>3. QED  BY <1>1, <1>4, <2>2, SMTT(30) DEF Refilling
<1>5. CASE ~Refilling(c, k)
  <2>1. PICK i \in 1 .. Len(rpc) : Listens(i) /\ rpc[i].kind = k /\ rpc[i].cq = c
    BY <1>5, SMTT(30) DEF ServerInv, ListenInv
  <2>2. S = {i}
    <3>1. i \in S
      BY <1>2, <1>3, <2>1
    <3>2. \A j \in S : j = i
      BY <1>2, <1>3, <2>1 DEF ServerInv, ListenInv
    <3>3. QED  BY <3>1, <3>2
  <2>3. Cardinality(S) = 1
    BY <2>2, FS_Singleton
  <2>4. QED  BY <1>1, <1>5, <2>3, SMTT(30) DEF Refilling
<1>6. QED  BY <1>4, <1>5

LEMMA ServerInvariance == ServerSpec => []ServerInv
BY ServerInitInv, ServerStepInv, PTL DEF ServerSpec

(* For any number of queues, rpcs and requests, in every interleaving of gRPC,
   the service threads, the application's answers and shutdown(): ref() and
   unref() keep a call object alive exactly as long as a tag, a thread or the
   application can still reach it, no call is finished twice, and when
   shutdown() returns every begun call was finished or given up by its client
   and only objects that were never begun are left.                           *)
THEOREM CallObjectsHold == ServerSpec => []CallObjectsSound
<1>1. ServerInv => CallObjectsSound
  BY InvTagsOnLive, InvEnded DEF CallObjectsSound, AnsweredOnce, NothingLeft
<1>2. QED  BY <1>1, ServerInvariance, PTL

(* For any number of queues and rpcs: while the server runs, every queue has
   one waiting call object of each registered rpc, or the thread that took it
   is about to put one back (handle_rpcs, enqueue_call_request).              *)
THEOREM ListenersStay == ServerSpec => []ListenersKept
BY InvListenersKept, ServerInvariance, PTL


CallRecords == [at : {"unsent", "sent", "queued", "taken"}, kind : CallKinds \cup {"callback"},
                status : Statuses, ran : Nat, outcome : Statuses \cup {"none"}, frees : Nat]

ClientTypeOK ==
  /\ worker \in {"none", "RUNNING", "SHUTTING_DOWN", "gone"}
  /\ cqDown \in BOOLEAN
  /\ call \in [Calls -> CallRecords]
  /\ cl \in [ClientThreads -> [at : {"next", "handle", "delete", "ended"}, id : Calls \cup {0}]]

Busy(t) == cl[t].at \in {"handle", "delete"}

\* A thread that handles or deletes a call has taken its tag, and is the only
\* one that has.
TagsTaken ==
  /\ \A t \in ClientThreads : Busy(t) => cl[t].id \in Calls /\ call[cl[t].id].at = "taken"
  /\ \A t, u \in ClientThreads : Busy(t) /\ Busy(u) /\ cl[t].id = cl[u].id => t = u

\* How far a call is: its handler has not run before a thread handles it, and
\* has once that thread goes on.
Progress ==
  \A c \in Calls :
    /\ call[c].at # "taken" => call[c].ran = 0
    /\ \A t \in ClientThreads : cl[t].at = "handle" /\ cl[t].id = c => call[c].ran = 0
    /\ call[c].at = "taken" /\ (\A t \in ClientThreads : ~(cl[t].at = "handle" /\ cl[t].id = c))
         => call[c].ran = 1 /\ call[c].outcome = call[c].status

\* A thread ends only when the queue is shut down and drained, and from then on
\* no call is sent.
Drained ==
  /\ cqDown => worker \in {"SHUTTING_DOWN", "gone"}
  /\ \A t \in ClientThreads : cl[t].at = "ended" =>
       cqDown /\ \A c \in Calls : call[c].at \notin {"sent", "queued"}
  /\ worker = "gone" => \A t \in ClientThreads : cl[t].at = "ended"

ClientInv == ClientTypeOK /\ TagsTaken /\ Progress /\ Drained

LEMMA ClientInitInv == ClientInit => ClientInv
<1> SUFFICES ASSUME ClientInit PROVE ClientInv  OBVIOUS
<1>1. Unsent \in CallRecords /\ Unsent.at = "unsent" /\ Unsent.ran = 0
  BY DEF Unsent, CallRecords, Statuses, Ok
<1>2. Looping \in [at : {"next", "handle", "delete", "ended"}, id : Calls \cup {0}] /\ Looping.at = "next"
  BY DEF Looping
<1>3. ClientTypeOK
  BY <1>1, <1>2 DEF ClientInit, ClientTypeOK
<1>4. TagsTaken /\ Progress /\ Drained
  BY <1>1, <1>2, WorkerAssumption DEF ClientInit, TagsTaken, Progress, Drained, Busy
<1>5. QED  BY <1>3, <1>4 DEF ClientInv

(* The worker is made, used, shut down and released; the calls stay as they
   are.                                                                       *)
LEMMA WorkerInv ==
  ASSUME ClientInv, CreateWorker \/ MakeStub \/ WorkerShutdown \/ WorkerReleased
  PROVE  ClientInv'
<1>1. call' = call /\ cl' = cl
  BY DEF CreateWorker, MakeStub, WorkerShutdown, WorkerReleased
<1>2. TagsTaken' /\ Progress'
  BY <1>1 DEF ClientInv, TagsTaken, Progress, Busy
<1>3. ClientTypeOK'
  BY <1>1 DEF ClientInv, ClientTypeOK, CreateWorker, MakeStub, WorkerShutdown, WorkerReleased
<1>4. Drained'
  BY <1>1, SMTT(30)
     DEF ClientInv, ClientTypeOK, Drained, CreateWorker, MakeStub, WorkerShutdown, WorkerReleased
<1>5. QED  BY <1>2, <1>3, <1>4 DEF ClientInv

(* A call is sent: the queue is not shut down, so no thread has ended.        *)
LEMMA SendInv ==
  ASSUME ClientInv, NEW c \in Calls, NEW k \in CallKinds, StartAndFinish(c, k)
  PROVE  ClientInv'
<1>1. /\ call[c].at = "unsent" /\ ~cqDown /\ UNCHANGED <<worker, cqDown, cl>>
      /\ call' = [call EXCEPT ![c] = [call[c] EXCEPT !.at = "sent", !.kind = k]]
  BY DEF StartAndFinish
<1>2. /\ call'[c] \in CallRecords /\ call'[c].at = "sent" /\ call'[c].ran = call[c].ran
      /\ \A d \in Calls \ {c} : call'[d] = call[d]
  BY <1>1 DEF ClientInv, ClientTypeOK, CallRecords
<1>3. ClientTypeOK'
  BY <1>1, <1>2 DEF ClientInv, ClientTypeOK
<1>4. TagsTaken'
  BY <1>1, <1>2, SMTT(30) DEF ClientInv, TagsTaken, Busy
<1>5. Progress'
  BY <1>1, <1>2, SMTT(30) DEF ClientInv, TagsTaken, Progress, Busy
<1>6. Drained'
  BY <1>1, <1>2 DEF ClientInv, Drained
<1>7. QED  BY <1>3, <1>4, <1>5, <1>6 DEF ClientInv

(* The channel ends a call: its tag goes to the queue.                        *)
LEMMA AnswerInv ==
  ASSUME ClientInv, NEW c \in Calls, NEW s \in Statuses, ChannelAnswers(c, s)
  PROVE  ClientInv'
<1>1. /\ call[c].at = "sent" /\ UNCHANGED <<worker, cqDown, cl>>
      /\ call' = [call EXCEPT ![c] = [[call[c] EXCEPT !.at = "queued"] EXCEPT !.status = s]]
  BY DEF ChannelAnswers
<1>2. /\ call'[c] \in CallRecords /\ call'[c].at = "queued" /\ call'[c].ran = call[c].ran
      /\ \A d \in Calls \ {c} : call'[d] = call[d]
  BY <1>1 DEF ClientInv, ClientTypeOK, CallRecords
<1>3. ClientTypeOK'
  BY <1>1, <1>2 DEF ClientInv, ClientTypeOK
<1>4. TagsTaken'
  BY <1>1, <1>2, SMTT(30) DEF ClientInv, TagsTaken, Busy
<1>5. Progress'
  BY <1>1, <1>2, SMTT(30) DEF ClientInv, TagsTaken, Progress, Busy
<1>6. Drained'
  BY <1>1, <1>2 DEF ClientInv, Drained
<1>7. QED  BY <1>3, <1>4, <1>5, <1>6 DEF ClientInv

(* A thread takes a tag off the queue: nobody else has it.                    *)
LEMMA TakeInv ==
  ASSUME ClientInv, NEW t \in ClientThreads, NEW c \in Calls, TakeTag(t, c)
  PROVE  ClientInv'
<1>1. /\ cl[t].at = "next" /\ call[c].at = "queued" /\ UNCHANGED <<worker, cqDown>>
      /\ cl' = [cl EXCEPT ![t] = [at |-> "handle", id |-> c]]
      /\ call' = [call EXCEPT ![c] = [call[c] EXCEPT !.at = "taken"]]
  BY DEF TakeTag
<1>2. /\ call'[c] \in CallRecords /\ call'[c].at = "taken" /\ call'[c].ran = call[c].ran
      /\ \A d \in Calls \ {c} : call'[d] = call[d]
  BY <1>1 DEF ClientInv, ClientTypeOK, CallRecords
<1>3. /\ cl'[t].at = "handle" /\ cl'[t].id = c
      /\ \A u \in ClientThreads \ {t} : cl'[u] = cl[u]
  BY <1>1 DEF ClientInv, ClientTypeOK
<1>4. ClientTypeOK'
  BY <1>1, <1>2 DEF ClientInv, ClientTypeOK
<1>5. TagsTaken'
  BY <1>1, <1>2, <1>3, SMTT(30) DEF ClientInv, TagsTaken, Busy
<1>6. Progress'
  BY <1>1, <1>2, <1>3, SMTT(30) DEF ClientInv, TagsTaken, Progress, Busy
<1>7. Drained'
  BY <1>1, <1>2, <1>3, SMTT(30) DEF ClientInv, Drained
<1>8. QED  BY <1>4, <1>5, <1>6, <1>7 DEF ClientInv

(* The response handler runs, on the thread that has the tag.                 *)
LEMMA HandleInv ==
  ASSUME ClientInv, NEW t \in ClientThreads, HandleResponse(t)
  PROVE  ClientInv'
<1> DEFINE c == cl[t].id
<1>1. /\ cl[t].at = "handle" /\ c \in Calls /\ call[c].at = "taken" /\ call[c].ran = 0
      /\ UNCHANGED <<worker, cqDown>> /\ cl' = [cl EXCEPT ![t] = [cl[t] EXCEPT !.at = "delete"]]
  BY DEF HandleResponse, ClientInv, TagsTaken, Progress, Busy
<1>2. PICK n \in {0, 1} :
        call' = [call EXCEPT ![c] = [[[call[c] EXCEPT !.ran = call[c].ran + 1]
                                       EXCEPT !.outcome = call[c].status]
                                       EXCEPT !.frees = call[c].frees + n]]
  <2>1. CASE call[c].kind = "rpc_deletes"
    <3>1. call' = [call EXCEPT ![c] = [[[call[c] EXCEPT !.ran = call[c].ran + 1]
                                       EXCEPT !.outcome = call[c].status]
                                       EXCEPT !.frees = call[c].frees + 1]]
      BY <1>1, <2>1 DEF HandleResponse
    <3>2. QED  BY <3>1
  <2>2. CASE call[c].kind # "rpc_deletes"
    <3>1. call' = [call EXCEPT ![c] = [[[call[c] EXCEPT !.ran = call[c].ran + 1]
                                       EXCEPT !.outcome = call[c].status]
                                       EXCEPT !.frees = call[c].frees + 0]]
      BY <1>1, <2>2 DEF HandleResponse
    <3>2. QED  BY <3>1
  <2>3. QED  BY <2>1, <2>2
<1>3. /\ call'[c] \in CallRecords /\ call'[c].at = "taken" /\ call'[c].ran = 1
      /\ call'[c].outcome = call'[c].status
      /\ \A d \in Calls \ {c} : call'[d] = call[d]
      /\ call' \in [Calls -> CallRecords]
  <2>1. call[c] \in CallRecords /\ call \in [Calls -> CallRecords]
    BY <1>1 DEF ClientInv, ClientTypeOK
  <2>2. /\ call'[c] = [[[call[c] EXCEPT !.ran = call[c].ran + 1]
                                       EXCEPT !.outcome = call[c].status]
                                       EXCEPT !.frees = call[c].frees + n]
        /\ \A d \in Calls \ {c} : call'[d] = call[d]
    BY <1>1, <1>2, <2>1
  <2> DEFINE before == call[c]
             after  == [[[before EXCEPT !.ran = before.ran + 1]
                            EXCEPT !.outcome = before.status]
                            EXCEPT !.frees = before.frees + n]
  <2>3. /\ call'[c] \in CallRecords /\ call'[c].at = "taken" /\ call'[c].ran = 1
        /\ call'[c].outcome = call'[c].status
    <3>1. call'[c] = after /\ before \in CallRecords /\ before.at = "taken" /\ before.ran = 0
      BY <1>1, <2>1, <2>2
    <3> HIDE DEF before
    <3>2. after.at = before.at /\ after.ran = before.ran + 1 /\ after.outcome = after.status
      BY <3>1 DEF CallRecords
    <3>3. after \in CallRecords
      <4>1. ASSUME NEW r \in CallRecords, NEW i \in Nat  PROVE [r EXCEPT !.ran = i] \in CallRecords
        BY DEF CallRecords
      <4>2. ASSUME NEW r \in CallRecords, NEW s \in Statuses  PROVE [r EXCEPT !.outcome = s] \in CallRecords
        BY DEF CallRecords
      <4>3. ASSUME NEW r \in CallRecords, NEW i \in Nat  PROVE [r EXCEPT !.frees = i] \in CallRecords
        BY DEF CallRecords
      <4>4. before.ran + 1 \in Nat /\ before.status \in Statuses /\ before.frees + n \in Nat
        BY <3>1, SMTT(30) DEF CallRecords
      <4>5. QED  BY <3>1, <4>1, <4>2, <4>3, <4>4
    <3>4. QED  BY <3>1, <3>2, <3>3, SMTT(30)
  <2>4. QED  BY <1>2, <2>1, <2>2, <2>3
<1>4. /\ cl'[t].at = "delete" /\ cl'[t].id = c
      /\ \A u \in ClientThreads \ {t} : cl'[u] = cl[u]
      /\ cl' \in [ClientThreads -> [at : {"next", "handle", "delete", "ended"}, id : Calls \cup {0}]]
  BY <1>1, SMTT(30) DEF ClientInv, ClientTypeOK
<1> HIDE DEF c
<1>5. ClientTypeOK'
  BY <1>1, <1>3, <1>4 DEF ClientInv, ClientTypeOK
<1>6. TagsTaken'
  BY <1>1, <1>3, <1>4, SMTT(30) DEF ClientInv, TagsTaken, Busy, c
<1>7. Progress'
  BY <1>1, <1>3, <1>4, SMTT(30) DEF ClientInv, TagsTaken, Progress, Busy, c
<1>8. Drained'
  BY <1>1, <1>3, <1>4, SMTT(30) DEF ClientInv, Drained
<1>9. QED  BY <1>5, <1>6, <1>7, <1>8 DEF ClientInv

(* client_loop deletes the data and asks the queue for the next tag.          *)
LEMMA DeleteInv ==
  ASSUME ClientInv, NEW t \in ClientThreads, DeleteData(t)
  PROVE  ClientInv'
<1> DEFINE c == cl[t].id
<1>1. /\ cl[t].at = "delete" /\ c \in Calls /\ call[c].at = "taken"
      /\ UNCHANGED <<worker, cqDown>> /\ cl' = [cl EXCEPT ![t] = Looping]
      /\ call' = [call EXCEPT ![c] = [call[c] EXCEPT !.frees = call[c].frees + 1]]
  BY DEF DeleteData, ClientInv, TagsTaken, Busy
<1>2. /\ call'[c].at = call[c].at /\ call'[c].ran = call[c].ran
      /\ call'[c].outcome = call[c].outcome /\ call'[c].status = call[c].status
      /\ \A d \in Calls \ {c} : call'[d] = call[d]
      /\ call' \in [Calls -> CallRecords]
  BY <1>1, SMTT(30) DEF ClientInv, ClientTypeOK, CallRecords
<1>3. /\ cl'[t].at = "next" /\ \A u \in ClientThreads \ {t} : cl'[u] = cl[u]
      /\ cl' \in [ClientThreads -> [at : {"next", "handle", "delete", "ended"}, id : Calls \cup {0}]]
  BY <1>1 DEF ClientInv, ClientTypeOK, Looping
<1>4. /\ \A d \in Calls : /\ call'[d].at = call[d].at /\ call'[d].ran = call[d].ran
                          /\ call'[d].outcome = call[d].outcome /\ call'[d].status = call[d].status
      /\ \A u \in ClientThreads : cl'[u].at \in {"handle", "delete", "ended"} => cl'[u] = cl[u]
      /\ \A u \in ClientThreads : cl[u].at = "handle" => cl'[u] = cl[u]
      /\ cl[t].at # "ended" /\ cl'[t].at # "ended"
  BY <1>1, <1>2, <1>3, SMTT(30)
<1> HIDE DEF c
<1>5. ClientTypeOK'
  BY <1>1, <1>2, <1>3 DEF ClientInv, ClientTypeOK
<1>6. TagsTaken'
  BY <1>4, SMTT(30) DEF ClientInv, TagsTaken, Busy
<1>7. Progress'
  BY <1>4, SMTT(30) DEF ClientInv, Progress
<1>8. Drained'
  BY <1>1, <1>4, SMTT(30) DEF ClientInv, Drained
<1>9. QED  BY <1>5, <1>6, <1>7, <1>8 DEF ClientInv

(* The loop ends when the queue has nothing more to give.                     *)
LEMMA EndInv ==
  ASSUME ClientInv, NEW t \in ClientThreads, LoopEnds(t)
  PROVE  ClientInv'
<1>1. /\ cl[t].at = "next" /\ cqDown /\ UNCHANGED <<worker, cqDown, call>>
      /\ \A c \in Calls : call[c].at \notin {"sent", "queued"}
      /\ cl' = [cl EXCEPT ![t] = [cl[t] EXCEPT !.at = "ended"]]
  BY DEF LoopEnds
<1>2. /\ cl'[t].at = "ended" /\ \A u \in ClientThreads \ {t} : cl'[u] = cl[u]
      /\ cl' \in [ClientThreads -> [at : {"next", "handle", "delete", "ended"}, id : Calls \cup {0}]]
  BY <1>1 DEF ClientInv, ClientTypeOK
<1>3. ClientTypeOK'
  BY <1>1, <1>2 DEF ClientInv, ClientTypeOK
<1>4. TagsTaken' /\ Progress'
  BY <1>1, <1>2, SMTT(30) DEF ClientInv, TagsTaken, Progress, Busy
<1>5. Drained'
  BY <1>1, <1>2 DEF ClientInv, Drained
<1>6. QED  BY <1>3, <1>4, <1>5 DEF ClientInv

LEMMA ClientStepInv == ClientInv /\ [ClientNext]_clientVars => ClientInv'
<1> SUFFICES ASSUME ClientInv, [ClientNext]_clientVars PROVE ClientInv'  OBVIOUS
<1>1. CASE UNCHANGED clientVars
  BY <1>1, SMTT(30) DEF clientVars, ClientInv, ClientTypeOK, TagsTaken, Progress, Drained, Busy
<1>2. CASE \E c \in Calls, k \in CallKinds : SendUnary(c, k) \/ SendGeneric(c, k)
  BY <1>2, SendInv DEF SendUnary, SendGeneric
<1>3. CASE \E t \in ClientThreads : LoopNext(t)
  BY <1>3, TakeInv, HandleInv, DeleteInv, EndInv DEF LoopNext
<1>4. QED  BY <1>1, <1>2, <1>3, WorkerInv, AnswerInv DEF ClientNext

(* When the worker is gone its threads, of which there is at least one, have
   ended, so every call that was sent has been handled.                       *)
LEMMA ClientInvHandled == ClientInv => HandledOnce
<1> SUFFICES ASSUME ClientInv, NEW c \in Calls
             PROVE  /\ call[c].ran <= 1
                    /\ call[c].ran = 1 => call[c].outcome = call[c].status
                    /\ worker = "gone" /\ call[c].at # "unsent" => call[c].ran = 1
  BY DEF HandledOnce
<1>1. \/ call[c].ran = 0
      \/ call[c].ran = 1 /\ call[c].outcome = call[c].status
  BY DEF ClientInv, Progress
<1>2. ASSUME worker = "gone", call[c].at # "unsent"  PROVE call[c].ran = 1
  <2>1. call[c].at = "taken"
    BY <1>2, WorkerAssumption DEF ClientInv, Drained, ClientTypeOK, CallRecords
  <2>2. \A t \in ClientThreads : cl[t].at # "handle"
    BY <1>2 DEF ClientInv, Drained
  <2>3. QED  BY <2>1, <2>2 DEF ClientInv, Progress
<1>3. QED  BY <1>1, <1>2, SMTT(30)

(* Every response handler runs once, with its call's own status, and none is
   missing when shutdown_all has returned (rpc_client.cpp).                   *)
THEOREM ResponsesHandledOnce == ClientSpec => []HandledOnce
BY ClientInitInv, ClientStepInv, ClientInvHandled, PTL DEF ClientSpec

------------------------------------------------------------------------------
\* A call's data is there until the thread that took its tag deletes it.
DataInv ==
  \A c \in Calls :
    /\ call[c].frees <= 1
    /\ call[c].at # "taken" => call[c].frees = 0
    /\ \A t \in ClientThreads : Busy(t) /\ cl[t].id = c => call[c].frees = 0

LEMMA DataInitInv == ClientInit => DataInv
BY SMTT(30) DEF ClientInit, DataInv, Unsent, Looping, Busy

(* Only client_loop frees data, when no completion callback does.             *)
LEMMA DataStepInv ==
  ASSUME "rpc_deletes" \notin CallKinds
  PROVE  ClientInv /\ DataInv /\ [ClientNext]_clientVars => DataInv'
<1> SUFFICES ASSUME ClientInv, DataInv, [ClientNext]_clientVars PROVE DataInv'  OBVIOUS
<1>1. CASE call' = call /\ cl' = cl
  BY <1>1 DEF DataInv, Busy
<1>2. ASSUME NEW c \in Calls, NEW k \in CallKinds, StartAndFinish(c, k)  PROVE DataInv'
  <2>1. /\ call[c].at = "unsent" /\ cl' = cl
        /\ call'[c].frees = call[c].frees /\ call'[c].at = "sent"
        /\ \A d \in Calls \ {c} : call'[d] = call[d]
    BY <1>2, SMTT(30) DEF StartAndFinish, ClientInv, ClientTypeOK, CallRecords
  <2>2. QED  BY <2>1 DEF DataInv, Busy
<1>3. ASSUME NEW c \in Calls, NEW s \in Statuses, ChannelAnswers(c, s)  PROVE DataInv'
  <2>1. /\ call[c].at = "sent" /\ cl' = cl
        /\ call'[c].frees = call[c].frees /\ call'[c].at = "queued"
        /\ \A d \in Calls \ {c} : call'[d] = call[d]
    BY <1>3, SMTT(30) DEF ChannelAnswers, ClientInv, ClientTypeOK, CallRecords
  <2>2. QED  BY <2>1 DEF DataInv, Busy
<1>4. ASSUME NEW t \in ClientThreads, NEW c \in Calls, TakeTag(t, c)  PROVE DataInv'
  <2>1. /\ call[c].at = "queued"
        /\ call'[c].frees = call[c].frees
        /\ \A d \in Calls \ {c} : call'[d] = call[d]
        /\ cl'[t].id = c /\ \A u \in ClientThreads \ {t} : cl'[u] = cl[u]
    BY <1>4 DEF TakeTag, ClientInv, ClientTypeOK, CallRecords
  <2>2. QED  BY <2>1, SMTT(30) DEF DataInv, Busy, ClientInv, TagsTaken
<1>5. ASSUME NEW t \in ClientThreads, HandleResponse(t)  PROVE DataInv'
  <2> DEFINE c == cl[t].id
  <2>1. cl[t].at = "handle" /\ c \in Calls /\ call[c].at = "taken"
    BY <1>5 DEF HandleResponse, ClientInv, TagsTaken, Busy
  <2>2. call[c] \in CallRecords /\ call[c].kind # "rpc_deletes"
    BY <2>1, SMTT(30) DEF ClientInv, ClientTypeOK, CallRecords
  <2>3. call' = [call EXCEPT ![c] = [[[call[c] EXCEPT !.ran = call[c].ran + 1]
                                       EXCEPT !.outcome = call[c].status]
                                       EXCEPT !.frees = call[c].frees + 0]]
    BY <1>5, <2>1, <2>2 DEF HandleResponse
  <2>4. call'[c] = [[[call[c] EXCEPT !.ran = call[c].ran + 1] EXCEPT !.outcome = call[c].status]
                       EXCEPT !.frees = call[c].frees + 0]
    BY <2>1, <2>3 DEF ClientInv, ClientTypeOK
  <2>5. call'[c].frees = call[c].frees /\ call'[c].at = "taken"
    BY <2>1, <2>2, <2>4, SMTT(30) DEF CallRecords
  <2>6. /\ \A d \in Calls \ {c} : call'[d] = call[d]
        /\ cl'[t].id = c /\ \A u \in ClientThreads \ {t} : cl'[u] = cl[u]
    BY <1>5, <2>1, <2>3, SMTT(30) DEF HandleResponse, ClientInv, ClientTypeOK
  <2> HIDE DEF c
  <2>7. QED  BY <2>1, <2>5, <2>6, SMTT(30) DEF DataInv, Busy, c
<1>6. ASSUME NEW t \in ClientThreads, DeleteData(t)  PROVE DataInv'
  <2> DEFINE c == cl[t].id
  <2>1. cl[t].at = "delete" /\ c \in Calls /\ call[c].at = "taken"
    BY <1>6 DEF DeleteData, ClientInv, TagsTaken, Busy
  <2>2. /\ call'[c].frees = call[c].frees + 1 /\ call'[c].at = "taken"
        /\ \A d \in Calls \ {c} : call'[d] = call[d]
        /\ cl'[t].at = "next" /\ \A u \in ClientThreads \ {t} : cl'[u] = cl[u]
    BY <1>6, <2>1, SMTT(30) DEF DeleteData, ClientInv, ClientTypeOK, CallRecords, Looping
  <2>3. \A u \in ClientThreads \ {t} : Busy(u) => cl[u].id # c
    BY <2>1 DEF ClientInv, TagsTaken, Busy
  <2> HIDE DEF c
  <2>4. QED  BY <2>1, <2>2, <2>3, SMTT(30) DEF DataInv, Busy, c
<1>7. ASSUME NEW t \in ClientThreads, LoopEnds(t)  PROVE DataInv'
  <2>1. /\ call' = call /\ cl'[t].at = "ended" /\ \A u \in ClientThreads \ {t} : cl'[u] = cl[u]
    BY <1>7 DEF LoopEnds, ClientInv, ClientTypeOK
  <2>2. QED  BY <2>1 DEF DataInv, Busy
<1>8. CreateWorker \/ MakeStub \/ WorkerShutdown \/ WorkerReleased \/ UNCHANGED clientVars
        => call' = call /\ cl' = cl
  BY DEF CreateWorker, MakeStub, WorkerShutdown, WorkerReleased, clientVars
<1>9. QED
  BY <1>1, <1>2, <1>3, <1>4, <1>5, <1>6, <1>7, <1>8 DEF ClientNext, LoopNext, SendUnary, SendGeneric

LEMMA DataInvFreed == ClientInv /\ DataInv => DataFreedOnce
<1> SUFFICES ASSUME ClientInv, DataInv, NEW c \in Calls
             PROVE  call[c].frees <= 1 /\ (call[c].frees = 1 => call[c].ran = 1)
  BY DEF DataFreedOnce
<1>1. call[c].frees = 1 => /\ call[c].at = "taken"
                           /\ \A t \in ClientThreads : ~(Busy(t) /\ cl[t].id = c)
  BY SMTT(30) DEF DataInv
<1>2. QED  BY <1>1 DEF ClientInv, Progress, DataInv, Busy

(* A call ends once: its handler runs once, with its own status, and its data is
   freed once, after that, as long as no completion callback of call_rpc frees
   it too (client_loop).                                                      *)
THEOREM EveryCallEndsOnce ==
  ASSUME "rpc_deletes" \notin CallKinds PROVE ClientSpec => []CallsEndOnce
<1>1. ClientInv /\ DataInv /\ [ClientNext]_clientVars => ClientInv' /\ DataInv'
  BY ClientStepInv, DataStepInv
<1>2. ClientInv /\ DataInv => CallsEndOnce
  BY ClientInvHandled, DataInvFreed DEF CallsEndOnce
<1>3. QED
  BY <1>1, <1>2, ClientInitInv, DataInitInv, PTL DEF ClientSpec

------------------------------------------------------------------------------
(* Client and server.  A call object keeps the request it was matched with,
   and once its call is finished the status it was given.                     *)
Steady(i) ==
  /\ i \in 1 .. Len(rpc')
  /\ rpc[i].call # "waiting" => rpc'[i].call # "waiting"
  /\ rpc[i].call = "finished" => rpc'[i].call = "finished" /\ rpc'[i].retstatus = rpc[i].retstatus

LEMMA OneSteady ==
  ASSUME ServerInv, NEW i \in 1 .. Len(rpc), NEW q, rpc' = [rpc EXCEPT ![i] = q],
         rpc[i].call # "waiting" => q.call # "waiting",
         rpc[i].call = "finished" => q.call = "finished" /\ q.retstatus = rpc[i].retstatus
  PROVE  \A j \in 1 .. Len(rpc) : Steady(j)
<1>1. rpc \in Seq(CallObjects) /\ Len(rpc) \in Nat
  BY SMTT(30) DEF ServerInv, ServerTypeOK
<1>2. /\ Len(rpc') = Len(rpc) /\ rpc'[i] = q
      /\ \A j \in (1 .. Len(rpc)) \ {i} : rpc'[j] = rpc[j]
  BY <1>1, SMTT(30)
<1>3. QED  BY <1>2 DEF Steady

LEMMA GrpcSteady ==
  ASSUME ServerInv, GrpcNext PROVE \A j \in 1 .. Len(rpc) : Steady(j)
<1>0. /\ rpc \in Seq(CallObjects) /\ DOMAIN rpc = 1 .. Len(rpc)
      /\ \A j \in 1 .. Len(rpc) : rpc[j] \in CallObjects
  BY SMTT(30) DEF ServerInv, ServerTypeOK
<1>1. PICK i \in 1 .. Len(rpc) :
        \/ Arrive(i) \/ ClientCancels(i) \/ NotifiesDone(i)
        \/ \E tag \in {"read", "write", "sent", "completed"} : Completes(i, tag)
  BY <1>0 DEF GrpcNext
<1>2. PICK q : q = rpc'[i]
  OBVIOUS
<1>3. CASE Arrive(i)
  <2>1. rpc[i].call = "waiting"
    <3>1. "received" \in HeldOf(i)
      BY <1>3 DEF Arrive, HeldOf, Tags
    <3>2. QED  BY <3>1 DEF ServerInv, ObjectInv, Life, CallStands
  <2>2. rpc' = [rpc EXCEPT ![i] = q] /\ q.call = "open"
    BY <1>0, <1>2, <1>3 DEF Arrive, CallObjects
  <2>3. QED  BY <2>1, <2>2, OneSteady
<1>4. CASE ClientCancels(i)
  <2>1. rpc' = [rpc EXCEPT ![i] = q] /\ q.call = "canceled" /\ rpc[i].call = "open"
    BY <1>0, <1>2, <1>4 DEF ClientCancels, CallObjects
  <2>2. QED  BY <2>1, OneSteady
<1>5. CASE NotifiesDone(i)
  BY <1>5 DEF NotifiesDone, Steady
<1>6. CASE \E tag \in {"read", "write", "sent", "completed"} : Completes(i, tag)
  <2>1. CASE rpc' = rpc
    BY <2>1 DEF Steady
  <2>2. CASE rpc' = [rpc EXCEPT ![i].call = "finished"] /\ rpc[i].call = "open"
    <3>1. rpc' = [rpc EXCEPT ![i] = q] /\ q.call = "finished"
      BY <1>0, <1>2, <2>2 DEF CallObjects
    <3>2. QED  BY <2>2, <3>1, OneSteady
  <2>3. QED  BY <1>6, <2>1, <2>2 DEF Completes
<1>7. QED  BY <1>1, <1>3, <1>4, <1>5, <1>6

(* do_non_streaming_send and send_response touch neither.                     *)
LEMMA SendSteady ==
  ASSUME ServerInv, NEW i \in 1 .. Len(rpc), NEW p, p \in {rpc, [rpc EXCEPT ![i].app = FALSE]},
         send_response(i, p)
  PROVE  \A j \in 1 .. Len(rpc) : Steady(j)
<1>1. rpc \in Seq(CallObjects) /\ rpc[i] \in CallObjects
  BY SMTT(30) DEF ServerInv, ServerTypeOK
<1>2. PICK o \in CallObjects : p = [rpc EXCEPT ![i] = o] /\ o.call = rpc[i].call /\ o.retstatus = rpc[i].retstatus
  <2>1. CASE p = rpc
    BY <1>1, <2>1, SMTT(30)
  <2>2. CASE p = [rpc EXCEPT ![i].app = FALSE]
    <3>1. [rpc[i] EXCEPT !.app = FALSE] \in CallObjects
      BY <1>1 DEF CallObjects
    <3>2. QED  BY <1>1, <2>2, <3>1 DEF CallObjects
  <2>3. QED  BY <2>1, <2>2
<1>3. p[i] = o /\ p \in Seq(CallObjects) /\ Len(p) = Len(rpc)
  BY <1>1, <1>2, SMTT(30)
<1>4. \/ rpc' = [p EXCEPT ![i].refs = @ - 1, ![i].live = p[i].refs > 1]
      \/ rpc' = [p EXCEPT ![i].finishes = @ + 1]
      \/ rpc' = [p EXCEPT ![i].refs = @ + 1]
  BY DEF send_response, do_non_streaming_send
<1>5. \/ rpc' = [rpc EXCEPT ![i] = [[o EXCEPT !.refs = @ - 1] EXCEPT !.live = o.refs > 1]]
      \/ rpc' = [rpc EXCEPT ![i] = [o EXCEPT !.finishes = @ + 1]]
      \/ rpc' = [rpc EXCEPT ![i] = [o EXCEPT !.refs = @ + 1]]
  BY <1>1, <1>2, <1>3, <1>4
<1>6. PICK q : rpc' = [rpc EXCEPT ![i] = q] /\ q.call = o.call /\ q.retstatus = o.retstatus
  <2>1. ASSUME NEW x, NEW b, NEW q, q = [[o EXCEPT !.refs = x] EXCEPT !.live = b]
        PROVE  q.call = o.call /\ q.retstatus = o.retstatus
    BY <2>1 DEF CallObjects
  <2>2. ASSUME NEW x, NEW q, q = [o EXCEPT !.refs = x]
        PROVE  q.call = o.call /\ q.retstatus = o.retstatus
    BY <2>2 DEF CallObjects
  <2>3. ASSUME NEW x, NEW q, q = [o EXCEPT !.finishes = x]
        PROVE  q.call = o.call /\ q.retstatus = o.retstatus
    BY <2>3 DEF CallObjects
  <2>4. CASE rpc' = [rpc EXCEPT ![i] = [[o EXCEPT !.refs = @ - 1] EXCEPT !.live = o.refs > 1]]
    <3>1. PICK q : q = [[o EXCEPT !.refs = @ - 1] EXCEPT !.live = o.refs > 1]
      OBVIOUS
    <3>2. q.call = o.call /\ q.retstatus = o.retstatus
      BY <2>1, <3>1
    <3>3. rpc' = [rpc EXCEPT ![i] = q]
      BY <2>4, <3>1
    <3>4. QED  BY <3>2, <3>3
  <2>5. CASE rpc' = [rpc EXCEPT ![i] = [o EXCEPT !.finishes = @ + 1]]
    BY <2>3, <2>5
  <2>6. CASE rpc' = [rpc EXCEPT ![i] = [o EXCEPT !.refs = @ + 1]]
    BY <2>2, <2>6
  <2>7. QED  BY <1>5, <2>4, <2>5, <2>6
<1>7. QED  BY <1>2, <1>6, OneSteady

(* A request is judged before its call is finished.                           *)
LEMMA HandleSteady ==
  ASSUME ServerInv, NEW c \in Cqs, HandleRpcs(c) PROVE \A j \in 1 .. Len(rpc) : Steady(j)
<1>1. PICK e \in events[c] :
       \/ /\ e.tag = "received"
          /\ \E v \in Verdicts :
               IF rpc[e.id].kind = "generic" THEN GenericReceived(c, e.id, e.ok, v)
               ELSE UnaryReceived(c, e.id, e.ok, v)
       \/ e.tag = "read" /\ \E v \in Verdicts : BufRead(c, e.id, v)
       \/ e.tag = "write" /\ BufWritten(c, e.id)
       \/ e.tag = "done" /\ RequestDone(c, e.id)
       \/ rpc' = rpc
  BY DEF HandleRpcs, run_generic_handler_cb, Verdicts
<1>2. PICK i, tag, ok : i = e.id /\ tag = e.tag /\ ok = e.ok
  OBVIOUS
<1>3. /\ i \in 1 .. Len(rpc) /\ tag \in Tags /\ ok \in BOOLEAN /\ rpc[i].cq = c
      /\ e = [id |-> i, tag |-> tag, ok |-> ok]
  <2>1. e \in [id : 1 .. Len(rpc), tag : Tags, ok : BOOLEAN]
    BY ThreadTypes
  <2>2. rpc[i].cq = c
    BY <1>2 DEF ServerInv, ThreadInv
  <2>3. QED  BY <1>2, <2>1, <2>2
<1>4. PICK r \in CallObjects, H \in SUBSET Tags, T \in SUBSET Tags, F \in SUBSET Tags, a \in Places :
        /\ r = rpc[i] /\ H = HeldOf(i) /\ T = FiredOf(i, TRUE) /\ F = FiredOf(i, FALSE)
        /\ a = PlaceOf(i) /\ Life(r, H, T, F, a) /\ Late(r, H, T, F, a, grpcDown)
  BY <1>3, ObjectNow
<1>5. tag \in T \cup F
  <2>1. CASE ok = TRUE
    BY <1>3, <1>4, <2>1 DEF FiredOf
  <2>2. CASE ok = FALSE
    BY <1>3, <1>4, <2>2 DEF FiredOf
  <2>3. QED  BY <1>3, <2>1, <2>2
<1>6. tag \in {"received", "read"} => r.call # "finished"
  BY <1>4, <1>5 DEF Life, CallStands
<1>7. ASSUME NEW q, rpc' = [rpc EXCEPT ![i] = q], q.call = r.call,
             r.call = "finished" => q.retstatus = r.retstatus
      PROVE  \A j \in 1 .. Len(rpc) : Steady(j)
  BY <1>3, <1>4, <1>7, OneSteady
<1>8. CASE rpc' = rpc
  BY <1>8 DEF Steady
<1>9. CASE tag \in {"received", "read"} /\ \E v \in Verdicts : rpc' = [rpc EXCEPT ![i] = Judged(r, v)]
  BY <1>6, <1>7, <1>9, JudgedFacts
<1>10. CASE tag = "received" /\ rpc' # rpc
  <2>1. PICK v \in Verdicts : IF r.kind = "generic" THEN GenericReceived(c, i, ok, v)
                              ELSE UnaryReceived(c, i, ok, v)
    BY <1>1, <1>2, <1>4, <1>10
  <2>2. ok
    BY <1>10, <2>1 DEF GenericReceived, UnaryReceived
  <2>3. CASE r.kind # "generic"
    <3>1. rpc' = [rpc EXCEPT ![i] = Judged(r, v)]
      BY <1>4, <2>1, <2>2, <2>3 DEF UnaryReceived
    <3>2. QED  BY <1>9, <1>10, <3>1
  <2>4. CASE r.kind = "generic" /\ v = "refused"
    <3>1. PICK p \in CallObjects : p = Judged(r, v) /\ p.call = r.call
      BY JudgedFacts
    <3>2. PICK q : q = [p EXCEPT !.finishes = @ + 1]
      OBVIOUS
    <3>3. q.call = r.call
      BY <3>1, <3>2 DEF CallObjects
    <3>4. rpc' = [rpc EXCEPT ![i] = [Judged(rpc[i], v) EXCEPT !.finishes = @ + 1]]
      BY <2>1, <2>2, <2>4 DEF GenericReceived
    <3>5. rpc' = [rpc EXCEPT ![i] = q]
      BY <1>4, <3>1, <3>2, <3>4
    <3>6. QED  BY <1>6, <1>7, <1>10, <3>3, <3>5
  <2>5. CASE r.kind = "generic" /\ v # "refused"
    <3>1. PICK q : q = [r EXCEPT !.refs = @ + 1]
      OBVIOUS
    <3>2. rpc' = [rpc EXCEPT ![i] = q]
      BY <1>4, <2>1, <2>2, <2>5, <3>1 DEF GenericReceived
    <3>3. q.call = r.call
      BY <3>1 DEF CallObjects
    <3>4. QED  BY <1>6, <1>7, <1>10, <3>2, <3>3
  <2>6. QED  BY <2>3, <2>4, <2>5
<1>11. CASE tag = "read"
  BY <1>1, <1>2, <1>4, <1>8, <1>9, <1>11 DEF BufRead
<1>12. CASE tag = "write" /\ rpc' # rpc
  <2>1. PICK q : q = [r EXCEPT !.finishes = @ + 1]
    OBVIOUS
  <2>2. rpc' = [rpc EXCEPT ![i] = q]
    BY <1>1, <1>2, <1>4, <1>12, <2>1 DEF BufWritten
  <2>3. q.call = r.call /\ q.retstatus = r.retstatus
    BY <2>1 DEF CallObjects
  <2>4. QED  BY <1>7, <2>2, <2>3
<1>13. CASE tag = "done" /\ rpc' # rpc
  <2>1. RequestDone(c, i)
    BY <1>1, <1>2, <1>13
  <2>2. PICK b \in BOOLEAN : b = (r.canceled \/ r.call = "canceled")
    OBVIOUS
  <2>3. PICK q : q = [r EXCEPT !.canceled = b]
    OBVIOUS
  <2>4. rpc' = [rpc EXCEPT ![i].canceled = b]
    BY <1>4, <2>1, <2>2 DEF RequestDone
  <2>5. rpc' = [rpc EXCEPT ![i] = q]
    BY <1>4, <2>3, <2>4
  <2>6. q.call = r.call /\ q.retstatus = r.retstatus
    BY <2>3 DEF CallObjects
  <2>7. QED  BY <1>7, <2>5, <2>6
<1>14. QED  BY <1>1, <1>2, <1>8, <1>10, <1>11, <1>12, <1>13

LEMMA ServerSteady ==
  ASSUME ServerInv, [ServerNext]_serverVars PROVE \A j \in 1 .. Len(rpc) : Steady(j)
<1>0. /\ rpc \in Seq(CallObjects) /\ DOMAIN rpc = 1 .. Len(rpc) /\ Len(rpc) \in Nat
      /\ \A j \in 1 .. Len(rpc) : rpc[j] \in CallObjects
  BY SMTT(30) DEF ServerInv, ServerTypeOK
<1>1. CASE rpc' = rpc
  BY <1>1 DEF Steady
<1>2. CASE RegisterGenericRpc \/ \E k \in Rpcs : RegisterRpc(k)
  <2>1. PICK k : rpc' = rpc \o [c \in Cqs |-> NewCall(k, c)]
    BY <1>2 DEF RegisterGenericRpc, RegisterRpc, OnePerQueue
  <2>2. PICK new : new = [c \in 1 .. NumCqs |-> NewCall(k, c)]
    OBVIOUS
  <2>3. new \in Seq({new[c] : c \in 1 .. NumCqs})
    BY <2>2, ServerAssumption, SMTT(30)
  <2>4. rpc' = rpc \o new
    BY <2>1, <2>2 DEF Cqs
  <2>5. \A j \in 1 .. Len(rpc) : j \in 1 .. Len(rpc') /\ rpc'[j] = rpc[j]
    BY <1>0, <2>3, <2>4, SMTT(30)
  <2>6. QED  BY <2>5 DEF Steady
<1>3. CASE \E i \in DOMAIN rpc : AppResponds(i)
  BY <1>0, <1>3, SendSteady DEF AppResponds
<1>4. CASE \E c \in Cqs : ThreadNext(c)
  <2>1. PICK c \in Cqs : ThreadNext(c)
    BY <1>4
  <2>2. CASE HandleRpcs(c)
    BY <2>2, HandleSteady
  <2>3. CASE RespondsNow(c)
    <3>1. th[c].id \in 1 .. Len(rpc)
      BY <2>3 DEF RespondsNow, ServerInv, ThreadInv
    <3>2. QED  BY <2>3, <3>1, SendSteady DEF RespondsNow
  <2>4. CASE TagProcessed(c)
    <3>1. PICK i \in 1 .. Len(rpc) : i = th[c].id
      BY <2>4 DEF TagProcessed, ServerInv, ThreadInv
    <3>2. rpc' = [rpc EXCEPT ![i] = Refs(i, -1)]
      BY <2>4, <3>1 DEF TagProcessed
    <3>3. PICK r \in CallObjects : r = rpc[i]
      BY <1>0
    <3>4. PICK b \in BOOLEAN : b = (r.live /\ r.refs + (-1) > 0)
      OBVIOUS
    <3>5. PICK q : q = [[r EXCEPT !.refs = r.refs + (-1)] EXCEPT !.live = b]
      OBVIOUS
    <3>6. Refs(i, -1) = q
      BY <3>3, <3>4, <3>5 DEF Refs
    <3>7. q.call = r.call /\ q.retstatus = r.retstatus
      BY <3>5 DEF CallObjects
    <3>8. QED  BY <3>2, <3>3, <3>6, <3>7, OneSteady
  <2>5. CASE Refill(c)
    <3>1. PICK n : rpc' = Append(rpc, n)
      BY <2>5 DEF Refill
    <3>2. \A j \in 1 .. Len(rpc) : j \in 1 .. Len(rpc') /\ rpc'[j] = rpc[j]
      BY <1>0, <3>1, SMTT(30)
    <3>3. QED  BY <3>2 DEF Steady
  <2>6. QED  BY <1>1, <2>1, <2>2, <2>3, <2>4, <2>5 DEF ThreadNext, RefillCheck, ThreadExits
<1>5. CASE ServerShutdown
  <2>1. ASSUME NEW j \in 1 .. Len(rpc) PROVE Steady(j)
    <3>1. j \in Refused => rpc[j].call = "waiting"
      <4>1. j \in Refused => "received" \in HeldOf(j)
        BY DEF Refused, HeldOf, Tags
      <4>2. QED  BY <4>1 DEF ServerInv, ObjectInv, Life, CallStands
    <3>2. rpc'[j] = IF j \in Refused THEN [rpc[j] EXCEPT !.call = "refused"] ELSE rpc[j]
      BY <1>0, <1>5 DEF ServerShutdown
    <3>3. j \in 1 .. Len(rpc')
      <4>1. ServerInv'
        BY <1>5, ServerShutdownInv
      <4>2. DOMAIN rpc' = 1 .. Len(rpc') /\ DOMAIN rpc' = DOMAIN rpc
        BY <1>5, <4>1, SMTT(30) DEF ServerShutdown, ServerInv, ServerTypeOK
      <4>3. QED  BY <1>0, <4>2
    <3>4. QED  BY <1>0, <3>1, <3>2, <3>3 DEF Steady, CallObjects
  <2>2. QED  BY <2>1
<1>6. QED
  BY <1>1, <1>2, <1>3, <1>4, <1>5, GrpcSteady
     DEF ServerNext, serverVars, RegisterService, RegisterGenericService, RunServer, ShutdownNext,
         ShutdownBegins, QueuesShutdown, ShutdownEnds

(* A request is linked to one call object, which no other request has; an OK
   on its way to the client, or there, is that of a finished call.            *)
LinkInv ==
  /\ link \in [Calls -> 0 .. Len(rpc)]
  /\ \A c \in Calls :
       /\ link[c] # 0 => rpc[link[c]].call # "waiting"
       /\ \A d \in Calls : link[c] = link[d] /\ link[c] # 0 => c = d
       /\ call[c].at \in {"queued", "taken"} /\ call[c].status = Ok =>
            link[c] # 0 /\ rpc[link[c]].call = "finished" /\ rpc[link[c]].retstatus = "OK"

PairInv == ServerInv /\ ClientInv /\ LinkInv

(* A status, once given, stays.                                               *)
LEMMA ClientAloneSteady ==
  ASSUME ClientInv, ClientAlone, NEW c \in Calls, call'[c].at \in {"queued", "taken"}
  PROVE  call[c].at \in {"queued", "taken"} /\ call'[c].status = call[c].status
<1>0. call \in [Calls -> CallRecords]
  BY DEF ClientInv, ClientTypeOK
<1>1. CASE call' = call
  BY <1>1
<1>2. ASSUME NEW d \in Calls, NEW k \in CallKinds, StartAndFinish(d, k)
      PROVE  call[c].at \in {"queued", "taken"} /\ call'[c].status = call[c].status
  BY <1>0, <1>2 DEF StartAndFinish, CallRecords
<1>3. ASSUME NEW t \in ClientThreads, NEW d \in Calls, TakeTag(t, d)
      PROVE  call[c].at \in {"queued", "taken"} /\ call'[c].status = call[c].status
  BY <1>0, <1>3 DEF TakeTag, CallRecords
<1>4. ASSUME NEW t \in ClientThreads, HandleResponse(t)
      PROVE  call[c].at \in {"queued", "taken"} /\ call'[c].status = call[c].status
  <2>1. PICK d : d = cl[t].id
    OBVIOUS
  <2>2. d \in Calls /\ call[d] \in CallRecords
    BY <1>0, <1>4, <2>1 DEF HandleResponse, ClientInv, TagsTaken, Busy
  <2>3. PICK x, y, z : call' = [call EXCEPT ![d] = [[[call[d] EXCEPT !.ran = x]
                                       EXCEPT !.outcome = y] EXCEPT !.frees = z]]
    BY <1>4, <2>1, <2>2 DEF HandleResponse
  <2>4. QED  BY <1>0, <2>2, <2>3 DEF CallRecords
<1>5. ASSUME NEW t \in ClientThreads, DeleteData(t)
      PROVE  call[c].at \in {"queued", "taken"} /\ call'[c].status = call[c].status
  <2>1. PICK d : d = cl[t].id
    OBVIOUS
  <2>2. d \in Calls /\ call[d] \in CallRecords
    BY <1>0, <1>5, <2>1 DEF DeleteData, ClientInv, TagsTaken, Busy
  <2>3. call' = [call EXCEPT ![d].frees = @ + 1]
    BY <1>5, <2>1 DEF DeleteData
  <2>4. QED  BY <1>0, <2>2, <2>3 DEF CallRecords
<1>6. QED
  BY <1>1, <1>2, <1>3, <1>4, <1>5
     DEF ClientAlone, CreateWorker, MakeStub, WorkerShutdown, WorkerReleased, SendUnary,
         SendGeneric, LoopNext, LoopEnds

(* A step that links no request and gives no OK.                              *)
LEMMA LinksKept ==
  ASSUME PairInv, \A j \in 1 .. Len(rpc) : Steady(j), Len(rpc') \in Nat, link' = link,
         \A c \in Calls : call'[c].at \in {"queued", "taken"} /\ call'[c].status = Ok =>
           call[c].at \in {"queued", "taken"} /\ call[c].status = Ok
  PROVE  LinkInv'
<1>0. Len(rpc) \in Nat /\ link \in [Calls -> 0 .. Len(rpc)]
  BY SMTT(30) DEF PairInv, ServerInv, ServerTypeOK, LinkInv
<1>1. link' \in [Calls -> 0 .. Len(rpc')]
  <2>1. \A j \in 0 .. Len(rpc) : j \in 0 .. Len(rpc')
    BY <1>0, SMTT(30) DEF Steady
  <2>2. QED  BY <1>0, <2>1
<1>2. ASSUME NEW c \in Calls
      PROVE  /\ link'[c] # 0 => rpc'[link'[c]].call # "waiting"
             /\ \A d \in Calls : link'[c] = link'[d] /\ link'[c] # 0 => c = d
             /\ call'[c].at \in {"queued", "taken"} /\ call'[c].status = Ok =>
                  /\ link'[c] # 0 /\ rpc'[link'[c]].call = "finished"
                  /\ rpc'[link'[c]].retstatus = "OK"
  <2>1. PICK i \in 0 .. Len(rpc) : i = link[c]
    BY <1>0
  <2>2. i # 0 => i \in 1 .. Len(rpc)
    BY <1>0, SMTT(30)
  <2>3. QED  BY <2>1, <2>2 DEF PairInv, LinkInv, Steady
<1>3. QED  BY <1>1, <1>2 DEF LinkInv

LEMMA PairStepInv == PairInv /\ [PairNext]_pairVars => PairInv'
<1> SUFFICES ASSUME PairInv, [PairNext]_pairVars PROVE PairInv'
  OBVIOUS
<1>0. /\ ServerInv /\ ClientInv /\ LinkInv /\ DOMAIN rpc = 1 .. Len(rpc) /\ Len(rpc) \in Nat
      /\ link \in [Calls -> 0 .. Len(rpc)] /\ call \in [Calls -> CallRecords]
      /\ \A j \in 1 .. Len(rpc) : rpc[j] \in CallObjects
  BY SMTT(30) DEF PairInv, ServerInv, ServerTypeOK, LinkInv, ClientInv, ClientTypeOK
<1>1. ASSUME [ServerNext]_serverVars
      PROVE  ServerInv' /\ Len(rpc') \in Nat /\ \A j \in 1 .. Len(rpc) : Steady(j)
  <2>1. ServerInv'
    BY <1>0, <1>1, ServerStepInv
  <2>2. QED  BY <1>0, <1>1, <2>1, ServerSteady, SMTT(30) DEF ServerInv, ServerTypeOK
<1>2. ASSUME [ClientNext]_clientVars PROVE ClientInv'
  BY <1>0, <1>2, ClientStepInv
<1>3. ASSUME UNCHANGED call
      PROVE  \A c \in Calls : call'[c].at \in {"queued", "taken"} /\ call'[c].status = Ok =>
               call[c].at \in {"queued", "taken"} /\ call[c].status = Ok
  BY <1>3
<1>4. CASE ServerAlone
  <2>1. ServerNext /\ UNCHANGED clientVars /\ UNCHANGED call /\ link' = link
    BY <1>4 DEF ServerAlone, ServerNext, GrpcNext, clientVars
  <2>2. ServerInv' /\ ClientInv'
    BY <1>1, <1>2, <2>1
  <2>3. LinkInv'
    BY <1>1, <1>3, <2>1, LinksKept
  <2>4. QED  BY <2>2, <2>3 DEF PairInv
<1>5. CASE ClientAlone
  <2>1. ClientNext /\ UNCHANGED serverVars /\ link' = link
    BY <1>5 DEF ClientAlone, ClientNext
  <2>2. \A c \in Calls : call'[c].at \in {"queued", "taken"} /\ call'[c].status = Ok =>
           call[c].at \in {"queued", "taken"} /\ call[c].status = Ok
    BY <1>0, <1>5, ClientAloneSteady
  <2>3. LinkInv'
    BY <1>1, <2>1, <2>2, LinksKept
  <2>4. QED  BY <1>1, <1>2, <2>1, <2>3 DEF PairInv
<1>6. CASE UNCHANGED pairVars
  <2>1. UNCHANGED serverVars /\ UNCHANGED clientVars /\ UNCHANGED call /\ link' = link
    BY <1>6 DEF pairVars, clientVars
  <2>2. LinkInv'
    BY <1>1, <1>3, <2>1, LinksKept
  <2>3. QED  BY <1>1, <1>2, <2>1, <2>2 DEF PairInv
<1>7. ASSUME NEW c \in Calls, RequestArrives(c) PROVE PairInv'
  <2>1. PICK i \in 1 .. Len(rpc) : Arrive(i) /\ link' = [link EXCEPT ![c] = i]
    BY <1>0, <1>7 DEF RequestArrives
  <2>2. ServerNext /\ UNCHANGED clientVars /\ call' = call /\ call[c].at = "sent"
    BY <1>0, <1>7, <2>1 DEF ServerNext, GrpcNext, RequestArrives, clientVars
  <2>3. ServerInv' /\ Len(rpc') \in Nat /\ ClientInv' /\ \A j \in 1 .. Len(rpc) : Steady(j)
    BY <1>1, <1>2, <2>2
  <2>4. rpc[i].call = "waiting"
    <3>1. "received" \in HeldOf(i)
      BY <2>1 DEF Arrive, HeldOf, Tags
    <3>2. QED  BY <1>0, <3>1 DEF ServerInv, ObjectInv, Life, CallStands
  <2>5. rpc'[i].call = "open"
    BY <1>0, <2>1 DEF Arrive, CallObjects
  <2>6. /\ link'[c] = i /\ \A d \in Calls \ {c} : link'[d] = link[d] /\ link[d] # i
    BY <1>0, <2>1, <2>4, SMTT(30) DEF LinkInv
  <2>7. \A j \in 1 .. Len(rpc) : j \in 0 .. Len(rpc')
    BY <1>0, <2>3, SMTT(30) DEF Steady
  <2>8. link' \in [Calls -> 0 .. Len(rpc')]
    <3>1. \A d \in Calls : link[d] \in 0 .. Len(rpc')
      BY <1>0, <2>3, <2>7, SMTT(30)
    <3>2. QED  BY <1>0, <2>1, <2>7, <3>1
  <2>9. ASSUME NEW d \in Calls
        PROVE  /\ link'[d] # 0 => rpc'[link'[d]].call # "waiting"
               /\ \A x \in Calls : link'[d] = link'[x] /\ link'[d] # 0 => d = x
               /\ call'[d].at \in {"queued", "taken"} /\ call'[d].status = Ok =>
                    /\ link'[d] # 0 /\ rpc'[link'[d]].call = "finished"
                    /\ rpc'[link'[d]].retstatus = "OK"
    <3>1. CASE d = c
      BY <2>2, <2>5, <2>6, <3>1
    <3>2. CASE d # c
      <4>1. PICK j \in 0 .. Len(rpc) : j = link[d] /\ j = link'[d] /\ j # i /\ (j # 0 => j \in 1 .. Len(rpc))
        BY <1>0, <2>6, <3>2, SMTT(30)
      <4>2. QED  BY <1>0, <2>2, <2>3, <2>6, <3>2, <4>1, SMTT(30) DEF LinkInv, Steady
    <3>3. QED  BY <3>1, <3>2
  <2>10. LinkInv'
    BY <2>8, <2>9 DEF LinkInv
  <2>11. QED  BY <2>3, <2>10 DEF PairInv
<1>8. ASSUME NEW c \in Calls, ReplyArrives(c) PROVE PairInv'
  <2>1. PICK i \in 1 .. Len(rpc) : i = link[c] /\ rpc[i].call = "finished"
    BY <1>0, <1>8, SMTT(30) DEF ReplyArrives
  <2>2. ChannelAnswers(c, rpc[i].retstatus) /\ UNCHANGED serverVars /\ link' = link /\ rpc' = rpc
    BY <1>8, <2>1 DEF ReplyArrives, serverVars
  <2>3. rpc[i].retstatus \in Statuses
    BY <1>0 DEF CallObjects, Statuses, Ok
  <2>4. ServerInv' /\ ClientInv'
    BY <1>1, <1>2, <2>2, <2>3 DEF ClientNext
  <2>5. call'[c].status = rpc[i].retstatus /\ \A d \in Calls \ {c} : call'[d] = call[d]
    BY <1>0, <2>2 DEF ChannelAnswers, CallRecords
  <2>6. LinkInv'
    BY <1>0, <2>1, <2>2, <2>5, SMTT(30) DEF LinkInv, Ok
  <2>7. QED  BY <2>4, <2>6 DEF PairInv
<1>9. ASSUME NEW c \in Calls, CallFails(c) PROVE PairInv'
  <2>1. PICK s \in {"DEADLINE_EXCEEDED", "UNAVAILABLE"} : ChannelAnswers(c, s)
    BY <1>9 DEF CallFails
  <2>2. link' = link
    BY <1>9 DEF CallFails
  <2>3. [ServerNext]_serverVars
    <3>1. CASE UNCHANGED serverVars
      BY <3>1
    <3>2. CASE link[c] # 0 /\ ClientCancels(link[c])
      <4>1. link[c] \in DOMAIN rpc
        BY <1>0, <3>2, SMTT(30)
      <4>2. QED  BY <3>2, <4>1 DEF ServerNext, GrpcNext
    <3>3. QED  BY <1>9, <3>1, <3>2 DEF CallFails
  <2>4. ClientNext
    BY <2>1 DEF ClientNext, Statuses
  <2>5. call'[c].status # Ok /\ \A d \in Calls \ {c} : call'[d] = call[d]
    BY <1>0, <2>1 DEF ChannelAnswers, CallRecords, Ok
  <2>6. \A d \in Calls : call'[d].at \in {"queued", "taken"} /\ call'[d].status = Ok =>
          call[d].at \in {"queued", "taken"} /\ call[d].status = Ok
    BY <2>5
  <2>7. LinkInv'
    BY <1>1, <2>2, <2>3, <2>6, LinksKept
  <2>8. QED  BY <1>1, <1>2, <2>3, <2>4, <2>7 DEF PairInv
<1>10. QED  BY <1>4, <1>5, <1>6, <1>7, <1>8, <1>9 DEF PairNext

LEMMA PairInitInv == PairInit => PairInv
<1> SUFFICES ASSUME PairInit PROVE PairInv
  OBVIOUS
<1>1. ServerInv /\ ClientInv
  BY ServerInitInv, ClientInitInv DEF PairInit
<1>2. LinkInv
  BY SMTT(30) DEF PairInit, ServerInit, ClientInit, Unsent, LinkInv
<1>3. QED  BY <1>1, <1>2 DEF PairInv

(* For any number of calls, worker threads, queues and rpcs: a call that ends
   with OK for its client was authorised, run by its handler and finished once
   by the server (on_request_received, send_response), and no two requests
   share a call object, whatever replies are lost or late and whenever either
   side shuts down.                                                           *)
THEOREM OkIsServed == PairSpec => []OkMeansServed
<1>1. PairInv => OkMeansServed
  <2> SUFFICES ASSUME PairInv, NEW c \in Calls, call[c].ran = 1, call[c].outcome = Ok
               PROVE  link[c] # 0 /\ rpc[link[c]].handled /\ rpc[link[c]].finishes = 1
    BY DEF OkMeansServed, PairInv, LinkInv
  <2>1. call[c].at = "taken" /\ call[c].status = Ok
    BY SMTT(30) DEF PairInv, ClientInv, Progress
  <2>2. PICK i \in 1 .. Len(rpc) : i = link[c] /\ rpc[i].call = "finished" /\ rpc[i].retstatus = "OK"
    <3>1. Len(rpc) \in Nat /\ link[c] \in 0 .. Len(rpc)
      BY SMTT(30) DEF PairInv, LinkInv, ServerInv, ServerTypeOK
    <3>2. QED  BY <2>1, <3>1, SMTT(30) DEF PairInv, LinkInv
  <2>3. rpc[i].finishes = 1 /\ (rpc[i].retstatus = "OK" => rpc[i].handled)
    BY <2>2 DEF PairInv, ServerInv, ObjectInv, Life, CallStands, Answers
  <2>4. QED  BY <2>2, <2>3, SMTT(30)
<1>2. QED  BY <1>1, PairInitInv, PairStepInv, PTL DEF PairSpec
===============================================================================
