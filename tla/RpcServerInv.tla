----------------------------- MODULE RpcServerInv -----------------------------
(* The inductive invariant of the gRPC server, for any number of queues and    *)
(* call objects, and that it is kept by the steps of gRPC, of the application  *)
(* and of the service threads that make no new call object.                    *)
EXTENDS RpcServer, TLAPS

\* The provers of a leaf that names none, and how long each may take.
USE ZenonT(40), SMTT(20)

------------------------------------------------------------------------------
(* The server.  What is known of a call object is said of its record r, the
   tags gRPC holds (H), the tags the queue will return with ok set (T) and not
   set (F), and the place a of its queue's service thread when it serves the
   object or has exited.                                                      *)
Tags == {"received", "done", "read", "write", "sent", "completed"}
Places == {"idle", "send", "return", "exited"}
CallObjects == [kind : {"plain", "notified", "generic"}, cq : Cqs, refs : Nat, live : BOOLEAN,
                call : {"waiting", "open", "canceled", "finished", "refused", "dropped"},
                canceled : BOOLEAN, app : BOOLEAN, finishes : Nat,
                retstatus : {"OK", "REFUSED"}, handled : BOOLEAN]

One(p) == IF p THEN 1 ELSE 0

(* The processing of the request owns a reference from on_request_received, or
   on_buf_read, until the response is under way.                              *)
Processed(r, P, a) == a = "send" \/ r.app \/ "write" \in P

RefsExact(r, P, a) ==
  r.refs = One("received" \in P) + One("done" \in P) + One("read" \in P) + One("write" \in P)
           + One("sent" \in P) + One("completed" \in P)
           + One(a \in {"send", "return"}) + One(Processed(r, P, a))

(* A request is in one place at a time.                                       *)
OnePlace(r, P, a) ==
  One("received" \in P) + One(a = "send") + One(r.app) + One("read" \in P) + One("write" \in P)
    + One("sent" \in P) + One("completed" \in P) <= 1

(* How the call stands, in each of these places.                              *)
CallStands(r, H, T, F, a) ==
  /\ "received" \in H <=> r.call = "waiting"
  /\ "received" \in T => r.call \in {"open", "canceled"}
  /\ "received" \in F => r.call = "refused"
  /\ Processed(r, H \cup T \cup F, a) \/ "read" \in H \cup T \cup F => r.call \in {"open", "canceled"}
  /\ "sent" \in H \/ "completed" \in H => r.call \in {"open", "canceled"}
  /\ "sent" \in T \cup F \/ "completed" \in T \cup F => r.call \in {"finished", "canceled"}
  /\ r.call = "open" => \/ Processed(r, H \cup T \cup F, a)
                        \/ {"received", "read"} \cap (H \cup T \cup F) # {}
                        \/ {"sent", "completed"} \cap H # {}
  /\ r.call = "finished" => r.finishes = 1
  /\ r.canceled => r.call = "canceled"
  /\ "done" \in T \cup F => r.call \in {"finished", "canceled"}

Answers(r, P, a) ==
  /\ r.finishes <= 1
  /\ "received" \in P \/ "read" \in P \/ Processed(r, P, a) => r.finishes = 0
  /\ "sent" \in P \/ "completed" \in P => r.finishes = 1
  /\ r.finishes = 1 \/ Processed(r, P, a) => (r.retstatus = "OK" => r.handled)

Life(r, H, T, F, a) ==
  /\ H \cap T = {} /\ H \cap F = {} /\ T \cap F = {}
  /\ r.live <=> r.refs > 0
  /\ r.call # "dropped" => RefsExact(r, H \cup T \cup F, a)
  /\ r.call = "dropped" => H \cup T \cup F = {} /\ a \in {"idle", "exited"} /\ ~r.app /\ r.finishes = 0
  /\ OnePlace(r, H \cup T \cup F, a)
  /\ CallStands(r, H, T, F, a)
  /\ Answers(r, H \cup T \cup F, a)
  /\ "done" \in H \cup T \cup F => r.kind = "notified"

(* What shutdown() has done to it.                                            *)
Late(r, H, T, F, a, down) ==
  /\ down # 0 => r.call # "waiting"
  /\ r.call \in {"refused", "dropped"} => down # 0
  /\ down = 2 /\ r.live => r.call \notin {"open", "canceled"}
  /\ a = "exited" => /\ down = 2 /\ T = {} /\ F = {} /\ H \subseteq {"done"}
                     /\ H # {} => r.call \notin {"finished", "canceled"}

HeldOf(i) == {t \in Tags : <<i, t>> \in held}
FiredOf(i, ok) == {t \in Tags : [id |-> i, tag |-> t, ok |-> ok] \in events[rpc[i].cq]}
PlaceOf(i) ==
  LET w == th[rpc[i].cq]
  IN  IF w.at = "exited" THEN "exited"
      ELSE IF w.id = i /\ w.at \in {"send", "return"} THEN w.at ELSE "idle"

ObjectInv(i) ==
  /\ Life(rpc[i], HeldOf(i), FiredOf(i, TRUE), FiredOf(i, FALSE), PlaceOf(i))
  /\ Late(rpc[i], HeldOf(i), FiredOf(i, TRUE), FiredOf(i, FALSE), PlaceOf(i), grpcDown)

ServerTypeOK ==
  /\ m_state \in {"INITED", "RUNNING", "SHUTTING_DOWN", "TERMINATED"} /\ grpcDown \in 0 .. 2
  /\ registry \subseteq {"plain", "notified", "generic"}
  /\ rpc \in Seq(CallObjects) /\ held \subseteq (1 .. Len(rpc)) \X Tags
  /\ events \in [Cqs -> SUBSET [id : 1 .. Len(rpc), tag : Tags, ok : BOOLEAN]]
  /\ th \in [Cqs -> [at : {"poll", "send", "return", "check", "enqueue", "exited"},
                     id : 0 .. Len(rpc), refill : BOOLEAN]]

ThreadInv(c) ==
  /\ \A e \in events[c] : rpc[e.id].cq = c
  /\ th[c].at \in {"poll", "exited"} => th[c].id = 0 /\ ~th[c].refill
  /\ th[c].at \notin {"poll", "exited"} => th[c].id \in 1 .. Len(rpc) /\ rpc[th[c].id].cq = c
  /\ th[c].at \in {"check", "enqueue"} => th[c].refill
  /\ th[c].at = "exited" => grpcDown = 2

(* The objects that listen for a request, and the threads about to add one.   *)
Listens(i) == "received" \in HeldOf(i) \cup FiredOf(i, TRUE) \cup FiredOf(i, FALSE)
Refilling(c, k) == th[c].refill /\ rpc[th[c].id].kind = k

ListenInv ==
  /\ \A i \in 1 .. Len(rpc) : rpc[i].kind \in registry
  /\ \A i, j \in 1 .. Len(rpc) :
       Listens(i) /\ Listens(j) /\ rpc[i].kind = rpc[j].kind /\ rpc[i].cq = rpc[j].cq => i = j
  /\ \A i \in 1 .. Len(rpc) : Listens(i) => ~Refilling(rpc[i].cq, rpc[i].kind)
  /\ m_state = "RUNNING" => \A k \in registry, c \in Cqs :
       \/ Refilling(c, k)
       \/ \E i \in 1 .. Len(rpc) : Listens(i) /\ rpc[i].kind = k /\ rpc[i].cq = c

ServerInv ==
  /\ ServerTypeOK /\ ListenInv
  /\ \A c \in Cqs : ThreadInv(c)
  /\ \A i \in 1 .. Len(rpc) : ObjectInv(i)
  /\ grpcDown # 0 => m_state \in {"SHUTTING_DOWN", "TERMINATED"}
  /\ m_state = "TERMINATED" => \A c \in Cqs : th[c].at = "exited"
  /\ m_state = "INITED" => registry = {}

------------------------------------------------------------------------------
(* What the steps do to one object.                                           *)

LEMMA ArriveLife ==
  ASSUME NEW r \in CallObjects, NEW H \in SUBSET Tags, NEW T \in SUBSET Tags, NEW F \in SUBSET Tags,
         NEW a \in Places, Life(r, H, T, F, a), "received" \in H,
         NEW q, q = [r EXCEPT !.call = "open"]
  PROVE  q \in CallObjects /\ Life(q, H \ {"received"}, T \cup {"received"}, F, a)
BY SMTT(30)
   DEF CallObjects, Tags, Places, Life, RefsExact, OnePlace, CallStands, Answers, Processed, One

LEMMA RefuseLife ==
  ASSUME NEW r \in CallObjects, NEW H \in SUBSET Tags, NEW T \in SUBSET Tags, NEW F \in SUBSET Tags,
         NEW a \in Places, Life(r, H, T, F, a), "received" \in H,
         NEW q, q = [r EXCEPT !.call = "refused"]
  PROVE  q \in CallObjects /\ Life(q, H \ {"received"}, T, F \cup {"received"}, a)
BY SMTT(30)
   DEF CallObjects, Tags, Places, Life, RefsExact, OnePlace, CallStands, Answers, Processed, One

LEMMA CancelLife ==
  ASSUME NEW r \in CallObjects, NEW H \in SUBSET Tags, NEW T \in SUBSET Tags, NEW F \in SUBSET Tags,
         NEW a \in Places, Life(r, H, T, F, a), r.call = "open",
         NEW q, q = [r EXCEPT !.call = "canceled"]
  PROVE  q \in CallObjects /\ Life(q, H, T, F, a)
BY SMTT(30)
   DEF CallObjects, Tags, Places, Life, RefsExact, OnePlace, CallStands, Answers, Processed, One

(* A record that differs in the reference and the flag of the object alone.   *)
LEMMA ReturnLife ==
  ASSUME NEW r \in CallObjects, NEW H \in SUBSET Tags, NEW T \in SUBSET Tags, NEW F \in SUBSET Tags,
         Life(r, H, T, F, "return"),
         NEW q, q = [r EXCEPT !.refs = @ + (-1), !.live = @ /\ r.refs + (-1) > 0]
  PROVE  q \in CallObjects /\ Life(q, H, T, F, "idle")
<1>1. r.refs \in Nat \ {0} /\ r.live
  BY SMTT(30) DEF CallObjects, Life, RefsExact, CallStands, One
<1>2. (r.live /\ r.refs + (-1) > 0) \in BOOLEAN
  OBVIOUS
<1>3. q \in CallObjects
  <2>1. \A n \in Nat, b \in BOOLEAN : [r EXCEPT !.refs = n, !.live = b] \in CallObjects
    BY DEF CallObjects
  <2>2. r.refs + (-1) \in Nat
    BY <1>1, SMTT(30)
  <2>3. QED  BY <1>2, <2>1, <2>2
<1>4. /\ q.refs = r.refs - 1 /\ (q.live <=> r.refs - 1 > 0)
      /\ q.kind = r.kind /\ q.call = r.call /\ q.canceled = r.canceled /\ q.app = r.app
      /\ q.finishes = r.finishes /\ q.retstatus = r.retstatus /\ q.handled = r.handled
  BY <1>1 DEF CallObjects
<1>5. QED
  BY <1>1, <1>3, <1>4, SMTT(30)
     DEF CallObjects, Tags, Life, RefsExact, OnePlace, CallStands, Answers, Processed, One

LEMMA CompleteLife ==
  ASSUME NEW r \in CallObjects, NEW H \in SUBSET Tags, NEW T \in SUBSET Tags, NEW F \in SUBSET Tags,
         NEW a \in Places, Life(r, H, T, F, a),
         NEW tag \in {"read", "write", "sent", "completed"}, tag \in H
  PROVE  /\ tag \in {"read", "write"} /\ r.call = "open" => Life(r, H \ {tag}, T \cup {tag}, F, a)
         /\ tag \in {"sent", "completed"} /\ r.call = "open" =>
              \A q : q = [r EXCEPT !.call = "finished"] =>
                q \in CallObjects /\ Life(q, H \ {tag}, T \cup {tag}, F, a)
         /\ r.call # "open" => Life(r, H \ {tag}, T, F \cup {tag}, a)
<1>1. CASE tag \in {"read", "write"}
  BY <1>1, SMTT(30)
     DEF CallObjects, Tags, Places, Life, RefsExact, OnePlace, CallStands, Answers, Processed, One
<1>2. CASE tag \in {"sent", "completed"} /\ r.call = "open"
  <2> SUFFICES ASSUME NEW q, q = [r EXCEPT !.call = "finished"]
               PROVE  q \in CallObjects /\ Life(q, H \ {tag}, T \cup {tag}, F, a)
    BY <1>2
  <2>1. q \in CallObjects /\ q.call = "finished" /\ q.refs = r.refs /\ q.live = r.live
        /\ q.kind = r.kind /\ q.canceled = r.canceled /\ q.app = r.app
        /\ q.finishes = r.finishes /\ q.retstatus = r.retstatus /\ q.handled = r.handled
    BY DEF CallObjects
  <2>2. QED
    BY <1>2, <2>1, SMTT(30)
       DEF CallObjects, Tags, Places, Life, RefsExact, OnePlace, CallStands, Answers, Processed, One
<1>3. CASE tag \in {"sent", "completed"} /\ r.call # "open"
  BY <1>3, SMTT(30)
     DEF CallObjects, Tags, Places, Life, RefsExact, OnePlace, CallStands, Answers, Processed, One
<1>4. QED  BY <1>1, <1>2, <1>3

LEMMA DoneLife ==
  ASSUME NEW r \in CallObjects, NEW H \in SUBSET Tags, NEW T \in SUBSET Tags, NEW F \in SUBSET Tags,
         NEW a \in Places, Life(r, H, T, F, a), "done" \in H, r.call \in {"finished", "canceled"}
  PROVE  Life(r, H \ {"done"}, T \cup {"done"}, F, a)
BY SMTT(30)
   DEF CallObjects, Tags, Places, Life, RefsExact, OnePlace, CallStands, Answers, Processed, One

Verdicts == {"refused", "replied", "deferred"}

LEMMA JudgedFacts ==
  ASSUME NEW r \in CallObjects, NEW v \in Verdicts
  PROVE  /\ Judged(r, v) \in CallObjects /\ Judged(r, v).refs = r.refs + 1
         /\ Judged(r, v).app <=> v = "deferred"
         /\ Judged(r, v).handled <=> v # "refused"
         /\ Judged(r, v).retstatus = "OK" => v # "refused"
         /\ Judged(r, v).kind = r.kind /\ Judged(r, v).cq = r.cq /\ Judged(r, v).live = r.live
         /\ Judged(r, v).call = r.call /\ Judged(r, v).canceled = r.canceled
         /\ Judged(r, v).finishes = r.finishes
<1>1. /\ (v = "deferred") \in BOOLEAN /\ (v # "refused") \in BOOLEAN
      /\ (IF v = "refused" THEN "REFUSED" ELSE "OK") \in {"OK", "REFUSED"}
      /\ r.refs + 1 \in Nat
  BY SMTT(30) DEF CallObjects
<1>2. PICK n \in Nat, b \in BOOLEAN, d \in BOOLEAN, s \in {"OK", "REFUSED"} :
        /\ n = r.refs + 1 /\ b = (v = "deferred") /\ d = (v # "refused")
        /\ s = IF v = "refused" THEN "REFUSED" ELSE "OK"
  BY <1>1
<1>3. PICK q : q = Judged(r, v)
  OBVIOUS
<1>4. q = [r EXCEPT !.refs = n, !.app = b, !.handled = d, !.retstatus = s]
  BY <1>2, <1>3 DEF Judged
<1>5. /\ q \in CallObjects /\ q.refs = n /\ q.app = b /\ q.handled = d /\ q.retstatus = s
      /\ q.kind = r.kind /\ q.cq = r.cq /\ q.live = r.live /\ q.call = r.call
      /\ q.canceled = r.canceled /\ q.finishes = r.finishes
  BY <1>4 DEF CallObjects
<1>6. QED  BY <1>2, <1>3, <1>5

LEMMA UnaryLife ==
  ASSUME NEW r \in CallObjects, NEW H \in SUBSET Tags, NEW T \in SUBSET Tags, NEW F \in SUBSET Tags,
         Life(r, H, T, F, "idle"), NEW v \in Verdicts, NEW tag \in {"received", "read"},
         tag = "received" => tag \in T, tag = "read" => tag \in T \cup F
  PROVE  Life(Judged(r, v), H, T \ {tag}, F \ {tag}, IF v = "deferred" THEN "return" ELSE "send")
<1> DEFINE q == Judged(r, v)
<1>1. /\ q \in CallObjects /\ q.refs = r.refs + 1 /\ (q.app <=> v = "deferred")
      /\ (q.handled <=> v # "refused") /\ (q.retstatus = "OK" => v # "refused")
      /\ q.kind = r.kind /\ q.live = r.live /\ q.call = r.call /\ q.canceled = r.canceled
      /\ q.finishes = r.finishes
  BY JudgedFacts
<1> HIDE DEF q
<1>2. PICK P, P2, a : /\ P = H \cup T \cup F /\ P2 = H \cup (T \ {tag}) \cup (F \ {tag})
                      /\ a = IF v = "deferred" THEN "return" ELSE "send"
  OBVIOUS
<1>3. tag \in P /\ P2 = P \ {tag} /\ r.call \in {"open", "canceled"}
  BY <1>2 DEF Life, CallStands, Tags
<1>4. RefsExact(q, P2, a)
  BY <1>1, <1>2, <1>3, SMTT(30) DEF CallObjects, Life, RefsExact, OnePlace, Processed, One
<1>5. OnePlace(q, P2, a)
  BY <1>1, <1>2, <1>3, SMTT(30) DEF CallObjects, Life, OnePlace, One
<1>6. Answers(q, P2, a)
  BY <1>1, <1>2, <1>3 DEF CallObjects, Life, OnePlace, Answers, Processed, One
<1>7. CallStands(q, H, T \ {tag}, F \ {tag}, a)
  BY <1>1, <1>2, <1>3 DEF CallObjects, Life, CallStands, OnePlace, Processed, One
<1>8. q.live <=> q.refs > 0
  BY <1>1, <1>2, <1>3, SMTT(30) DEF CallObjects, Life, RefsExact, One
<1>9. Life(q, H, T \ {tag}, F \ {tag}, a)
  BY <1>1, <1>2, <1>3, <1>4, <1>5, <1>6, <1>7, <1>8 DEF Life
<1>10. QED  BY <1>2, <1>9 DEF q

LEMMA TagLife ==
  ASSUME NEW r \in CallObjects, NEW H \in SUBSET Tags, NEW T \in SUBSET Tags, NEW F \in SUBSET Tags,
         Life(r, H, T, F, "idle"), NEW tag \in {"received", "sent", "completed"},
         tag = "received" => tag \in F, tag # "received" => tag \in T \cup F
  PROVE  Life(r, H, T \ {tag}, F \ {tag}, "return")
<1>1. CASE tag = "received"
  BY <1>1, SMTT(30)
     DEF CallObjects, Tags, Life, RefsExact, OnePlace, CallStands, Answers, Processed, One
<1>2. CASE tag = "sent"
  BY <1>2, SMTT(30)
     DEF CallObjects, Tags, Life, RefsExact, OnePlace, CallStands, Answers, Processed, One
<1>3. CASE tag = "completed"
  BY <1>3, SMTT(30)
     DEF CallObjects, Tags, Life, RefsExact, OnePlace, CallStands, Answers, Processed, One
<1>4. QED  BY <1>1, <1>2, <1>3

LEMMA GenericRefusedLife ==
  ASSUME NEW r \in CallObjects, NEW H \in SUBSET Tags, NEW T \in SUBSET Tags, NEW F \in SUBSET Tags,
         Life(r, H, T, F, "idle"), "received" \in T,
         NEW q, q = [Judged(r, "refused") EXCEPT !.finishes = @ + 1]
  PROVE  /\ q \in CallObjects /\ q.cq = r.cq /\ q.kind = r.kind /\ q.live = r.live /\ q.call = r.call
         /\ Life(q, H \cup {"completed"}, T \ {"received"}, F, "return")
<1>1. PICK j \in CallObjects : j = Judged(r, "refused")
  BY JudgedFacts DEF Verdicts
<1>2. /\ j.refs = r.refs + 1 /\ ~j.app /\ ~j.handled /\ j.retstatus # "OK"
      /\ j.kind = r.kind /\ j.cq = r.cq /\ j.live = r.live /\ j.call = r.call
      /\ j.canceled = r.canceled /\ j.finishes = r.finishes
  BY <1>1, JudgedFacts DEF Verdicts
<1>3. /\ q \in CallObjects /\ q.refs = r.refs + 1 /\ ~q.app /\ ~q.handled /\ q.retstatus # "OK"
      /\ q.kind = r.kind /\ q.cq = r.cq /\ q.live = r.live /\ q.call = r.call
      /\ q.canceled = r.canceled /\ q.finishes = r.finishes + 1
  BY <1>1, <1>2, SMTT(30) DEF CallObjects
<1>4. QED
  BY <1>3, SMTT(30)
     DEF CallObjects, Tags, Life, RefsExact, OnePlace, CallStands, Answers, Processed, One

LEMMA GenericReadLife ==
  ASSUME NEW r \in CallObjects, NEW H \in SUBSET Tags, NEW T \in SUBSET Tags, NEW F \in SUBSET Tags,
         Life(r, H, T, F, "idle"), "received" \in T,
         NEW q, q = [r EXCEPT !.refs = @ + 1]
  PROVE  /\ q \in CallObjects /\ q.cq = r.cq /\ q.kind = r.kind /\ q.live = r.live /\ q.call = r.call
         /\ Life(q, H \cup {"read"}, T \ {"received"}, F, "return")
<1>1. /\ q \in CallObjects /\ q.refs = r.refs + 1 /\ q.app = r.app /\ q.handled = r.handled
      /\ q.retstatus = r.retstatus
      /\ q.kind = r.kind /\ q.cq = r.cq /\ q.live = r.live /\ q.call = r.call
      /\ q.canceled = r.canceled /\ q.finishes = r.finishes
  BY SMTT(30) DEF CallObjects
<1>2. QED
  BY <1>1, SMTT(30)
     DEF CallObjects, Tags, Life, RefsExact, OnePlace, CallStands, Answers, Processed, One

LEMMA BufWrittenLife ==
  ASSUME NEW r \in CallObjects, NEW H \in SUBSET Tags, NEW T \in SUBSET Tags, NEW F \in SUBSET Tags,
         Life(r, H, T, F, "idle"), "write" \in T \cup F,
         NEW q, q = [r EXCEPT !.finishes = @ + 1]
  PROVE  /\ q \in CallObjects /\ q.cq = r.cq /\ q.kind = r.kind /\ q.live = r.live /\ q.call = r.call
         /\ Life(q, H \cup {"completed"}, T \ {"write"}, F \ {"write"}, "return")
<1>1. /\ q \in CallObjects /\ q.finishes = r.finishes + 1 /\ q.app = r.app /\ q.handled = r.handled
      /\ q.retstatus = r.retstatus
      /\ q.kind = r.kind /\ q.cq = r.cq /\ q.live = r.live /\ q.call = r.call
      /\ q.canceled = r.canceled /\ q.refs = r.refs
  BY SMTT(30) DEF CallObjects
<1>2. QED
  BY <1>1, SMTT(30)
     DEF CallObjects, Tags, Life, RefsExact, OnePlace, CallStands, Answers, Processed, One

LEMMA RequestDoneLife ==
  ASSUME NEW r \in CallObjects, NEW H \in SUBSET Tags, NEW T \in SUBSET Tags, NEW F \in SUBSET Tags,
         Life(r, H, T, F, "idle"), "done" \in T \cup F,
         NEW q, q = [r EXCEPT !.canceled = @ \/ r.call = "canceled"]
  PROVE  /\ q \in CallObjects /\ q.cq = r.cq /\ q.kind = r.kind /\ q.live = r.live /\ q.call = r.call
         /\ Life(q, H, T \ {"done"}, F \ {"done"}, "return")
<1>1. ASSUME NEW b \in BOOLEAN, NEW p, p = [r EXCEPT !.canceled = b]
      PROVE  /\ p \in CallObjects /\ p.refs = r.refs /\ p.app = r.app /\ p.handled = r.handled
             /\ p.retstatus = r.retstatus /\ p.canceled = b
             /\ p.kind = r.kind /\ p.cq = r.cq /\ p.live = r.live /\ p.call = r.call
             /\ p.finishes = r.finishes
  BY <1>1 DEF CallObjects
<1>2. PICK b \in BOOLEAN : b = (r.canceled \/ r.call = "canceled")
  OBVIOUS
<1>3. q = [r EXCEPT !.canceled = b]
  BY <1>2
<1>4. b => r.call = "canceled"
  BY <1>2 DEF Life, CallStands
<1>5. QED
  BY <1>1, <1>3, <1>4, SMTT(30)
     DEF CallObjects, Tags, Life, RefsExact, OnePlace, CallStands, Answers, Processed, One

LEMMA RespondLife ==
  ASSUME NEW r \in CallObjects, NEW H \in SUBSET Tags, NEW T \in SUBSET Tags, NEW F \in SUBSET Tags,
         NEW a \in Places, Life(r, H, T, F, a), NEW a2,
         (r.app /\ a2 = a) \/ (a = "send" /\ a2 = "return"),
         NEW q \in CallObjects, q.kind = r.kind, q.call = r.call, q.canceled = r.canceled,
         q.retstatus = r.retstatus, q.handled = r.handled, ~q.app
  PROVE  /\ r.canceled /\ q.refs = r.refs - 1 /\ (q.live <=> r.refs > 1) /\ q.finishes = r.finishes
              => Life(q, H, T, F, a2)
         /\ q.refs = r.refs /\ (q.live <=> r.live) /\ q.finishes = r.finishes + 1
              => Life(q, H \cup {"sent"}, T, F, a2)
         /\ q.refs = r.refs + 1 /\ (q.live <=> r.live) /\ q.finishes = r.finishes
              => Life(q, H \cup {"write"}, T, F, a2)
<1>1. CASE r.app /\ a2 = a
  <2>1. ASSUME r.canceled, q.refs = r.refs - 1, q.live <=> r.refs > 1, q.finishes = r.finishes
        PROVE  Life(q, H, T, F, a2)
    BY <1>1, <2>1, SMTT(30)
       DEF CallObjects, Tags, Places, Life, RefsExact, OnePlace, CallStands, Answers, Processed, One
  <2>2. ASSUME q.refs = r.refs, q.live <=> r.live, q.finishes = r.finishes + 1
        PROVE  Life(q, H \cup {"sent"}, T, F, a2)
    BY <1>1, <2>2, SMTT(30)
       DEF CallObjects, Tags, Places, Life, RefsExact, OnePlace, CallStands, Answers, Processed, One
  <2>3. ASSUME q.refs = r.refs + 1, q.live <=> r.live, q.finishes = r.finishes
        PROVE  Life(q, H \cup {"write"}, T, F, a2)
    BY <1>1, <2>3, SMTT(30)
       DEF CallObjects, Tags, Places, Life, RefsExact, OnePlace, CallStands, Answers, Processed, One
  <2>4. QED  BY <2>1, <2>2, <2>3
<1>2. CASE a = "send" /\ a2 = "return"
  <2>1. ASSUME r.canceled, q.refs = r.refs - 1, q.live <=> r.refs > 1, q.finishes = r.finishes
        PROVE  Life(q, H, T, F, a2)
    BY <1>2, <2>1, SMTT(30)
       DEF CallObjects, Tags, Places, Life, RefsExact, OnePlace, CallStands, Answers, Processed, One
  <2>2. ASSUME q.refs = r.refs, q.live <=> r.live, q.finishes = r.finishes + 1
        PROVE  Life(q, H \cup {"sent"}, T, F, a2)
    BY <1>2, <2>2, SMTT(30)
       DEF CallObjects, Tags, Places, Life, RefsExact, OnePlace, CallStands, Answers, Processed, One
  <2>3. ASSUME q.refs = r.refs + 1, q.live <=> r.live, q.finishes = r.finishes
        PROVE  Life(q, H \cup {"write"}, T, F, a2)
    BY <1>2, <2>3, SMTT(30)
       DEF CallObjects, Tags, Places, Life, RefsExact, OnePlace, CallStands, Answers, Processed, One
  <2>4. QED  BY <2>1, <2>2, <2>3
<1>3. QED  BY <1>1, <1>2

LEMMA SendingHasNoApp ==
  ASSUME NEW r \in CallObjects, NEW H \in SUBSET Tags, NEW T \in SUBSET Tags, NEW F \in SUBSET Tags,
         Life(r, H, T, F, "send")
  PROVE  ~r.app
BY SMTT(30) DEF CallObjects, Tags, Life, OnePlace, One

LEMMA OpenLives ==
  ASSUME NEW r \in CallObjects, NEW H \in SUBSET Tags, NEW T \in SUBSET Tags, NEW F \in SUBSET Tags,
         NEW a \in Places, Life(r, H, T, F, a), r.call = "open" \/ Processed(r, H \cup T \cup F, a)
  PROVE  r.live /\ r.call \in {"open", "canceled"}
<1>1. PICK P : P = H \cup T \cup F
  OBVIOUS
<1>2. r.call \in {"open", "canceled"} /\ RefsExact(r, P, a)
  BY <1>1 DEF Life, CallStands
<1>3. Processed(r, P, a) \/ "received" \in P \/ "read" \in P \/ "sent" \in P \/ "completed" \in P
  BY <1>1 DEF Life, CallStands
<1>4. r.refs > 0
  BY <1>2, <1>3, SMTT(30) DEF RefsExact, One, Places
<1>5. QED  BY <1>2, <1>4 DEF Life

------------------------------------------------------------------------------
(* A step that concerns one object, and the thread of its queue.              *)
Kept(j) ==
  /\ rpc'[j] = rpc[j] /\ HeldOf(j)' = HeldOf(j) /\ PlaceOf(j)' = PlaceOf(j)
  /\ FiredOf(j, TRUE)' = FiredOf(j, TRUE) /\ FiredOf(j, FALSE)' = FiredOf(j, FALSE)

OneObject(i) ==
  /\ UNCHANGED <<m_state, registry, grpcDown>> /\ ServerTypeOK' /\ Len(rpc') = Len(rpc)
  /\ rpc'[i].cq = rpc[i].cq /\ rpc'[i].kind = rpc[i].kind
  /\ \A j \in (1 .. Len(rpc)) \ {i} : Kept(j)
  /\ \A c \in Cqs : ThreadInv(c)'
  /\ \A c \in Cqs : th[c].at = "exited" => th'[c] = th[c]

LEMMA ObjectTypes ==
  ASSUME ServerTypeOK, NEW j \in 1 .. Len(rpc)
  PROVE  rpc[j] \in CallObjects /\ rpc[j].cq \in Cqs /\ rpc[j].kind \in {"plain", "notified", "generic"}
<1>1. rpc[j] \in CallObjects
  BY SMTT(30) DEF ServerTypeOK
<1>2. QED  BY <1>1 DEF CallObjects

LEMMA OneObjectInv ==
  ASSUME ServerInv, NEW i \in 1 .. Len(rpc), OneObject(i), ObjectInv(i)', ListenInv'
  PROVE  ServerInv'
<1>1. \A j \in (1 .. Len(rpc)) \ {i} : ObjectInv(j)'
  BY DEF ServerInv, OneObject, Kept, ObjectInv
<1>2. \A j \in 1 .. Len(rpc') : ObjectInv(j)'
  BY <1>1 DEF OneObject
<1>3. /\ grpcDown' # 0 => m_state' \in {"SHUTTING_DOWN", "TERMINATED"}
      /\ m_state' = "TERMINATED" => \A c \in Cqs : th'[c].at = "exited"
      /\ m_state' = "INITED" => registry' = {}
  BY DEF ServerInv, OneObject
<1>4. QED  BY <1>2, <1>3 DEF ServerInv, OneObject

LEMMA ListenKept ==
  ASSUME ServerInv, NEW i \in 1 .. Len(rpc), OneObject(i), Listens(i)' <=> Listens(i),
         \A c \in Cqs : th'[c].refill = th[c].refill /\ (th[c].refill => th'[c].id = th[c].id)
  PROVE  ListenInv'
<1>1. \A j \in 1 .. Len(rpc) : (Listens(j)' <=> Listens(j)) /\ rpc'[j].kind = rpc[j].kind /\ rpc'[j].cq = rpc[j].cq
  BY DEF OneObject, Kept, Listens
<1>2. \A c \in Cqs : th[c].refill => th[c].id \in 1 .. Len(rpc)
  BY DEF ServerInv, ThreadInv
<1>3. \A c \in Cqs, k \in {"plain", "notified", "generic"} : Refilling(c, k)' <=> Refilling(c, k)
  BY <1>1, <1>2 DEF Refilling
<1>4. /\ Len(rpc') = Len(rpc) /\ registry' = registry /\ m_state' = m_state
      /\ registry \subseteq {"plain", "notified", "generic"}
      /\ \A j \in 1 .. Len(rpc) : rpc[j].cq \in Cqs /\ rpc[j].kind \in {"plain", "notified", "generic"}
  BY ObjectTypes DEF OneObject, ServerInv, ServerTypeOK
<1>5. /\ \A j \in 1 .. Len(rpc') : rpc'[j].kind \in registry'
      /\ \A j, l \in 1 .. Len(rpc') :
           Listens(j)' /\ Listens(l)' /\ rpc'[j].kind = rpc'[l].kind /\ rpc'[j].cq = rpc'[l].cq => j = l
      /\ \A j \in 1 .. Len(rpc') : Listens(j)' => ~Refilling(rpc[j].cq, rpc[j].kind)
  BY <1>1, <1>4, SMTT(30) DEF ServerInv, ListenInv
<1>6. m_state' = "RUNNING" => \A k \in registry', c \in Cqs :
       \/ Refilling(c, k)
       \/ \E j \in 1 .. Len(rpc') : Listens(j)' /\ rpc'[j].kind = k /\ rpc'[j].cq = c
  BY <1>1, <1>4, SMTT(30) DEF ServerInv, ListenInv
<1>7. \A j \in 1 .. Len(rpc) :
        Refilling(rpc[j].cq, rpc[j].kind)' <=> Refilling(rpc[j].cq, rpc[j].kind)
  <2> SUFFICES ASSUME NEW j \in 1 .. Len(rpc)
               PROVE  Refilling(rpc[j].cq, rpc[j].kind)' <=> Refilling(rpc[j].cq, rpc[j].kind)
    OBVIOUS
  <2>1. PICK c \in Cqs, k \in {"plain", "notified", "generic"} : c = rpc[j].cq /\ k = rpc[j].kind
    BY <1>4
  <2>2. c = rpc'[j].cq /\ k = rpc'[j].kind /\ (Refilling(c, k)' <=> Refilling(c, k))
    BY <1>1, <1>3, <2>1
  <2>3. QED  BY <2>1, <2>2 DEF Refilling
<1>8. QED  BY <1>3, <1>4, <1>5, <1>6, <1>7, SMTT(30) DEF ListenInv

(* gRPC completes an operation.                                               *)
LEMMA FireOne ==
  ASSUME ServerInv, NEW i \in 1 .. Len(rpc), NEW tag \in Tags, NEW ok \in BOOLEAN, Fire(i, tag, ok),
         NEW q \in CallObjects, rpc' = [rpc EXCEPT ![i] = q], q.cq = rpc[i].cq, q.kind = rpc[i].kind,
         UNCHANGED <<m_state, registry, grpcDown, th>>
  PROVE  /\ OneObject(i) /\ PlaceOf(i)' = PlaceOf(i) /\ rpc'[i] = q
         /\ HeldOf(i)' = HeldOf(i) \ {tag}
         /\ ok => /\ FiredOf(i, TRUE)' = FiredOf(i, TRUE) \cup {tag}
                  /\ FiredOf(i, FALSE)' = FiredOf(i, FALSE)
         /\ ~ok => /\ FiredOf(i, FALSE)' = FiredOf(i, FALSE) \cup {tag}
                   /\ FiredOf(i, TRUE)' = FiredOf(i, TRUE)
<1>0. PICK e : e = [id |-> i, tag |-> tag, ok |-> ok]
  OBVIOUS
<1>1. /\ rpc \in Seq(CallObjects) /\ rpc[i] \in CallObjects /\ rpc[i].cq \in Cqs
      /\ events \in [Cqs -> SUBSET [id : 1 .. Len(rpc), tag : Tags, ok : BOOLEAN]]
      /\ held \subseteq (1 .. Len(rpc)) \X Tags
  BY ObjectTypes DEF ServerInv, ServerTypeOK
<1>2. /\ held' = held \ {<<i, tag>>} /\ e \in [id : 1 .. Len(rpc), tag : Tags, ok : BOOLEAN]
      /\ events' = [events EXCEPT ![rpc[i].cq] = @ \cup {e}]
  BY <1>0 DEF Fire
<1>3. /\ rpc' \in Seq(CallObjects) /\ Len(rpc') = Len(rpc) /\ rpc'[i] = q
      /\ \A j \in (1 .. Len(rpc)) \ {i} : rpc'[j] = rpc[j]
  BY <1>1, SMTT(30)
<1>4. /\ events'[rpc[i].cq] = events[rpc[i].cq] \cup {e}
      /\ \A c \in Cqs \ {rpc[i].cq} : events'[c] = events[c]
  BY <1>1, <1>2
<1>5. events' \in [Cqs -> SUBSET [id : 1 .. Len(rpc), tag : Tags, ok : BOOLEAN]]
  BY <1>1, <1>2
<1>6. ServerTypeOK'
  BY <1>2, <1>3, <1>5 DEF ServerInv, ServerTypeOK
<1>7. \A j \in 1 .. Len(rpc) : PlaceOf(j)' = PlaceOf(j) /\ rpc'[j].cq = rpc[j].cq /\ rpc[j].cq \in Cqs
  <2>1. \A j \in 1 .. Len(rpc) : rpc'[j].cq = rpc[j].cq /\ rpc[j].cq \in Cqs
    BY <1>3, ObjectTypes DEF ServerInv
  <2>2. QED  BY <2>1 DEF PlaceOf
<1>8. \A j \in (1 .. Len(rpc)) \ {i} : Kept(j)
  <2> SUFFICES ASSUME NEW j \in (1 .. Len(rpc)) \ {i} PROVE Kept(j)
    OBVIOUS
  <2>1. HeldOf(j)' = HeldOf(j)
    BY <1>2 DEF HeldOf
  <2>2. FiredOf(j, TRUE)' = FiredOf(j, TRUE) /\ FiredOf(j, FALSE)' = FiredOf(j, FALSE)
    BY <1>0, <1>4, <1>7, SMTT(30) DEF FiredOf
  <2>3. QED  BY <1>3, <1>7, <2>1, <2>2 DEF Kept
<1>9. \A c \in Cqs : ThreadInv(c)'
  <2> SUFFICES ASSUME NEW c \in Cqs PROVE ThreadInv(c)'
    OBVIOUS
  <2>1. \A x \in events'[c] : rpc'[x.id].cq = c
    BY <1>0, <1>1, <1>4, <1>7, SMTT(30) DEF ServerInv, ThreadInv
  <2>2. th[c].id \in 1 .. Len(rpc) => rpc'[th[c].id].cq = rpc[th[c].id].cq
    BY <1>7
  <2>3. QED  BY <1>3, <2>1, <2>2 DEF ServerInv, ThreadInv
<1>10. HeldOf(i)' = HeldOf(i) \ {tag}
  BY <1>2 DEF HeldOf
<1>11. OneObject(i)
  BY <1>3, <1>6, <1>7, <1>8, <1>9 DEF OneObject
<1>12. CASE ok = TRUE
  <2>1. \A t \in Tags : /\ t \in FiredOf(i, TRUE)' <=> t \in FiredOf(i, TRUE) \/ t = tag
                        /\ t \in FiredOf(i, FALSE)' <=> t \in FiredOf(i, FALSE)
    BY <1>0, <1>4, <1>7, <1>12 DEF FiredOf
  <2>2. FiredOf(i, TRUE)' = FiredOf(i, TRUE) \cup {tag} /\ FiredOf(i, FALSE)' = FiredOf(i, FALSE)
    BY <2>1 DEF FiredOf
  <2>3. QED  BY <1>3, <1>7, <1>10, <1>11, <1>12, <2>2
<1>13. CASE ok = FALSE
  <2>1. \A t \in Tags : /\ t \in FiredOf(i, FALSE)' <=> t \in FiredOf(i, FALSE) \/ t = tag
                        /\ t \in FiredOf(i, TRUE)' <=> t \in FiredOf(i, TRUE)
    BY <1>0, <1>4, <1>7, <1>13 DEF FiredOf
  <2>2. FiredOf(i, FALSE)' = FiredOf(i, FALSE) \cup {tag} /\ FiredOf(i, TRUE)' = FiredOf(i, TRUE)
    BY <2>1 DEF FiredOf
  <2>3. QED  BY <1>3, <1>7, <1>10, <1>11, <1>13, <2>2
<1>14. QED  BY <1>12, <1>13

LEMMA ObjectNow ==
  ASSUME ServerInv, NEW i \in 1 .. Len(rpc)
  PROVE  \E r \in CallObjects, H \in SUBSET Tags, T \in SUBSET Tags, F \in SUBSET Tags, a \in Places :
           /\ r = rpc[i] /\ H = HeldOf(i) /\ T = FiredOf(i, TRUE) /\ F = FiredOf(i, FALSE)
           /\ a = PlaceOf(i) /\ Life(r, H, T, F, a) /\ Late(r, H, T, F, a, grpcDown)
<1>1. rpc[i] \in CallObjects
  BY ObjectTypes DEF ServerInv
<1>2. HeldOf(i) \in SUBSET Tags /\ FiredOf(i, TRUE) \in SUBSET Tags /\ FiredOf(i, FALSE) \in SUBSET Tags
  BY DEF HeldOf, FiredOf
<1>3. PlaceOf(i) \in Places
  BY DEF PlaceOf, Places
<1>4. QED  BY <1>1, <1>2, <1>3 DEF ServerInv, ObjectInv

LEMMA ArriveInv ==
  ASSUME ServerInv, NEW i \in 1 .. Len(rpc), Arrive(i)
  PROVE  ServerInv'
<1>1. PICK r \in CallObjects, H \in SUBSET Tags, T \in SUBSET Tags, F \in SUBSET Tags, a \in Places :
        /\ r = rpc[i] /\ H = HeldOf(i) /\ T = FiredOf(i, TRUE) /\ F = FiredOf(i, FALSE)
        /\ a = PlaceOf(i) /\ Life(r, H, T, F, a) /\ Late(r, H, T, F, a, grpcDown)
  BY ObjectNow
<1>2. PICK q : q = [r EXCEPT !.call = "open"]
  OBVIOUS
<1>3. /\ grpcDown = 0 /\ "received" \in H /\ Fire(i, "received", TRUE) /\ rpc' = [rpc EXCEPT ![i] = q]
      /\ UNCHANGED <<m_state, registry, grpcDown, th>>
  BY <1>1, <1>2 DEF Arrive, HeldOf, Tags
<1>4. q \in CallObjects /\ q.cq = r.cq /\ q.kind = r.kind /\ q.call = "open"
  BY <1>2 DEF CallObjects
<1>5. /\ OneObject(i) /\ PlaceOf(i)' = a /\ rpc'[i] = q /\ HeldOf(i)' = H \ {"received"}
      /\ FiredOf(i, TRUE)' = T \cup {"received"} /\ FiredOf(i, FALSE)' = F
  BY <1>1, <1>3, <1>4, FireOne DEF Tags
<1>6. Life(q, H \ {"received"}, T \cup {"received"}, F, a)
  BY <1>1, <1>2, <1>3, ArriveLife
<1>7. Late(q, H \ {"received"}, T \cup {"received"}, F, a, 0)
  BY <1>1, <1>3, <1>4, SMTT(30) DEF Late
<1>8. ObjectInv(i)'
  BY <1>3, <1>5, <1>6, <1>7 DEF ObjectInv
<1>9. ListenInv'
  <2>1. Listens(i)' <=> Listens(i)
    BY <1>1, <1>3, <1>5 DEF Listens
  <2>2. QED  BY <1>3, <1>5, <2>1, ListenKept
<1>10. QED  BY <1>5, <1>8, <1>9, OneObjectInv

LEMMA NotifiesDoneInv ==
  ASSUME ServerInv, NEW i \in 1 .. Len(rpc), NotifiesDone(i)
  PROVE  ServerInv'
<1>1. PICK r \in CallObjects, H \in SUBSET Tags, T \in SUBSET Tags, F \in SUBSET Tags, a \in Places :
        /\ r = rpc[i] /\ H = HeldOf(i) /\ T = FiredOf(i, TRUE) /\ F = FiredOf(i, FALSE)
        /\ a = PlaceOf(i) /\ Life(r, H, T, F, a) /\ Late(r, H, T, F, a, grpcDown)
  BY ObjectNow
<1>2. /\ "done" \in H /\ r.call \in {"finished", "canceled"} /\ Fire(i, "done", TRUE) /\ rpc' = rpc
      /\ UNCHANGED <<m_state, registry, grpcDown, th>>
  BY <1>1 DEF NotifiesDone, HeldOf, Tags
<1>3. rpc' = [rpc EXCEPT ![i] = r]
  BY <1>1, <1>2, SMTT(30) DEF ServerInv, ServerTypeOK
<1>4. /\ OneObject(i) /\ PlaceOf(i)' = a /\ rpc'[i] = r /\ HeldOf(i)' = H \ {"done"}
      /\ FiredOf(i, TRUE)' = T \cup {"done"} /\ FiredOf(i, FALSE)' = F
  BY <1>1, <1>2, <1>3, FireOne DEF Tags
<1>5. Life(r, H \ {"done"}, T \cup {"done"}, F, a)
  BY <1>1, <1>2, DoneLife
<1>6. Late(r, H \ {"done"}, T \cup {"done"}, F, a, grpcDown)
  BY <1>1, <1>2 DEF Late
<1>7. ObjectInv(i)'
  BY <1>2, <1>4, <1>5, <1>6 DEF ObjectInv
<1>8. ListenInv'
  <2>1. Listens(i)' <=> Listens(i)
    BY <1>1, <1>4 DEF Listens
  <2>2. QED  BY <1>2, <1>4, <2>1, ListenKept
<1>9. QED  BY <1>4, <1>7, <1>8, OneObjectInv

LEMMA CompletesInv ==
  ASSUME ServerInv, NEW i \in 1 .. Len(rpc), NEW tag \in {"read", "write", "sent", "completed"},
         Completes(i, tag)
  PROVE  ServerInv'
<1>1. PICK r \in CallObjects, H \in SUBSET Tags, T \in SUBSET Tags, F \in SUBSET Tags, a \in Places :
        /\ r = rpc[i] /\ H = HeldOf(i) /\ T = FiredOf(i, TRUE) /\ F = FiredOf(i, FALSE)
        /\ a = PlaceOf(i) /\ Life(r, H, T, F, a) /\ Late(r, H, T, F, a, grpcDown)
  BY ObjectNow
<1>2. /\ tag \in H /\ tag \in Tags /\ Fire(i, tag, r.call = "open")
      /\ UNCHANGED <<m_state, registry, grpcDown, th>>
      /\ rpc' = IF tag \in {"sent", "completed"} /\ r.call = "open"
                  THEN [rpc EXCEPT ![i].call = "finished"] ELSE rpc
  BY <1>1 DEF Completes, HeldOf, Tags
<1>3. PICK q \in CallObjects :
        /\ rpc' = [rpc EXCEPT ![i] = q] /\ q.cq = r.cq /\ q.kind = r.kind
        /\ IF tag \in {"sent", "completed"} /\ r.call = "open"
             THEN q = [r EXCEPT !.call = "finished"] ELSE q = r
  <2>1. CASE tag \in {"sent", "completed"} /\ r.call = "open"
    <3>1. [r EXCEPT !.call = "finished"] \in CallObjects
      BY DEF CallObjects
    <3>2. QED  BY <1>1, <1>2, <2>1, <3>1 DEF CallObjects
  <2>2. CASE ~(tag \in {"sent", "completed"} /\ r.call = "open")
    <3>1. rpc' = [rpc EXCEPT ![i] = r]
      BY <1>1, <1>2, <2>2, SMTT(30) DEF ServerInv, ServerTypeOK
    <3>2. QED  BY <1>1, <2>2, <3>1
  <2>3. QED  BY <2>1, <2>2
<1>4. a # "exited"
  BY <1>1, <1>2 DEF Late
<1>5. CASE r.call = "open"
  <2>1. /\ OneObject(i) /\ PlaceOf(i)' = a /\ rpc'[i] = q /\ HeldOf(i)' = H \ {tag}
        /\ FiredOf(i, TRUE)' = T \cup {tag} /\ FiredOf(i, FALSE)' = F
    <3>1. Fire(i, tag, TRUE)
      BY <1>2, <1>5 DEF Fire
    <3>2. QED  BY <1>1, <1>2, <1>3, <3>1, FireOne
  <2>2. Life(q, H \ {tag}, T \cup {tag}, F, a)
    BY <1>1, <1>2, <1>3, <1>5, CompleteLife
  <2>3. Late(q, H \ {tag}, T \cup {tag}, F, a, grpcDown)
    <3>1. q.live = r.live /\ q.call \in {"open", "finished"}
      BY <1>3, <1>5 DEF CallObjects
    <3>2. QED  BY <1>1, <1>4, <1>5, <3>1 DEF Late
  <2>4. ObjectInv(i)'
    BY <1>2, <2>1, <2>2, <2>3 DEF ObjectInv
  <2>5. Listens(i)' <=> Listens(i)
    BY <1>1, <2>1 DEF Listens
  <2>6. QED  BY <1>2, <2>1, <2>4, <2>5, ListenKept, OneObjectInv
<1>6. CASE r.call # "open"
  <2>1. /\ OneObject(i) /\ PlaceOf(i)' = a /\ rpc'[i] = q /\ HeldOf(i)' = H \ {tag}
        /\ FiredOf(i, FALSE)' = F \cup {tag} /\ FiredOf(i, TRUE)' = T
    <3>1. Fire(i, tag, FALSE)
      <4>1. (r.call = "open") = FALSE
        BY <1>6
      <4>2. QED  BY <1>2, <4>1
    <3>2. QED  BY <1>1, <1>2, <1>3, <3>1, FireOne
  <2>2. Life(q, H \ {tag}, T, F \cup {tag}, a)
    BY <1>1, <1>2, <1>3, <1>6, CompleteLife
  <2>3. Late(q, H \ {tag}, T, F \cup {tag}, a, grpcDown)
    BY <1>1, <1>3, <1>4, <1>6 DEF Late
  <2>4. ObjectInv(i)'
    BY <1>2, <2>1, <2>2, <2>3 DEF ObjectInv
  <2>5. Listens(i)' <=> Listens(i)
    BY <1>1, <2>1 DEF Listens
  <2>6. QED  BY <1>2, <2>1, <2>4, <2>5, ListenKept, OneObjectInv
<1>7. QED  BY <1>5, <1>6

(* An operation is started, or the record alone changes.                      *)
LEMMA StartOne ==
  ASSUME ServerInv, NEW i \in 1 .. Len(rpc), NEW X \in SUBSET Tags, held' = held \cup ({i} \X X),
         NEW q \in CallObjects, rpc' = [rpc EXCEPT ![i] = q], q.cq = rpc[i].cq, q.kind = rpc[i].kind,
         UNCHANGED <<m_state, registry, grpcDown, th, events>>
  PROVE  /\ OneObject(i) /\ PlaceOf(i)' = PlaceOf(i) /\ rpc'[i] = q
         /\ HeldOf(i)' = HeldOf(i) \cup X
         /\ FiredOf(i, TRUE)' = FiredOf(i, TRUE) /\ FiredOf(i, FALSE)' = FiredOf(i, FALSE)
<1>1. /\ rpc' \in Seq(CallObjects) /\ Len(rpc') = Len(rpc) /\ rpc'[i] = q
      /\ \A j \in (1 .. Len(rpc)) \ {i} : rpc'[j] = rpc[j]
  BY SMTT(30) DEF ServerInv, ServerTypeOK
<1>2. ServerTypeOK'
  BY <1>1 DEF ServerInv, ServerTypeOK
<1>3. \A j \in 1 .. Len(rpc) : rpc'[j].cq = rpc[j].cq /\ rpc[j].cq \in Cqs
  BY <1>1, ObjectTypes DEF ServerInv
<1>4. \A j \in 1 .. Len(rpc) : PlaceOf(j)' = PlaceOf(j)
  BY <1>3 DEF PlaceOf
<1>5. \A j \in 1 .. Len(rpc) : FiredOf(j, TRUE)' = FiredOf(j, TRUE) /\ FiredOf(j, FALSE)' = FiredOf(j, FALSE)
  BY <1>3 DEF FiredOf
<1>6. HeldOf(i)' = HeldOf(i) \cup X /\ \A j \in (1 .. Len(rpc)) \ {i} : HeldOf(j)' = HeldOf(j)
  BY DEF HeldOf
<1>7. \A c \in Cqs : ThreadInv(c)'
  <2> SUFFICES ASSUME NEW c \in Cqs PROVE ThreadInv(c)'
    OBVIOUS
  <2>1. \A e \in events[c] : e.id \in 1 .. Len(rpc)
    BY SMTT(30) DEF ServerInv, ServerTypeOK
  <2>2. QED  BY <1>1, <1>3, <2>1, SMTT(30) DEF ServerInv, ThreadInv
<1>8. QED  BY <1>1, <1>2, <1>3, <1>4, <1>5, <1>6, <1>7 DEF OneObject, Kept

LEMMA ClientCancelsInv ==
  ASSUME ServerInv, NEW i \in 1 .. Len(rpc), ClientCancels(i)
  PROVE  ServerInv'
<1>1. PICK r \in CallObjects, H \in SUBSET Tags, T \in SUBSET Tags, F \in SUBSET Tags, a \in Places :
        /\ r = rpc[i] /\ H = HeldOf(i) /\ T = FiredOf(i, TRUE) /\ F = FiredOf(i, FALSE)
        /\ a = PlaceOf(i) /\ Life(r, H, T, F, a) /\ Late(r, H, T, F, a, grpcDown)
  BY ObjectNow
<1>2. PICK q : q = [r EXCEPT !.call = "canceled"]
  OBVIOUS
<1>3. /\ r.call = "open" /\ rpc' = [rpc EXCEPT ![i] = q] /\ held' = held \cup ({i} \X {})
      /\ UNCHANGED <<m_state, registry, grpcDown, th, events>>
  BY <1>1, <1>2 DEF ClientCancels
<1>4. q \in CallObjects /\ q.cq = r.cq /\ q.kind = r.kind /\ q.call = "canceled" /\ q.live = r.live
  BY <1>2 DEF CallObjects
<1>5. /\ OneObject(i) /\ PlaceOf(i)' = a /\ rpc'[i] = q /\ HeldOf(i)' = H
      /\ FiredOf(i, TRUE)' = T /\ FiredOf(i, FALSE)' = F
  <2>1. {} \in SUBSET Tags /\ H = H \cup {}
    OBVIOUS
  <2>2. QED  BY <1>1, <1>3, <1>4, <2>1, StartOne
<1>6. Life(q, H, T, F, a)
  BY <1>1, <1>2, <1>3, CancelLife
<1>7. Late(q, H, T, F, a, grpcDown)
  <2>1. r.live
    BY <1>1, <1>3, OpenLives
  <2>2. QED  BY <1>1, <1>3, <1>4, <2>1 DEF Late
<1>8. ObjectInv(i)'
  BY <1>3, <1>5, <1>6, <1>7 DEF ObjectInv
<1>9. Listens(i)' <=> Listens(i)
  BY <1>1, <1>5 DEF Listens
<1>10. QED  BY <1>3, <1>5, <1>8, <1>9, ListenKept, OneObjectInv

(* What send_response does to the record r of an object that has a reference. *)
Sent(r, p, X) ==
  /\ p.kind = r.kind /\ p.cq = r.cq /\ p.call = r.call /\ p.canceled = r.canceled
  /\ p.retstatus = r.retstatus /\ p.handled = r.handled /\ p.app = r.app
  /\ \/ /\ X = {} /\ r.canceled /\ p.refs = r.refs - 1 /\ (p.live <=> r.refs > 1)
        /\ p.finishes = r.finishes
     \/ /\ X = {"sent"} /\ p.refs = r.refs /\ p.live = r.live /\ p.finishes = r.finishes + 1
     \/ /\ X = {"write"} /\ p.refs = r.refs + 1 /\ p.live = r.live /\ p.finishes = r.finishes

LEMMA Finished ==
  ASSUME NEW r \in CallObjects, NEW p, p = [r EXCEPT !.finishes = @ + 1]
  PROVE  p \in CallObjects /\ Sent(r, p, {"sent"})
<1>1. /\ p \in CallObjects /\ p.finishes = r.finishes + 1 /\ p.refs = r.refs /\ p.live = r.live
      /\ p.kind = r.kind /\ p.cq = r.cq /\ p.call = r.call /\ p.canceled = r.canceled
      /\ p.retstatus = r.retstatus /\ p.handled = r.handled /\ p.app = r.app
  BY SMTT(30) DEF CallObjects
<1>2. QED  BY <1>1 DEF Sent

LEMMA Referred ==
  ASSUME NEW r \in CallObjects, NEW p, p = [r EXCEPT !.refs = @ + 1]
  PROVE  p \in CallObjects /\ Sent(r, p, {"write"})
<1>1. /\ p \in CallObjects /\ p.refs = r.refs + 1 /\ p.finishes = r.finishes /\ p.live = r.live
      /\ p.kind = r.kind /\ p.cq = r.cq /\ p.call = r.call /\ p.canceled = r.canceled
      /\ p.retstatus = r.retstatus /\ p.handled = r.handled /\ p.app = r.app
  BY SMTT(30) DEF CallObjects
<1>2. QED  BY <1>1 DEF Sent

LEMMA SendFacts ==
  ASSUME NEW i, NEW q \in Seq(CallObjects), i \in 1 .. Len(q), NEW r \in CallObjects, r = q[i],
         r.refs > 0, send_response(i, q)
  PROVE  \E p \in CallObjects, X \in SUBSET Tags :
           /\ rpc' = [q EXCEPT ![i] = p] /\ held' = held \cup ({i} \X X) /\ Sent(r, p, X)
<1>1. CASE r.kind # "generic" /\ r.canceled
  <2>1. PICK n \in Nat, b \in BOOLEAN : n = r.refs - 1 /\ b = (r.refs > 1)
    <3>1. r.refs - 1 \in Nat /\ (r.refs > 1) \in BOOLEAN
      BY SMTT(30) DEF CallObjects
    <3>2. QED  BY <3>1
  <2>2. PICK p : p = [r EXCEPT !.refs = n, !.live = b]
    OBVIOUS
  <2>3. /\ p \in CallObjects /\ p.refs = n /\ p.live = b /\ p.kind = r.kind /\ p.cq = r.cq
        /\ p.call = r.call /\ p.canceled = r.canceled /\ p.retstatus = r.retstatus
        /\ p.handled = r.handled /\ p.app = r.app /\ p.finishes = r.finishes
    BY <2>2 DEF CallObjects
  <2>4. /\ rpc' = [q EXCEPT ![i].refs = @ - 1, ![i].live = q[i].refs > 1] /\ held' = held
    BY <1>1 DEF send_response, do_non_streaming_send
  <2>5. rpc' = [q EXCEPT ![i] = p]
    <3>1. rpc' = [q EXCEPT ![i].refs = n, ![i].live = b]
      BY <2>1, <2>4
    <3>2. QED  BY <2>2, <3>1
  <2>6. {} \in SUBSET Tags /\ held' = held \cup ({i} \X {})
    BY <2>4
  <2>7. Sent(r, p, {})
    BY <1>1, <2>1, <2>3 DEF Sent
  <2>8. QED  BY <2>3, <2>5, <2>6, <2>7
<1>2. CASE r.kind # "generic" /\ ~r.canceled
  <2>1. PICK p : p = [r EXCEPT !.finishes = @ + 1]
    OBVIOUS
  <2>2. p \in CallObjects /\ Sent(r, p, {"sent"})
    BY <2>1, Finished
  <2>3. /\ rpc' = [q EXCEPT ![i].finishes = @ + 1] /\ held' = held \cup {<<i, "sent">>}
    BY <1>2 DEF send_response, do_non_streaming_send
  <2>4. rpc' = [q EXCEPT ![i] = p] /\ held' = held \cup ({i} \X {"sent"}) /\ {"sent"} \in SUBSET Tags
    BY <2>1, <2>3, SMTT(30) DEF Tags
  <2>5. QED  BY <2>2, <2>4
<1>3. CASE r.kind = "generic"
  <2>1. PICK p : p = [r EXCEPT !.refs = @ + 1]
    OBVIOUS
  <2>2. p \in CallObjects /\ Sent(r, p, {"write"})
    BY <2>1, Referred
  <2>3. /\ rpc' = [q EXCEPT ![i].refs = @ + 1] /\ held' = held \cup {<<i, "write">>}
    BY <1>3 DEF send_response
  <2>4. rpc' = [q EXCEPT ![i] = p] /\ held' = held \cup ({i} \X {"write"}) /\ {"write"} \in SUBSET Tags
    BY <2>1, <2>3, SMTT(30) DEF Tags
  <2>5. QED  BY <2>2, <2>4
<1>4. QED  BY <1>1, <1>2, <1>3

(* The same object, its application having nothing left to do.                *)
Taken(r, s) ==
  /\ s.kind = r.kind /\ s.cq = r.cq /\ s.call = r.call /\ s.canceled = r.canceled
  /\ s.retstatus = r.retstatus /\ s.handled = r.handled /\ ~s.app
  /\ s.refs = r.refs /\ s.live = r.live /\ s.finishes = r.finishes

Turn(r, a, b) == (r.app /\ b = a) \/ (a = "send" /\ b = "return")

LEMMA SentLife ==
  ASSUME NEW r \in CallObjects, NEW H \in SUBSET Tags, NEW T \in SUBSET Tags, NEW F \in SUBSET Tags,
         NEW a \in Places, Life(r, H, T, F, a), NEW a2, Turn(r, a, a2),
         NEW s \in CallObjects, Taken(r, s),
         NEW p \in CallObjects, NEW X \in SUBSET Tags, Sent(s, p, X)
  PROVE  Life(p, H \cup X, T, F, a2) /\ p.kind = r.kind /\ p.cq = r.cq /\ "received" \notin X
<1>1. /\ s.kind = r.kind /\ s.cq = r.cq /\ s.call = r.call /\ s.canceled = r.canceled
      /\ s.retstatus = r.retstatus /\ s.handled = r.handled /\ ~s.app
      /\ s.refs = r.refs /\ s.live = r.live /\ s.finishes = r.finishes
      /\ ((r.app /\ a2 = a) \/ (a = "send" /\ a2 = "return"))
  BY DEF Taken, Turn
<1>2. CASE X = {}
  <2>1. H \cup X = H
    BY <1>2
  <2>2. /\ r.canceled /\ p.refs = r.refs - 1 /\ (p.live <=> r.refs > 1) /\ p.finishes = r.finishes
        /\ p.kind = r.kind /\ p.call = r.call /\ p.canceled = r.canceled /\ ~p.app
        /\ p.retstatus = r.retstatus /\ p.handled = r.handled /\ p.cq = r.cq
    BY <1>1, <1>2 DEF Sent
  <2>3. QED  BY <1>1, <1>2, <2>1, <2>2, RespondLife
<1>3. CASE X = {"sent"}
  BY <1>1, <1>3, RespondLife DEF Sent
<1>4. CASE X = {"write"}
  BY <1>1, <1>4, RespondLife DEF Sent
<1>5. QED  BY <1>2, <1>3, <1>4 DEF Sent

LEMMA AppRespondsInv ==
  ASSUME ServerInv, NEW i \in 1 .. Len(rpc), AppResponds(i)
  PROVE  ServerInv'
<1>1. PICK r \in CallObjects, H \in SUBSET Tags, T \in SUBSET Tags, F \in SUBSET Tags, a \in Places :
        /\ r = rpc[i] /\ H = HeldOf(i) /\ T = FiredOf(i, TRUE) /\ F = FiredOf(i, FALSE)
        /\ a = PlaceOf(i) /\ Life(r, H, T, F, a) /\ Late(r, H, T, F, a, grpcDown)
  BY ObjectNow
<1>2. PICK s : s = [r EXCEPT !.app = FALSE]
  OBVIOUS
<1>3. PICK q : q = [rpc EXCEPT ![i] = s]
  OBVIOUS
<1>4. r.app /\ send_response(i, q) /\ UNCHANGED <<m_state, registry, grpcDown, events, th>>
  BY <1>1, <1>2, <1>3 DEF AppResponds
<1>5. s \in CallObjects /\ s.refs = r.refs /\ s.cq = r.cq /\ s.kind = r.kind
  BY <1>2 DEF CallObjects
<1>6. q \in Seq(CallObjects) /\ Len(q) = Len(rpc) /\ q[i] = s
  BY <1>3, <1>5, SMTT(30) DEF ServerInv, ServerTypeOK
<1>7. r.live /\ r.call \in {"open", "canceled"} /\ r.refs > 0
  <2>1. Processed(r, H \cup T \cup F, a)
    BY <1>4 DEF Processed
  <2>2. r.live /\ r.call \in {"open", "canceled"}
    BY <1>1, <2>1, OpenLives
  <2>3. QED  BY <1>1, <2>2 DEF Life
<1>8. PICK p \in CallObjects, X \in SUBSET Tags :
        rpc' = [q EXCEPT ![i] = p] /\ held' = held \cup ({i} \X X) /\ Sent(s, p, X)
  BY <1>4, <1>5, <1>6, <1>7, SendFacts
<1>9. rpc' = [rpc EXCEPT ![i] = p]
  BY <1>3, <1>8
<1>10. Life(p, H \cup X, T, F, a) /\ p.kind = r.kind /\ p.cq = r.cq /\ "received" \notin X
  <2>1. Turn(r, a, a)
    BY <1>4 DEF Turn
  <2>2. Taken(r, s)
    BY <1>2 DEF Taken, CallObjects
  <2>3. Life(r, H, T, F, a) /\ Sent(s, p, X) /\ s \in CallObjects
    BY <1>1, <1>5, <1>8
  <2>4. QED  BY <2>1, <2>2, <2>3, SentLife
<1>11. Late(p, H \cup X, T, F, a, grpcDown)
  <2>1. grpcDown # 2 /\ p.call = r.call
    BY <1>1, <1>2, <1>7, <1>8 DEF Late, Sent, CallObjects
  <2>2. QED  BY <1>1, <2>1 DEF Late
<1>12. /\ OneObject(i) /\ PlaceOf(i)' = a /\ rpc'[i] = p /\ HeldOf(i)' = H \cup X
       /\ FiredOf(i, TRUE)' = T /\ FiredOf(i, FALSE)' = F
  BY <1>1, <1>4, <1>8, <1>9, <1>10, StartOne
<1>13. ObjectInv(i)'
  BY <1>4, <1>10, <1>11, <1>12 DEF ObjectInv
<1>14. Listens(i)' <=> Listens(i)
  BY <1>1, <1>10, <1>12 DEF Listens
<1>15. QED  BY <1>4, <1>12, <1>13, <1>14, ListenKept, OneObjectInv

------------------------------------------------------------------------------
(* A step of the service thread of queue c that serves object i, after which
   it is at w; it may have taken the completion e.                            *)
ThreadPlaces == {"poll", "send", "return", "check", "enqueue", "exited"}

Serves(i, c, X, D, q, w) ==
  /\ c = rpc[i].cq /\ held' = held \cup ({i} \X X)
  /\ (\A e \in D : e.id = i) /\ events' = [events EXCEPT ![c] = @ \ D]
  /\ rpc' = [rpc EXCEPT ![i] = q] /\ q.cq = rpc[i].cq /\ q.kind = rpc[i].kind
  /\ w \in [at : ThreadPlaces, id : {0, i}, refill : BOOLEAN] /\ th' = [th EXCEPT ![c] = w]
  /\ th[c].id \in {0, i} /\ th[c].at # "exited" /\ w.at # "exited"
  /\ (w.at = "poll" => w.id = 0 /\ ~w.refill) /\ (w.at # "poll" => w.id = i)
  /\ (w.at \in {"check", "enqueue"} => w.refill)
  /\ UNCHANGED <<m_state, registry, grpcDown>>

Served(i, c, X, D, q, w) ==
  /\ OneObject(i) /\ rpc'[i] = q /\ HeldOf(i)' = HeldOf(i) \cup X
  /\ PlaceOf(i)' = IF w.at \in {"send", "return"} THEN w.at ELSE "idle"
  /\ \A t \in Tags :
       /\ t \in FiredOf(i, TRUE)' <=> t \in FiredOf(i, TRUE) /\ [id |-> i, tag |-> t, ok |-> TRUE] \notin D
       /\ t \in FiredOf(i, FALSE)' <=> t \in FiredOf(i, FALSE) /\ [id |-> i, tag |-> t, ok |-> FALSE] \notin D
  /\ th'[c] = w /\ \A b \in Cqs \ {c} : th'[b] = th[b]

LEMMA ServeOne ==
  ASSUME ServerInv, NEW i \in 1 .. Len(rpc), NEW c \in Cqs, NEW X \in SUBSET Tags, NEW D,
         NEW q \in CallObjects, NEW w, Serves(i, c, X, D, q, w)
  PROVE  Served(i, c, X, D, q, w)
<1>0. /\ c = rpc[i].cq /\ held' = held \cup ({i} \X X)
      /\ (\A e \in D : e.id = i) /\ events' = [events EXCEPT ![c] = @ \ D]
      /\ rpc' = [rpc EXCEPT ![i] = q] /\ q.cq = rpc[i].cq /\ q.kind = rpc[i].kind
      /\ w \in [at : ThreadPlaces, id : {0, i}, refill : BOOLEAN] /\ th' = [th EXCEPT ![c] = w]
      /\ th[c].id \in {0, i} /\ th[c].at # "exited" /\ w.at # "exited"
      /\ (w.at = "poll" => w.id = 0 /\ ~w.refill) /\ (w.at # "poll" => w.id = i)
      /\ (w.at \in {"check", "enqueue"} => w.refill)
      /\ UNCHANGED <<m_state, registry, grpcDown>>
  BY DEF Serves
<1>1. /\ rpc' \in Seq(CallObjects) /\ Len(rpc') = Len(rpc) /\ rpc'[i] = q
      /\ \A j \in (1 .. Len(rpc)) \ {i} : rpc'[j] = rpc[j]
  BY <1>0, SMTT(30) DEF ServerInv, ServerTypeOK
<1>2. /\ events \in [Cqs -> SUBSET [id : 1 .. Len(rpc), tag : Tags, ok : BOOLEAN]]
      /\ th \in [Cqs -> [at : ThreadPlaces, id : 0 .. Len(rpc), refill : BOOLEAN]]
  BY DEF ServerInv, ServerTypeOK, ThreadPlaces
<1>3. /\ events'[c] = events[c] \ D /\ \A b \in Cqs \ {c} : events'[b] = events[b]
      /\ th'[c] = w /\ \A b \in Cqs \ {c} : th'[b] = th[b]
  BY <1>0, <1>2
<1>4. ServerTypeOK'
  <2>1. events' \in [Cqs -> SUBSET [id : 1 .. Len(rpc'), tag : Tags, ok : BOOLEAN]]
    BY <1>0, <1>1, <1>2
  <2>2. w \in [at : ThreadPlaces, id : 0 .. Len(rpc), refill : BOOLEAN]
    BY <1>0, <1>1, SMTT(30)
  <2>3. th' \in [Cqs -> [at : ThreadPlaces, id : 0 .. Len(rpc'), refill : BOOLEAN]]
    BY <1>0, <1>1, <1>2, <2>2
  <2>4. held' \subseteq (1 .. Len(rpc')) \X Tags
    BY <1>0, <1>1 DEF ServerInv, ServerTypeOK
  <2>5. QED  BY <1>0, <1>1, <2>1, <2>3, <2>4 DEF ServerInv, ServerTypeOK, ThreadPlaces
<1>5. \A j \in 1 .. Len(rpc) : rpc'[j].cq = rpc[j].cq /\ rpc[j].cq \in Cqs
  BY <1>0, <1>1, ObjectTypes DEF ServerInv
<1>6. HeldOf(i)' = HeldOf(i) \cup X /\ \A j \in (1 .. Len(rpc)) \ {i} : HeldOf(j)' = HeldOf(j)
  BY <1>0 DEF HeldOf
<1>7. \A j \in (1 .. Len(rpc)) \ {i} : PlaceOf(j)' = PlaceOf(j)
  BY <1>0, <1>3, <1>5, SMTT(30) DEF PlaceOf
<1>8. PlaceOf(i)' = IF w.at \in {"send", "return"} THEN w.at ELSE "idle"
  BY <1>0, <1>1, <1>3, SMTT(30) DEF PlaceOf
<1>9. \A j \in (1 .. Len(rpc)) \ {i} :
        FiredOf(j, TRUE)' = FiredOf(j, TRUE) /\ FiredOf(j, FALSE)' = FiredOf(j, FALSE)
  <2> SUFFICES ASSUME NEW j \in (1 .. Len(rpc)) \ {i}
               PROVE  FiredOf(j, TRUE)' = FiredOf(j, TRUE) /\ FiredOf(j, FALSE)' = FiredOf(j, FALSE)
    OBVIOUS
  <2>1. \A t, ok : [id |-> j, tag |-> t, ok |-> ok] \notin D
    BY <1>0
  <2>2. QED  BY <1>0, <1>3, <1>5, <2>1, SMTT(30) DEF FiredOf
<1>10. \A t \in Tags :
         /\ t \in FiredOf(i, TRUE)' <=> t \in FiredOf(i, TRUE) /\ [id |-> i, tag |-> t, ok |-> TRUE] \notin D
         /\ t \in FiredOf(i, FALSE)' <=> t \in FiredOf(i, FALSE) /\ [id |-> i, tag |-> t, ok |-> FALSE] \notin D
  BY <1>0, <1>1, <1>3 DEF FiredOf
<1>11. \A b \in Cqs : ThreadInv(b)'
  <2> SUFFICES ASSUME NEW b \in Cqs PROVE ThreadInv(b)'
    OBVIOUS
  <2>1. \A e \in events'[b] : e.id \in 1 .. Len(rpc) /\ rpc'[e.id].cq = b
    BY <1>0, <1>2, <1>3, <1>5, SMTT(30) DEF ServerInv, ThreadInv
  <2>2. CASE b = c
    BY <1>0, <1>1, <1>3, <2>1, <2>2, SMTT(30) DEF ThreadInv
  <2>3. CASE b # c
    BY <1>0, <1>1, <1>3, <1>5, <2>1, <2>3, SMTT(30) DEF ServerInv, ThreadInv
  <2>4. QED  BY <2>2, <2>3
<1>12. \A b \in Cqs : th[b].at = "exited" => th'[b] = th[b]
  BY <1>0, <1>3
<1>13. QED
  BY <1>0, <1>1, <1>3, <1>4, <1>6, <1>7, <1>8, <1>9, <1>10, <1>11, <1>12 DEF OneObject, Kept, Served

LEMMA ThreadTypes ==
  ASSUME ServerInv, NEW c \in Cqs
  PROVE  /\ th[c] \in [at : ThreadPlaces, id : 0 .. Len(rpc), refill : BOOLEAN]
         /\ th \in [Cqs -> [at : ThreadPlaces, id : 0 .. Len(rpc), refill : BOOLEAN]]
         /\ events \in [Cqs -> SUBSET [id : 1 .. Len(rpc), tag : Tags, ok : BOOLEAN]]
         /\ rpc \in Seq(CallObjects)
BY DEF ServerInv, ServerTypeOK, ThreadPlaces

LEMMA NothingTaken ==
  ASSUME ServerInv, NEW c \in Cqs, UNCHANGED events
  PROVE  events' = [events EXCEPT ![c] = @ \ {}]
BY ThreadTypes

LEMMA RespondsNowInv == ASSUME ServerInv, NEW c \in Cqs, RespondsNow(c) PROVE ServerInv'
<1>0. PICK i : i = th[c].id
  OBVIOUS
<1>1. i \in 1 .. Len(rpc) /\ rpc[i].cq = c /\ th[c].at = "send"
  BY <1>0 DEF RespondsNow, ServerInv, ThreadInv
<1>2. PICK r \in CallObjects, H \in SUBSET Tags, T \in SUBSET Tags, F \in SUBSET Tags, a \in Places :
        /\ r = rpc[i] /\ H = HeldOf(i) /\ T = FiredOf(i, TRUE) /\ F = FiredOf(i, FALSE)
        /\ a = PlaceOf(i) /\ Life(r, H, T, F, a) /\ Late(r, H, T, F, a, grpcDown)
  BY <1>1, ObjectNow
<1>3. a = "send"
  BY <1>0, <1>1, <1>2 DEF PlaceOf
<1>4. r.live /\ r.call \in {"open", "canceled"} /\ r.refs > 0 /\ Taken(r, r)
  <2>1. Processed(r, H \cup T \cup F, a)
    BY <1>3 DEF Processed
  <2>2. r.live /\ r.call \in {"open", "canceled"}
    BY <1>2, <2>1, OpenLives
  <2>3. ~r.app
    BY <1>2, <1>3, SendingHasNoApp
  <2>4. QED  BY <1>2, <2>2, <2>3 DEF Life, Taken
<1>5. PICK p \in CallObjects, X \in SUBSET Tags :
        rpc' = [rpc EXCEPT ![i] = p] /\ held' = held \cup ({i} \X X) /\ Sent(r, p, X)
  <2>1. send_response(i, rpc) /\ rpc \in Seq(CallObjects)
    BY <1>0, ThreadTypes DEF RespondsNow
  <2>2. QED  BY <1>1, <1>2, <1>4, <2>1, SendFacts
<1>6. Life(p, H \cup X, T, F, "return") /\ p.kind = r.kind /\ p.cq = r.cq /\ "received" \notin X
  <2>1. Turn(r, a, "return")
    BY <1>3 DEF Turn
  <2>2. Life(r, H, T, F, a)
    BY <1>2
  <2>3. QED  BY <1>4, <1>5, <2>1, <2>2, SentLife
<1>7. Late(p, H \cup X, T, F, "return", grpcDown)
  <2>1. grpcDown # 2 /\ p.call = r.call
    BY <1>2, <1>4, <1>5 DEF Late, Sent, CallObjects
  <2>2. QED  BY <1>2, <2>1 DEF Late
<1>8. PICK w : w = [th[c] EXCEPT !.at = "return"]
  OBVIOUS
<1>9. /\ w \in [at : ThreadPlaces, id : {0, i}, refill : BOOLEAN] /\ w.at = "return" /\ w.id = i
      /\ w.refill = th[c].refill /\ th' = [th EXCEPT ![c] = w]
      /\ UNCHANGED <<m_state, registry, grpcDown, events>>
  BY <1>0, <1>8, ThreadTypes DEF RespondsNow, ThreadPlaces
<1>10. /\ OneObject(i) /\ rpc'[i] = p /\ HeldOf(i)' = H \cup X /\ PlaceOf(i)' = "return"
       /\ \A t \in Tags : /\ t \in FiredOf(i, TRUE)' <=> t \in FiredOf(i, TRUE)
                          /\ t \in FiredOf(i, FALSE)' <=> t \in FiredOf(i, FALSE)
       /\ th'[c] = w /\ \A b \in Cqs \ {c} : th'[b] = th[b]
  <2>1. Serves(i, c, X, {}, p, w)
    BY <1>0, <1>1, <1>2, <1>5, <1>6, <1>9, NothingTaken DEF Serves
  <2>2. Served(i, c, X, {}, p, w)
    BY <1>1, <1>5, <2>1, ServeOne
  <2>3. QED  BY <1>2, <1>9, <2>2 DEF Served
<1>11. FiredOf(i, TRUE)' = T /\ FiredOf(i, FALSE)' = F
  BY <1>2, <1>10 DEF FiredOf
<1>12. ObjectInv(i)'
  BY <1>6, <1>7, <1>9, <1>10, <1>11 DEF ObjectInv
<1>13. Listens(i)' <=> Listens(i)
  BY <1>2, <1>6, <1>10, <1>11 DEF Listens
<1>14. ListenInv'
  BY <1>0, <1>1, <1>9, <1>10, <1>13, ListenKept
<1>15. QED  BY <1>1, <1>10, <1>12, <1>14, OneObjectInv

LEMMA TagProcessedInv == ASSUME ServerInv, NEW c \in Cqs, TagProcessed(c) PROVE ServerInv'
<1>0. PICK i : i = th[c].id
  OBVIOUS
<1>1. i \in 1 .. Len(rpc) /\ rpc[i].cq = c /\ th[c].at = "return"
  BY <1>0 DEF TagProcessed, ServerInv, ThreadInv
<1>2. PICK r \in CallObjects, H \in SUBSET Tags, T \in SUBSET Tags, F \in SUBSET Tags, a \in Places :
        /\ r = rpc[i] /\ H = HeldOf(i) /\ T = FiredOf(i, TRUE) /\ F = FiredOf(i, FALSE)
        /\ a = PlaceOf(i) /\ Life(r, H, T, F, a) /\ Late(r, H, T, F, a, grpcDown)
  BY <1>1, ObjectNow
<1>3. a = "return"
  BY <1>0, <1>1, <1>2 DEF PlaceOf
<1>4. PICK p : p = [r EXCEPT !.refs = @ + (-1), !.live = @ /\ r.refs + (-1) > 0]
  OBVIOUS
<1>5. rpc' = [rpc EXCEPT ![i] = p] /\ UNCHANGED <<m_state, registry, grpcDown, held, events>>
  BY <1>0, <1>2, <1>4 DEF TagProcessed, Refs
<1>6. p \in CallObjects /\ Life(p, H, T, F, "idle")
  <2>1. Life(r, H, T, F, "return")
    BY <1>2, <1>3
  <2>2. QED  BY <1>4, <2>1, ReturnLife
<1>7. p.kind = r.kind /\ p.cq = r.cq /\ p.call = r.call /\ (p.live => r.live)
  BY <1>4 DEF CallObjects
<1>8. Late(p, H, T, F, "idle", grpcDown)
  BY <1>2, <1>7 DEF Late
<1>9. PICK w : w = IF th[c].refill THEN [th[c] EXCEPT !.at = "check"] ELSE Polled
  OBVIOUS
<1>10. /\ w \in [at : ThreadPlaces, id : {0, i}, refill : BOOLEAN] /\ w.refill = th[c].refill
       /\ w.at \in {"check", "poll"} /\ (w.refill => w.id = i) /\ (w.at = "poll" => w.id = 0 /\ ~w.refill)
       /\ (w.at = "check" => w.refill) /\ th' = [th EXCEPT ![c] = w]
  <2>1. th' = [th EXCEPT ![c] = w]
    BY <1>9 DEF TagProcessed
  <2>2. CASE th[c].refill
    BY <1>0, <1>9, <2>1, <2>2, ThreadTypes DEF ThreadPlaces
  <2>3. CASE ~th[c].refill
    BY <1>0, <1>9, <2>1, <2>3, ThreadTypes DEF ThreadPlaces, Polled
  <2>4. QED  BY <2>2, <2>3
<1>11. /\ OneObject(i) /\ rpc'[i] = p /\ HeldOf(i)' = H \cup {} /\ PlaceOf(i)' = "idle"
       /\ \A t \in Tags : /\ t \in FiredOf(i, TRUE)' <=> t \in FiredOf(i, TRUE)
                          /\ t \in FiredOf(i, FALSE)' <=> t \in FiredOf(i, FALSE)
       /\ th'[c] = w /\ \A b \in Cqs \ {c} : th'[b] = th[b]
  <2>1. {} \in SUBSET Tags /\ held' = held \cup ({i} \X {})
    BY <1>5
  <2>2. Serves(i, c, {}, {}, p, w)
    BY <1>0, <1>1, <1>2, <1>5, <1>7, <1>10, <2>1, NothingTaken DEF Serves
  <2>3. Served(i, c, {}, {}, p, w)
    BY <1>1, <1>6, <2>1, <2>2, ServeOne
  <2>4. QED  BY <1>2, <1>10, <2>3 DEF Served
<1>12. FiredOf(i, TRUE)' = T /\ FiredOf(i, FALSE)' = F /\ HeldOf(i)' = H
  BY <1>2, <1>11 DEF FiredOf
<1>13. ObjectInv(i)'
  BY <1>5, <1>6, <1>8, <1>11, <1>12 DEF ObjectInv
<1>14. Listens(i)' <=> Listens(i)
  BY <1>2, <1>12 DEF Listens
<1>15. ListenInv'
  BY <1>0, <1>1, <1>10, <1>11, <1>14, ListenKept
<1>16. QED  BY <1>1, <1>11, <1>13, <1>15, OneObjectInv

(* The thread takes a completion e and runs its callback: q is the record it
   leaves, X what it starts, w where it goes.                                 *)
Handling(c, e, i, tag, r, H, T, F, q, X, w) ==
  /\ e \in events[c] /\ th[c].at = "poll" /\ i = e.id /\ tag = e.tag
  /\ r = rpc[i] /\ H = HeldOf(i) /\ T = FiredOf(i, TRUE) /\ F = FiredOf(i, FALSE)
  /\ Late(r, H, T, F, "idle", grpcDown) /\ T \cap F = {} /\ H \cap (T \cup F) = {}
  /\ q.call = r.call /\ (q.live => r.live)
  /\ "received" \notin X /\ Serves(i, c, X, {e}, q, w)
  /\ w.at \in {"send", "return"} /\ (w.refill => tag = "received")
  /\ (tag = "received" /\ m_state = "RUNNING" => w.refill)
  /\ Life(q, H \cup X, T \ {tag}, F \ {tag}, w.at)

LEMMA HandleOne ==
  ASSUME ServerInv, NEW c \in Cqs, NEW e, NEW i, NEW tag,
         NEW r \in CallObjects, NEW H \in SUBSET Tags, NEW T \in SUBSET Tags, NEW F \in SUBSET Tags,
         NEW q \in CallObjects, NEW X \in SUBSET Tags, NEW w,
         Handling(c, e, i, tag, r, H, T, F, q, X, w)
  PROVE  ServerInv'
<1>0. /\ e \in events[c] /\ th[c].at = "poll" /\ i = e.id /\ tag = e.tag
      /\ r = rpc[i] /\ H = HeldOf(i) /\ T = FiredOf(i, TRUE) /\ F = FiredOf(i, FALSE)
      /\ Late(r, H, T, F, "idle", grpcDown) /\ T \cap F = {} /\ H \cap (T \cup F) = {}
      /\ q.call = r.call /\ (q.live => r.live)
      /\ "received" \notin X /\ Serves(i, c, X, {e}, q, w)
      /\ w.at \in {"send", "return"} /\ (w.refill => tag = "received")
      /\ (tag = "received" /\ m_state = "RUNNING" => w.refill)
      /\ Life(q, H \cup X, T \ {tag}, F \ {tag}, w.at)
  BY DEF Handling
<1> USE <1>0
<1>1. /\ i \in 1 .. Len(rpc) /\ tag \in Tags /\ e.ok \in BOOLEAN /\ rpc[i].cq = c
      /\ e = [id |-> i, tag |-> tag, ok |-> e.ok] /\ th[c].id = 0 /\ ~th[c].refill
  <2>1. e \in [id : 1 .. Len(rpc), tag : Tags, ok : BOOLEAN]
    BY ThreadTypes
  <2>2. rpc[i].cq = c /\ th[c].id = 0 /\ ~th[c].refill
    BY DEF ServerInv, ThreadInv
  <2>3. QED  BY <2>1, <2>2
<1>2. Served(i, c, X, {e}, q, w)
  BY <1>1, ServeOne
<1>3. /\ OneObject(i) /\ rpc'[i] = q /\ HeldOf(i)' = H \cup X /\ PlaceOf(i)' = w.at
      /\ th'[c] = w /\ \A b \in Cqs \ {c} : th'[b] = th[b]
  BY <1>2 DEF Served
<1>4. FiredOf(i, TRUE)' = T \ {tag} /\ FiredOf(i, FALSE)' = F \ {tag}
  <2>1. \A t \in Tags :
          /\ t \in FiredOf(i, TRUE)' <=> t \in T /\ [id |-> i, tag |-> t, ok |-> TRUE] # e
          /\ t \in FiredOf(i, FALSE)' <=> t \in F /\ [id |-> i, tag |-> t, ok |-> FALSE] # e
    BY <1>2 DEF Served
  <2>2. FiredOf(i, TRUE)' \subseteq Tags /\ FiredOf(i, FALSE)' \subseteq Tags
    BY DEF FiredOf
  <2>3. CASE e.ok = TRUE
    <3>1. tag \in T
      BY <1>1, <2>3 DEF FiredOf
    <3>2. \A t \in Tags : /\ [id |-> i, tag |-> t, ok |-> TRUE] # e <=> t # tag
                          /\ [id |-> i, tag |-> t, ok |-> FALSE] # e
      BY <1>1, <2>3, SMTT(30)
    <3>3. QED  BY <2>1, <2>2, <3>1, <3>2
  <2>4. CASE e.ok = FALSE
    <3>1. tag \in F
      BY <1>1, <2>4 DEF FiredOf
    <3>2. \A t \in Tags : /\ [id |-> i, tag |-> t, ok |-> FALSE] # e <=> t # tag
                          /\ [id |-> i, tag |-> t, ok |-> TRUE] # e
      BY <1>1, <2>4, SMTT(30)
    <3>3. QED  BY <2>1, <2>2, <3>1, <3>2
  <2>5. QED  BY <1>1, <2>3, <2>4
<1>5. ObjectInv(i)'
  <2>1. Late(q, H \cup X, T \ {tag}, F \ {tag}, w.at, grpcDown)
    BY DEF Late
  <2>2. grpcDown' = grpcDown
    BY DEF Serves
  <2>3. QED  BY <1>3, <1>4, <2>1, <2>2 DEF ObjectInv
<1>6. CASE tag # "received"
  <2>1. Listens(i)' <=> Listens(i)
    BY <1>3, <1>4, <1>6 DEF Listens
  <2>2. ~w.refill /\ w.refill \in BOOLEAN /\ th[c].refill \in BOOLEAN
    BY <1>6, ThreadTypes DEF Serves
  <2>3. \A b \in Cqs : th'[b].refill = th[b].refill /\ (th[b].refill => th'[b].id = th[b].id)
    BY <1>1, <1>3, <2>2
  <2>4. ListenInv'
    BY <1>1, <1>3, <2>1, <2>3, ListenKept
  <2>5. QED  BY <1>1, <1>3, <1>5, <2>4, OneObjectInv
<1>7. CASE tag = "received"
  <2>1. Listens(i) /\ ~Listens(i)'
    <3>1. tag \in T \cup F
      BY <1>1 DEF FiredOf
    <3>2. QED  BY <1>3, <1>4, <1>7, <3>1 DEF Listens
  <2>2. \A j \in 1 .. Len(rpc) : /\ j # i => (Listens(j)' <=> Listens(j))
                                 /\ rpc'[j].kind = rpc[j].kind /\ rpc'[j].cq = rpc[j].cq
                                 /\ rpc[j].cq \in Cqs /\ rpc[j].kind \in registry
    BY <1>3, ObjectTypes DEF OneObject, Kept, Listens, ServerInv, ListenInv
  <2>3. /\ \A k : ~Refilling(c, k) /\ (Refilling(c, k)' => k = r.kind)
        /\ \A k : Refilling(c, k)' <=> w.refill /\ k = r.kind
        /\ \A b \in Cqs \ {c} : \A k : Refilling(b, k)' <=> Refilling(b, k)
    <3>1. w.id = i
      BY DEF Serves
    <3>2. \A b \in Cqs : th[b].refill => th[b].id \in 1 .. Len(rpc)
      BY DEF ServerInv, ThreadInv
    <3>3. QED  BY <1>1, <1>3, <2>2, <3>1, <3>2, SMTT(30) DEF Refilling
  <2>4. /\ Len(rpc') = Len(rpc) /\ registry' = registry /\ m_state' = m_state
    BY <1>3 DEF OneObject
  <2>5. ASSUME NEW j \in 1 .. Len(rpc), Listens(j)' PROVE ~Refilling(rpc[j].cq, rpc[j].kind)'
    <3>1. j # i /\ Listens(j)
      BY <2>1, <2>2, <2>5
    <3>2. PICK b, k : b = rpc[j].cq /\ k = rpc[j].kind
      OBVIOUS
    <3>3. b \in Cqs /\ b = rpc'[j].cq /\ k = rpc'[j].kind
      BY <2>2, <3>2
    <3>4. ~Refilling(b, k)'
      <4>1. CASE b = c
        <5>1. k # r.kind
          <6>1. \A x, y \in 1 .. Len(rpc) :
                  Listens(x) /\ Listens(y) /\ rpc[x].kind = rpc[y].kind /\ rpc[x].cq = rpc[y].cq => x = y
            BY DEF ServerInv, ListenInv
          <6>2. QED  BY <1>1, <2>1, <3>1, <3>2, <4>1, <6>1
        <5>2. QED  BY <2>3, <4>1, <5>1
      <4>2. CASE b # c
        <5>1. ~Refilling(b, k)
          BY <3>1, <3>2 DEF ServerInv, ListenInv
        <5>2. QED  BY <2>3, <3>3, <4>2, <5>1
      <4>3. QED  BY <4>1, <4>2
    <3>5. QED  BY <3>3, <3>4 DEF Refilling
  <2>6. ASSUME NEW k \in registry, NEW b \in Cqs, m_state = "RUNNING"
        PROVE  \/ Refilling(b, k)'
               \/ \E j \in 1 .. Len(rpc) : Listens(j)' /\ rpc[j].kind = k /\ rpc[j].cq = b
    <3>1. CASE Refilling(b, k)
      BY <2>3, <3>1
    <3>2. CASE \E j \in 1 .. Len(rpc) : Listens(j) /\ rpc[j].kind = k /\ rpc[j].cq = b
      <4>1. PICK j \in 1 .. Len(rpc) : Listens(j) /\ rpc[j].kind = k /\ rpc[j].cq = b
        BY <3>2
      <4>2. CASE j = i
        BY <1>1, <1>7, <2>3, <2>6, <4>1, <4>2
      <4>3. CASE j # i
        BY <2>2, <4>1, <4>3
      <4>4. QED  BY <4>2, <4>3
    <3>3. QED  BY <2>6, <3>1, <3>2, SMTT(30) DEF ServerInv, ListenInv
  <2>7. /\ \A j \in 1 .. Len(rpc') : rpc'[j].kind \in registry'
        /\ \A j, l \in 1 .. Len(rpc') :
             Listens(j)' /\ Listens(l)' /\ rpc'[j].kind = rpc'[l].kind /\ rpc'[j].cq = rpc'[l].cq => j = l
    BY <2>1, <2>2, <2>4, SMTT(30) DEF ServerInv, ListenInv
  <2>8. m_state' = "RUNNING" => \A k \in registry', b \in Cqs :
          \/ Refilling(b, k)'
          \/ \E j \in 1 .. Len(rpc') : Listens(j)' /\ rpc'[j].kind = k /\ rpc'[j].cq = b
    BY <2>2, <2>4, <2>6, SMTT(30)
  <2>9. ListenInv'
    BY <2>4, <2>5, <2>7, <2>8 DEF ListenInv
  <2>10. QED  BY <1>1, <1>3, <1>5, <2>9, OneObjectInv
<1>8. QED  BY <1>6, <1>7

(* What a callback may leave behind.                                          *)
Outcome(c, i, e, r, H, T, F, q, X, place, more) ==
  /\ rpc' = [rpc EXCEPT ![i] = q] /\ held' = held \cup ({i} \X X)
  /\ th' = [th EXCEPT ![c] = [at |-> place, id |-> i, refill |-> more]]
  /\ q.cq = r.cq /\ q.kind = r.kind /\ q.call = r.call /\ (q.live => r.live)
  /\ "received" \notin X /\ place \in {"send", "return"}
  /\ (more => e.tag = "received") /\ (e.tag = "received" /\ m_state = "RUNNING" => more)
  /\ Life(q, H \cup X, T \ {e.tag}, F \ {e.tag}, place)

LEMMA HandleRpcsInv == ASSUME ServerInv, NEW c \in Cqs, HandleRpcs(c) PROVE ServerInv'
<1>1. PICK e \in events[c] :
       /\ events' = [events EXCEPT ![c] = @ \ {e}]
       /\ \/ /\ e.tag = "received"
             /\ \E v \in Verdicts :
                  IF rpc[e.id].kind = "generic" THEN GenericReceived(c, e.id, e.ok, v)
                  ELSE UnaryReceived(c, e.id, e.ok, v)
          \/ e.tag = "read" /\ \E v \in Verdicts : BufRead(c, e.id, v)
          \/ e.tag = "write" /\ BufWritten(c, e.id)
          \/ e.tag = "done" /\ RequestDone(c, e.id)
          \/ /\ e.tag \in {"sent", "completed"} /\ Goes(c, "return", e.id, FALSE)
             /\ UNCHANGED <<rpc, held>>
  BY DEF HandleRpcs, run_generic_handler_cb, Verdicts
<1>2. PICK i, tag, ok : i = e.id /\ tag = e.tag /\ ok = e.ok
  OBVIOUS
<1>3. /\ i \in 1 .. Len(rpc) /\ tag \in Tags /\ ok \in BOOLEAN /\ rpc[i].cq = c
      /\ e = [id |-> i, tag |-> tag, ok |-> ok] /\ th[c].at = "poll" /\ th[c].id = 0
      /\ UNCHANGED <<m_state, registry, grpcDown>>
  <2>1. e \in [id : 1 .. Len(rpc), tag : Tags, ok : BOOLEAN]
    BY ThreadTypes
  <2>2. rpc[i].cq = c /\ th[c].id = 0 /\ th[c].at = "poll"
    BY <1>2 DEF HandleRpcs, ServerInv, ThreadInv
  <2>3. QED  BY <1>2, <2>1, <2>2 DEF HandleRpcs
<1>4. PICK r \in CallObjects, H \in SUBSET Tags, T \in SUBSET Tags, F \in SUBSET Tags, a \in Places :
        /\ r = rpc[i] /\ H = HeldOf(i) /\ T = FiredOf(i, TRUE) /\ F = FiredOf(i, FALSE)
        /\ a = PlaceOf(i) /\ Life(r, H, T, F, a) /\ Late(r, H, T, F, a, grpcDown)
  BY <1>3, ObjectNow
<1>5. a = "idle"
  BY <1>3, <1>4 DEF PlaceOf
<1>6. /\ ok => tag \in T
      /\ ~ok => tag \in F
      /\ T \cap F = {} /\ H \cap (T \cup F) = {}
  <2>1. CASE ok = TRUE
    BY <1>3, <1>4, <2>1 DEF FiredOf, Life
  <2>2. CASE ok = FALSE
    BY <1>3, <1>4, <2>2 DEF FiredOf, Life
  <2>3. QED  BY <1>3, <2>1, <2>2
<1>7. tag = "received" /\ m_state = "RUNNING" => ok
  BY <1>4, <1>6 DEF ServerInv, Late, Life, CallStands
<1>8. ASSUME NEW q \in CallObjects, NEW X \in SUBSET Tags, NEW place, NEW more \in BOOLEAN,
             Outcome(c, i, e, r, H, T, F, q, X, place, more)
      PROVE  ServerInv'
  <2>1. PICK w : w = [at |-> place, id |-> i, refill |-> more]
    OBVIOUS
  <2>2. /\ rpc' = [rpc EXCEPT ![i] = q] /\ held' = held \cup ({i} \X X) /\ th' = [th EXCEPT ![c] = w]
        /\ q.cq = r.cq /\ q.kind = r.kind /\ q.call = r.call /\ (q.live => r.live)
        /\ "received" \notin X /\ w.at \in {"send", "return"} /\ w.at = place
        /\ (w.refill => tag = "received") /\ (tag = "received" /\ m_state = "RUNNING" => w.refill)
        /\ Life(q, H \cup X, T \ {tag}, F \ {tag}, w.at)
    BY <1>2, <1>8, <2>1 DEF Outcome
  <2>3. Serves(i, c, X, {e}, q, w)
    <3>1. w \in [at : ThreadPlaces, id : {0, i}, refill : BOOLEAN] /\ w.id = i
      BY <2>1, <2>2 DEF ThreadPlaces
    <3>2. \A x \in {e} : x.id = i
      BY <1>2
    <3>3. QED  BY <1>1, <1>3, <1>4, <2>2, <3>1, <3>2 DEF Serves
  <2>4. Handling(c, e, i, tag, r, H, T, F, q, X, w)
    BY <1>2, <1>3, <1>4, <1>5, <1>6, <2>2, <2>3 DEF Handling
  <2>5. QED  BY <1>4, <1>8, <2>4, HandleOne
<1>9. /\ rpc = [rpc EXCEPT ![i] = r] /\ held = held \cup ({i} \X {}) /\ H = H \cup {}
      /\ \A t : {i} \X {t} = {<<i, t>>}
  <2>1. rpc \in Seq(CallObjects)
    BY DEF ServerInv, ServerTypeOK
  <2>2. QED  BY <1>3, <1>4, <2>1, SMTT(30)
<1>10. PICK more \in BOOLEAN : more = (ok /\ m_state = "RUNNING")
  BY <1>3
<1>11. CASE tag = "received"
  <2>1. PICK v \in Verdicts : IF r.kind = "generic" THEN GenericReceived(c, i, ok, v)
                              ELSE UnaryReceived(c, i, ok, v)
    BY <1>1, <1>2, <1>4, <1>11
  <2>2. CASE ~ok
    <3>1. rpc' = rpc /\ held' = held /\ Goes(c, "return", i, more)
      BY <1>10, <2>1, <2>2 DEF GenericReceived, UnaryReceived
    <3>2. Life(r, H, T \ {tag}, F \ {tag}, "return")
      BY <1>4, <1>5, <1>6, <1>11, <2>2, TagLife
    <3>3. Outcome(c, i, e, r, H, T, F, r, {}, "return", more)
      BY <1>2, <1>7, <1>9, <1>10, <1>11, <2>2, <3>1, <3>2 DEF Outcome, Goes
    <3>4. QED  BY <1>8, <3>3
  <2>3. CASE ok /\ r.kind # "generic"
    <3>1. PICK q, place : q = Judged(r, v) /\ place = IF v = "deferred" THEN "return" ELSE "send"
      OBVIOUS
    <3>2. rpc' = [rpc EXCEPT ![i] = q] /\ held' = held /\ Goes(c, place, i, more)
      BY <1>4, <1>10, <2>1, <2>3, <3>1 DEF UnaryReceived
    <3>3. q \in CallObjects /\ q.cq = r.cq /\ q.kind = r.kind /\ q.live = r.live /\ q.call = r.call
      BY <3>1, JudgedFacts
    <3>4. Life(q, H, T \ {tag}, F \ {tag}, place)
      BY <1>4, <1>5, <1>6, <1>11, <2>3, <3>1, UnaryLife
    <3>5. Outcome(c, i, e, r, H, T, F, q, {}, place, more)
      BY <1>2, <1>9, <1>10, <1>11, <2>3, <3>1, <3>2, <3>3, <3>4 DEF Outcome, Goes
    <3>6. QED  BY <1>8, <3>3, <3>5
  <2>4. CASE ok /\ r.kind = "generic" /\ v = "refused"
    <3>1. PICK q : q = [Judged(r, "refused") EXCEPT !.finishes = @ + 1]
      OBVIOUS
    <3>2. /\ rpc' = [rpc EXCEPT ![i] = q] /\ held' = held \cup ({i} \X {"completed"})
          /\ Goes(c, "return", i, more)
      <4>1. GenericReceived(c, i, TRUE, "refused") /\ more = (TRUE /\ m_state = "RUNNING")
        BY <1>3, <1>10, <2>1, <2>4
      <4>2. /\ rpc' = [rpc EXCEPT ![i] = [Judged(rpc[i], "refused") EXCEPT !.finishes = @ + 1]]
            /\ held' = held \cup {<<i, "completed">>} /\ Goes(c, "return", i, more)
        BY <4>1 DEF GenericReceived
      <4>3. rpc' = [rpc EXCEPT ![i] = q]
        BY <1>4, <3>1, <4>2
      <4>4. QED  BY <1>9, <4>2, <4>3
    <3>3. /\ q \in CallObjects /\ q.cq = r.cq /\ q.kind = r.kind /\ q.live = r.live /\ q.call = r.call
          /\ Life(q, H \cup {"completed"}, T \ {tag}, F \ {tag}, "return")
      <4>1. F \ {tag} = F /\ "received" \in T
        BY <1>6, <1>11, <2>4
      <4>2. Life(r, H, T, F, "idle")
        BY <1>4, <1>5
      <4>3. /\ q \in CallObjects /\ q.cq = r.cq /\ q.kind = r.kind /\ q.live = r.live /\ q.call = r.call
            /\ Life(q, H \cup {"completed"}, T \ {"received"}, F, "return")
        BY <3>1, <4>1, <4>2, GenericRefusedLife
      <4>4. QED  BY <1>11, <4>1, <4>3
    <3>4. Outcome(c, i, e, r, H, T, F, q, {"completed"}, "return", more)
      BY <1>2, <1>10, <1>11, <2>4, <3>2, <3>3 DEF Outcome, Goes
    <3>5. {"completed"} \in SUBSET Tags
      BY DEF Tags
    <3>6. QED  BY <1>8, <3>3, <3>4, <3>5
  <2>5. CASE ok /\ r.kind = "generic" /\ v # "refused"
    <3>1. PICK q : q = [r EXCEPT !.refs = @ + 1]
      OBVIOUS
    <3>2. /\ rpc' = [rpc EXCEPT ![i] = q] /\ held' = held \cup ({i} \X {"read"})
          /\ Goes(c, "return", i, more)
      BY <1>4, <1>9, <1>10, <2>1, <2>5, <3>1 DEF GenericReceived
    <3>3. /\ q \in CallObjects /\ q.cq = r.cq /\ q.kind = r.kind /\ q.live = r.live /\ q.call = r.call
          /\ Life(q, H \cup {"read"}, T \ {tag}, F \ {tag}, "return")
      <4>1. F \ {tag} = F /\ "received" \in T
        BY <1>6, <1>11, <2>5
      <4>2. Life(r, H, T, F, "idle")
        BY <1>4, <1>5
      <4>3. /\ q \in CallObjects /\ q.cq = r.cq /\ q.kind = r.kind /\ q.live = r.live /\ q.call = r.call
            /\ Life(q, H \cup {"read"}, T \ {"received"}, F, "return")
        BY <3>1, <4>1, <4>2, GenericReadLife, SMTT(30)
      <4>4. QED  BY <1>11, <4>1, <4>3
    <3>4. Outcome(c, i, e, r, H, T, F, q, {"read"}, "return", more)
      BY <1>2, <1>10, <1>11, <2>5, <3>2, <3>3 DEF Outcome, Goes
    <3>5. {"read"} \in SUBSET Tags
      BY DEF Tags
    <3>6. QED  BY <1>8, <3>3, <3>4, <3>5
  <2>6. QED  BY <2>2, <2>3, <2>4, <2>5
<1>12. CASE tag = "read"
  <2>1. PICK v \in Verdicts : BufRead(c, i, v)
    BY <1>1, <1>2, <1>12
  <2>2. PICK q, place : q = Judged(r, v) /\ place = IF v = "deferred" THEN "return" ELSE "send"
    OBVIOUS
  <2>3. rpc' = [rpc EXCEPT ![i] = q] /\ held' = held /\ Goes(c, place, i, FALSE)
    BY <1>4, <2>1, <2>2 DEF BufRead
  <2>4. q \in CallObjects /\ q.cq = r.cq /\ q.kind = r.kind /\ q.live = r.live /\ q.call = r.call
    BY <2>2, JudgedFacts
  <2>5. Life(q, H, T \ {tag}, F \ {tag}, place)
    BY <1>3, <1>4, <1>5, <1>6, <1>12, <2>2, UnaryLife
  <2>6. Outcome(c, i, e, r, H, T, F, q, {}, place, FALSE)
    BY <1>2, <1>9, <1>12, <2>2, <2>3, <2>4, <2>5 DEF Outcome, Goes
  <2>7. QED  BY <1>8, <2>4, <2>6
<1>13. CASE tag = "write"
  <2>1. PICK q : q = [r EXCEPT !.finishes = @ + 1]
    OBVIOUS
  <2>2. /\ rpc' = [rpc EXCEPT ![i] = q] /\ held' = held \cup ({i} \X {"completed"})
        /\ Goes(c, "return", i, FALSE)
    BY <1>1, <1>2, <1>4, <1>9, <1>13, <2>1 DEF BufWritten
  <2>3. /\ q \in CallObjects /\ q.cq = r.cq /\ q.kind = r.kind /\ q.live = r.live /\ q.call = r.call
        /\ Life(q, H \cup {"completed"}, T \ {tag}, F \ {tag}, "return")
    <3>1. Life(r, H, T, F, "idle") /\ "write" \in T \cup F
      BY <1>3, <1>4, <1>5, <1>6, <1>13
    <3>2. /\ q \in CallObjects /\ q.cq = r.cq /\ q.kind = r.kind /\ q.live = r.live /\ q.call = r.call
          /\ Life(q, H \cup {"completed"}, T \ {"write"}, F \ {"write"}, "return")
      BY <2>1, <3>1, BufWrittenLife, SMTT(30)
    <3>3. QED  BY <1>13, <3>2
  <2>4. Outcome(c, i, e, r, H, T, F, q, {"completed"}, "return", FALSE)
    BY <1>2, <1>13, <2>2, <2>3 DEF Outcome, Goes
  <2>5. {"completed"} \in SUBSET Tags
    BY DEF Tags
  <2>6. QED  BY <1>8, <2>3, <2>4, <2>5
<1>14. CASE tag = "done"
  <2>1. PICK q : q = [r EXCEPT !.canceled = @ \/ r.call = "canceled"]
    OBVIOUS
  <2>2. rpc' = [rpc EXCEPT ![i] = q] /\ held' = held /\ Goes(c, "return", i, FALSE)
    <3>1. RequestDone(c, i)
      BY <1>1, <1>2, <1>14
    <3>2. QED  BY <1>4, <2>1, <3>1 DEF RequestDone
  <2>3. /\ q \in CallObjects /\ q.cq = r.cq /\ q.kind = r.kind /\ q.live = r.live /\ q.call = r.call
        /\ Life(q, H, T \ {tag}, F \ {tag}, "return")
    <3>1. Life(r, H, T, F, "idle") /\ "done" \in T \cup F
      BY <1>3, <1>4, <1>5, <1>6, <1>14
    <3>2. /\ q \in CallObjects /\ q.cq = r.cq /\ q.kind = r.kind /\ q.live = r.live /\ q.call = r.call
          /\ Life(q, H, T \ {"done"}, F \ {"done"}, "return")
      BY <2>1, <3>1, RequestDoneLife, SMTT(30)
    <3>3. QED  BY <1>14, <3>2
  <2>4. Outcome(c, i, e, r, H, T, F, q, {}, "return", FALSE)
    BY <1>2, <1>9, <1>14, <2>2, <2>3 DEF Outcome, Goes
  <2>5. QED  BY <1>8, <2>3, <2>4
<1>15. CASE tag \in {"sent", "completed"}
  <2>1. rpc' = rpc /\ held' = held /\ Goes(c, "return", i, FALSE)
    BY <1>1, <1>2, <1>15
  <2>2. Life(r, H, T \ {tag}, F \ {tag}, "return")
    BY <1>3, <1>4, <1>5, <1>6, <1>15, TagLife
  <2>3. Outcome(c, i, e, r, H, T, F, r, {}, "return", FALSE)
    BY <1>2, <1>9, <1>15, <2>1, <2>2 DEF Outcome, Goes
  <2>4. QED  BY <1>8, <2>3
<1>16. QED  BY <1>1, <1>2, <1>11, <1>12, <1>13, <1>14, <1>15

(* Steps that leave the objects, their tags and the queues alone.             *)
LEMMA SameObjects ==
  ASSUME UNCHANGED <<rpc, held, events>>, NEW i
  PROVE  /\ HeldOf(i)' = HeldOf(i) /\ FiredOf(i, TRUE)' = FiredOf(i, TRUE)
         /\ FiredOf(i, FALSE)' = FiredOf(i, FALSE) /\ (Listens(i)' <=> Listens(i))
         /\ UNCHANGED th => PlaceOf(i)' = PlaceOf(i)
BY DEF HeldOf, FiredOf, Listens, PlaceOf

LEMMA RefillCheckInv == ASSUME ServerInv, NEW c \in Cqs, RefillCheck(c) PROVE ServerInv'
<1>1. PICK w : w = IF m_state = "RUNNING" THEN [th[c] EXCEPT !.at = "enqueue"] ELSE Polled
  OBVIOUS
<1>2. /\ th[c].at = "check" /\ th' = [th EXCEPT ![c] = w]
      /\ UNCHANGED <<m_state, registry, grpcDown, rpc, held, events>>
  BY <1>1 DEF RefillCheck
<1>3. /\ th[c] \in [at : ThreadPlaces, id : 0 .. Len(rpc), refill : BOOLEAN]
      /\ th \in [Cqs -> [at : ThreadPlaces, id : 0 .. Len(rpc), refill : BOOLEAN]]
      /\ th[c].id \in 1 .. Len(rpc) /\ rpc[th[c].id].cq = c /\ th[c].refill
  BY <1>2, ThreadTypes DEF ServerInv, ThreadInv
<1>4. /\ w \in [at : ThreadPlaces, id : 0 .. Len(rpc), refill : BOOLEAN]
      /\ m_state = "RUNNING" => w.at = "enqueue" /\ w.id = th[c].id /\ w.refill
      /\ m_state # "RUNNING" => w.at = "poll" /\ w.id = 0 /\ ~w.refill
  BY <1>1, <1>3, SMTT(30) DEF Polled, ThreadPlaces
<1>5. /\ th' \in [Cqs -> [at : ThreadPlaces, id : 0 .. Len(rpc), refill : BOOLEAN]]
      /\ th'[c] = w /\ \A b \in Cqs \ {c} : th'[b] = th[b]
  BY <1>2, <1>3, <1>4
<1>6. ServerTypeOK'
  BY <1>2, <1>5 DEF ServerInv, ServerTypeOK, ThreadPlaces
<1>7. \A b \in Cqs : ThreadInv(b)'
  <2>1. ThreadInv(c)'
    BY <1>2, <1>3, <1>4, <1>5, SMTT(30) DEF ServerInv, ThreadInv
  <2>2. \A b \in Cqs \ {c} : ThreadInv(b)'
    BY <1>2, <1>5 DEF ServerInv, ThreadInv
  <2>3. QED  BY <2>1, <2>2
<1>8. \A i \in 1 .. Len(rpc') : ObjectInv(i)'
  <2> SUFFICES ASSUME NEW i \in 1 .. Len(rpc) PROVE ObjectInv(i)'
    BY <1>2
  <2>1. PlaceOf(i)' = PlaceOf(i)
    <3>1. rpc[i].cq \in Cqs /\ rpc'[i].cq = rpc[i].cq
      BY <1>2, ObjectTypes DEF ServerInv
    <3>2. QED  BY <1>2, <1>4, <1>5, <3>1 DEF PlaceOf
  <2>2. QED  BY <1>2, <2>1, SameObjects DEF ServerInv, ObjectInv
<1>9. ListenInv'
  <2>1. \A b \in Cqs : \A k : Refilling(b, k)' => Refilling(b, k)
    BY <1>2, <1>3, <1>4, <1>5 DEF Refilling
  <2>2. m_state = "RUNNING" => \A b \in Cqs : \A k : Refilling(b, k) => Refilling(b, k)'
    BY <1>2, <1>3, <1>4, <1>5 DEF Refilling
  <2>3. \A i \in 1 .. Len(rpc) : rpc[i].cq \in Cqs /\ (Listens(i)' <=> Listens(i))
    BY <1>2, ObjectTypes, SameObjects DEF ServerInv
  <2>4. \A i \in 1 .. Len(rpc) : Listens(i)' => ~Refilling(rpc[i].cq, rpc[i].kind)'
    <3> SUFFICES ASSUME NEW i \in 1 .. Len(rpc), Listens(i)'
                 PROVE  ~Refilling(rpc[i].cq, rpc[i].kind)'
      OBVIOUS
    <3>1. PICK b, k : b \in Cqs /\ b = rpc[i].cq /\ k = rpc[i].kind
      BY <2>3
    <3>2. ~Refilling(b, k)'
      BY <2>1, <2>3, <3>1, SMTT(30) DEF ServerInv, ListenInv
    <3>3. QED  BY <1>2, <3>1, <3>2 DEF Refilling
  <2>5. QED  BY <1>2, <2>2, <2>3, <2>4, SMTT(30) DEF ServerInv, ListenInv
<1>10. QED  BY <1>2, <1>4, <1>5, <1>6, <1>7, <1>8, <1>9 DEF ServerInv

(* A thread that goes no longer serves an object.                             *)
LEMMA ExitLife ==
  ASSUME NEW r \in CallObjects, NEW H \in SUBSET Tags, NEW T \in SUBSET Tags, NEW F \in SUBSET Tags,
         Life(r, H, T, F, "idle")
  PROVE  Life(r, H, T, F, "exited")
BY DEF Life, RefsExact, OnePlace, CallStands, Answers, Processed, One

LEMMA ThreadExitsInv == ASSUME ServerInv, NEW c \in Cqs, ThreadExits(c) PROVE ServerInv'
<1>1. PICK w : w = [th[c] EXCEPT !.at = "exited"]
  OBVIOUS
<1>2. /\ th[c].at = "poll" /\ th' = [th EXCEPT ![c] = w] /\ grpcDown = 2
      /\ UNCHANGED <<m_state, registry, grpcDown, rpc, held, events>>
  BY <1>1 DEF ThreadExits
<1>3. /\ th[c] \in [at : ThreadPlaces, id : 0 .. Len(rpc), refill : BOOLEAN]
      /\ th \in [Cqs -> [at : ThreadPlaces, id : 0 .. Len(rpc), refill : BOOLEAN]]
      /\ th[c].id = 0 /\ ~th[c].refill
  BY <1>2, ThreadTypes DEF ServerInv, ThreadInv
<1>4. /\ w \in [at : ThreadPlaces, id : 0 .. Len(rpc), refill : BOOLEAN]
      /\ w.at = "exited" /\ w.id = 0 /\ ~w.refill
  BY <1>1, <1>3 DEF ThreadPlaces
<1>5. /\ th' \in [Cqs -> [at : ThreadPlaces, id : 0 .. Len(rpc), refill : BOOLEAN]]
      /\ th'[c] = w /\ \A b \in Cqs \ {c} : th'[b] = th[b]
  BY <1>2, <1>3, <1>4
<1>6. ServerTypeOK'
  BY <1>2, <1>5 DEF ServerInv, ServerTypeOK, ThreadPlaces
<1>7. \A b \in Cqs : ThreadInv(b)'
  <2>1. ThreadInv(c)'
    BY <1>2, <1>3, <1>4, <1>5 DEF ServerInv, ThreadInv
  <2>2. \A b \in Cqs \ {c} : ThreadInv(b)'
    BY <1>2, <1>5 DEF ServerInv, ThreadInv
  <2>3. QED  BY <2>1, <2>2
<1>8. \A i \in 1 .. Len(rpc') : ObjectInv(i)'
  <2> SUFFICES ASSUME NEW i \in 1 .. Len(rpc) PROVE ObjectInv(i)'
    BY <1>2
  <2>1. rpc[i].cq \in Cqs /\ rpc'[i].cq = rpc[i].cq
    BY <1>2, ObjectTypes DEF ServerInv
  <2>2. CASE rpc[i].cq # c
    <3>1. PlaceOf(i)' = PlaceOf(i)
      BY <1>2, <1>5, <2>1, <2>2 DEF PlaceOf
    <3>2. QED  BY <1>2, <3>1, SameObjects DEF ServerInv, ObjectInv
  <2>3. CASE rpc[i].cq = c
    <3>1. PlaceOf(i) = "idle" /\ PlaceOf(i)' = "exited"
      BY <1>2, <1>3, <1>4, <1>5, <2>1, <2>3 DEF PlaceOf
    <3>2. PICK r \in CallObjects, H \in SUBSET Tags, T \in SUBSET Tags, F \in SUBSET Tags, a \in Places :
            /\ r = rpc[i] /\ H = HeldOf(i) /\ T = FiredOf(i, TRUE) /\ F = FiredOf(i, FALSE)
            /\ a = PlaceOf(i) /\ Life(r, H, T, F, a) /\ Late(r, H, T, F, a, grpcDown)
      BY ObjectNow
    <3>3. T = {} /\ F = {}
      BY <2>3, <3>2 DEF ThreadExits, FiredOf
    <3>4. H \subseteq {"done"}
      <4> SUFFICES ASSUME NEW t \in H, t # "done" PROVE FALSE
        OBVIOUS
      <4>1. <<i, t>> \in held
        BY <3>2 DEF HeldOf
      <4>2. <<i, t>> \in PendingOn(c)
        BY <2>3, <4>1 DEF PendingOn
      <4>3. QED  BY <4>2 DEF ThreadExits
    <3>5. H # {} => r.call \notin {"finished", "canceled"}
      <4> SUFFICES ASSUME NEW t \in H PROVE r.call \notin {"finished", "canceled"}
        OBVIOUS
      <4>1. <<i, t>> \in held
        BY <3>2 DEF HeldOf
      <4>2. QED  BY <2>3, <3>2, <4>1 DEF ThreadExits
    <3>6. Life(r, H, T, F, "exited")
      BY <3>1, <3>2, ExitLife
    <3>7. Late(r, H, T, F, "exited", grpcDown)
      BY <1>2, <3>2, <3>3, <3>4, <3>5 DEF Late
    <3>8. QED  BY <1>2, <3>1, <3>2, <3>6, <3>7, SameObjects DEF ObjectInv
  <2>4. QED  BY <2>2, <2>3
<1>9. ListenInv'
  <2>1. \A b \in Cqs : \A k : Refilling(b, k)' <=> Refilling(b, k)
    BY <1>2, <1>3, <1>4, <1>5 DEF Refilling
  <2>2. \A i \in 1 .. Len(rpc) : rpc[i].cq \in Cqs /\ (Listens(i)' <=> Listens(i))
    BY <1>2, ObjectTypes, SameObjects DEF ServerInv
  <2>3. \A i \in 1 .. Len(rpc) : Listens(i)' => ~Refilling(rpc[i].cq, rpc[i].kind)'
    <3> SUFFICES ASSUME NEW i \in 1 .. Len(rpc), Listens(i)'
                 PROVE  ~Refilling(rpc[i].cq, rpc[i].kind)'
      OBVIOUS
    <3>1. PICK b, k : b \in Cqs /\ b = rpc[i].cq /\ k = rpc[i].kind
      BY <2>2
    <3>2. ~Refilling(b, k)'
      BY <2>1, <2>2, <3>1, SMTT(30) DEF ServerInv, ListenInv
    <3>3. QED  BY <1>2, <3>1, <3>2 DEF Refilling
  <2>4. QED  BY <1>2, <2>1, <2>2, <2>3, SMTT(30) DEF ServerInv, ListenInv
<1>10. QED  BY <1>2, <1>4, <1>5, <1>6, <1>7, <1>8, <1>9 DEF ServerInv

(* Steps of the server object alone.                                          *)
LEMMA StateInv ==
  ASSUME ServerInv, UNCHANGED <<registry, rpc, held, events, th>>,
         \/ m_state' = m_state /\ grpcDown' = grpcDown
         \/ RunServer \/ ShutdownBegins \/ QueuesShutdown \/ ShutdownEnds
  PROVE  ServerInv'
<1>1. ServerTypeOK'
  BY SMTT(30) DEF ServerInv, ServerTypeOK, RunServer, ShutdownBegins, QueuesShutdown, ShutdownEnds
<1>2. /\ grpcDown' = grpcDown \/ (QueuesShutdown /\ grpcDown = 1 /\ grpcDown' = 2)
      /\ m_state' = "RUNNING" => m_state = "RUNNING" \/ registry = {}
      /\ m_state' = "INITED" => registry = {}
      /\ grpcDown' # 0 => m_state' \in {"SHUTTING_DOWN", "TERMINATED"}
      /\ m_state' = "TERMINATED" => \A c \in Cqs : th[c].at = "exited"
  BY DEF ServerInv, RunServer, ShutdownBegins, QueuesShutdown, ShutdownEnds
<1>3. ListenInv'
  <2>1. \A i : Listens(i)' <=> Listens(i)
    BY SameObjects
  <2>2. \A b, k : Refilling(b, k)' <=> Refilling(b, k)
    BY DEF Refilling
  <2>3. \A i : Refilling(rpc[i].cq, rpc[i].kind)' <=> Refilling(rpc[i].cq, rpc[i].kind)
    BY DEF Refilling
  <2>4. QED  BY <1>2, <2>1, <2>2, <2>3, SMTT(30) DEF ServerInv, ListenInv
<1>4. \A c \in Cqs : ThreadInv(c)'
  BY <1>2 DEF ServerInv, ThreadInv
<1>5. ASSUME NEW i \in 1 .. Len(rpc) PROVE ObjectInv(i)'
  <2>1. PICK r \in CallObjects, H \in SUBSET Tags, T \in SUBSET Tags, F \in SUBSET Tags, a \in Places :
          /\ r = rpc[i] /\ H = HeldOf(i) /\ T = FiredOf(i, TRUE) /\ F = FiredOf(i, FALSE)
          /\ a = PlaceOf(i) /\ Life(r, H, T, F, a) /\ Late(r, H, T, F, a, grpcDown)
    BY ObjectNow
  <2>2. QueuesShutdown => (r.live => r.call \notin {"open", "canceled"})
    BY <2>1, SMTT(30) DEF QueuesShutdown, ServerInv, ServerTypeOK
  <2>3. Late(r, H, T, F, a, grpcDown')
    <3>1. CASE grpcDown' = grpcDown
      BY <2>1, <3>1
    <3>2. CASE QueuesShutdown /\ grpcDown = 1 /\ grpcDown' = 2
      <4>1. Late(r, H, T, F, a, 1)
        BY <2>1, <3>2
      <4>2. Late(r, H, T, F, a, 2)
        BY <2>2, <3>2, <4>1, SMTT(30) DEF Late
      <4>3. QED  BY <3>2, <4>2
    <3>3. QED  BY <1>2, <3>1, <3>2
  <2>4. QED  BY <2>1, <2>3, SameObjects DEF ObjectInv
<1>6. QED  BY <1>1, <1>2, <1>3, <1>4, <1>5 DEF ServerInv

(* Server::Shutdown refuses every waiting call at once.                       *)
LEMMA ServerShutdownInv == ASSUME ServerInv, ServerShutdown PROVE ServerInv'
<1>1. /\ m_state = "SHUTTING_DOWN" /\ grpcDown = 0 /\ grpcDown' = 1
      /\ held' = held \ (Refused \X {"received"})
      /\ UNCHANGED <<m_state, registry, th>>
  BY DEF ServerShutdown
<1>2. /\ rpc \in Seq(CallObjects) /\ DOMAIN rpc = 1 .. Len(rpc) /\ Len(rpc) \in Nat
      /\ held \subseteq (1 .. Len(rpc)) \X Tags
      /\ events \in [Cqs -> SUBSET [id : 1 .. Len(rpc), tag : Tags, ok : BOOLEAN]]
      /\ Refused \subseteq 1 .. Len(rpc)
  BY SMTT(30) DEF ServerInv, ServerTypeOK, Refused
<1>3. \A i \in 1 .. Len(rpc) :
        rpc'[i] = IF i \in Refused THEN [rpc[i] EXCEPT !.call = "refused"] ELSE rpc[i]
  BY <1>2 DEF ServerShutdown
<1>4. ASSUME NEW i \in 1 .. Len(rpc)
      PROVE  /\ rpc'[i] \in CallObjects /\ rpc'[i].cq = rpc[i].cq /\ rpc'[i].kind = rpc[i].kind
             /\ rpc[i].cq \in Cqs
  <2>1. rpc[i] \in CallObjects
    BY <1>2, SMTT(30)
  <2>2. QED  BY <1>3, <2>1 DEF CallObjects
<1>5. rpc' \in Seq(CallObjects) /\ Len(rpc') = Len(rpc)
  <2>1. rpc' \in [1 .. Len(rpc) -> CallObjects]
    BY <1>2, <1>4 DEF ServerShutdown
  <2>2. QED  BY <1>2, <2>1, SMTT(30)
<1>6. ASSUME NEW c \in Cqs, NEW e
      PROVE  e \in events'[c] <=>
               \/ e \in events[c]
               \/ \E i \in Refused : rpc[i].cq = c /\ e = [id |-> i, tag |-> "received", ok |-> FALSE]
  BY DEF ServerShutdown
<1>7. events' \in [Cqs -> SUBSET [id : 1 .. Len(rpc), tag : Tags, ok : BOOLEAN]]
  <2>1. \A c \in Cqs : events'[c] \subseteq [id : 1 .. Len(rpc), tag : Tags, ok : BOOLEAN]
    <3> SUFFICES ASSUME NEW c \in Cqs, NEW e \in events'[c]
                 PROVE  e \in [id : 1 .. Len(rpc), tag : Tags, ok : BOOLEAN]
      OBVIOUS
    <3>1. CASE e \in events[c]
      BY <1>2, <3>1
    <3>2. CASE \E i \in Refused : rpc[i].cq = c /\ e = [id |-> i, tag |-> "received", ok |-> FALSE]
      BY <1>2, <3>2, SMTT(30) DEF Tags
    <3>3. QED  BY <1>6, <3>1, <3>2, SMTT(30)
  <2>2. QED  BY <2>1 DEF ServerShutdown
<1>8. ServerTypeOK'
  <2>1. held' \subseteq (1 .. Len(rpc')) \X Tags
    BY <1>1, <1>2, <1>5
  <2>2. QED  BY <1>1, <1>5, <1>7, <2>1, SMTT(30) DEF ServerInv, ServerTypeOK
<1>9. \A c \in Cqs : ThreadInv(c)'
  <2> SUFFICES ASSUME NEW c \in Cqs PROVE ThreadInv(c)'
    OBVIOUS
  <2>1. ASSUME NEW e \in events'[c] PROVE rpc'[e.id].cq = c
    <3>1. CASE e \in events[c]
      BY <1>2, <1>4, <3>1, SMTT(30) DEF ServerInv, ThreadInv
    <3>2. CASE \E i \in Refused : rpc[i].cq = c /\ e = [id |-> i, tag |-> "received", ok |-> FALSE]
      BY <1>2, <1>4, <3>2, SMTT(30)
    <3>3. QED  BY <1>6, <3>1, <3>2
  <2>2. th[c].at # "exited"
    BY <1>1, SMTT(30) DEF ServerInv, ThreadInv
  <2>3. QED  BY <1>1, <1>4, <1>5, <2>1, <2>2 DEF ServerInv, ThreadInv
<1>10. ASSUME NEW i \in 1 .. Len(rpc) PROVE ObjectInv(i)' /\ (Listens(i)' <=> Listens(i))
  <2>1. PICK r \in CallObjects, H \in SUBSET Tags, T \in SUBSET Tags, F \in SUBSET Tags, a \in Places :
          /\ r = rpc[i] /\ H = HeldOf(i) /\ T = FiredOf(i, TRUE) /\ F = FiredOf(i, FALSE)
          /\ a = PlaceOf(i) /\ Life(r, H, T, F, a) /\ Late(r, H, T, F, a, 0)
    BY <1>1, ObjectNow
  <2>2. PlaceOf(i)' = a
    BY <1>1, <1>4, <2>1 DEF PlaceOf
  <2>3. i \in Refused <=> "received" \in H
    BY <1>2, <2>1 DEF Refused, HeldOf, Tags
  <2>4. FiredOf(i, TRUE)' = T
    <3>1. \A t \in Tags : [id |-> i, tag |-> t, ok |-> TRUE] \in events'[rpc[i].cq]
                            <=> [id |-> i, tag |-> t, ok |-> TRUE] \in events[rpc[i].cq]
      BY <1>4, <1>6, SMTT(30)
    <3>2. QED  BY <1>4, <2>1, <3>1 DEF FiredOf
  <2>5. \A t \in Tags : t \in FiredOf(i, FALSE)' <=> t \in F \/ (i \in Refused /\ t = "received")
    <3>1. \A t \in Tags : [id |-> i, tag |-> t, ok |-> FALSE] \in events'[rpc[i].cq]
                            <=> \/ [id |-> i, tag |-> t, ok |-> FALSE] \in events[rpc[i].cq]
                                \/ i \in Refused /\ t = "received"
      BY <1>4, <1>6, SMTT(30)
    <3>2. QED  BY <1>4, <2>1, <3>1 DEF FiredOf
  <2>6. \A t \in Tags : t \in HeldOf(i)' <=> t \in H /\ ~(i \in Refused /\ t = "received")
    BY <1>1, <2>1 DEF HeldOf
  <2>7. HeldOf(i)' \subseteq Tags /\ FiredOf(i, FALSE)' \subseteq Tags
    BY DEF HeldOf, FiredOf
  <2>8. CASE "received" \in H
    <3>1. HeldOf(i)' = H \ {"received"} /\ FiredOf(i, FALSE)' = F \cup {"received"}
      BY <2>3, <2>5, <2>6, <2>7, <2>8 DEF Tags
    <3>2. PICK q : q = [r EXCEPT !.call = "refused"]
      OBVIOUS
    <3>3. rpc'[i] = q /\ q.call = "refused"
      BY <1>3, <2>1, <2>3, <2>8, <3>2 DEF CallObjects
    <3>4. Life(q, H \ {"received"}, T, F \cup {"received"}, a)
      BY <2>1, <2>8, <3>2, RefuseLife
    <3>5. Late(q, H \ {"received"}, T, F \cup {"received"}, a, 1)
      BY <2>1, <3>3, SMTT(30) DEF Late
    <3>6. ObjectInv(i)'
      BY <1>1, <2>2, <2>4, <3>1, <3>3, <3>4, <3>5 DEF ObjectInv
    <3>7. QED  BY <2>1, <2>8, <3>1, <3>6 DEF Listens
  <2>9. CASE "received" \notin H
    <3>1. HeldOf(i)' = H /\ FiredOf(i, FALSE)' = F /\ rpc'[i] = r
      BY <1>3, <2>1, <2>3, <2>5, <2>6, <2>7, <2>9
    <3>2. Late(r, H, T, F, a, 1)
      BY <2>1, <2>9, SMTT(30) DEF Late, Life, CallStands
    <3>3. ObjectInv(i)'
      BY <1>1, <2>1, <2>2, <2>4, <3>1, <3>2 DEF ObjectInv
    <3>4. QED  BY <2>1, <2>4, <3>1, <3>3 DEF Listens
  <2>10. QED  BY <2>8, <2>9
<1>11. ListenInv'
  <2>1. \A b \in Cqs : \A k : Refilling(b, k)' <=> Refilling(b, k)
    <3>1. \A b \in Cqs : th[b].refill => th[b].id \in 1 .. Len(rpc)
      BY DEF ServerInv, ThreadInv
    <3>2. QED  BY <1>1, <1>4, <3>1 DEF Refilling
  <2>2. \A i \in 1 .. Len(rpc) : Listens(i)' => ~Refilling(rpc[i].cq, rpc[i].kind)'
    <3> SUFFICES ASSUME NEW i \in 1 .. Len(rpc), Listens(i)'
                 PROVE  ~Refilling(rpc[i].cq, rpc[i].kind)'
      OBVIOUS
    <3>1. PICK b, k : b \in Cqs /\ b = rpc[i].cq /\ k = rpc[i].kind
      BY <1>4
    <3>2. ~Refilling(b, k)'
      BY <1>10, <2>1, <3>1, SMTT(30) DEF ServerInv, ListenInv
    <3>3. QED  BY <1>4, <3>1, <3>2 DEF Refilling
  <2>3. QED  BY <1>1, <1>4, <1>5, <1>10, <2>2, SMTT(30) DEF ServerInv, ListenInv
<1>12. QED  BY <1>1, <1>5, <1>8, <1>9, <1>10, <1>11 DEF ServerInv
===============================================================================
