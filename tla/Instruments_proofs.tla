-------------------------- MODULE Instruments_proofs --------------------------
(* Proofs about the instruments of a program: the metrics a report publishes  *)
(* and how threads write what is collected from them.  MetricsFarm, for any   *)
(* groups, classes and names.  wisr_framework, for any number of writers and  *)
(* collectors: the grace period protects the inserts, and the base object     *)
(* stands still under a caller that looks at it.                              *)
EXTENDS Wisr, MetricsFarm, TLAPS

\* The provers of a leaf that names none, and how long each may take.
USE ZenonT(40), SMTT(20)

------------------------------------------------------------------------------
(* MetricsFarm: what a report publishes is there.                             *)

\* The instance name of the k-th group that was given the name n.
NameOf(n, k) == IF k = 1 THEN n ELSE Append(n, k)

GroupPlaces == {"none", "named", "locked", "child", "registered", "held", "leaving", "gone"}
MetricNames == UNION {Range(ClassMetrics[c]) : c \in Classes}
Instances == {<<>>} \cup {NameOf(p[1], p[2]) : p \in InstNames \X Nat}
GroupObjects == [at : GroupPlaces, grp_name : Classes \cup {""}, inst : Instances,
                 dinfo : Seq(MetricNames \X Nat), ready : BOOLEAN, children : SUBSET FarmGroups]
StaticInfos == [m_mutex : FarmGroups \cup {NoGroup}, m_reg_pending : BOOLEAN, names : Seq(MetricNames)]
Exists(g) == grp[g].at \notin {"none", "gone"}
Registers(g) == grp[g].at \in {"locked", "child"}

FarmTypeOK ==
  /\ uniq \in [Classes \X InstNames -> Nat] /\ static_info \in [Classes -> StaticInfos]
  /\ grp \in [FarmGroups -> GroupObjects] /\ nextObj \in Nat
  /\ \A k \in DOMAIN families : families[k] \in Nat /\ families[k] < nextObj
  /\ \A g \in FarmGroups : /\ Exists(g) => grp[g].grp_name \in Classes
                           /\ grp[g].at \in {"none", "named", "gone"} => grp[g].dinfo = <<>>

\* The names of a class are there up to the metric its first group has come to,
\* and who registers holds the mutex of its class.
ClassStands(c) ==
  LET s == static_info[c] IN
  /\ s.m_mutex # NoGroup => Registers(s.m_mutex) /\ grp[s.m_mutex].grp_name = c
  /\ \A i \in 1 .. Len(s.names) : i <= Len(ClassMetrics[c]) /\ s.names[i] = ClassMetrics[c][i]
  /\ Len(s.names) = IF ~s.m_reg_pending THEN Len(ClassMetrics[c])
                    ELSE IF s.m_mutex = NoGroup THEN 0 ELSE Len(grp[s.m_mutex].dinfo)

ClassInv ==
  /\ \A g \in FarmGroups : Registers(g) => Info(g).m_mutex = g
  /\ \A c \in Classes : ClassStands(c)

\* The metrics of a group are those of its class, in order until it goes.
DinfoInv ==
  \A g \in FarmGroups :
    /\ grp[g].at = "child" => Len(grp[g].dinfo) = Len(MetricsOf(g))
    /\ \A i \in 1 .. Len(grp[g].dinfo) :
         /\ grp[g].dinfo[i][1] \in Range(MetricsOf(g))
         /\ grp[g].at # "leaving" => i <= Len(MetricsOf(g)) /\ grp[g].dinfo[i][1] = MetricsOf(g)[i]

\* An object has one key, that of the group it was made for, and is there until
\* that group goes.
ObjectInv ==
  /\ \A k, l \in DOMAIN families : families[k] = families[l] => k = l
  /\ \A g \in FarmGroups : \A i \in 1 .. Len(grp[g].dinfo) :
       LET key == <<grp[g].dinfo[i][1], grp[g].inst>>
           obj == grp[g].dinfo[i][2]
       IN  /\ obj < nextObj
           /\ grp[g].at # "leaving" => key \in DOMAIN families /\ families[key] = obj
           /\ \A k \in DOMAIN families : families[k] = obj => k = key

\* The groups of a class have different names, and the next name is new.
NameInv ==
  \A g \in FarmGroups : Exists(g) =>
    /\ \A h \in FarmGroups : Exists(h) /\ h # g /\ grp[h].grp_name = grp[g].grp_name => grp[h].inst # grp[g].inst
    /\ \A n \in InstNames, k \in Nat : k > uniq[<<grp[g].grp_name, n>>] => grp[g].inst # NameOf(n, k)

\* A child group has one parent and goes with it.
ChildInv ==
  /\ \A p \in FarmGroups : \A h \in grp[p].children : grp[h].at \in {"child", "held"}
  /\ \A p, q \in FarmGroups : p # q => grp[p].children \cap grp[q].children = {}

\* The farm lists the groups registered with it; a report keeps them there.
ListInv ==
  /\ m_mgroups = {g \in FarmGroups : grp[g].at = "registered"}
  /\ \A g \in m_mgroups : grp[g].ready
  /\ report \in [todo : SUBSET m_mgroups, cur : m_mgroups \cup {NoGroup}, on : BOOLEAN]
  /\ ~report.on => report.cur = NoGroup /\ report.todo = {}

FarmInv == /\ FarmTypeOK /\ ClassInv /\ DinfoInv /\ ObjectInv /\ NameInv /\ ChildInv /\ ListInv

\* No metric name is in two classes, and no name an application gives is another's
\* with a number at its end.
MetricsApart == \A c, d \in Classes : c # d => Range(ClassMetrics[c]) \cap Range(ClassMetrics[d]) = {}
GivenApart == \A n, m \in InstNames, k \in Nat : n # Append(m, k)

LEMMA NamesDiffer ==
  ASSUME GivenApart, NEW n \in InstNames, NEW m \in InstNames, NEW j \in Nat \ {0}, NEW k \in Nat \ {0},
         NameOf(n, j) = NameOf(m, k)
  PROVE  n = m /\ j = k
<1>1. n \in Seq(Range(n)) /\ m \in Seq(Range(m))
  BY FarmAssumption
<1>2. ASSUME Append(n, j) = Append(m, k) PROVE n = m /\ j = k
  <2>1. PICK T : n \in Seq(T) /\ m \in Seq(T) /\ j \in T /\ k \in T
    <3>1. PICK a \in Nat, b \in Nat : n \in [1 .. a -> Range(n)] /\ m \in [1 .. b -> Range(m)]
      BY <1>1, SMTT(30)
    <3> DEFINE T == Range(n) \cup Range(m) \cup {j, k}
    <3>2. n \in [1 .. a -> T] /\ m \in [1 .. b -> T]  BY <3>1
    <3>3. n \in Seq(T) /\ m \in Seq(T) /\ j \in T /\ k \in T  BY <3>2, SMTT(30)
    <3>4. QED  BY <3>3
  <2>2. /\ Len(Append(n, j)) = Len(n) + 1 /\ Append(n, j)[Len(n) + 1] = j
        /\ Len(Append(m, k)) = Len(m) + 1 /\ Append(m, k)[Len(m) + 1] = k
        /\ \A i \in 1 .. Len(n) : Append(n, j)[i] = n[i]
        /\ \A i \in 1 .. Len(m) : Append(m, k)[i] = m[i]
    BY <2>1, SMTT(30)
  <2>3. Len(n) = Len(m)  BY <1>2, <2>1, <2>2, SMTT(30)
  <2>4. j = k  BY <1>2, <2>2, <2>3
  <2>5. ASSUME NEW i \in 1 .. Len(n) PROVE n[i] = m[i]  BY <1>2, <2>2, <2>3
  <2>6. QED  BY <2>1, <2>3, <2>4, <2>5, SMTT(30)
<1>3. CASE j = 1 /\ k = 1  BY <1>3 DEF NameOf
<1>4. CASE j = 1 /\ k # 1  BY <1>4 DEF NameOf, GivenApart
<1>5. CASE j # 1 /\ k = 1  BY <1>5 DEF NameOf, GivenApart
<1>6. CASE j # 1 /\ k # 1  BY <1>2, <1>6 DEF NameOf
<1>7. QED  BY <1>3, <1>4, <1>5, <1>6

LEMMA MetricsOfClass ==
  ASSUME NEW c \in Classes
  PROVE  ClassMetrics[c] \in Seq(Range(ClassMetrics[c])) /\ ClassMetrics[c] \in Seq(MetricNames) /\ Len(ClassMetrics[c]) \in Nat
<1>1. ClassMetrics[c] \in Seq(Range(ClassMetrics[c]))  BY FarmAssumption DEF Classes
<1>2. Range(ClassMetrics[c]) \subseteq MetricNames  BY DEF MetricNames
<1>3. PICK k \in Nat : ClassMetrics[c] \in [1 .. k -> Range(ClassMetrics[c])]  BY <1>1, SMTT(30)
<1>4. ClassMetrics[c] \in [1 .. k -> MetricNames]  BY <1>2, <1>3
<1>5. QED  BY <1>1, <1>4, SMTT(30)

LEMMA FarmInvSound == FarmInv => FarmSound
<1> SUFFICES ASSUME FarmInv PROVE FarmSound  OBVIOUS
<1>1. /\ grp \in [FarmGroups -> GroupObjects] /\ static_info \in [Classes -> StaticInfos]
      /\ \A g \in FarmGroups : grp[g].dinfo \in Seq(MetricNames \X Nat) /\ DOMAIN grp[g].dinfo = 1 .. Len(grp[g].dinfo)
                               /\ grp[g].children \subseteq FarmGroups
  <2>1. grp \in [FarmGroups -> GroupObjects] /\ static_info \in [Classes -> StaticInfos]
    BY DEF FarmInv, FarmTypeOK
  <2>2. \A x \in GroupObjects : x.dinfo \in Seq(MetricNames \X Nat) /\ x.children \subseteq FarmGroups
    BY DEF GroupObjects
  <2>3. \A s \in Seq(MetricNames \X Nat) : DOMAIN s = 1 .. Len(s)  BY SMTT(30)
  <2>4. QED  BY <2>1, <2>2, <2>3
<1>2. PublishesLive
  <2> SUFFICES ASSUME NEW g \in Published, NEW i \in DOMAIN grp[g].dinfo
               PROVE  \E k \in DOMAIN families : families[k] = grp[g].dinfo[i][2]
    BY DEF PublishesLive
  <2>1. report.cur # NoGroup /\ report.cur \in m_mgroups /\ g \in {report.cur} \cup grp[report.cur].children
    BY DEF Published, FarmInv, ListInv
  <2>2. g \in FarmGroups /\ grp[g].at # "leaving"
    BY <1>1, <2>1 DEF FarmInv, ListInv, ChildInv
  <2>3. i \in 1 .. Len(grp[g].dinfo)  BY <1>1, <2>2
  <2>4. QED  BY <2>2, <2>3 DEF FarmInv, ObjectInv
<1>3. ReadyWhenPublished
  BY DEF ReadyWhenPublished, FarmInv, ListInv
<1>4. IndexesAgree
  <2>1. ASSUME NEW c \in Classes
        PROVE  \E n \in 0 .. Len(ClassMetrics[c]) : static_info[c].names = SubSeq(ClassMetrics[c], 1, n)
    <3>1. PICK s \in Seq(MetricNames), m \in Seq(MetricNames) : s = static_info[c].names /\ m = ClassMetrics[c]
      BY <1>1, MetricsOfClass DEF StaticInfos
    <3>2. \A i \in 1 .. Len(s) : i <= Len(m) /\ s[i] = m[i]
      BY <3>1, SMTT(30) DEF FarmInv, ClassInv, ClassStands
    <3>3. Len(s) <= Len(m) /\ Len(s) \in Nat /\ Len(m) \in Nat  BY <3>2, SMTT(30)
    <3>4. /\ SubSeq(m, 1, Len(s)) \in Seq(MetricNames) /\ Len(SubSeq(m, 1, Len(s))) = Len(s)
          /\ \A i \in 1 .. Len(s) : SubSeq(m, 1, Len(s))[i] = m[i]
      BY <3>3, SMTT(30)
    <3>5. s = SubSeq(m, 1, Len(s))  BY <3>2, <3>4, SMTT(30)
    <3>6. QED  BY <3>1, <3>3, <3>5, SMTT(30)
  <2>2. ASSUME NEW g \in FarmGroups, NEW i \in DOMAIN grp[g].dinfo, grp[g].at # "leaving"
        PROVE  grp[g].dinfo[i][1] = MetricsOf(g)[i]
    BY <1>1, <2>2 DEF FarmInv, DinfoInv
  <2>3. QED  BY <2>1, <2>2 DEF IndexesAgree
<1>5. QED  BY <1>2, <1>3, <1>4 DEF FarmSound

LEMMA FarmInitInv == FarmInit => FarmInv
<1> SUFFICES ASSUME FarmInit PROVE FarmInv  OBVIOUS
<1>1. /\ grp = [g \in FarmGroups |-> NewGroup] /\ m_mgroups = {} /\ uniq = [k \in Classes \X InstNames |-> 0]
      /\ static_info = [c \in Classes |-> [m_mutex |-> NoGroup, m_reg_pending |-> TRUE, names |-> <<>>]]
      /\ families = <<>> /\ nextObj = 1 /\ report = [todo |-> {}, cur |-> NoGroup, on |-> FALSE]
  BY DEF FarmInit, NoReport
<1>2. NewGroup \in GroupObjects /\ NewGroup.at = "none" /\ NewGroup.dinfo = <<>> /\ NewGroup.children = {}
  BY SMTT(30) DEF NewGroup, GroupObjects, GroupPlaces, Instances
<1>3. DOMAIN families = {} /\ \A g \in FarmGroups : grp[g] = NewGroup /\ Len(grp[g].dinfo) = 0
  BY <1>1, <1>2, SMTT(30)
<1>4. FarmTypeOK
  BY <1>1, <1>2, <1>3, SMTT(30) DEF FarmTypeOK, StaticInfos, Exists
<1>5. ClassInv
  <2>1. \A c \in Classes : /\ static_info[c].m_mutex = NoGroup /\ static_info[c].m_reg_pending
                           /\ Len(static_info[c].names) = 0
    BY <1>1
  <2>2. QED  BY <1>2, <1>3, <2>1, SMTT(30) DEF ClassInv, ClassStands, Registers
<1>6. DinfoInv /\ ObjectInv /\ NameInv /\ ChildInv
  BY <1>2, <1>3, SMTT(30) DEF DinfoInv, ObjectInv, NameInv, ChildInv, Exists
<1>7. ListInv
  BY <1>1, <1>2, <1>3 DEF ListInv
<1>8. QED  BY <1>4, <1>5, <1>6, <1>7 DEF FarmInv

LEMMA GroupFacts ==
  ASSUME FarmInv, NEW g \in FarmGroups
  PROVE  /\ grp[g] \in GroupObjects /\ grp[g].at \in GroupPlaces /\ grp[g].dinfo \in Seq(MetricNames \X Nat)
         /\ grp[g].children \subseteq FarmGroups
         /\ Exists(g) => grp[g].grp_name \in Classes
<1>1. grp[g] \in GroupObjects  BY DEF FarmInv, FarmTypeOK
<1>2. QED  BY <1>1 DEF FarmInv, FarmTypeOK, GroupObjects

(* What a step leaves alone: each lemma says what a part of the invariant hangs on. *)
LEMMA MetricsStay ==
  ASSUME FarmInv, UNCHANGED <<families, nextObj>>,
         \A h \in FarmGroups :
           \/ grp'[h].dinfo = <<>> /\ grp'[h].at # "child"
           \/ /\ grp'[h].dinfo = grp[h].dinfo /\ grp'[h].grp_name = grp[h].grp_name /\ grp'[h].inst = grp[h].inst
              /\ grp'[h].at = "child" => Len(grp[h].dinfo) = Len(MetricsOf(h))
              /\ grp[h].at = "leaving" => grp'[h].at = "leaving"
  PROVE  DinfoInv' /\ ObjectInv'
<1>1. DinfoInv'
  BY SMTT(30) DEF FarmInv, DinfoInv, MetricsOf
<1>2. ObjectInv'
  BY SMTT(30) DEF FarmInv, ObjectInv
<1>3. QED  BY <1>1, <1>2

LEMMA NamesStay ==
  ASSUME FarmInv, UNCHANGED uniq,
         \A h \in FarmGroups : Exists(h)' => Exists(h) /\ grp'[h].grp_name = grp[h].grp_name /\ grp'[h].inst = grp[h].inst
  PROVE  NameInv'
BY DEF FarmInv, NameInv

LEMMA ClassesStay ==
  ASSUME FarmInv, UNCHANGED static_info,
         \A h \in FarmGroups : /\ Registers(h)' <=> Registers(h)
                               /\ Registers(h) => grp'[h].grp_name = grp[h].grp_name /\ grp'[h].dinfo = grp[h].dinfo
  PROVE  ClassInv'
<1>1. \A g \in FarmGroups : Registers(g)' => Info(g)'.m_mutex = g
  BY SMTT(30) DEF FarmInv, ClassInv, ClassStands, Info
<1>2. ASSUME NEW c \in Classes
      PROVE  static_info[c].m_mutex # NoGroup =>
               /\ static_info[c].m_mutex \in FarmGroups
               /\ Registers(static_info[c].m_mutex) /\ grp[static_info[c].m_mutex].grp_name = c
  BY DEF FarmInv, FarmTypeOK, StaticInfos, ClassInv, ClassStands
<1>3. QED  BY <1>1, <1>2, SMTT(30) DEF FarmInv, ClassInv, ClassStands

LEMMA ChildrenStay ==
  ASSUME FarmInv,
         \A p \in FarmGroups : grp'[p].children \subseteq grp[p].children
                               /\ \A h \in grp'[p].children : grp'[h].at \in {"child", "held"}
  PROVE  ChildInv'
BY DEF FarmInv, ChildInv

LEMMA ListStays ==
  ASSUME FarmInv, UNCHANGED <<m_mgroups, report>>,
         \A h \in FarmGroups : /\ grp'[h].at = "registered" <=> grp[h].at = "registered"
                               /\ grp[h].at = "registered" => grp'[h].ready = grp[h].ready
  PROVE  ListInv'
BY DEF FarmInv, ListInv

\* A step that changes one group.
LEMMA OneGroup ==
  ASSUME FarmInv, NEW g \in FarmGroups, NEW x \in GroupObjects, grp' = [grp EXCEPT ![g] = x]
  PROVE  /\ grp' \in [FarmGroups -> GroupObjects] /\ grp'[g] = x
         /\ \A h \in FarmGroups : h # g => grp'[h] = grp[h]
BY DEF FarmInv, FarmTypeOK

LEMMA EnsureUniqueInv ==
  ASSUME FarmInv, GivenApart, NEW g \in FarmGroups, NEW c \in Classes, NEW n \in InstNames, EnsureUnique(g, c, n)
  PROVE  FarmInv'
<1>1. /\ grp[g].at = "none" /\ uniq' = [uniq EXCEPT ![<<c, n>>] = @ + 1]
      /\ grp' = [grp EXCEPT ![g] = [grp[g] EXCEPT !.at = "named", !.grp_name = c, !.inst = unique_name(c, n)]]
      /\ UNCHANGED <<m_mgroups, static_info, families, nextObj, report>>
  BY DEF EnsureUnique, FarmInv, FarmTypeOK, GroupObjects
<1>2. PICK u \in Nat : u = uniq[<<c, n>>] /\ unique_name(c, n) = NameOf(n, u + 1)
  BY SMTT(30) DEF unique_name, NameOf, FarmInv, FarmTypeOK
<1>3. NameOf(n, u + 1) \in Instances
  <2>1. PICK p \in InstNames \X Nat : p[1] = n /\ p[2] = u + 1
    <3>1. <<n, u + 1>> \in InstNames \X Nat  BY SMTT(30)
    <3>2. QED  BY <3>1
  <2>2. NameOf(n, u + 1) = NameOf(p[1], p[2])  BY <2>1
  <2>3. QED  BY <2>2 DEF Instances
<1>4. PICK x \in GroupObjects :
        /\ grp' = [grp EXCEPT ![g] = x] /\ x.at = "named" /\ x.grp_name = c /\ x.inst = NameOf(n, u + 1)
        /\ x.dinfo = <<>> /\ x.children = grp[g].children
  <2>1. grp[g].dinfo = <<>>  BY <1>1 DEF FarmInv, FarmTypeOK
  <2>2. [grp[g] EXCEPT !.at = "named", !.grp_name = c, !.inst = NameOf(n, u + 1)] \in GroupObjects
    <3>1. PICK y \in GroupObjects : y = grp[g]  BY GroupFacts
    <3>2. PICK a \in Instances : a = NameOf(n, u + 1)  BY <1>3
    <3>3. [y EXCEPT !.at = "named", !.grp_name = c, !.inst = a] \in GroupObjects
      BY DEF GroupObjects, GroupPlaces
    <3>4. QED  BY <3>1, <3>2, <3>3
  <2>3. QED  BY <1>1, <1>2, <2>1, <2>2, GroupFacts DEF GroupObjects
<1>5. /\ grp' \in [FarmGroups -> GroupObjects] /\ grp'[g] = x
      /\ \A h \in FarmGroups : h # g => grp'[h] = grp[h]
  BY <1>4, OneGroup
<1>6. /\ uniq' \in [Classes \X InstNames -> Nat] /\ uniq'[<<c, n>>] = u + 1
      /\ \A d \in Classes, m \in InstNames : uniq'[<<d, m>>] >= uniq[<<d, m>>] /\ uniq[<<d, m>>] \in Nat
  <2>1. uniq \in [Classes \X InstNames -> Nat]  BY DEF FarmInv, FarmTypeOK
  <2>2. PICK q \in Classes \X InstNames : q = <<c, n>>  OBVIOUS
  <2>3. uniq' = [uniq EXCEPT ![q] = u + 1] /\ u = uniq[q]  BY <1>1, <1>2, <2>2
  <2>4. /\ uniq' \in [Classes \X InstNames -> Nat] /\ uniq'[q] = u + 1
        /\ \A r \in Classes \X InstNames : uniq'[r] >= uniq[r] /\ uniq[r] \in Nat
    BY <2>1, <2>3, SMTT(30)
  <2>5. \A d \in Classes, m \in InstNames : <<d, m>> \in Classes \X InstNames  OBVIOUS
  <2>6. QED  BY <2>2, <2>4, <2>5
<1>7. FarmTypeOK'
  BY <1>1, <1>4, <1>5, <1>6, SMTT(30) DEF FarmInv, FarmTypeOK, Exists
<1>8. DinfoInv' /\ ObjectInv'
  <2>1. \A h \in FarmGroups :
           \/ grp'[h].dinfo = <<>> /\ grp'[h].at # "child"
           \/ /\ grp'[h].dinfo = grp[h].dinfo /\ grp'[h].grp_name = grp[h].grp_name /\ grp'[h].inst = grp[h].inst
              /\ grp'[h].at = "child" => Len(grp[h].dinfo) = Len(MetricsOf(h))
              /\ grp[h].at = "leaving" => grp'[h].at = "leaving"
    BY <1>4, <1>5 DEF FarmInv, DinfoInv
  <2>2. QED  BY <1>1, <2>1, MetricsStay
<1>9. ClassInv'
  BY <1>1, <1>4, <1>5, ClassesStay DEF Registers
<1>10. ChildInv'
  <2>1. ASSUME NEW p \in FarmGroups, NEW h \in grp'[p].children PROVE h # g /\ h \in FarmGroups /\ grp[h].at \in {"child", "held"}
    BY <1>1, <1>4, <1>5, GroupFacts DEF FarmInv, ChildInv
  <2>2. QED  BY <1>4, <1>5, <2>1, ChildrenStay
<1>11. ListInv'
  BY <1>1, <1>4, <1>5, ListStays
<1>12. NameInv'
  <2>1. ASSUME NEW h \in FarmGroups, h # g, Exists(h), NEW m \in InstNames, NEW k \in Nat, k > uniq'[<<grp[h].grp_name, m>>]
        PROVE  grp[h].inst # NameOf(m, k)
    <3>1. grp[h].grp_name \in Classes  BY <2>1, GroupFacts
    <3>2. k > uniq[<<grp[h].grp_name, m>>]  BY <1>6, <2>1, <3>1, SMTT(30)
    <3>3. QED  BY <2>1, <3>2 DEF FarmInv, NameInv
  <2>2. ASSUME NEW h \in FarmGroups, h # g, Exists(h), grp[h].grp_name = c PROVE grp[h].inst # x.inst
    BY <1>2, <1>4, <2>2, SMTT(30) DEF FarmInv, NameInv
  <2>3. ASSUME NEW m \in InstNames, NEW k \in Nat, k > uniq'[<<c, m>>] PROVE x.inst # NameOf(m, k)
    <3>1. k # 0 /\ (m = n => k # u + 1)  BY <1>6, <2>3, SMTT(30)
    <3>2. QED  BY <1>4, <3>1, NamesDiffer, SMTT(30)
  <2>4. \A h \in FarmGroups : h # g => (Exists(h)' <=> Exists(h))  BY <1>5 DEF Exists
  <2>5. QED  BY <1>4, <1>5, <2>1, <2>2, <2>3, <2>4 DEF NameInv, FarmInv
<1>13. QED  BY <1>7, <1>8, <1>9, <1>10, <1>11, <1>12 DEF FarmInv

\* What follows of a step that moves one group and leaves its metrics and children.
LEMMA GroupMoves ==
  ASSUME FarmInv, NEW g \in FarmGroups, NEW x \in GroupObjects, grp' = [grp EXCEPT ![g] = x],
         x.dinfo = grp[g].dinfo, x.grp_name = grp[g].grp_name, x.inst = grp[g].inst, x.children = grp[g].children,
         Exists(g), x.at \notin {"none", "named", "gone"}, grp[g].at # "leaving",
         x.at = "child" => Len(grp[g].dinfo) = Len(MetricsOf(g)),
         grp[g].at \in {"child", "held"} => x.at = "held",
         UNCHANGED <<families, nextObj, uniq>>, static_info' \in [Classes -> StaticInfos]
  PROVE  FarmTypeOK' /\ DinfoInv' /\ ObjectInv' /\ NameInv' /\ ChildInv'
<1>1. /\ grp' \in [FarmGroups -> GroupObjects] /\ grp'[g] = x
      /\ \A h \in FarmGroups : h # g => grp'[h] = grp[h]
  BY OneGroup
<1>2. FarmTypeOK'
  BY <1>1 DEF FarmInv, FarmTypeOK, Exists
<1>3. DinfoInv' /\ ObjectInv'
  <2>1. \A h \in FarmGroups :
           \/ grp'[h].dinfo = <<>> /\ grp'[h].at # "child"
           \/ /\ grp'[h].dinfo = grp[h].dinfo /\ grp'[h].grp_name = grp[h].grp_name /\ grp'[h].inst = grp[h].inst
              /\ grp'[h].at = "child" => Len(grp[h].dinfo) = Len(MetricsOf(h))
              /\ grp[h].at = "leaving" => grp'[h].at = "leaving"
    BY <1>1 DEF FarmInv, DinfoInv
  <2>2. QED  BY <2>1, MetricsStay
<1>4. NameInv'
  BY <1>1, NamesStay DEF Exists
<1>5. ChildInv'
  <2>1. ASSUME NEW p \in FarmGroups PROVE grp'[p].children = grp[p].children  BY <1>1
  <2>2. ASSUME NEW p \in FarmGroups, NEW h \in grp'[p].children PROVE grp'[h].at \in {"child", "held"}
    <3>1. h \in FarmGroups /\ grp[h].at \in {"child", "held"}
      BY <2>1, <2>2, GroupFacts DEF FarmInv, ChildInv
    <3>2. QED  BY <1>1, <3>1
  <2>3. QED  BY <2>1, <2>2, ChildrenStay
<1>6. QED  BY <1>2, <1>3, <1>4, <1>5

\* A group moved to another place.
LEMMA MovedGroup ==
  ASSUME NEW y \in GroupObjects, NEW a \in GroupPlaces
  PROVE  /\ [y EXCEPT !.at = a] \in GroupObjects /\ [y EXCEPT !.at = a].at = a
         /\ [y EXCEPT !.at = a].dinfo = y.dinfo /\ [y EXCEPT !.at = a].grp_name = y.grp_name
         /\ [y EXCEPT !.at = a].inst = y.inst /\ [y EXCEPT !.at = a].children = y.children
         /\ [y EXCEPT !.at = a].ready = y.ready
BY DEF GroupObjects

\* A step of the one group that may register in a class.
LEMMA OneClass ==
  ASSUME FarmInv, NEW g \in FarmGroups, NEW c \in Classes, NEW z \in StaticInfos,
         static_info' = [static_info EXCEPT ![c] = z], static_info[c].m_mutex \in {NoGroup, g},
         \A h \in FarmGroups : h # g => grp'[h] = grp[h], grp[g].grp_name = c, grp'[g].grp_name = c,
         z.m_mutex = IF Registers(g)' THEN g ELSE NoGroup,
         \A i \in 1 .. Len(z.names) : i <= Len(ClassMetrics[c]) /\ z.names[i] = ClassMetrics[c][i],
         Len(z.names) = IF ~z.m_reg_pending THEN Len(ClassMetrics[c])
                        ELSE IF Registers(g)' THEN Len(grp'[g].dinfo) ELSE 0
  PROVE  ClassInv'
<1>1. static_info'[c] = z /\ \A d \in Classes : d # c => static_info'[d] = static_info[d]
  BY DEF FarmInv, FarmTypeOK
<1>2. ASSUME NEW h \in FarmGroups, Registers(h)' PROVE Info(h)'.m_mutex = h
  <2>1. CASE h = g  BY <1>1, <1>2, <2>1 DEF Info
  <2>2. CASE h # g
    <3>1. Registers(h) /\ grp'[h] = grp[h]  BY <1>2, <2>2 DEF Registers
    <3>2. Info(h).m_mutex = h /\ grp[h].grp_name \in Classes
      BY <3>1, GroupFacts DEF Registers, Exists, FarmInv, ClassInv
    <3>3. grp[h].grp_name # c  BY <2>2, <3>2, FarmAssumption DEF Info
    <3>4. QED  BY <1>1, <3>1, <3>2, <3>3 DEF Info
  <2>3. QED  BY <2>1, <2>2
<1>3. ASSUME NEW d \in Classes PROVE ClassStands(d)'
  <2>1. CASE d = c
    <3>1. CASE Registers(g)'
      <4>1. z.m_mutex = g /\ g # NoGroup  BY <3>1, FarmAssumption
      <4>2. QED  BY <1>1, <2>1, <3>1, <4>1, SMTT(30) DEF ClassStands, Registers
    <3>2. CASE ~Registers(g)'
      <4>1. z.m_mutex = NoGroup  BY <3>2
      <4>2. QED  BY <1>1, <2>1, <3>2, <4>1, SMTT(30) DEF ClassStands
    <3>3. QED  BY <3>1, <3>2
  <2>2. CASE d # c
    <3>1. PICK m : m = static_info[d].m_mutex /\ m \in FarmGroups \cup {NoGroup}
      BY DEF FarmInv, FarmTypeOK, StaticInfos
    <3>2. ClassStands(d) /\ static_info'[d] = static_info[d]
      BY <1>1, <2>2 DEF FarmInv, ClassInv
    <3>3. m # NoGroup => m # g /\ grp'[m] = grp[m]
      BY <2>2, <3>1, <3>2 DEF ClassStands
    <3>4. QED  BY <3>1, <3>2, <3>3, SMTT(30) DEF ClassStands, Registers
  <2>3. QED  BY <2>1, <2>2
<1>4. QED  BY <1>2, <1>3 DEF ClassInv

LEMMA CreateOrGetInfoInv ==
  ASSUME FarmInv, NEW g \in FarmGroups, CreateOrGetInfo(g)
  PROVE  FarmInv'
<1>1. /\ grp[g].at = "named" /\ grp[g] \in GroupObjects /\ Exists(g) /\ grp[g].grp_name \in Classes /\ grp[g].dinfo = <<>>
  BY GroupFacts DEF CreateOrGetInfo, Exists, FarmInv, FarmTypeOK
<1>2. PICK x \in GroupObjects :
        /\ grp' = [grp EXCEPT ![g] = x] /\ x.at = "locked" /\ x.dinfo = grp[g].dinfo /\ x.grp_name = grp[g].grp_name
        /\ x.inst = grp[g].inst /\ x.children = grp[g].children
  <2>1. grp' = [grp EXCEPT ![g] = [grp[g] EXCEPT !.at = "locked"]]  BY DEF CreateOrGetInfo
  <2>2. "locked" \in GroupPlaces  BY DEF GroupPlaces
  <2>3. QED  BY <1>1, <2>1, <2>2, MovedGroup
<1>3. PICK c \in Classes : c = grp[g].grp_name  BY <1>1
<1>4. PICK s : s = static_info[c]  OBVIOUS
<1>5. /\ s \in StaticInfos /\ s.m_mutex = NoGroup /\ static_info' = [static_info EXCEPT ![c] = [s EXCEPT !.m_mutex = g]]
      /\ UNCHANGED <<m_mgroups, uniq, families, nextObj, report>>
  BY <1>3, <1>4 DEF CreateOrGetInfo, Info, FarmInv, FarmTypeOK
<1>6. PICK z \in StaticInfos : z = [s EXCEPT !.m_mutex = g] /\ z.m_mutex = g /\ z.m_reg_pending = s.m_reg_pending /\ z.names = s.names
  <2>1. [s EXCEPT !.m_mutex = g] \in StaticInfos  BY <1>5 DEF StaticInfos
  <2>2. QED  BY <1>5, <2>1 DEF StaticInfos
<1>7. /\ static_info' \in [Classes -> StaticInfos] /\ static_info'[c] = z
      /\ \A d \in Classes : d # c => static_info'[d] = static_info[d]
  BY <1>5, <1>6 DEF FarmInv, FarmTypeOK
<1>8. FarmTypeOK' /\ DinfoInv' /\ ObjectInv' /\ NameInv' /\ ChildInv'
  BY <1>1, <1>2, <1>5, <1>7, GroupMoves
<1>9. /\ grp' \in [FarmGroups -> GroupObjects] /\ grp'[g] = x
      /\ \A h \in FarmGroups : h # g => grp'[h] = grp[h]
  BY <1>2, OneGroup
<1>10. ListInv'
  BY <1>1, <1>2, <1>5, <1>9, ListStays
<1>11. ClassInv'
  <2>1. /\ \A i \in 1 .. Len(z.names) : i <= Len(ClassMetrics[c]) /\ z.names[i] = ClassMetrics[c][i]
        /\ Len(z.names) = IF ~z.m_reg_pending THEN Len(ClassMetrics[c]) ELSE 0
    BY <1>4, <1>5, <1>6, SMTT(30) DEF FarmInv, ClassInv, ClassStands
  <2>2. Registers(g)' /\ Len(grp'[g].dinfo) = 0 /\ grp'[g].grp_name = c
    BY <1>1, <1>2, <1>3, <1>9, SMTT(30) DEF Registers
  <2>3. QED  BY <1>3, <1>4, <1>5, <1>6, <1>9, <2>1, <2>2, OneClass
<1>12. QED  BY <1>8, <1>10, <1>11 DEF FarmInv

\* registration_completed gives the class back, with all its metrics registered.
LEMMA CompletedFacts ==
  ASSUME FarmInv, NEW g \in FarmGroups, NEW a \in {"registered", "held"}, Registers(g), Completed(g, a),
         Len(grp[g].dinfo) = Len(MetricsOf(g)), grp[g].at = "child" => a = "held", UNCHANGED <<families, nextObj, uniq>>
  PROVE  /\ FarmTypeOK' /\ DinfoInv' /\ ObjectInv' /\ NameInv' /\ ChildInv' /\ ClassInv'
         /\ grp'[g].at = a /\ grp'[g].ready /\ \A h \in FarmGroups : h # g => grp'[h] = grp[h]
<1>1. grp[g] \in GroupObjects /\ Exists(g) /\ grp[g].grp_name \in Classes /\ grp[g].at \in {"locked", "child"}
  BY GroupFacts DEF Registers, Exists
<1>2. PICK x \in GroupObjects :
        /\ grp' = [grp EXCEPT ![g] = x] /\ x.at = a /\ x.ready /\ x.dinfo = grp[g].dinfo /\ x.grp_name = grp[g].grp_name
        /\ x.inst = grp[g].inst /\ x.children = grp[g].children
  <2>1. grp' = [grp EXCEPT ![g] = [grp[g] EXCEPT !.at = a, !.ready = TRUE]]
    BY DEF Completed, FarmInv, FarmTypeOK, GroupObjects
  <2>2. a \in GroupPlaces  BY DEF GroupPlaces
  <2>3. [grp[g] EXCEPT !.at = a, !.ready = TRUE] \in GroupObjects  BY <1>1, <2>2 DEF GroupObjects
  <2>4. QED  BY <1>1, <2>1, <2>3 DEF GroupObjects
<1>3. PICK c \in Classes : c = grp[g].grp_name  BY <1>1
<1>4. PICK s \in StaticInfos : s = static_info[c]  BY DEF FarmInv, FarmTypeOK
<1>5. PICK z \in StaticInfos :
        /\ static_info' = [static_info EXCEPT ![c] = z] /\ z.m_mutex = NoGroup /\ z.m_reg_pending = FALSE /\ z.names = s.names
  <2>1. static_info' = [static_info EXCEPT ![c] = [s EXCEPT !.m_reg_pending = FALSE, !.m_mutex = NoGroup]]
    BY <1>3, <1>4 DEF Completed, FarmInv, FarmTypeOK, StaticInfos
  <2>2. [s EXCEPT !.m_reg_pending = FALSE, !.m_mutex = NoGroup] \in StaticInfos
    BY <1>4 DEF StaticInfos
  <2>3. QED  BY <1>4, <2>1, <2>2 DEF StaticInfos
<1>6. static_info' \in [Classes -> StaticInfos]  BY <1>5 DEF FarmInv, FarmTypeOK
<1>7. FarmTypeOK' /\ DinfoInv' /\ ObjectInv' /\ NameInv' /\ ChildInv'
  BY <1>1, <1>2, <1>6, GroupMoves
<1>8. /\ grp' \in [FarmGroups -> GroupObjects] /\ grp'[g] = x
      /\ \A h \in FarmGroups : h # g => grp'[h] = grp[h]
  BY <1>2, OneGroup
<1>9. ClassInv'
  <2>1. s.m_mutex = g /\ g # NoGroup  BY <1>3, <1>4, FarmAssumption DEF FarmInv, ClassInv, Info
  <2>2. /\ \A i \in 1 .. Len(z.names) : i <= Len(ClassMetrics[c]) /\ z.names[i] = ClassMetrics[c][i]
        /\ Len(z.names) = Len(ClassMetrics[c])
    BY <1>3, <1>4, <1>5, <2>1, SMTT(30) DEF FarmInv, ClassInv, ClassStands, MetricsOf
  <2>3. ~Registers(g)' /\ grp'[g].grp_name = c  BY <1>2, <1>3, <1>8 DEF Registers
  <2>4. z.m_mutex = (IF Registers(g)' THEN g ELSE NoGroup)  BY <1>5, <2>3
  <2>5. QED  BY <1>3, <1>4, <1>5, <1>8, <2>1, <2>2, <2>3, <2>4, OneClass
<1>10. QED  BY <1>2, <1>7, <1>8, <1>9

LEMMA RegisterToFarmInv ==
  ASSUME FarmInv, NEW g \in FarmGroups, RegisterToFarm(g)
  PROVE  FarmInv'
<1>1. /\ grp[g].at = "locked" /\ Len(grp[g].dinfo) = Len(MetricsOf(g)) /\ FarmFree /\ Registers(g)
      /\ Completed(g, "registered") /\ m_mgroups' = m_mgroups \cup {g} /\ UNCHANGED <<uniq, families, nextObj, report>>
  BY DEF RegisterToFarm, Registers
<1>2. /\ FarmTypeOK' /\ DinfoInv' /\ ObjectInv' /\ NameInv' /\ ChildInv' /\ ClassInv'
      /\ grp'[g].at = "registered" /\ grp'[g].ready /\ \A h \in FarmGroups : h # g => grp'[h] = grp[h]
  BY <1>1, CompletedFacts
<1>3. ListInv'
  BY <1>1, <1>2 DEF FarmInv, ListInv
<1>4. QED  BY <1>2, <1>3 DEF FarmInv

LEMMA RegisterChildInv ==
  ASSUME FarmInv, NEW g \in FarmGroups, RegisterChild(g)
  PROVE  FarmInv'
<1>1. /\ grp[g].at = "child" /\ Registers(g) /\ Completed(g, "held") /\ UNCHANGED <<m_mgroups, uniq, families, nextObj, report>>
  BY DEF RegisterChild, Registers
<1>2. Len(grp[g].dinfo) = Len(MetricsOf(g))  BY <1>1 DEF FarmInv, DinfoInv
<1>3. /\ FarmTypeOK' /\ DinfoInv' /\ ObjectInv' /\ NameInv' /\ ChildInv' /\ ClassInv'
      /\ grp'[g].at = "held" /\ \A h \in FarmGroups : h # g => grp'[h] = grp[h]
  BY <1>1, <1>2, CompletedFacts
<1>4. ListInv'  BY <1>1, <1>3, ListStays
<1>5. QED  BY <1>3, <1>4 DEF FarmInv

LEMMA DeregisterInv ==
  ASSUME FarmInv, NEW g \in FarmGroups, Deregister(g)
  PROVE  FarmInv'
<1>1. /\ grp[g].at = "registered" /\ FarmFree /\ grp[g] \in GroupObjects /\ Exists(g) /\ grp[g].grp_name \in Classes
      /\ m_mgroups' = m_mgroups \ {g} /\ UNCHANGED <<uniq, static_info, families, nextObj, report>>
  BY GroupFacts DEF Deregister, Exists
<1>2. PICK x \in GroupObjects :
        /\ grp' = [grp EXCEPT ![g] = x] /\ x.at = "leaving" /\ x.dinfo = grp[g].dinfo /\ x.grp_name = grp[g].grp_name
        /\ x.inst = grp[g].inst /\ x.children = grp[g].children
  <2>1. grp' = [grp EXCEPT ![g] = [grp[g] EXCEPT !.at = "leaving"]]  BY DEF Deregister
  <2>2. "leaving" \in GroupPlaces  BY DEF GroupPlaces
  <2>3. QED  BY <1>1, <2>1, <2>2, MovedGroup
<1>3. static_info' \in [Classes -> StaticInfos]  BY <1>1 DEF FarmInv, FarmTypeOK
<1>4. FarmTypeOK' /\ DinfoInv' /\ ObjectInv' /\ NameInv' /\ ChildInv'
  BY <1>1, <1>2, <1>3, GroupMoves
<1>5. /\ grp' \in [FarmGroups -> GroupObjects] /\ grp'[g] = x
      /\ \A h \in FarmGroups : h # g => grp'[h] = grp[h]
  BY <1>2, OneGroup
<1>6. ClassInv'  BY <1>1, <1>2, <1>5, ClassesStay DEF Registers
<1>7. ListInv'
  <2>1. m_mgroups' = {h \in FarmGroups : grp'[h].at = "registered"} /\ \A h \in m_mgroups' : grp'[h].ready
    BY <1>1, <1>2, <1>5 DEF FarmInv, ListInv
  <2>2. ~report.on /\ report.cur = NoGroup /\ report.todo = {}
    BY <1>1 DEF FarmFree, FarmInv, ListInv
  <2>3. QED  BY <1>1, <2>1, <2>2 DEF FarmInv, ListInv
<1>8. QED  BY <1>4, <1>6, <1>7 DEF FarmInv

LEMMA AddChildGroupInv ==
  ASSUME FarmInv, NEW g \in FarmGroups, NEW p \in FarmGroups \ {g}, AddChildGroup(g, p)
  PROVE  FarmInv'
<1>1. /\ grp[g].at = "locked" /\ Len(grp[g].dinfo) = Len(MetricsOf(g)) /\ grp[p].at = "registered"
      /\ UNCHANGED <<m_mgroups, uniq, static_info, families, nextObj, report>>
      /\ grp[g] \in GroupObjects /\ grp[p] \in GroupObjects
  BY GroupFacts DEF AddChildGroup
<1>2. PICK x \in GroupObjects : x = [grp[g] EXCEPT !.at = "child"] /\ x.at = "child" /\ x.dinfo = grp[g].dinfo
        /\ x.grp_name = grp[g].grp_name /\ x.inst = grp[g].inst /\ x.children = grp[g].children
  <2>1. "child" \in GroupPlaces  BY DEF GroupPlaces
  <2>2. QED  BY <1>1, <2>1, MovedGroup
<1>3. PICK y \in GroupObjects : y = [grp[p] EXCEPT !.children = @ \cup {g}] /\ y.at = "registered" /\ y.dinfo = grp[p].dinfo
        /\ y.grp_name = grp[p].grp_name /\ y.inst = grp[p].inst /\ y.children = grp[p].children \cup {g} /\ y.ready = grp[p].ready
  <2>1. [grp[p] EXCEPT !.children = @ \cup {g}] \in GroupObjects  BY <1>1 DEF GroupObjects
  <2>2. QED  BY <1>1, <2>1 DEF GroupObjects
<1>4. /\ grp' \in [FarmGroups -> GroupObjects] /\ grp'[g] = x /\ grp'[p] = y
      /\ \A h \in FarmGroups \ {g, p} : grp'[h] = grp[h]
  <2>1. grp' = [[grp EXCEPT ![g] = x] EXCEPT ![p] = y]
    BY <1>2, <1>3 DEF AddChildGroup, FarmInv, FarmTypeOK
  <2>2. QED  BY <2>1 DEF FarmInv, FarmTypeOK
<1>5. /\ \A h \in FarmGroups : /\ grp'[h].dinfo = grp[h].dinfo /\ grp'[h].grp_name = grp[h].grp_name
                               /\ grp'[h].inst = grp[h].inst /\ (h # g => grp'[h].at = grp[h].at)
                               /\ (h # p => grp'[h].children = grp[h].children)
      /\ grp'[g].at = "child" /\ grp'[p].children = grp[p].children \cup {g}
  BY <1>1, <1>2, <1>3, <1>4
<1>6. FarmTypeOK'
  BY <1>1, <1>4, <1>5 DEF FarmInv, FarmTypeOK, Exists
<1>7. DinfoInv' /\ ObjectInv'
  <2>1. \A h \in FarmGroups :
           \/ grp'[h].dinfo = <<>> /\ grp'[h].at # "child"
           \/ /\ grp'[h].dinfo = grp[h].dinfo /\ grp'[h].grp_name = grp[h].grp_name /\ grp'[h].inst = grp[h].inst
              /\ grp'[h].at = "child" => Len(grp[h].dinfo) = Len(MetricsOf(h))
              /\ grp[h].at = "leaving" => grp'[h].at = "leaving"
    BY <1>1, <1>5 DEF FarmInv, DinfoInv
  <2>2. QED  BY <1>1, <2>1, MetricsStay
<1>8. NameInv'  BY <1>1, <1>5, NamesStay DEF Exists
<1>9. ClassInv'  BY <1>1, <1>5, ClassesStay DEF Registers
<1>10. ListInv'  BY <1>1, <1>3, <1>4, <1>5, ListStays
<1>11. ChildInv'
  <2>1. \A q \in FarmGroups : g \notin grp[q].children /\ grp[q].children \subseteq FarmGroups
    BY <1>1, GroupFacts DEF FarmInv, ChildInv
  <2>2. \A q \in FarmGroups : \A h \in grp[q].children : grp'[h].at \in {"child", "held"}
    BY <1>5, <2>1 DEF FarmInv, ChildInv
  <2>3. ASSUME NEW q \in FarmGroups, NEW h \in grp'[q].children PROVE grp'[h].at \in {"child", "held"}
    BY <1>5, <2>2, <2>3
  <2>4. ASSUME NEW q \in FarmGroups, NEW r \in FarmGroups, q # r PROVE grp'[q].children \cap grp'[r].children = {}
    BY <1>5, <2>1, <2>4, SMTT(30) DEF FarmInv, ChildInv
  <2>5. QED  BY <2>3, <2>4 DEF ChildInv
<1>12. QED  BY <1>6, <1>7, <1>8, <1>9, <1>10, <1>11 DEF FarmInv

\* A report leaves the groups alone.
LEMMA GroupsAlone ==
  ASSUME FarmInv, UNCHANGED <<uniq, static_info, families, nextObj, grp>>
  PROVE  FarmTypeOK' /\ ClassInv' /\ DinfoInv' /\ ObjectInv' /\ NameInv' /\ ChildInv'
<1>1. FarmTypeOK' /\ ClassInv'  BY SMTT(30)
                                   DEF FarmInv, FarmTypeOK, ClassInv, ClassStands, Registers,
                                       Exists, Info
<1>2. DinfoInv' /\ ObjectInv'
  <2>1. DinfoInv'  BY DEF FarmInv, DinfoInv, MetricsOf
  <2>2. ObjectInv'  BY SMTT(30) DEF FarmInv, ObjectInv
  <2>3. QED  BY <2>1, <2>2
<1>3. NameInv' /\ ChildInv'  BY DEF FarmInv, NameInv, ChildInv, Exists
<1>4. QED  BY <1>1, <1>2, <1>3

LEMMA ReportInv ==
  ASSUME FarmInv, ReportBegins \/ PublishEnds \/ ReportEnds \/ \E g \in FarmGroups : PublishBegins(g)
  PROVE  FarmInv'
<1>1. UNCHANGED <<m_mgroups, uniq, static_info, families, nextObj, grp>>
  BY DEF ReportBegins, PublishEnds, ReportEnds, PublishBegins
<1>2. FarmTypeOK' /\ ClassInv' /\ DinfoInv' /\ ObjectInv' /\ NameInv' /\ ChildInv'
  BY <1>1, GroupsAlone
<1>3. /\ report' \in [todo : SUBSET m_mgroups, cur : m_mgroups \cup {NoGroup}, on : BOOLEAN]
      /\ ~report'.on => report'.cur = NoGroup /\ report'.todo = {}
  <2>1. CASE ReportBegins  BY <2>1 DEF ReportBegins
  <2>2. CASE PublishEnds  BY <2>2 DEF PublishEnds, FarmInv, ListInv
  <2>3. CASE ReportEnds  BY <2>3 DEF ReportEnds, NoReport
  <2>4. CASE \E g \in FarmGroups : PublishBegins(g)  BY <2>4 DEF PublishBegins, FarmInv, ListInv
  <2>5. QED  BY <2>1, <2>2, <2>3, <2>4
<1>4. ListInv'  BY <1>1, <1>3 DEF FarmInv, ListInv
<1>5. QED  BY <1>2, <1>4 DEF FarmInv

\* The metric registered next is the next one of the class, whoever registers it.
LEMMA NextMetric ==
  ASSUME FarmInv, NEW g \in FarmGroups, grp[g].at = "locked", Len(grp[g].dinfo) + 1 <= Len(MetricsOf(g))
  PROVE  LET s == Info(g)
             m == MetricsOf(g)
             idx == Len(grp[g].dinfo) + 1
             nms == IF s.m_reg_pending THEN Append(s.names, m[idx]) ELSE s.names
         IN  /\ s.m_mutex = g /\ nms \in Seq(MetricNames) /\ nms[idx] = m[idx] /\ m[idx] \in MetricNames
             /\ m[idx] \in Range(m) /\ \A i \in 1 .. Len(nms) : i <= Len(m) /\ nms[i] = m[i]
             /\ Len(nms) = IF s.m_reg_pending THEN idx ELSE Len(m)
<1>01. PICK c \in Classes : c = grp[g].grp_name  BY GroupFacts DEF Exists
<1>02. PICK s \in StaticInfos : s = static_info[c] /\ s = Info(g)
  BY <1>01 DEF FarmInv, FarmTypeOK, Info
<1>03. PICK idx : idx = Len(grp[g].dinfo) + 1  OBVIOUS
<1>04. PICK nms : nms = IF s.m_reg_pending THEN Append(s.names, ClassMetrics[c][idx]) ELSE s.names  OBVIOUS
<1>1. s.m_mutex = g /\ g # NoGroup
  BY <1>02, FarmAssumption DEF FarmInv, ClassInv, Registers
<1>2. PICK m \in Seq(MetricNames) : m = ClassMetrics[c] /\ m = MetricsOf(g)
  BY <1>01, MetricsOfClass DEF MetricsOf
<1>3. PICK n \in Seq(MetricNames) : n = s.names  BY <1>02 DEF StaticInfos
<1>4. /\ \A i \in 1 .. Len(n) : i <= Len(m) /\ n[i] = m[i]
      /\ Len(n) = IF ~s.m_reg_pending THEN Len(m) ELSE Len(grp[g].dinfo)
  <2>1. ClassStands(c)  BY DEF FarmInv, ClassInv
  <2>2. QED  BY <1>02, <1>1, <1>2, <1>3, <2>1 DEF ClassStands
<1>5. idx \in 1 .. Len(m) /\ Len(grp[g].dinfo) \in Nat
  <2>1. Len(grp[g].dinfo) \in Nat  BY GroupFacts, SMTT(30)
  <2>2. QED  BY <1>03, <1>2, <2>1, SMTT(30)
<1>6. m[idx] \in MetricNames /\ m[idx] \in Range(m)  BY <1>2, <1>5, SMTT(30) DEF Range
<1>7. /\ nms \in Seq(MetricNames) /\ nms[idx] = m[idx] /\ \A i \in 1 .. Len(nms) : i <= Len(m) /\ nms[i] = m[i]
      /\ Len(nms) = IF s.m_reg_pending THEN idx ELSE Len(m)
  <2>1. CASE s.m_reg_pending
    <3>1. PICK v \in MetricNames : v = m[idx]  BY <1>6
    <3>2. nms = Append(n, v) /\ Len(n) + 1 = idx  BY <1>03, <1>04, <1>2, <1>3, <1>4, <2>1, <3>1
    <3>3. /\ Append(n, v) \in Seq(MetricNames) /\ Len(Append(n, v)) = Len(n) + 1 /\ Append(n, v)[Len(n) + 1] = v
          /\ \A i \in 1 .. Len(n) : Append(n, v)[i] = n[i]
      BY SMTT(30)
    <3>4. nms \in Seq(MetricNames) /\ Len(nms) = idx /\ nms[idx] = v /\ \A i \in 1 .. Len(n) : nms[i] = n[i]
      BY <3>2, <3>3
    <3>5. ASSUME NEW i \in 1 .. Len(nms) PROVE i <= Len(m) /\ nms[i] = m[i]
      <4>1. i = idx \/ i \in 1 .. Len(n)  BY <3>2, <3>4, SMTT(30)
      <4>2. idx <= Len(m) /\ nms[idx] = m[idx]  BY <1>5, <3>1, <3>4, SMTT(30)
      <4>3. QED  BY <1>4, <3>4, <4>1, <4>2
    <3>6. QED  BY <2>1, <3>1, <3>4, <3>5
  <2>2. CASE ~s.m_reg_pending
    <3>1. nms = n /\ Len(n) = Len(m)  BY <1>04, <1>3, <1>4, <2>2
    <3>2. QED  BY <1>4, <1>5, <2>2, <3>1
  <2>3. QED  BY <2>1, <2>2
<1>8. QED  BY <1>02, <1>03, <1>04, <1>1, <1>2, <1>6, <1>7, SMTT(30)

\* What add_counter and its kin do to the reporter: one more key, or none.
LEMMA AddObjectFacts ==
  ASSUME FarmInv, NEW key,
         families' = [k \in DOMAIN families \cup {key} |-> IF k = key THEN AddObject(key) ELSE families[k]],
         nextObj' = IF AddObject(key) = nextObj THEN nextObj + 1 ELSE nextObj
  PROVE  /\ DOMAIN families' = DOMAIN families \cup {key} /\ families'[key] = AddObject(key)
         /\ \A k \in DOMAIN families : families'[k] = families[k] /\ families[k] \in Nat /\ families[k] < nextObj
         /\ AddObject(key) \in Nat /\ nextObj' \in Nat /\ nextObj' >= nextObj /\ AddObject(key) < nextObj'
         /\ key \notin DOMAIN families => AddObject(key) = nextObj
<1> DEFINE obj == AddObject(key)
<1>1. nextObj \in Nat /\ \A k \in DOMAIN families : families[k] \in Nat /\ families[k] < nextObj
  BY DEF FarmInv, FarmTypeOK
<1>2. obj \in Nat /\ (key \in DOMAIN families => obj = families[key] /\ obj < nextObj)
      /\ (key \notin DOMAIN families => obj = nextObj)
  BY <1>1 DEF AddObject
<1> HIDE DEF obj
<1>3. DOMAIN families' = DOMAIN families \cup {key} /\ families'[key] = obj
      /\ \A k \in DOMAIN families : families'[k] = families[k]
  BY <1>2 DEF obj
<1>4. QED  BY <1>1, <1>2, <1>3, SMTT(30) DEF obj

LEMMA RegisterMetricInv ==
  ASSUME FarmInv, NEW g \in FarmGroups, RegisterMetric(g)
  PROVE  FarmInv'
<1>1. grp[g].at = "locked" /\ grp[g] \in GroupObjects /\ Exists(g) /\ grp[g].grp_name \in Classes
      /\ grp[g].dinfo \in Seq(MetricNames \X Nat) /\ UNCHANGED <<m_mgroups, uniq, report>>
  BY GroupFacts DEF RegisterMetric, Exists
<1>2. PICK c \in Classes : c = grp[g].grp_name  BY <1>1
<1>3. PICK s \in StaticInfos : s = static_info[c]  BY DEF FarmInv, FarmTypeOK
<1>4. PICK d \in Seq(MetricNames \X Nat) : d = grp[g].dinfo  BY <1>1
<1>5. PICK idx \in Nat \ {0} : idx = Len(d) + 1  BY <1>4, SMTT(30)
<1>6. PICK nms : nms = IF s.m_reg_pending THEN Append(s.names, ClassMetrics[c][idx]) ELSE s.names  OBVIOUS
<1>7. PICK key : key = <<nms[idx], grp[g].inst>>  OBVIOUS
<1>8. PICK obj : obj = AddObject(key)  OBVIOUS
<1>9. /\ idx <= Len(ClassMetrics[c])
      /\ static_info' = [static_info EXCEPT ![c] = [s EXCEPT !.names = nms]]
      /\ grp' = [grp EXCEPT ![g] = [grp[g] EXCEPT !.dinfo = Append(d, <<nms[idx], obj>>)]]
      /\ families' = [k \in DOMAIN families \cup {key} |-> IF k = key THEN obj ELSE families[k]]
      /\ nextObj' = IF obj = nextObj THEN nextObj + 1 ELSE nextObj
  BY <1>2, <1>3, <1>4, <1>5, <1>6, <1>7, <1>8 DEF RegisterMetric, MetricsOf, Info, RegisterStatic
<1>10. PICK mt : mt = ClassMetrics[c][idx]  OBVIOUS
<1>11. /\ s.m_mutex = g /\ nms \in Seq(MetricNames) /\ nms[idx] = mt /\ mt \in MetricNames /\ mt \in Range(ClassMetrics[c])
       /\ \A i \in 1 .. Len(nms) : i <= Len(ClassMetrics[c]) /\ nms[i] = ClassMetrics[c][i]
       /\ Len(nms) = IF s.m_reg_pending THEN idx ELSE Len(ClassMetrics[c])
  <2>1. /\ Len(grp[g].dinfo) + 1 = idx /\ MetricsOf(g) = ClassMetrics[c] /\ Info(g) = s
    BY <1>2, <1>3, <1>4, <1>5 DEF MetricsOf, Info
  <2>2. Len(grp[g].dinfo) + 1 <= Len(MetricsOf(g))  BY <1>9, <2>1
  <2>3. LET nn == IF Info(g).m_reg_pending THEN Append(Info(g).names, MetricsOf(g)[idx]) ELSE Info(g).names
        IN  /\ Info(g).m_mutex = g /\ nn \in Seq(MetricNames) /\ nn[idx] = MetricsOf(g)[idx]
            /\ MetricsOf(g)[idx] \in MetricNames /\ MetricsOf(g)[idx] \in Range(MetricsOf(g))
            /\ \A i \in 1 .. Len(nn) : i <= Len(MetricsOf(g)) /\ nn[i] = MetricsOf(g)[i]
            /\ Len(nn) = IF Info(g).m_reg_pending THEN idx ELSE Len(MetricsOf(g))
    BY <1>1, <2>1, <2>2, NextMetric
  <2>4. nms = IF Info(g).m_reg_pending THEN Append(Info(g).names, MetricsOf(g)[idx]) ELSE Info(g).names
    BY <1>6, <2>1
  <2>5. QED  BY <1>10, <2>1, <2>3, <2>4
<1>12. /\ DOMAIN families' = DOMAIN families \cup {key} /\ families'[key] = obj
       /\ \A k \in DOMAIN families : families'[k] = families[k] /\ families[k] \in Nat /\ families[k] < nextObj
       /\ obj \in Nat /\ nextObj' \in Nat /\ nextObj' >= nextObj /\ obj < nextObj'
       /\ key \notin DOMAIN families => obj = nextObj
  <2>1. families' = [k \in DOMAIN families \cup {key} |-> IF k = key THEN AddObject(key) ELSE families[k]]
    BY <1>8, <1>9
  <2>2. nextObj' = IF AddObject(key) = nextObj THEN nextObj + 1 ELSE nextObj  BY <1>8, <1>9
  <2>3. QED  BY <1>8, <2>1, <2>2, AddObjectFacts
<1>13. PICK e \in Seq(MetricNames \X Nat) :
         /\ e = Append(d, <<mt, obj>>) /\ Len(e) = idx /\ e[idx] = <<mt, obj>> /\ \A i \in 1 .. Len(d) : e[i] = d[i]
  <2>1. PICK t \in MetricNames \X Nat : t = <<mt, obj>>  BY <1>11, <1>12
  <2>2. /\ Append(d, t) \in Seq(MetricNames \X Nat) /\ Len(Append(d, t)) = Len(d) + 1 /\ Append(d, t)[Len(d) + 1] = t
        /\ \A i \in 1 .. Len(d) : Append(d, t)[i] = d[i]
    BY SMTT(30)
  <2>3. QED  BY <1>5, <2>1, <2>2
<1>14. PICK x \in GroupObjects :
         /\ grp' = [grp EXCEPT ![g] = x] /\ x.at = "locked" /\ x.dinfo = e /\ x.grp_name = c
         /\ x.inst = grp[g].inst /\ x.children = grp[g].children
  <2>1. [grp[g] EXCEPT !.dinfo = e] \in GroupObjects  BY <1>1 DEF GroupObjects
  <2>2. grp' = [grp EXCEPT ![g] = [grp[g] EXCEPT !.dinfo = e]]  BY <1>9, <1>11, <1>13
  <2>3. QED  BY <1>1, <1>2, <2>1, <2>2 DEF GroupObjects
<1>15. PICK z \in StaticInfos :
         /\ static_info' = [static_info EXCEPT ![c] = z] /\ z.m_mutex = g /\ z.m_reg_pending = s.m_reg_pending /\ z.names = nms
  <2>1. [s EXCEPT !.names = nms] \in StaticInfos  BY <1>11 DEF StaticInfos
  <2>2. QED  BY <1>9, <1>11, <2>1 DEF StaticInfos
<1>16. /\ grp' \in [FarmGroups -> GroupObjects] /\ grp'[g] = x
       /\ \A h \in FarmGroups : h # g => grp'[h] = grp[h]
  BY <1>14, OneGroup
<1>17. FarmTypeOK'
  <2>1. static_info' \in [Classes -> StaticInfos]  BY <1>15 DEF FarmInv, FarmTypeOK
  <2>2. \A k \in DOMAIN families' : families'[k] \in Nat /\ families'[k] < nextObj'
    <3>1. nextObj \in Nat  BY DEF FarmInv, FarmTypeOK
    <3>2. QED  BY <1>12, <3>1, SMTT(30)
  <2>3. QED  BY <1>1, <1>12, <1>14, <1>16, <2>1, <2>2 DEF FarmInv, FarmTypeOK, Exists
<1>18. ClassInv'
  <2>1. Registers(g)' /\ grp'[g].grp_name = c  BY <1>14, <1>16 DEF Registers
  <2>2. z.m_mutex = (IF Registers(g)' THEN g ELSE NoGroup)  BY <1>15, <2>1
  <2>3. Len(z.names) = IF ~z.m_reg_pending THEN Len(ClassMetrics[c])
                       ELSE IF Registers(g)' THEN Len(grp'[g].dinfo) ELSE 0
    BY <1>11, <1>13, <1>14, <1>15, <1>16, <2>1
  <2>4. QED  BY <1>2, <1>3, <1>11, <1>15, <1>16, <2>1, <2>2, <2>3, OneClass
<1>19. NameInv'
  <2>1. \A h \in FarmGroups : Exists(h)' => Exists(h) /\ grp'[h].grp_name = grp[h].grp_name /\ grp'[h].inst = grp[h].inst
    BY <1>1, <1>2, <1>14, <1>16 DEF Exists
  <2>2. QED  BY <1>1, <2>1, NamesStay
<1>20. ChildInv'
  <2>1. \A p \in FarmGroups : grp'[p].children = grp[p].children /\ grp'[p].at = grp[p].at
    BY <1>1, <1>14, <1>16
  <2>2. QED  BY <2>1, GroupFacts, ChildrenStay DEF FarmInv, ChildInv
<1>21. ListInv'
  BY <1>1, <1>14, <1>16, ListStays
<1>22. DinfoInv'
  <2>1. ASSUME NEW h \in FarmGroups, h # g
        PROVE  /\ grp'[h].at = "child" => Len(grp'[h].dinfo) = Len(MetricsOf(h)')
               /\ \A i \in 1 .. Len(grp'[h].dinfo) :
                    /\ grp'[h].dinfo[i][1] \in Range(MetricsOf(h)')
                    /\ grp'[h].at # "leaving" => i <= Len(MetricsOf(h)') /\ grp'[h].dinfo[i][1] = MetricsOf(h)'[i]
    BY <1>16, <2>1, SMTT(30) DEF FarmInv, DinfoInv, MetricsOf
  <2>2. ASSUME NEW i \in 1 .. Len(e)
        PROVE  e[i][1] \in Range(ClassMetrics[c]) /\ i <= Len(ClassMetrics[c]) /\ e[i][1] = ClassMetrics[c][i]
    <3>1. CASE i = idx  BY <1>9, <1>10, <1>11, <1>13, <3>1, SMTT(30)
    <3>2. CASE i # idx
      <4>1. i \in 1 .. Len(d) /\ e[i] = d[i]  BY <1>5, <1>13, <2>2, <3>2, SMTT(30)
      <4>2. QED  BY <1>1, <1>2, <1>4, <4>1 DEF FarmInv, DinfoInv, MetricsOf
    <3>3. QED  BY <3>1, <3>2
  <2>3. MetricsOf(g)' = ClassMetrics[c]  BY <1>14, <1>16 DEF MetricsOf
  <2>4. QED  BY <1>14, <1>16, <2>1, <2>2, <2>3, SMTT(30) DEF DinfoInv
<1>23. ObjectInv'
  <2>1. nextObj \in Nat  BY DEF FarmInv, FarmTypeOK
  <2>2. \A k, l \in DOMAIN families' : families'[k] = families'[l] => k = l
    BY <1>12, <2>1, SMTT(30) DEF FarmInv, ObjectInv
  <2>3. ASSUME NEW h \in FarmGroups, NEW i \in 1 .. Len(grp[h].dinfo)
        PROVE  LET ky == <<grp[h].dinfo[i][1], grp[h].inst>>
                   o == grp[h].dinfo[i][2]
               IN  /\ o < nextObj'
                   /\ grp[h].at # "leaving" => ky \in DOMAIN families' /\ families'[ky] = o
                   /\ \A k \in DOMAIN families' : families'[k] = o => k = ky
    <3> DEFINE ky == <<grp[h].dinfo[i][1], grp[h].inst>>
               o == grp[h].dinfo[i][2]
    <3>1. /\ o < nextObj
          /\ grp[h].at # "leaving" => ky \in DOMAIN families /\ families[ky] = o
          /\ \A k \in DOMAIN families : families[k] = o => k = ky
      BY <2>3 DEF FarmInv, ObjectInv
    <3>2. o \in Nat
      <4>1. grp[h].dinfo[i] \in MetricNames \X Nat  BY GroupFacts, SMTT(30)
      <4>2. QED  BY <2>3, <4>1
    <3> HIDE DEF ky, o
    <3>3. /\ o < nextObj'
          /\ grp[h].at # "leaving" => ky \in DOMAIN families' /\ families'[ky] = o
          /\ \A k \in DOMAIN families' : families'[k] = o => k = ky
      BY <1>12, <2>1, <3>1, <3>2, SMTT(30)
    <3>4. QED  BY <3>3 DEF ky, o
  <2>4. ASSUME NEW i \in 1 .. Len(e)
        PROVE  LET ky == <<e[i][1], x.inst>>
                   o == e[i][2]
               IN  /\ o < nextObj' /\ ky \in DOMAIN families' /\ families'[ky] = o
                   /\ \A k \in DOMAIN families' : families'[k] = o => k = ky
    <3>1. CASE i = idx
      <4>1. <<e[i][1], x.inst>> = key /\ e[i][2] = obj
        BY <1>7, <1>11, <1>13, <1>14, <2>4, <3>1, SMTT(30)
      <4>2. /\ obj < nextObj' /\ key \in DOMAIN families' /\ families'[key] = obj
            /\ \A k \in DOMAIN families' : families'[k] = obj => k = key
        BY <1>12, <2>2
      <4>3. QED  BY <4>1, <4>2
    <3>2. CASE i # idx
      <4>1. i \in 1 .. Len(d) /\ e[i] = d[i]  BY <1>5, <1>13, <2>4, <3>2, SMTT(30)
      <4>2. i \in 1 .. Len(grp[g].dinfo) /\ e[i] = grp[g].dinfo[i] /\ x.inst = grp[g].inst
        BY <1>4, <1>14, <2>4, <4>1
      <4>3. LET ky == <<grp[g].dinfo[i][1], grp[g].inst>>
                o == grp[g].dinfo[i][2]
            IN  /\ o < nextObj' /\ ky \in DOMAIN families' /\ families'[ky] = o
                /\ \A k \in DOMAIN families' : families'[k] = o => k = ky
        <5>1. g \in FarmGroups /\ grp[g].at # "leaving"
          BY <1>1
        <5>2. QED  BY <2>3, <4>2, <5>1
      <4>4. QED  BY <4>2, <4>3
    <3>3. QED  BY <3>1, <3>2
  <2>5. ASSUME NEW h \in FarmGroups, NEW i \in 1 .. Len(grp'[h].dinfo)
        PROVE  LET ky == <<grp'[h].dinfo[i][1], grp'[h].inst>>
                   o == grp'[h].dinfo[i][2]
               IN  /\ o < nextObj'
                   /\ grp'[h].at # "leaving" => ky \in DOMAIN families' /\ families'[ky] = o
                   /\ \A k \in DOMAIN families' : families'[k] = o => k = ky
    <3>1. CASE h = g
      <4>1. i \in 1 .. Len(e) /\ grp'[h].dinfo = e /\ grp'[h].inst = x.inst
        BY <1>14, <1>16, <2>5, <3>1
      <4>2. QED  BY <2>4, <4>1
    <3>2. CASE h # g
      <4>1. grp'[h] = grp[h]  BY <1>16, <3>2
      <4>2. QED  BY <2>3, <2>5, <4>1, SMTT(30)
    <3>3. QED  BY <3>1, <3>2
  <2>6. QED  BY <2>2, <2>5 DEF ObjectInv
<1>24. QED  BY <1>17, <1>18, <1>19, <1>20, <1>21, <1>22, <1>23 DEF FarmInv

\* Two groups share no key: their metrics are of different classes, or their
\* names differ.
LEMMA KeysApart ==
  ASSUME FarmInv, MetricsApart, NEW g \in FarmGroups, NEW h \in FarmGroups, g # h, Exists(g), Exists(h),
         NEW i \in 1 .. Len(grp[g].dinfo), NEW j \in 1 .. Len(grp[h].dinfo)
  PROVE  <<grp[g].dinfo[i][1], grp[g].inst>> # <<grp[h].dinfo[j][1], grp[h].inst>>
<1>1. grp[g].grp_name \in Classes /\ grp[h].grp_name \in Classes  BY GroupFacts
<1>2. /\ grp[g].dinfo[i][1] \in Range(ClassMetrics[grp[g].grp_name])
      /\ grp[h].dinfo[j][1] \in Range(ClassMetrics[grp[h].grp_name])
  BY DEF FarmInv, DinfoInv, MetricsOf
<1>3. CASE grp[g].grp_name = grp[h].grp_name  BY <1>3 DEF FarmInv, NameInv
<1>4. CASE grp[g].grp_name # grp[h].grp_name
  <2>1. grp[g].dinfo[i][1] # grp[h].dinfo[j][1]  BY <1>1, <1>2, <1>4 DEF MetricsApart
  <2>2. QED  BY <2>1
<1>5. QED  BY <1>3, <1>4

\* The objects of a group that goes are no one else's.
LEMMA UnregisterOne ==
  ASSUME FarmInv, MetricsApart, NEW g \in FarmGroups, UnregisterMetrics(g), grp[g].dinfo # <<>>
  PROVE  FarmInv'
<1>1. /\ grp[g].at = "leaving" /\ grp[g] \in GroupObjects /\ Exists(g)
      /\ grp[g].dinfo \in Seq(MetricNames \X Nat) /\ UNCHANGED <<m_mgroups, uniq, static_info, nextObj, report>>
  BY GroupFacts DEF UnregisterMetrics, Exists
<1>2. PICK d \in Seq(MetricNames \X Nat) : d = grp[g].dinfo  BY <1>1
<1>3. PICK mt \in MetricNames, obj \in Nat : d[1] = <<mt, obj>> /\ Len(d) >= 1 /\ Head(d) = d[1]
  <2>1. d # <<>>  BY <1>2
  <2>2. Len(d) >= 1 /\ Head(d) = d[1]  BY <2>1, SMTT(30)
  <2>3. d[1] \in MetricNames \X Nat  BY <2>2, SMTT(30)
  <2>4. QED  BY <2>2, <2>3, SMTT(30)
<1>4. PICK e \in Seq(MetricNames \X Nat) : e = Tail(d) /\ Len(e) = Len(d) - 1 /\ \A i \in 1 .. Len(e) : e[i] = d[i + 1]
  <2>1. d # <<>>  BY <1>2
  <2>2. /\ Tail(d) \in Seq(MetricNames \X Nat) /\ Len(Tail(d)) = Len(d) - 1
        /\ \A i \in 1 .. Len(Tail(d)) : Tail(d)[i] = d[i + 1]
    BY <2>1, SMTT(30)
  <2>3. QED  BY <2>2
<1>5. /\ families' = RemoveObject(obj) /\ grp' = [grp EXCEPT ![g] = [grp[g] EXCEPT !.dinfo = e]]
  BY <1>2, <1>3, <1>4, SMTT(30) DEF UnregisterMetrics
<1>6. PICK key : key = <<mt, grp[g].inst>>  OBVIOUS
<1>7. \A k \in DOMAIN families : families[k] = obj => k = key
  <2>1. 1 \in 1 .. Len(grp[g].dinfo) /\ grp[g].dinfo[1] = <<mt, obj>>  BY <1>2, <1>3, SMTT(30)
  <2>2. \A k \in DOMAIN families :
          families[k] = grp[g].dinfo[1][2] => k = <<grp[g].dinfo[1][1], grp[g].inst>>
    BY <2>1 DEF FarmInv, ObjectInv
  <2>3. grp[g].dinfo[1][1] = mt /\ grp[g].dinfo[1][2] = obj
    BY <2>1, SMTT(30)
  <2>4. QED  BY <1>6, <2>2, <2>3
<1>8. /\ DOMAIN families' \subseteq DOMAIN families
      /\ \A k \in DOMAIN families : k # key => k \in DOMAIN families'
      /\ \A k \in DOMAIN families' : families'[k] = families[k]
  BY <1>5, <1>7 DEF RemoveObject
<1>9. PICK x \in GroupObjects :
        /\ grp' = [grp EXCEPT ![g] = x] /\ x.at = "leaving" /\ x.dinfo = e /\ x.grp_name = grp[g].grp_name
        /\ x.inst = grp[g].inst /\ x.children = grp[g].children
  <2>1. [grp[g] EXCEPT !.dinfo = e] \in GroupObjects  BY <1>1 DEF GroupObjects
  <2>2. QED  BY <1>1, <1>5, <2>1 DEF GroupObjects
<1>10. /\ grp' \in [FarmGroups -> GroupObjects] /\ grp'[g] = x
       /\ \A h \in FarmGroups : h # g => grp'[h] = grp[h]
  BY <1>9, OneGroup
<1>11. FarmTypeOK'
  BY <1>1, <1>8, <1>9, <1>10, GroupFacts DEF FarmInv, FarmTypeOK, Exists
<1>12. ClassInv'  BY <1>1, <1>9, <1>10, ClassesStay DEF Registers
<1>13. NameInv'
  <2>1. \A h \in FarmGroups : Exists(h)' => Exists(h) /\ grp'[h].grp_name = grp[h].grp_name /\ grp'[h].inst = grp[h].inst
    BY <1>1, <1>9, <1>10 DEF Exists
  <2>2. QED  BY <1>1, <2>1, NamesStay
<1>14. ChildInv'
  <2>1. \A p \in FarmGroups : grp'[p].children = grp[p].children /\ grp'[p].at = grp[p].at
    BY <1>1, <1>9, <1>10
  <2>2. QED  BY <2>1, GroupFacts, ChildrenStay DEF FarmInv, ChildInv
<1>15. ListInv'  BY <1>1, <1>9, <1>10, ListStays
<1>16. DinfoInv'
  <2>1. \A h \in FarmGroups : MetricsOf(h)' = MetricsOf(h)  BY <1>9, <1>10 DEF MetricsOf
  <2>2. ASSUME NEW i \in 1 .. Len(e) PROVE e[i][1] \in Range(MetricsOf(g))
    <3>1. i + 1 \in 1 .. Len(grp[g].dinfo) /\ e[i] = grp[g].dinfo[i + 1]
      BY <1>2, <1>4, <2>2, SMTT(30)
    <3>2. QED  BY <3>1 DEF FarmInv, DinfoInv
  <2>3. QED  BY <1>9, <1>10, <2>1, <2>2, SMTT(30) DEF FarmInv, DinfoInv
<1>17. ObjectInv'
  <2>1. \A k, l \in DOMAIN families' : families'[k] = families'[l] => k = l
    BY <1>8 DEF FarmInv, ObjectInv
  <2>2. ASSUME NEW h \in FarmGroups, NEW i \in 1 .. Len(grp[h].dinfo)
        PROVE  LET ky == <<grp[h].dinfo[i][1], grp[h].inst>>
                   o == grp[h].dinfo[i][2]
               IN  /\ o < nextObj'
                   /\ grp[h].at # "leaving" => ky \in DOMAIN families' /\ families'[ky] = o
                   /\ \A k \in DOMAIN families' : families'[k] = o => k = ky
    <3> DEFINE ky == <<grp[h].dinfo[i][1], grp[h].inst>>
               o == grp[h].dinfo[i][2]
    <3>1. /\ o < nextObj
          /\ grp[h].at # "leaving" => ky \in DOMAIN families /\ families[ky] = o
          /\ \A k \in DOMAIN families : families[k] = o => k = ky
      BY <2>2 DEF FarmInv, ObjectInv
    <3>2. grp[h].at # "leaving" => ky # key
      <4>1. SUFFICES ASSUME grp[h].at # "leaving" PROVE ky # key  OBVIOUS
      <4>2. h # g  BY <1>1, <4>1
      <4>3. Exists(h)
        <5>1. Len(grp[h].dinfo) # 0  BY GroupFacts, SMTT(30)
        <5>2. grp[h].dinfo # <<>>  BY <5>1, SMTT(30)
        <5>3. QED  BY <5>2 DEF FarmInv, FarmTypeOK, Exists
      <4>4. 1 \in 1 .. Len(grp[g].dinfo) /\ grp[g].dinfo[1][1] = mt  BY <1>2, <1>3, SMTT(30)
      <4>5. QED  BY <1>1, <1>6, <2>2, <4>2, <4>3, <4>4, KeysApart
    <3> HIDE DEF ky, o
    <3>3. /\ o < nextObj'
          /\ grp[h].at # "leaving" => ky \in DOMAIN families' /\ families'[ky] = o
          /\ \A k \in DOMAIN families' : families'[k] = o => k = ky
      BY <1>1, <1>8, <3>1, <3>2
    <3>4. QED  BY <3>3 DEF ky, o
  <2>3. ASSUME NEW h \in FarmGroups, NEW i \in 1 .. Len(grp'[h].dinfo)
        PROVE  LET ky == <<grp'[h].dinfo[i][1], grp'[h].inst>>
                   o == grp'[h].dinfo[i][2]
               IN  /\ o < nextObj'
                   /\ grp'[h].at # "leaving" => ky \in DOMAIN families' /\ families'[ky] = o
                   /\ \A k \in DOMAIN families' : families'[k] = o => k = ky
    <3>1. PICK j \in 1 .. Len(grp[h].dinfo) : grp'[h].dinfo[i] = grp[h].dinfo[j]
      <4>1. CASE h = g
        <5>0. i \in 1 .. Len(e)  BY <1>9, <1>10, <2>3, <4>1
        <5>1. i + 1 \in 1 .. Len(grp[g].dinfo) /\ e[i] = grp[g].dinfo[i + 1]
          BY <1>2, <1>4, <5>0, SMTT(30)
        <5>2. QED  BY <1>9, <1>10, <4>1, <5>1
      <4>2. CASE h # g  BY <1>10, <2>3, <4>2
      <4>3. QED  BY <4>1, <4>2
    <3>2. grp'[h].inst = grp[h].inst /\ grp'[h].at = grp[h].at
      BY <1>1, <1>9, <1>10
    <3>3. LET ky == <<grp[h].dinfo[j][1], grp[h].inst>>
              o == grp[h].dinfo[j][2]
          IN  /\ o < nextObj'
              /\ grp[h].at # "leaving" => ky \in DOMAIN families' /\ families'[ky] = o
              /\ \A k \in DOMAIN families' : families'[k] = o => k = ky
      BY <2>2
    <3>4. QED  BY <3>1, <3>2, <3>3
  <2>4. QED  BY <2>1, <2>3 DEF ObjectInv
<1>18. QED  BY <1>11, <1>12, <1>13, <1>14, <1>15, <1>16, <1>17 DEF FarmInv

\* A group that has gone takes its children with it.
LEMMA UnregisterLast ==
  ASSUME FarmInv, NEW g \in FarmGroups, UnregisterMetrics(g), grp[g].dinfo = <<>>
  PROVE  FarmInv'
<1>1. /\ grp[g].at = "leaving" /\ UNCHANGED <<m_mgroups, uniq, static_info, families, nextObj, report>>
      /\ \A h \in grp[g].children : grp[h].at = "held"
      /\ grp' = [h \in FarmGroups |-> IF h = g THEN [NewGroup EXCEPT !.at = "gone"]
                   ELSE IF h \in grp[g].children THEN [grp[h] EXCEPT !.at = "leaving"] ELSE grp[h]]
  BY DEF UnregisterMetrics
<1>2. g \notin grp[g].children  BY <1>1
<1>3. PICK x \in GroupObjects : x = [NewGroup EXCEPT !.at = "gone"] /\ x.at = "gone" /\ x.dinfo = <<>> /\ x.children = {}
  <2>1. NewGroup \in GroupObjects /\ NewGroup.dinfo = <<>> /\ NewGroup.children = {}
    BY SMTT(30) DEF NewGroup, GroupObjects, GroupPlaces, Instances
  <2>2. "gone" \in GroupPlaces  BY DEF GroupPlaces
  <2>3. /\ [NewGroup EXCEPT !.at = "gone"] \in GroupObjects /\ [NewGroup EXCEPT !.at = "gone"].at = "gone"
        /\ [NewGroup EXCEPT !.at = "gone"].dinfo = NewGroup.dinfo
        /\ [NewGroup EXCEPT !.at = "gone"].children = NewGroup.children
    BY <2>1, <2>2, MovedGroup
  <2>4. QED  BY <2>1, <2>3
<1>4. ASSUME NEW h \in grp[g].children
      PROVE  /\ h \in FarmGroups /\ h # g /\ grp'[h] \in GroupObjects /\ grp'[h].at = "leaving" /\ grp'[h].dinfo = grp[h].dinfo
             /\ grp'[h].grp_name = grp[h].grp_name /\ grp'[h].inst = grp[h].inst /\ grp'[h].children = grp[h].children
  <2>1. h \in FarmGroups /\ h # g  BY <1>2, GroupFacts
  <2>2. grp[h] \in GroupObjects /\ grp'[h] = [grp[h] EXCEPT !.at = "leaving"]
    BY <1>1, <2>1, GroupFacts
  <2>3. "leaving" \in GroupPlaces  BY DEF GroupPlaces
  <2>4. QED  BY <2>1, <2>2, <2>3, MovedGroup, SMTT(30)
<1>5. grp'[g] = x /\ \A h \in FarmGroups : h # g /\ h \notin grp[g].children => grp'[h] = grp[h]
  BY <1>1, <1>3
<1>6. grp' \in [FarmGroups -> GroupObjects]
  <2>1. \A h \in FarmGroups : grp'[h] \in GroupObjects  BY <1>4, <1>5, GroupFacts
  <2>2. QED  BY <1>1, <2>1
<1>7. \A h \in FarmGroups : h # g =>
        /\ grp'[h].dinfo = grp[h].dinfo /\ grp'[h].grp_name = grp[h].grp_name /\ grp'[h].inst = grp[h].inst
        /\ grp'[h].children = grp[h].children
        /\ grp'[h].at = grp[h].at \/ (grp[h].at = "held" /\ grp'[h].at = "leaving")
  BY <1>1, <1>4, <1>5
<1>8. FarmTypeOK'
  BY <1>1, <1>3, <1>5, <1>6, <1>7 DEF FarmInv, FarmTypeOK, Exists
<1>9. DinfoInv' /\ ObjectInv'
  <2>1. \A h \in FarmGroups :
           \/ grp'[h].dinfo = <<>> /\ grp'[h].at # "child"
           \/ /\ grp'[h].dinfo = grp[h].dinfo /\ grp'[h].grp_name = grp[h].grp_name /\ grp'[h].inst = grp[h].inst
              /\ grp'[h].at = "child" => Len(grp[h].dinfo) = Len(MetricsOf(h))
              /\ grp[h].at = "leaving" => grp'[h].at = "leaving"
    <3>1. grp'[g].dinfo = <<>> /\ grp'[g].at # "child"  BY <1>3, <1>5
    <3>2. \A h \in FarmGroups : grp[h].at = "child" => Len(grp[h].dinfo) = Len(MetricsOf(h))
      BY DEF FarmInv, DinfoInv
    <3>3. QED  BY <1>7, <3>1, <3>2
  <2>2. QED  BY <1>1, <2>1, MetricsStay
<1>10. NameInv'
  <2>1. \A h \in FarmGroups : Exists(h)' => Exists(h) /\ grp'[h].grp_name = grp[h].grp_name /\ grp'[h].inst = grp[h].inst
    BY <1>3, <1>5, <1>7 DEF Exists
  <2>2. QED  BY <1>1, <2>1, NamesStay
<1>11. ClassInv'  BY <1>1, <1>3, <1>5, <1>7, ClassesStay DEF Registers
<1>12. ListInv'
  <2>1. \A h \in FarmGroups : /\ grp'[h].at = "registered" <=> grp[h].at = "registered"
                              /\ grp[h].at = "registered" => grp'[h].ready = grp[h].ready
    BY <1>1, <1>3, <1>5, <1>7
  <2>2. QED  BY <1>1, <2>1, ListStays
<1>13. ChildInv'
  <2>1. ASSUME NEW p \in FarmGroups, NEW h \in grp'[p].children
        PROVE  grp'[p].children \subseteq grp[p].children /\ grp'[h].at \in {"child", "held"}
    <3>1. p # g /\ grp'[p].children = grp[p].children  BY <1>3, <1>5, <1>7, <2>1
    <3>2. h \in FarmGroups /\ grp[h].at \in {"child", "held"} /\ h \notin grp[g].children
      BY <2>1, <3>1, GroupFacts DEF FarmInv, ChildInv
    <3>3. QED  BY <1>1, <1>5, <3>1, <3>2
  <2>2. \A p \in FarmGroups : grp'[p].children \subseteq grp[p].children  BY <1>3, <1>5, <1>7
  <2>3. QED  BY <2>1, <2>2, ChildrenStay
<1>14. QED  BY <1>8, <1>9, <1>10, <1>11, <1>12, <1>13 DEF FarmInv

LEMMA FarmStep == ASSUME FarmInv, MetricsApart, GivenApart, [FarmNext]_farmVars PROVE FarmInv'
<1>1. ASSUME NEW g \in FarmGroups, NEW c \in Classes, NEW n \in InstNames, EnsureUnique(g, c, n) PROVE FarmInv'
  BY <1>1, EnsureUniqueInv
<1>2. ASSUME NEW g \in FarmGroups, NEW p \in FarmGroups \ {g}, AddChildGroup(g, p) PROVE FarmInv'
  BY <1>2, AddChildGroupInv
<1>3. ASSUME NEW g \in FarmGroups, CreateOrGetInfo(g) PROVE FarmInv'  BY <1>3, CreateOrGetInfoInv
<1>4. ASSUME NEW g \in FarmGroups, RegisterMetric(g) PROVE FarmInv'  BY <1>4, RegisterMetricInv
<1>5. ASSUME NEW g \in FarmGroups, RegisterToFarm(g) PROVE FarmInv'  BY <1>5, RegisterToFarmInv
<1>6. ASSUME NEW g \in FarmGroups, RegisterChild(g) PROVE FarmInv'  BY <1>6, RegisterChildInv
<1>7. ASSUME NEW g \in FarmGroups, Deregister(g) PROVE FarmInv'  BY <1>7, DeregisterInv
<1>8. ASSUME NEW g \in FarmGroups, UnregisterMetrics(g) PROVE FarmInv'
  BY <1>8, UnregisterOne, UnregisterLast
<1>9. ASSUME ReportBegins \/ PublishEnds \/ ReportEnds \/ \E g \in FarmGroups : PublishBegins(g) PROVE FarmInv'
  BY <1>9, ReportInv
<1>10. ASSUME UNCHANGED farmVars PROVE FarmInv'
  <2>1. UNCHANGED <<m_mgroups, uniq, static_info, families, nextObj, grp, report>>
    BY <1>10 DEF farmVars
  <2>2. FarmTypeOK' /\ ClassInv' /\ DinfoInv' /\ ObjectInv' /\ NameInv' /\ ChildInv'
    BY <2>1, GroupsAlone
  <2>3. ListInv'  BY <2>1, ListStays
  <2>4. QED  BY <2>2, <2>3 DEF FarmInv
<1>11. QED  BY <1>1, <1>2, <1>3, <1>4, <1>5, <1>6, <1>7, <1>8, <1>9, <1>10 DEF FarmNext

\* Whatever groups are built, destroyed and reported at once, a report writes only
\* to objects the reporter has, publishes only groups that are ready, and the
\* groups of a class agree on what each index means (metrics_group.cpp,
\* prometheus_reporter.hpp).  It needs that no two classes register a metric of one
\* name, and that no name given is another name with a number at its end: a group's
\* objects are told apart by metric and instance name alone.
THEOREM FarmHolds == ASSUME MetricsApart, GivenApart PROVE FarmSpec => []FarmSound
<1>1. FarmInv /\ [FarmNext]_farmVars => FarmInv'  BY FarmStep
<1>2. QED  BY <1>1, FarmInitInv, FarmInvSound, PTL DEF FarmSpec

------------------------------------------------------------------------------
USE OpsAssumption

(* The operations that take the objects of the threads away.                  *)
Rotations == {"now", "copy", "unmerged"}

ControlOK ==
  /\ wpc \in [Writers -> {"out", "idle", "locked", "open", "done"}]
  /\ ptr \in [Writers -> {None, "cur", "old", "gone"}]
  /\ cpc \in [Collectors -> {"idle", "visiting", "looking", "exited", "grace",
                             "waiting", "merging", "returned", "reading"}]
  /\ op \in [Collectors -> Operations \cup {None}]

(* What a collector is in is an operation of its own, and only a rotation     *)
(* waits for a grace period.                                                  *)
InOperation(c) ==
  /\ cpc[c] # "idle" => op[c] \in Ops[c]
  /\ cpc[c] \notin {"idle", "reading"} => op[c] # "delayed"
  /\ cpc[c] \in {"grace", "waiting", "merging"} => op[c] \in Rotations
  /\ cpc[c] = "reading" => op[c] \in {"now", "delayed"}

(* m_rotate_mutex: one collector at a time is inside.                         *)
OneRotates ==
  \A c, d \in Collectors :
    cpc[c] \notin {"idle", "reading"} /\ cpc[d] \notin {"idle", "reading"} => c = d

(* A writer refers to an object that is swapped out only inside its read      *)
(* section, and only until the collector that holds it has waited for it.     *)
PtrInv(w) ==
  /\ ptr[w] # "gone"
  /\ ptr[w] \in {"cur", "old"} => wpc[w] \in {"open", "done"}
  /\ ptr[w] = "old" =>
       \E c \in Collectors :
         /\ op[c] \in Rotations
         /\ \/ cpc[c] \in {"visiting", "exited", "grace"}
            \/ cpc[c] = "waiting" /\ w \in grace

WisrInv ==
  /\ ControlOK /\ OneRotates
  /\ \A c \in Collectors : InOperation(c)

GraceInv == WisrInv /\ \A w \in Writers : PtrInv(w)

------------------------------------------------------------------------------
(* The control of the collectors.                                             *)

LEMMA WisrInitInv == Init => WisrInv
  BY DEF Init, WisrInv, ControlOK, OneRotates, InOperation

(* A writer's steps leave the collectors alone.                               *)
LEMMA WriterControl ==
  ASSUME WisrInv, NEW w \in Writers,
         Start(w) \/ Exit(w) \/ ReadLock(w) \/ Inside(w)
  PROVE  WisrInv' /\ UNCHANGED <<cpc, op, base>>
<1>1. UNCHANGED <<cpc, op, base>>
  BY DEF Start, Exit, ReadLock, Inside, Dereference, Push, Leave, ReadUnlock
<1>2. ControlOK'
  BY <1>1
     DEF WisrInv, ControlOK, Start, Exit, ReadLock, Inside, Dereference, Push, Leave, ReadUnlock
<1>3. QED  BY <1>1, <1>2 DEF WisrInv, OneRotates, InOperation

LEMMA VisitExitedCases ==
  ASSUME WisrInv, NEW c \in Collectors, VisitExited(c)
  PROVE  /\ cpc[c] = "exited" /\ UNCHANGED <<wpc, life, count, ptr, cur, todo, at, grace, base, taken, due>>
         /\ \/ op[c] \in Rotations /\ cpc' = [cpc EXCEPT ![c] = "grace"] /\ op' = op
            \/ op[c] \notin Rotations /\ cpc' = [cpc EXCEPT ![c] = "idle"] /\ op' = [op EXCEPT ![c] = None]
<1>1. /\ cpc[c] = "exited" /\ UNCHANGED <<wpc, life, count, ptr, cur, todo, at, grace, base, taken, due>>
      /\ op' = [op EXCEPT ![c] = IF cpc'[c] = "idle" THEN None ELSE @]
      /\ op[c] \in Operations \ {"delayed"}
  BY DEF VisitExited, writer, WisrInv, InOperation
<1>2. cpc \in [Collectors -> {"idle", "visiting", "looking", "exited", "grace",
                              "waiting", "merging", "returned", "reading"}]
      /\ op \in [Collectors -> Operations \cup {None}]
  BY DEF WisrInv, ControlOK
<1>3. CASE op[c] \in Rotations
  <2>1. op[c] \in {"now", "copy", "unmerged"}
    BY <1>3 DEF Rotations
  <2>2. cpc' = [cpc EXCEPT ![c] = "grace"]
    BY <2>1 DEF VisitExited
  <2>3. op' = op
    BY <1>1, <1>2, <2>2
  <2>4. QED  BY <1>1, <1>3, <2>2, <2>3
<1>4. CASE op[c] \notin Rotations
  <2>1. op[c] \in {"reset", "foreach"}
    BY <1>1, <1>4 DEF Rotations, Operations
  <2>2. cpc' = [cpc EXCEPT ![c] = "idle"]
    BY <2>1 DEF VisitExited
  <2>3. op' = [op EXCEPT ![c] = None]
    BY <1>1, <1>2, <2>2
  <2>4. QED  BY <1>1, <1>4, <2>2, <2>3
<1>5. QED  BY <1>3, <1>4

LEMMA CollectorControl ==
  ASSUME WisrInv, NEW c \in Collectors, Begin(c) \/ Delayed(c) \/ Collect(c) \/ Forget(c)
  PROVE  WisrInv'
<1>1. ControlOK /\ InOperation(c) /\ OneRotates
  BY DEF WisrInv
<1> USE DEF ControlOK, Operations, Rotations
<1>2. CASE Begin(c)
  BY <1>2, SMTT(30) DEF WisrInv, Begin, OneRotates, InOperation, Rotating, writer
<1>3. CASE Delayed(c)
  BY <1>3, SMTT(30) DEF WisrInv, Delayed, OneRotates, InOperation, Rotating, writer
<1>4. ASSUME NEW w \in Writers, Exchange(c, w) PROVE WisrInv'
  BY <1>4 DEF WisrInv, Exchange, Swapped, OneRotates, InOperation
<1>5. ASSUME NEW w \in Writers, Look(c, w) PROVE WisrInv'
  BY <1>5 DEF WisrInv, Look, OneRotates, InOperation, writer
<1>6. CASE LookedAt(c)
  BY <1>6 DEF WisrInv, LookedAt, OneRotates, InOperation, writer
<1>7. CASE EndSlots(c)
  BY <1>7 DEF WisrInv, EndSlots, OneRotates, InOperation, writer
<1>8. CASE VisitExited(c)
  <2>1. /\ cpc[c] = "exited" /\ UNCHANGED <<wpc, ptr>>
        /\ \/ op[c] \in Rotations /\ cpc' = [cpc EXCEPT ![c] = "grace"] /\ op' = op
           \/ cpc' = [cpc EXCEPT ![c] = "idle"] /\ op' = [op EXCEPT ![c] = None]
    BY <1>8, VisitExitedCases
  <2>2. QED  BY <2>1, SMTT(30) DEF WisrInv, OneRotates, InOperation
<1>9. CASE Synchronize(c)
  BY <1>9 DEF WisrInv, Synchronize, OneRotates, InOperation, writer
<1>10. CASE Synchronized(c)
  BY <1>10 DEF WisrInv, Synchronized, OneRotates, InOperation, writer
<1>11. CASE Finish(c)
  BY <1>11 DEF WisrInv, Finish, OneRotates, InOperation
<1>12. CASE Return(c)
  BY <1>12, SMTT(30) DEF WisrInv, Return, OneRotates, InOperation, writer
<1>13. CASE Forget(c)
  BY <1>13, SMTT(30) DEF WisrInv, Forget, OneRotates, InOperation, writer
<1>14. QED
  BY <1>2, <1>3, <1>4, <1>5, <1>6, <1>7, <1>8, <1>9, <1>10, <1>11, <1>12, <1>13 DEF Collect

------------------------------------------------------------------------------
(* The grace period.                                                          *)

(* A collector that swapped an object out is the only one that rotates.       *)
LEMMA HolderRotates ==
  ASSUME GraceInv, NEW w \in Writers, ptr[w] = "old",
         NEW c \in Collectors, cpc[c] \notin {"idle", "reading"}
  PROVE  /\ op[c] \in Rotations
         /\ \/ cpc[c] \in {"visiting", "exited", "grace"}
            \/ cpc[c] = "waiting" /\ w \in grace
<1>1. PICK d \in Collectors :
         /\ op[d] \in Rotations
         /\ \/ cpc[d] \in {"visiting", "exited", "grace"}
            \/ cpc[d] = "waiting" /\ w \in grace
  BY DEF GraceInv, PtrInv
<1>2. d = c
  BY <1>1 DEF GraceInv, WisrInv, OneRotates
<1>3. QED  BY <1>1, <1>2

LEMMA WriterGrace ==
  ASSUME GraceInv, NEW v \in Writers,
         Start(v) \/ Exit(v) \/ ReadLock(v) \/ Inside(v),
         NEW w \in Writers
  PROVE  PtrInv(w)'
<1>1. WisrInv /\ ControlOK /\ PtrInv(w)
  BY DEF GraceInv, WisrInv
<1>2. UNCHANGED <<cpc, op>>
  BY <1>1, WriterControl
<1>3. CASE Start(v) \/ Exit(v) \/ ReadLock(v)
  <2>1. /\ ptr' = ptr /\ grace' = grace /\ wpc[v] \notin {"open", "done"}
        /\ \A u \in Writers : u # v => wpc'[u] = wpc[u]
    BY <1>1, <1>3 DEF Start, Exit, ReadLock, ControlOK
  <2>2. QED  BY <1>1, <1>2, <2>1 DEF PtrInv
<1>4. CASE Dereference(v)
  BY <1>1, <1>2, <1>4 DEF Dereference, ControlOK, PtrInv
<1>5. CASE Push(v) \/ Leave(v)
  <2>1. ptr' = ptr /\ grace' = grace /\ wpc' = [wpc EXCEPT ![v] = "done"]
    BY <1>5 DEF Push, Leave
  <2>2. QED  BY <1>1, <1>2, <2>1 DEF ControlOK, PtrInv
<1>6. CASE ReadUnlock(v)
  <2>1. /\ ptr' = [ptr EXCEPT ![v] = None] /\ wpc' = [wpc EXCEPT ![v] = "idle"]
        /\ grace' = grace \ {v}
    BY <1>6 DEF ReadUnlock, rcu_read_unlock
  <2>2. CASE w = v
    BY <1>1, <2>1, <2>2 DEF ControlOK, PtrInv
  <2>3. CASE w # v
    BY <1>1, <1>2, <2>1, <2>3 DEF ControlOK, PtrInv
  <2>4. QED  BY <2>2, <2>3
<1>7. QED  BY <1>3, <1>4, <1>5, <1>6 DEF Inside

LEMMA CollectorGrace ==
  ASSUME GraceInv, NEW c \in Collectors, "reset" \notin Ops[c],
         Begin(c) \/ Delayed(c) \/ Collect(c) \/ Forget(c),
         NEW w \in Writers
  PROVE  PtrInv(w)'
<1>1. ControlOK /\ PtrInv(w) /\ InOperation(c) /\ WisrInv
  BY DEF GraceInv, WisrInv
<1>2. CASE Begin(c) \/ Delayed(c) \/ Forget(c)
  <2>1. /\ UNCHANGED <<wpc, ptr, grace>> /\ cpc[c] \in {"idle", "reading"}
        /\ \A d \in Collectors : d # c => cpc'[d] = cpc[d] /\ op'[d] = op[d]
    BY <1>1, <1>2 DEF Begin, Delayed, Forget, ControlOK, writer
  <2>2. QED  BY <1>1, <2>1 DEF PtrInv
<1>3. ASSUME NEW v \in Writers, Exchange(c, v) PROVE PtrInv(w)'
  <2>1. /\ cpc[c] = "visiting" /\ op[c] \notin {"foreach", "reset", "delayed"}
        /\ op[c] \in Ops[c]
    BY <1>1, <1>3 DEF Exchange, InOperation
  <2>2. op[c] \in Rotations
    BY <2>1 DEF Operations, Rotations
  <2>3. UNCHANGED <<wpc, cpc, op, grace>> /\ ptr' = Swapped(v, "old")
    BY <1>3, <2>1 DEF Exchange, DeletesAtOnce
  <2>4. ptr'[w] = ptr[w] \/ (ptr[w] = "cur" /\ ptr'[w] = "old")
    BY <1>1, <2>3 DEF Swapped, ControlOK
  <2>5. QED  BY <1>1, <2>1, <2>2, <2>3, <2>4 DEF PtrInv
<1>4. CASE Collect(c) /\ ~(\E v \in Writers : Exchange(c, v))
  <2>1. CASE ptr[w] # "old"
    <3>1. wpc' = wpc /\ ptr'[w] = ptr[w]
      BY <1>1, <1>4, <2>1
         DEF Collect, Look, LookedAt, EndSlots, VisitExited, Synchronize, Synchronized, Finish,
             Return, ControlOK, writer
    <3>2. QED  BY <1>1, <2>1, <3>1 DEF PtrInv
  <2>2. CASE ptr[w] = "old"
    <3>1. cpc[c] \notin {"idle", "reading"}
      BY <1>4
         DEF Collect, Look, LookedAt, EndSlots, VisitExited, Synchronize, Synchronized, Finish,
             Return
    <3>2. /\ op[c] \in Rotations
          /\ \/ cpc[c] \in {"visiting", "exited", "grace"}
             \/ cpc[c] = "waiting" /\ w \in grace
      BY <2>2, <3>1, HolderRotates
    <3>3. CASE EndSlots(c)
      BY <1>1, <2>2, <3>2, <3>3 DEF EndSlots, ControlOK, PtrInv, writer
    <3>4. CASE VisitExited(c)
      <4>1. /\ UNCHANGED <<wpc, ptr, grace, op>> /\ cpc' = [cpc EXCEPT ![c] = "grace"]
        BY <1>1, <3>2, <3>4, VisitExitedCases
      <4>2. QED  BY <1>1, <2>2, <3>2, <4>1 DEF ControlOK, PtrInv
    <3>5. CASE Synchronize(c)
      <4>1. /\ UNCHANGED <<wpc, ptr, op>> /\ cpc' = [cpc EXCEPT ![c] = "waiting"]
            /\ grace' = Readers
        BY <3>5 DEF Synchronize, writer
      <4>2. w \in Readers
        BY <1>1, <2>2 DEF PtrInv, Readers
      <4>3. QED  BY <1>1, <2>2, <3>2, <4>1, <4>2 DEF ControlOK, PtrInv
    <3>6. CASE Synchronized(c)
      BY <3>2, <3>6 DEF Synchronized
    <3>7. CASE LookedAt(c) \/ Finish(c) \/ Return(c)
      BY <3>2, <3>7 DEF LookedAt, Finish, Return
    <3>8. CASE \E v \in Writers : Look(c, v)
      BY <3>2, <3>8 DEF Look, Rotations
    <3>9. QED  BY <1>4, <3>3, <3>4, <3>5, <3>6, <3>7, <3>8 DEF Collect
  <2>3. QED  BY <2>1, <2>2
<1>5. QED  BY <1>2, <1>3, <1>4

(* For any number of writers, collectors, items and thread lives: when no
   collector calls reset, which deletes what it swaps out at once, the grace
   period of _rotate_all_thread_bufs keeps an insert from ever touching an
   object that is deleted, handed out or being merged.                        *)
THEOREM GraceIsEnough ==
  ASSUME \A c \in Collectors : "reset" \notin Ops[c]
  PROVE  Spec => []NoUseAfterFree
<1>1. Init => GraceInv
  BY WisrInitInv DEF Init, GraceInv, PtrInv
<1>2. GraceInv /\ [Next]_vars => GraceInv'
  <2> SUFFICES ASSUME GraceInv, [Next]_vars PROVE GraceInv'  OBVIOUS
  <2>1. CASE UNCHANGED vars
    BY <2>1 DEF vars, GraceInv, WisrInv, ControlOK, OneRotates, InOperation, PtrInv
  <2>2. CASE \E v \in Writers : Start(v) \/ Exit(v) \/ ReadLock(v) \/ Inside(v)
    BY <2>2, WriterControl, WriterGrace DEF GraceInv
  <2>3. CASE \E c \in Collectors : Begin(c) \/ Delayed(c) \/ Collect(c) \/ Forget(c)
    BY <2>3, CollectorControl, CollectorGrace DEF GraceInv
  <2>4. QED  BY <2>1, <2>2, <2>3 DEF Next
<1>3. GraceInv => NoUseAfterFree
  <2> SUFFICES ASSUME GraceInv PROVE NoUseAfterFree  OBVIOUS
  <2>1. ASSUME NEW w \in Writers PROVE ptr[w] # "gone"
    BY DEF GraceInv, PtrInv
  <2>2. ASSUME NEW w \in Writers, NEW c \in Collectors, cpc[c] = "merging" PROVE ptr[w] # "old"
    BY <2>2, HolderRotates
  <2>3. QED  BY <2>1, <2>2 DEF NoUseAfterFree
<1>4. QED  BY <1>1, <1>2, <1>3, PTL DEF Spec

(* now() and delayed() hand out a pointer to the base object without a lock: it
   stands still under the caller as long as no other collector calls an
   operation that merges into it.                                             *)
THEOREM BaseStandsStill ==
  ASSUME \A c, d \in Collectors :
           c # d /\ Ops[c] \cap {"now", "delayed"} # {} => Ops[d] \cap {"now", "copy"} = {}
  PROVE  Spec => ReaderUndisturbed
<1> DEFINE Undisturbed == \A c \in Collectors :
                            cpc[c] = "reading" /\ cpc'[c] = "reading" => base' = base
<1>1. WisrInv /\ [Next]_vars => WisrInv' /\ [Undisturbed]_vars
  <2> SUFFICES ASSUME WisrInv, [Next]_vars PROVE WisrInv' /\ Undisturbed  OBVIOUS
  <2>1. CASE UNCHANGED vars
    BY <2>1 DEF vars, WisrInv, ControlOK, OneRotates, InOperation
  <2>2. CASE \E v \in Writers : Start(v) \/ Exit(v) \/ ReadLock(v) \/ Inside(v)
    BY <2>2, WriterControl
  <2>3. ASSUME NEW d \in Collectors, Begin(d) \/ Delayed(d) \/ Collect(d) \/ Forget(d)
        PROVE  WisrInv' /\ Undisturbed
    <3>1. WisrInv'
      BY <2>3, CollectorControl
    <3>2. CASE Finish(d)
      <4>1. cpc[d] = "merging" /\ op[d] \in Ops[d] /\ op[d] \in Rotations
        BY <3>2 DEF Finish, WisrInv, InOperation
      <4>2. ASSUME NEW c \in Collectors, cpc[c] = "reading" PROVE base' = base
        <5>1. c # d /\ op[c] \in Ops[c] /\ op[c] \in {"now", "delayed"}
          BY <4>1, <4>2 DEF WisrInv, InOperation
        <5>2. op[d] = "unmerged"
          BY <4>1, <5>1 DEF Rotations
        <5>3. QED  BY <3>2, <5>2 DEF Finish, do_merge
      <4>3. QED  BY <3>1, <4>2
    <3>3. CASE ~Finish(d)
      <4>1. base' = base
        BY <2>3, <3>3
           DEF Begin, Delayed, Collect, Forget, Exchange, Look, LookedAt, EndSlots, VisitExited,
               Synchronize, Synchronized, Return
      <4>2. QED  BY <3>1, <4>1
    <3>4. QED  BY <3>2, <3>3
  <2>4. QED  BY <2>1, <2>2, <2>3 DEF Next
<1>2. QED  BY <1>1, WisrInitInv, PTL DEF Spec, ReaderUndisturbed
===============================================================================
