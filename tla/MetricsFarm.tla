---------------------------- MODULE MetricsFarm ----------------------------
(***************************************************************************)
(* Registration of metrics groups with the MetricsFarm and with the        *)
(* Prometheus reporter.  A group's constructor takes a unique     *)
(* instance name, locks the static information its class shares and keeps  *)
(* it locked until its registration is complete; each metric adds an       *)
(* object to the reporter; the destructor leaves the farm and removes the  *)
(* objects.  A report publishes every group of the farm, and its child     *)
(* groups, under the farm's lock.  Every group is built and destroyed by   *)
(* some thread, which the model does not name.                             *)
(***************************************************************************)
EXTENDS Integers, Sequences, Functions

CONSTANTS FarmGroups,  \* MetricsGroup objects
          InstNames,   \* instance names the application gives: sequences
          ClassMetrics,\* per group name: the metrics such a group registers, in order
          NoGroup

ASSUME FarmAssumption ==
  /\ NoGroup \notin FarmGroups
  /\ \A n \in InstNames : n \in Seq(Range(n))
  /\ \A c \in DOMAIN ClassMetrics : ClassMetrics[c] \in Seq(Range(ClassMetrics[c]))

VARIABLES m_mgroups,   \* the farm's list
          uniq,        \* m_uniq_inst_maintainer
          static_info, \* per group name its MetricsGroupStaticInfo: m_mutex, m_reg_pending, names
          families,    \* reporter: <<metric, instance>> -> object
          nextObj,     \* the next object to be made
          grp,         \* per group: see NewGroup
          report       \* the report under way: its groups still to publish, and cur

farmVars == <<m_mgroups, uniq, static_info, families, nextObj, grp, report>>

\* at: how far the group is; dinfo: <<metric, object>> of m_counters_dinfo;
\* ready: on_register was called; children: m_child_groups.
NewGroup == [at |-> "none", grp_name |-> "", inst |-> <<>>, dinfo |-> <<>>, ready |-> FALSE, children |-> {}]
Classes == DOMAIN ClassMetrics
NoReport == [todo |-> {}, cur |-> NoGroup, on |-> FALSE]

FarmInit ==
  /\ m_mgroups = {} /\ uniq = [k \in Classes \X InstNames |-> 0]
  /\ static_info = [c \in Classes |-> [m_mutex |-> NoGroup, m_reg_pending |-> TRUE, names |-> <<>>]]
  /\ families = <<>> /\ nextObj = 1
  /\ grp = [g \in FarmGroups |-> NewGroup] /\ report = NoReport

FarmFree == ~report.on
Info(g) == static_info[grp[g].grp_name]
MetricsOf(g) == ClassMetrics[grp[g].grp_name]

----------------------------------------------------------------------------
(* Construction. *)

\* Slip: a name given again is not told apart.
unique_name_as_given(c, n) == n

\* ensure_unique: the first of a name keeps it, the k-th gets the suffix "_k".
unique_name(c, n) == IF uniq[<<c, n>>] = 0 THEN n ELSE Append(n, uniq[<<c, n>>] + 1)

EnsureUnique(g, c, n) ==
  /\ grp[g].at = "none" /\ FarmFree
  /\ grp' = [grp EXCEPT ![g].at = "named", ![g].grp_name = c,
                         ![g].inst = unique_name(c, n)]
  /\ uniq' = [uniq EXCEPT ![<<c, n>>] = @ + 1]
  /\ UNCHANGED <<m_mgroups, static_info, families, nextObj, report>>

\* Slip: the constructor does not lock the static information.
CreateUnlocked(g) ==
  /\ grp[g].at = "named"
  /\ grp' = [grp EXCEPT ![g].at = "locked"]
  /\ UNCHANGED <<m_mgroups, uniq, static_info, families, nextObj, report>>

\* create_or_get_info and m_static_info->m_mutex.lock()
CreateOrGetInfo(g) ==
  /\ grp[g].at = "named" /\ Info(g).m_mutex = NoGroup
  /\ grp' = [grp EXCEPT ![g].at = "locked"]
  /\ static_info' = [static_info EXCEPT ![grp[g].grp_name].m_mutex = g]
  /\ UNCHANGED <<m_mgroups, uniq, families, nextObj, report>>

\* MetricsGroupStaticInfo::register_counter, _gauge, _histogram
RegisterStatic(c, name) == Append(static_info[c].names, name)

\* add_counter, add_gauge, add_histogram, add_sum_count of the reporter: a new
\* object, or the one Prometheus has under the same labels.
AddObject(key) == IF key \in DOMAIN families THEN families[key] ELSE nextObj

\* remove_counter and its kin: the object is deleted, if it is there.
RemoveObject(obj) ==
  LET ks == {k \in DOMAIN families : families[k] = obj}
  IN  [k \in DOMAIN families \ ks |-> families[k]]

\* register_counter, register_gauge, register_histogram: the first instance also
\* registers the static information.
RegisterMetric(g) ==
  LET idx == Len(grp[g].dinfo) + 1
  IN  /\ grp[g].at = "locked" /\ idx <= Len(MetricsOf(g))
      /\ LET names == IF Info(g).m_reg_pending
                        THEN RegisterStatic(grp[g].grp_name, MetricsOf(g)[idx]) ELSE Info(g).names
             key == <<names[idx], grp[g].inst>>
             obj == AddObject(key)
         IN  /\ static_info' = [static_info EXCEPT ![grp[g].grp_name].names = names]
             /\ grp' = [grp EXCEPT ![g].dinfo = Append(@, <<names[idx], obj>>)]
             /\ families' = [k \in DOMAIN families \cup {key} |->
                               IF k = key THEN obj ELSE families[k]]
             /\ nextObj' = IF obj = nextObj THEN nextObj + 1 ELSE nextObj
      /\ UNCHANGED <<m_mgroups, uniq, report>>

\* on_register, then registration_completed
Completed(g, at) ==
  /\ grp' = [grp EXCEPT ![g].at = at, ![g].ready = TRUE]
  /\ static_info' = [static_info EXCEPT ![grp[g].grp_name].m_reg_pending = FALSE,
                                     ![grp[g].grp_name].m_mutex = NoGroup]

\* register_me_to_farm
RegisterToFarm(g) ==
  /\ grp[g].at = "locked" /\ Len(grp[g].dinfo) = Len(MetricsOf(g)) /\ FarmFree
  /\ Completed(g, "registered")
  /\ m_mgroups' = m_mgroups \cup {g}
  /\ UNCHANGED <<uniq, families, nextObj, report>>

\* register_me_to_parent: add_child_group, under the parent's lock, which a
\* report holds while it publishes the parent and its children ...
AddChildGroup(g, p) ==
  /\ grp[g].at = "locked" /\ Len(grp[g].dinfo) = Len(MetricsOf(g))
  /\ grp[p].at = "registered" /\ report.cur # p
  /\ grp' = [grp EXCEPT ![g].at = "child", ![p].children = @ \cup {g}]
  /\ UNCHANGED <<m_mgroups, uniq, static_info, families, nextObj, report>>

\* ... and only then register_metrics_group, without the farm's list.
RegisterChild(g) ==
  /\ grp[g].at = "child" /\ FarmFree
  /\ Completed(g, "held")
  /\ UNCHANGED <<m_mgroups, uniq, families, nextObj, report>>

----------------------------------------------------------------------------
(* Destruction. *)

\* Slip: the group leaves the farm without its lock.
DeregisterUnlocked(g) ==
  /\ grp[g].at = "registered"
  /\ m_mgroups' = m_mgroups \ {g}
  /\ grp' = [grp EXCEPT ![g].at = "leaving"]
  /\ UNCHANGED <<uniq, static_info, families, nextObj, report>>

\* ~MetricsGroup: deregister_me_from_farm.  A child has m_is_registered unset and
\* lives on in its parent's m_child_groups.
Deregister(g) ==
  /\ grp[g].at = "registered" /\ FarmFree
  /\ m_mgroups' = m_mgroups \ {g}
  /\ grp' = [grp EXCEPT ![g].at = "leaving"]
  /\ UNCHANGED <<uniq, static_info, families, nextObj, report>>

\* ~MetricsGroupImpl, once nothing holds it: unregister of one metric after the
\* other; then its children go.
UnregisterMetrics(g) ==
  /\ grp[g].at = "leaving"
  /\ IF grp[g].dinfo # <<>>
       THEN /\ families' = RemoveObject(Head(grp[g].dinfo)[2])
            /\ grp' = [grp EXCEPT ![g].dinfo = Tail(@)]
       ELSE /\ grp' = [h \in FarmGroups |-> IF h = g THEN [NewGroup EXCEPT !.at = "gone"]
                         ELSE IF h \in grp[g].children THEN [grp[h] EXCEPT !.at = "leaving"]
                         ELSE grp[h]]
            /\ UNCHANGED families
  /\ \A h \in grp[g].children : grp[h].at = "held"
  /\ UNCHANGED <<m_mgroups, uniq, static_info, nextObj, report>>

----------------------------------------------------------------------------
(* MetricsFarm::report, get_result_in_json and gather *)

ReportBegins ==
  /\ FarmFree
  /\ report' = [on |-> TRUE, todo |-> m_mgroups, cur |-> NoGroup]
  /\ UNCHANGED <<m_mgroups, uniq, static_info, families, nextObj, grp>>

\* publish_result of a group: it and its children write to their objects while
\* the group's lock is held.
PublishBegins(g) ==
  /\ report.on /\ report.cur = NoGroup /\ g \in report.todo
  /\ report' = [report EXCEPT !.cur = g]
  /\ UNCHANGED <<m_mgroups, uniq, static_info, families, nextObj, grp>>

PublishEnds ==
  /\ report.cur # NoGroup
  /\ report' = [report EXCEPT !.cur = NoGroup, !.todo = @ \ {report.cur}]
  /\ UNCHANGED <<m_mgroups, uniq, static_info, families, nextObj, grp>>

ReportEnds ==
  /\ report.on /\ report.todo = {}
  /\ report' = NoReport
  /\ UNCHANGED <<m_mgroups, uniq, static_info, families, nextObj, grp>>

FarmNext ==
  \/ \E g \in FarmGroups :
       \/ \E c \in Classes, n \in InstNames : EnsureUnique(g, c, n)
       \/ \E p \in FarmGroups \ {g} : AddChildGroup(g, p)
       \/ CreateOrGetInfo(g) \/ RegisterMetric(g) \/ RegisterToFarm(g) \/ RegisterChild(g)
       \/ Deregister(g) \/ UnregisterMetrics(g) \/ PublishBegins(g)
  \/ ReportBegins \/ PublishEnds \/ ReportEnds

FarmSpec == FarmInit /\ [][FarmNext]_farmVars

----------------------------------------------------------------------------
(* Properties. *)

Published == IF report.cur = NoGroup THEN {} ELSE {report.cur} \cup grp[report.cur].children

\* Whoever publishes writes to objects the reporter still has: between the
\* report's walk, the destructors that remove objects and the names groups are
\* given, no group's counter is deleted under it (metrics.cpp: "if one of them
\* freed, other could access it").
PublishesLive ==
  \A g \in Published : \A i \in DOMAIN grp[g].dinfo :
    \E k \in DOMAIN families : families[k] = grp[g].dinfo[i][2]

\* A group the farm itself lists is published only after its on_register made
\* its buffers; nothing is said of a child group.
ReadyWhenPublished == report.cur # NoGroup => grp[report.cur].ready /\ grp[report.cur].at = "registered"

\* The instances of a class agree on what each index means: the class's metrics
\* are registered once, in order, however instances are built concurrently.
IndexesAgree ==
  /\ \A c \in Classes : \E n \in 0 .. Len(ClassMetrics[c]) :
       static_info[c].names = SubSeq(ClassMetrics[c], 1, n)
  /\ \A g \in FarmGroups : \A i \in DOMAIN grp[g].dinfo :
       grp[g].at # "leaving" => grp[g].dinfo[i][1] = MetricsOf(g)[i]

\* Groups come and go under a report: it publishes only objects that are there
\* and groups that are ready, and indexes mean the same in all groups of a class.
FarmSound == PublishesLive /\ ReadyWhenPublished /\ IndexesAgree
=============================================================================
