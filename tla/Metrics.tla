------------------------------ MODULE Metrics ------------------------------
(***************************************************************************)
(* The values of a metrics group: a counter and a histogram.  (A gauge is  *)
(* one shared cell that gauge_update sets and a gather reads.)             *)
(* Depending on the kind of group they are kept per thread in a            *)
(* ThreadBuffer, per thread in a wisr_framework, or in shared atomics.     *)
(* A gather merges them while the threads go on, and what it finds is      *)
(* published by the Prometheus reporter or returned to the caller.  The    *)
(* group lock lets one gather run at a time; that two walks of a           *)
(* ThreadBuffer do not overlap is ThreadBuffer's subject, not this one's.  *)
(***************************************************************************)
EXTENDS Integers, SequencesExt

CONSTANTS MetricThreads,
          Shared,         \* names the cell of the atomics and of the wisr base
          GroupKinds,     \* subset of {"thread_buf", "rcu", "atomic"}
          Deltas,         \* what counters change by: subset of {1, -1}
          Boundaries,     \* bucket boundaries, ascending
          Samples,        \* positive values, at most one to a bucket
          MaxUpdates,     \* bound: updates in a behaviour
          MaxExited       \* bound: exited buffers kept at a time

VARIABLES kind,     \* group_impl_type_t of the group
          cells,    \* per thread its PerThreadMetrics; cells[Shared]: see above
          half,     \* per thread: a sample counted, its sum not yet added, or 0
          active,   \* the threads that run
          exited,   \* m_exited_buffers: the metrics of threads that are gone
          gather,   \* the gather under way: see NoGather
          kept,     \* ghost: all that was recorded, less what was freed
          updates   \* bound counter

metricVars == <<kind, cells, half, active, exited, gather, kept, updates>>

Buckets == 1..(Len(Boundaries) + 1)
NoMetrics == [c |-> 0, f |-> [b \in Buckets |-> 0], s |-> 0]

\* at: "active" while m_expand_mutex is held over the threads that run, then
\* "between" and "done"; todo: <<cell, part>> still to merge; sum:
\* m_gather_metrics.  Ghosts: lo, hi: what a gather that misses or sees every
\* concurrent update finds; exits: did a thread exit meanwhile.
NoGather == [at |-> "none", todo |-> {}, sum |-> NoMetrics,
             lo |-> NoMetrics, hi |-> NoMetrics, exits |-> FALSE]

MetricsInit ==
  /\ kind \in GroupKinds
  /\ cells = [t \in {Shared} \cup MetricThreads |-> NoMetrics]
  /\ half = [t \in MetricThreads |-> 0] /\ active = MetricThreads /\ exited = <<>>
  /\ gather = NoGather
  /\ kept = NoMetrics /\ updates = 0

----------------------------------------------------------------------------
(* Updates. *)

\* std::lower_bound over the boundaries: the first that is not below v.
BucketOf(v) ==
  CHOOSE b \in Buckets : /\ \A a \in 1..(b - 1) : Boundaries[a] < v
                         /\ b \in DOMAIN Boundaries => Boundaries[b] >= v

\* The cell a thread writes: get(), insert_access(), or the shared atomics.
Cell(t) == IF kind = "atomic" THEN Shared ELSE t

CanUpdate(t) == t \in active /\ half[t] = 0 /\ updates < MaxUpdates

\* Ghost: what happens during a gather changes what it may find.
Meanwhile(g) == IF gather.at = "none" THEN gather ELSE g

\* counter_increment, counter_decrement
CounterAdd(t, d) ==
  /\ CanUpdate(t) /\ updates' = updates + 1
  /\ cells' = [cells EXCEPT ![Cell(t)].c = @ + d]
  /\ kept' = [kept EXCEPT !.c = @ + d]
  /\ gather' = Meanwhile(IF d > 0 THEN [gather EXCEPT !.hi.c = @ + d]
                                   ELSE [gather EXCEPT !.lo.c = @ + d])
  /\ UNCHANGED <<kind, half, active, exited>>

\* A sample adds to m_freqs and then, in ObserveSum, to m_sum.
CountSample(t, v) ==
  /\ cells' = [cells EXCEPT ![Cell(t)].f[BucketOf(v)] = @ + 1]
  /\ kept' = [kept EXCEPT !.f[BucketOf(v)] = @ + 1]
  /\ gather' = Meanwhile([gather EXCEPT !.hi.f[BucketOf(v)] = @ + 1])
  /\ half' = [half EXCEPT ![t] = v]

\* HistogramValue::observe
HistogramObserve(t, v) ==
  /\ kind # "atomic" /\ CanUpdate(t) /\ updates' = updates + 1
  /\ CountSample(t, v)
  /\ UNCHANGED <<kind, active, exited>>

\* AtomicHistogramValue::observe ignores what is above the last boundary.
AtomicObserve(t, v) ==
  /\ kind = "atomic" /\ CanUpdate(t) /\ updates' = updates + 1
  /\ IF BucketOf(v) \in DOMAIN Boundaries THEN CountSample(t, v)
     ELSE UNCHANGED <<cells, half, kept, gather>>
  /\ UNCHANGED <<kind, active, exited>>

ObserveSum(t) ==
  /\ half[t] # 0
  /\ cells' = [cells EXCEPT ![Cell(t)].s = @ + half[t]]
  /\ kept' = [kept EXCEPT !.s = @ + half[t]]
  /\ gather' = Meanwhile([gather EXCEPT !.hi.s = @ + half[t]])
  /\ half' = [half EXCEPT ![t] = 0]
  /\ UNCHANGED <<kind, active, exited, updates>>

\* THREAD_DETACHED: under m_expand_mutex the buffer moves to the exited list (a
\* wisr thread's values stay where they are).  A next thread gets a new one.
MetricThreadExits(t) ==
  /\ kind # "atomic" /\ t \in active /\ Len(exited) < MaxExited
  /\ half[t] = 0 /\ gather.at # "active"
  /\ active' = active \ {t}
  /\ IF kind = "rcu" THEN UNCHANGED <<cells, exited>>
     ELSE exited' = Append(exited, cells[t]) /\ cells' = [cells EXCEPT ![t] = NoMetrics]
  /\ gather' = Meanwhile([gather EXCEPT !.exits = TRUE])
  /\ UNCHANGED <<kind, half, kept, updates>>

MetricThreadStarts(t) ==
  /\ t \notin active /\ gather.at # "active"
  /\ active' = active \cup {t}
  /\ UNCHANGED <<kind, cells, half, exited, gather, kept, updates>>

----------------------------------------------------------------------------
(* Gathering. *)

\* Slip: the merge of a histogram stops one bucket early.
MergeShort(a, b, part) ==
  CASE part = 1 -> [a EXCEPT !.c = @ + b.c]
    [] part = 2 -> [a EXCEPT !.f = [i \in Buckets |-> IF i < Len(Boundaries)
                                                        THEN @[i] + b.f[i] ELSE @[i]]]
    [] part = 3 -> [a EXCEPT !.s = @ + b.s]

\* CounterValue::merge and HistogramValue::merge, one part of a thread's values
\* at a time; a histogram adds as many frequencies as there are boundaries.
MergePart(a, b, part) ==
  CASE part = 1 -> [a EXCEPT !.c = @ + b.c]
    [] part = 2 -> [a EXCEPT !.f = [i \in Buckets |-> IF i \in DOMAIN Boundaries
                                                        THEN @[i] + b.f[i] ELSE @[i]]]
    [] part = 3 -> [a EXCEPT !.s = @ + b.s]

\* PerThreadMetrics::merge
Merge(a, b) == MergePart(MergePart(MergePart(a, b, 1), b, 2), b, 3)

Less(a, b) == [c |-> a.c - b.c, s |-> a.s - b.s, f |-> [i \in Buckets |-> a.f[i] - b.f[i]]]

\* A fresh m_gather_metrics, or the local result of counter_get.
BeginGather(at, walk) ==
  /\ gather.at = "none"
  /\ gather' = [at |-> at, todo |-> walk \X {1, 2, 3}, sum |-> NoMetrics,
                lo |-> kept, hi |-> kept, exits |-> FALSE]

\* gather_result(need_latest), counter_get and histogram_get of thread buffers:
\* access_all_threads takes m_expand_mutex for the threads that run.
GatherBegins ==
  /\ kind = "thread_buf" /\ BeginGather("active", active)
  /\ UNCHANGED <<kind, cells, half, active, exited, kept, updates>>

\* The same of atomics.
AtomicGather ==
  /\ kind = "atomic" /\ BeginGather("between", {Shared})
  /\ UNCHANGED <<kind, cells, half, active, exited, kept, updates>>

\* wisr_framework::now merges what every thread has into the base object.
Collected == [t \in DOMAIN cells |->
                IF t = Shared THEN FoldSet(LAMBDA u, m : Merge(m, cells[u]), cells[Shared], MetricThreads)
                ELSE NoMetrics]

\* Slip: now() does not wait for an insert_access to end.
NowUnwaited ==
  /\ kind = "rcu" /\ cells' = Collected
  /\ BeginGather("between", {Shared})
  /\ UNCHANGED <<kind, half, active, exited, kept, updates>>

\* now() waits for every insert_access under way; the base object is then read.
Now ==
  /\ kind = "rcu" /\ \A t \in MetricThreads : half[t] = 0
  /\ cells' = Collected
  /\ BeginGather("between", {Shared})
  /\ UNCHANGED <<kind, half, active, exited, kept, updates>>

\* access_all_threads, first half: a thread's counter, frequencies and sum are
\* merged one after the other.
Visit(t, part) ==
  /\ <<t, part>> \in gather.todo
  /\ \A x \in gather.todo : IF x[1] = t THEN x[2] >= part
                            ELSE {x[1]} \X {1, 2, 3} \subseteq gather.todo
  /\ gather' = [gather EXCEPT !.todo = @ \ {<<t, part>>}, !.sum = MergePart(@, cells[t], part)]
  /\ UNCHANGED <<kind, cells, half, active, exited, kept, updates>>

\* The shared lock is released before the unique one is taken.
ActiveVisited ==
  /\ gather.at = "active" /\ gather.todo = {}
  /\ gather' = [gather EXCEPT !.at = "between"]
  /\ UNCHANGED <<kind, cells, half, active, exited, kept, updates>>

\* Slip: exited buffers are dropped without a call.
ExitedDropped ==
  /\ gather.at = "between" /\ gather.todo = {}
  /\ gather' = [gather EXCEPT !.at = "done"]
  /\ kept' = FoldLeft(Less, kept, exited) /\ exited' = <<>>
  /\ UNCHANGED <<kind, cells, half, active, updates>>

\* Second half, under the unique lock: the exited buffers are merged, last
\* first, and each is freed.  Nobody writes to them any more.
ExitedVisited ==
  /\ gather.at = "between" /\ gather.todo = {}
  /\ gather' = [gather EXCEPT !.at = "done", !.sum = FoldRight(LAMBDA b, m : Merge(m, b), exited, @)]
  /\ kept' = FoldLeft(Less, kept, exited) /\ exited' = <<>>
  /\ UNCHANGED <<kind, cells, half, active, updates>>

\* publish_result, get_result_in_json, counter_get and histogram_get have what
\* they publish or return.
GatherEnds ==
  /\ gather.at = "done"
  /\ gather' = NoGather
  /\ UNCHANGED <<kind, cells, half, active, exited, kept, updates>>

MetricsNext ==
  \/ \E t \in MetricThreads :
       \/ \E d \in Deltas : CounterAdd(t, d)
       \/ \E v \in Samples : HistogramObserve(t, v) \/ AtomicObserve(t, v)
       \/ ObserveSum(t) \/ MetricThreadExits(t) \/ MetricThreadStarts(t)
  \/ GatherBegins \/ AtomicGather \/ Now
  \/ \E t \in DOMAIN cells, part \in 1..3 : Visit(t, part)
  \/ ActiveVisited \/ ExitedVisited \/ GatherEnds

MetricsSpec == MetricsInit /\ [][MetricsNext]_metricVars

----------------------------------------------------------------------------
(* Statistics of a gathered histogram. *)

\* HistogramDynamicInfo::count
CountOf(m) == FoldFunction(+, 0, m.f)

CumFreq(m, i) == SumFunction([j \in 1..i |-> m.f[j]])

\* std::lower_bound over the cumulative frequencies (pnum is at most the last).
PercentileBucket(m, p) ==
  Min({i \in Buckets : CumFreq(m, i) >= (CountOf(m) * p) \div 100})

\* Slip: the place in the bucket is not divided by the bucket's frequency.
PercentileUndivided(m, p) ==
  LET i == PercentileBucket(m, p) - 1
  IN  (IF i = 0 THEN 0 ELSE Boundaries[i]) * m.f[i + 1]
        + (((CountOf(m) * p) \div 100) - CumFreq(m, i)) * i * m.f[i + 1]

\* HistogramDynamicInfo::percentile times the frequency of the bucket it falls
\* in: Yp = Yl + ((pnum - cum_freq[index - 1]) * index) / freqs[index]
Percentile(m, p) ==
  LET i == PercentileBucket(m, p) - 1
  IN  (IF i = 0 THEN 0 ELSE Boundaries[i]) * m.f[i + 1]
        + (((CountOf(m) * p) \div 100) - CumFreq(m, i)) * i

----------------------------------------------------------------------------
(* Properties. *)

\* b is between a and c in the counter, the sum and every bucket a merge keeps.
Within(a, b, c) ==
  /\ a.c <= b.c /\ b.c <= c.c /\ a.s <= b.s /\ b.s <= c.s
  /\ \A i \in DOMAIN Boundaries : a.f[i] <= b.f[i] /\ b.f[i] <= c.f[i]

\* Every gathered value (gather_result, counter_get, histogram_get) lies between
\* what the group held when the gather began and that plus what was recorded
\* meanwhile, if no thread exits during the gather: no thread's values are left
\* out or merged twice, running or exited, whichever kind of group.
GatherInWindow ==
  gather.at = "done" /\ ~gather.exits => Within(gather.lo, gather.sum, gather.hi)

\* "there is no atomicity in fetching the accurate data, but it will be timeline
\* consistent" (metrics_tlocal.hpp): the same, whatever the threads do.
TimelineConsistent ==
  gather.at = "done" => Within(gather.lo, gather.sum, gather.hi)

\* Whatever threads do, a gather leaves out no sample that was kept when it
\* began: an exited thread's buffer stays until some gather has merged it.
NoSampleLeftOut ==
  gather.at = "done" => /\ gather.lo.s <= gather.sum.s
                        /\ \A i \in DOMAIN Boundaries : gather.lo.f[i] <= gather.sum.f[i]

\* A wisr group never shows a sample that is counted and not summed, or the
\* reverse: now() waits for histogram_observe to end.
SamplesWhole ==
  gather.at = "done" /\ kind = "rcu" =>
    \E over \in 0..MaxUpdates :
      gather.sum.s = over * Max(Samples)
        + FoldFunction(+, 0, [i \in DOMAIN Boundaries |->
            gather.sum.f[i] * (IF \E v \in Samples : BucketOf(v) = i
                                 THEN CHOOSE v \in Samples : BucketOf(v) = i ELSE 0)])

\* percentile() of a gathered histogram lies in the bucket its sample is in,
\* where buckets are at least as wide as their index.
PercentileInBucket ==
  gather.at = "done" => \A p \in {50, 95, 99} :
    LET m == gather.sum
        b == PercentileBucket(m, p)
        x == Percentile(m, p)
    IN  m.f[b] > 0 => /\ b > 1 => x >= Boundaries[b - 1] * m.f[b]
                      /\ b \in DOMAIN Boundaries => x <= Boundaries[b] * m.f[b]

\* A gather that overlaps updates, starts and exits of threads merges what was
\* recorded before it once, and shows no half of a sample where it waits.
GatherSound == GatherInWindow /\ NoSampleLeftOut /\ SamplesWhole
=============================================================================
