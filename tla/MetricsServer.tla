---------------------------- MODULE MetricsServer ---------------------------
(***************************************************************************)
(* src/metrics/metrics.hpp and metrics_server.hpp: the registry of relaxed *)
(* atomics that the engine's threads update, and the thread that once a    *)
(* second publishes it to Prometheus.  The three latency flows are three   *)
(* histograms published by the same code one after the other; the model    *)
(* has one.  Of the queue marks it has the market data ring's, and of the  *)
(* three counters that are a single fetch_add it has the reports'.  The    *)
(* line on stdout, which takes two snapshots more, is left out.            *)
(***************************************************************************)
EXTENDS LatencyHistogram, Sequences

CONSTANTS MaxSize,    \* bound: size_approx() of the market data ring
          MaxUpdates  \* bound: values recorded and events counted

ASSUME ServerAssumption == {MaxSize, MaxUpdates} \subseteq Nat

VARIABLES running,     \* g_running
          totals,      \* md_msgs_total, md_dropped_total, ...
          queue_max,   \* md_queue_max
          reader,      \* where onMessage() of the reader thread is
          spc,         \* where the metrics thread is
          at,          \* the set_counter() call it is at
          md, last_md, \* locals of run()
          published,   \* the Prometheus counters
          backlog,     \* the md_in gauge
          tps_sum      \* history: the sum of the published throughputs

engine == <<totals, queue_max, reader>>
server == <<spc, at, md, last_md, published, backlog, tps_sum>>
vars == <<histogram, snapshot, running, engine, server>>

\* The counters in the order in which run() publishes them, without those of
\* orders and cancels, whose set_counter calls are between the last two.
CounterOrder == <<"md", "md_dropped", "execs">>

Counters == Range(CounterOrder)

Init ==
  /\ HistogramInit
  /\ running = TRUE
  /\ totals = [c \in Counters |-> 0]
  /\ queue_max = 0
  /\ reader = "idle"
  /\ spc = "test" /\ at = 1
  /\ md = 0 /\ last_md = 0
  /\ published = [c \in Counters |-> 0]
  /\ backlog = 0
  /\ tps_sum = 0
-----------------------------------------------------------------------------
(* The threads that update the registry.                                   *)

\* The bound.
more == SumFunction(recorded) + totals["md"] + totals["execs"] < MaxUpdates

\* onMessage() counts a snapshot, tries to push it, and counts it again if
\* the ring was full.
OnMd ==
  /\ reader = "idle"
  /\ more
  /\ totals' = [totals EXCEPT !["md"] = @ + 1]
  /\ reader' = "push"
  /\ UNCHANGED queue_max

OnMdPushed ==
  /\ reader = "push"
  /\ \/ UNCHANGED totals
     \/ totals' = [totals EXCEPT !["md_dropped"] = @ + 1]
  /\ reader' = "track"
  /\ UNCHANGED queue_max

\* Mutated form: the mark follows the queue down.
track_max_last(mark, v) == v

\* track_max(): the reader thread is the only caller for this mark, so its
\* CAS loop never sees another value than the one it loaded.
track_max(mark, v) == IF v > mark THEN v ELSE mark

TrackMax ==
  /\ reader = "track"
  /\ \E v \in 0 .. MaxSize : queue_max' = track_max(queue_max, v)
  /\ reader' = "idle"
  /\ UNCHANGED totals

\* An execution report is one fetch_add, as is an order or a cancel sent.
OnExec ==
  /\ more
  /\ totals' = [totals EXCEPT !["execs"] = @ + 1]
  /\ UNCHANGED <<queue_max, reader>>

Recording ==
  /\ \E r \in Recorders :
       \/ more /\ \E value \in Values : RecordBucket(r, value)
       \/ RecordLoad(r)
       \/ RecordExchange(r)
  /\ UNCHANGED <<snapshot, running, engine, server>>

Counting ==
  /\ \/ OnMd \/ OnMdPushed \/ TrackMax
     \/ OnExec
  /\ UNCHANGED <<histogram, snapshot, running, server>>
-----------------------------------------------------------------------------
(* run()                                                                   *)

TestRunning ==
  /\ spc = "test"
  /\ spc' = IF running THEN "sleep" ELSE "ended"
  /\ UNCHANGED <<snapshot, at, md, last_md, published, backlog, tps_sum>>

\* After the second: the throughput, and the first snapshot begins.
ReadMd ==
  /\ spc = "sleep"
  /\ md' = totals["md"]
  /\ tps_sum' = tps_sum + (md' - last_md)
  /\ last_md' = md'
  /\ SnapshotCall
  /\ spc' = "snapshot"
  /\ UNCHANGED <<at, published, backlog>>

ReadBuckets ==
  /\ spc = "snapshot"
  /\ SnapshotRead
  /\ UNCHANGED <<spc, at, md, last_md, published, backlog, tps_sum>>

\* publish(): the gauges of the flow are the fields of last.
Publish ==
  /\ spc = "snapshot"
  /\ SnapshotReturn
  /\ spc' = "counters"
  /\ UNCHANGED <<at, md, last_md, published, backlog, tps_sum>>

\* Mutated form: the whole target is added.
set_counter_adds(cur, target) == IF target > cur THEN cur + target ELSE cur

\* A Prometheus counter can only be incremented.
set_counter(cur, target) == IF target > cur THEN cur + (target - cur) ELSE cur

\* Mutated form: the total is loaded again instead of using md.
target_reloaded(c) == totals[c]

\* What run() passes to set_counter: md as loaded at the top of the loop, the
\* others as they are now.
target(c) == IF c = "md" THEN md ELSE totals[c]

\* Mutated form: the last counter is not published.
SetCounter_but_last ==
  /\ spc = "counters"
  /\ LET c == CounterOrder[at]
     IN published' = [published EXCEPT ![c] = set_counter(@, target(c))]
  /\ at' = IF at + 1 = Len(CounterOrder) THEN 1 ELSE at + 1
  /\ spc' = IF at + 1 = Len(CounterOrder) THEN "gauges" ELSE "counters"
  /\ UNCHANGED <<snapshot, md, last_md, backlog, tps_sum>>

SetCounter ==
  /\ spc = "counters"
  /\ LET c == CounterOrder[at]
     IN published' = [published EXCEPT ![c] = set_counter(@, target(c))]
  /\ at' = IF at = Len(CounterOrder) THEN 1 ELSE at + 1
  /\ spc' = IF at = Len(CounterOrder) THEN "gauges" ELSE "counters"
  /\ UNCHANGED <<snapshot, md, last_md, backlog, tps_sum>>

SetGauges ==
  /\ spc = "gauges"
  /\ backlog' = queue_max
  /\ spc' = "test"
  /\ UNCHANGED <<snapshot, at, md, last_md, published, tps_sum>>

Server ==
  /\ \/ TestRunning \/ ReadMd \/ ReadBuckets \/ Publish
     \/ SetCounter \/ SetGauges
  /\ UNCHANGED <<histogram, running, engine>>

\* on_signal()
Stop ==
  /\ running
  /\ running' = FALSE
  /\ UNCHANGED <<histogram, snapshot, engine, server>>

Next == Recording \/ Counting \/ Server \/ Stop

Spec == Init /\ [][Next]_vars

\* The metrics thread sleeps a second at a time and blocks on nothing.
\* Nothing is assumed of the threads that record and count.
FairSpec == Spec /\ WF_vars(Server)
-----------------------------------------------------------------------------
TypeOK ==
  /\ HistogramTypeOK
  /\ running \in BOOLEAN
  /\ totals \in [Counters -> 0 .. MaxUpdates]
  /\ published \in [Counters -> 0 .. MaxUpdates]
  /\ {queue_max, backlog} \subseteq 0 .. MaxSize
  /\ reader \in {"idle", "push", "track"}
  /\ spc \in {"test", "sleep", "snapshot", "counters", "gauges", "ended"}
  /\ at \in 1 .. Len(CounterOrder)
  /\ {md, last_md, tps_sum} \subseteq 0 .. MaxUpdates

\* A snapshot taken while values are being recorded counts every value that
\* was recorded before it began and none twice (the bucket by bucket loads of
\* latency_histogram.hpp:53-56 against the fetch_adds of record()).
SnapshotBetween ==
  spc \in {"counters", "gauges"} =>
    /\ before <= last.count
    /\ last.count <= SumFunction(recorded)

\* The reference: the smallest recorded value that at least q percent of the
\* recorded values do not exceed.
TruePercentile(q) ==
  LET covered(ns) == SumFunctionOnSet(recorded, {m \in Clamped : m <= ns})
  IN Min({ns \in Clamped : 100 * covered(ns) >= q * SumFunction(recorded)})

\* p stands for the value t: above it, and by no more than one sub-bucket, or
\* below kSub nanoseconds by no more than a factor of two.
Approximates(p, t) ==
  /\ t < p
  /\ IF t >= kSub THEN kSub * p <= (kSub + 1) * (t + 1) ELSE p <= 2 * (t + 1)

\* "HdrHistogram-style" (latency_histogram.hpp:3): when nothing is recorded
\* during a snapshot its percentiles are those of the recorded values, up to
\* the width of a bucket (bucket index, ranks, walk and bucket_upper
\* together).
PercentileBound ==
  spc \in {"counters", "gauges"} /\ before = SumFunction(recorded) /\ last.count > 0 =>
    /\ Approximates(last.p50, TruePercentile(50))
    /\ Approximates(last.p90, TruePercentile(90))
    /\ Approximates(last.p99, TruePercentile(99))

\* The CAS loops lose no maximum, however many threads record at once: when
\* none is inside record(), max_ is the largest value ever recorded
\* (latency_histogram.hpp:43-44).
MaxWhenIdle ==
  (\A r \in Recorders : rec[r] = idle) =>
    max_ = Max({0} \cup {ns \in Clamped : recorded[ns] > 0})

\* What has been published never runs ahead of the engine, and the published
\* throughputs add up to the published number of messages, whatever is
\* counted while a round of publishing is under way (metrics_server.hpp:58-70
\* and set_counter).
PublishedConsistent ==
  /\ \A c \in Counters : published[c] <= totals[c]
  /\ backlog <= queue_max
  /\ spc = "test" => published["md"] = tps_sum

\* Prometheus counters and high-water marks never go back (metrics.hpp:37-40,
\* metrics_server.hpp:94-97).
NeverGoesBack ==
  [][/\ \A c \in Counters : published'[c] >= published[c]
     /\ backlog' >= backlog
     /\ last'.max >= last.max]_vars

\* Nothing counted is left unpublished as long as the process runs: the last
\* event before a pause shows up within a round (metrics_server.hpp:55-75).
\* Only what happens in the last second before a shutdown may be missing.
CatchesUp ==
  <>[](\/ ~running
       \/ published = totals /\ backlog = queue_max)
-----------------------------------------------------------------------------
(* The inductive invariants behind them.                                   *)

Call == [pc : {"idle", "load", "cas"}, ns : Clamped \cup {0}, cur : Clamped \cup {0}]

\* record() as the others see it: a value that max_ does not cover yet is in
\* the hands of a thread that has not left its CAS loop, and max_ is a value
\* that was recorded.
RecordInv ==
  /\ recorded \in [Clamped -> Nat]
  /\ rec \in [Recorders -> Call]
  /\ \A r \in Recorders :
       /\ rec[r].pc = "idle" => rec[r] = idle
       /\ rec[r].pc # "idle" => rec[r].ns \in Clamped /\ recorded[rec[r].ns] > 0
       /\ rec[r].pc = "cas" => rec[r].cur < rec[r].ns
  /\ max_ # 0 => recorded[max_] > 0
  /\ \A ns \in Clamped : recorded[ns] > 0 =>
       \/ ns <= max_
       \/ \E r \in Recorders : rec[r].pc # "idle" /\ rec[r].ns = ns

\* What snapshot() would count if the buckets it has not read yet stayed as
\* they are.
merged == [i \in Buckets |-> IF i \in DOMAIN local THEN local[i] ELSE buckets[i]]

\* A bucket that has been read does not run ahead, and nothing that was
\* recorded before the call is missed (latency_histogram.hpp:53-56).
SnapshotInv ==
  /\ SumFunction(buckets) = SumFunction(recorded)
  /\ \A i \in DOMAIN local : local[i] \in Nat /\ local[i] <= buckets[i]
  /\ spc = "snapshot" => before <= SumFunction(merged)
  /\ SnapshotBetween
  /\ last.max \in Nat /\ last.max <= max_

\* The buckets hold the values in their order: up to any bucket they count as
\* much as was recorded up to there.  A snapshot in which nothing was recorded
\* has read the buckets as they still are, so its walk meets every rank where
\* the values do (latency_histogram.hpp:53-71).
PercentileInv ==
  /\ \A i \in Buckets :
       SumFunctionOnSet(buckets, {j \in Buckets : j <= i})
         = SumFunctionOnSet(recorded, {ns \in Clamped : bucket(ns) <= i})
  /\ spc = "snapshot" /\ before = SumFunction(recorded) =>
       \A i \in DOMAIN local : local[i] = buckets[i]
  /\ PercentileBound

\* A round of run(): md was loaded at its top, every throughput published so
\* far is in tps_sum, and the first counter has caught up with md once the
\* round is past it (metrics_server.hpp:55-75); a snapshot is dropped at most
\* once (fix_app.hpp:139-142).
RoundInv ==
  /\ md <= totals["md"] /\ last_md = md /\ tps_sum = md
  /\ published["md"] <= md
  /\ spc # "counters" => at = 1
  /\ spc \notin {"snapshot", "counters"} \/ at > 1 => published["md"] = md
  /\ \A c \in Counters : published[c] <= totals[c]
  /\ backlog <= queue_max
  /\ totals["md_dropped"] + (IF reader = "push" THEN 1 ELSE 0) <= totals["md"]

\* record(), snapshot() and the publishing loop together: what each of the
\* recording threads, the reader and the metrics thread may rely on at every
\* step of the others (latency_histogram.hpp:32-71, metrics_server.hpp:52-85).
MetricsInv == RecordInv /\ SnapshotInv /\ RoundInv
=============================================================================
