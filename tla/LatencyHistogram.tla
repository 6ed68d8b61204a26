-------------------------- MODULE LatencyHistogram --------------------------
(***************************************************************************)
(* src/common/latency_histogram.hpp: the log-bucketed histogram that the   *)
(* hot threads record into while the metrics thread reads it, without a    *)
(* lock.  Every access to shared memory is a step; loads and stores take   *)
(* effect in program order, as they do on the x86 builds.                  *)
(*                                                                         *)
(* Only the buckets that a value of Values falls into are kept: the others *)
(* hold 0 and add nothing to a snapshot.  count_ is written and never      *)
(* read, and reset() is never called; both are left out.                   *)
(***************************************************************************)
EXTENDS Integers, FiniteSets, FiniteSetsExt, Functions

CONSTANTS Values,      \* nanoseconds that may be recorded, negative ones too
          Recorders    \* threads that call record()

kSubBits == 5
kSub == 2 ^ kSubBits

ASSUME HistogramAssumption ==
  /\ Values \subseteq Int
  /\ \A ns \in Values : ns < 2 ^ 29

\* log2_floor(), for values below 2^30.
log2_floor(v) == CHOOSE b \in 0 .. 29 : 2 ^ b <= v /\ v < 2 ^ (b + 1)

clamp(ns) == IF ns < 0 THEN 0 ELSE ns

\* Where record() counts a clamped value: v = ns | 1, its leading bit, and
\* the kSubBits bits below that.
bucket(ns) ==
  LET v == IF ns % 2 = 0 THEN ns + 1 ELSE ns
      maj == log2_floor(v)
      sub == IF maj >= kSubBits THEN (v \div 2 ^ (maj - kSubBits)) % kSub
                                ELSE v % kSub
  IN maj * kSub + sub

bucket_upper(i) ==
  LET maj == i \div kSub
      sub == i % kSub
  IN IF maj < kSubBits THEN 2 ^ maj + sub
     ELSE (2 ^ kSubBits + sub + 1) * 2 ^ (maj - kSubBits)

Clamped == {clamp(ns) : ns \in Values}

Buckets == {bucket(ns) : ns \in Clamped}

VARIABLES buckets,    \* buckets_
          max_,
          rec,        \* record() in each thread: where it is, ns and cur
          local,      \* snapshot(): what has been read, by bucket
          last,       \* the last Percentiles that snapshot() returned
          recorded,   \* history: how often each value was recorded
          before      \* history: how many were when snapshot() was called

histogram == <<buckets, max_, rec, recorded>>
snapshot == <<local, last, before>>

idle == [pc |-> "idle", ns |-> 0, cur |-> 0]

nothing_read == [i \in {} |-> 0]

none == [p50 |-> 0, p90 |-> 0, p99 |-> 0, max |-> 0, count |-> 0]

HistogramInit ==
  /\ buckets = [i \in Buckets |-> 0]
  /\ max_ = 0
  /\ rec = [r \in Recorders |-> idle]
  /\ recorded = [ns \in Clamped |-> 0]
  /\ local = nothing_read
  /\ last = none
  /\ before = 0
-----------------------------------------------------------------------------
(* record()                                                                *)

\* The clamp and the bucket's fetch_add.
RecordBucket(r, value) ==
  /\ rec[r].pc = "idle"
  /\ LET ns == clamp(value)
     IN /\ buckets' = [buckets EXCEPT ![bucket(ns)] = @ + 1]
        /\ recorded' = [recorded EXCEPT ![ns] = @ + 1]
        /\ rec' = [rec EXCEPT ![r] = [pc |-> "load", ns |-> ns, cur |-> 0]]
  /\ UNCHANGED max_

\* cur = seen: does the CAS loop go on?
compare(r, seen) ==
  rec' = [rec EXCEPT ![r] =
            IF @.ns > seen THEN [@ EXCEPT !.pc = "cas", !.cur = seen] ELSE idle]

RecordLoad(r) ==
  /\ rec[r].pc = "load"
  /\ compare(r, max_)
  /\ UNCHANGED <<buckets, max_, recorded>>

\* Mutated form: a store in place of the compare and exchange.
RecordExchange_store(r) ==
  /\ rec[r].pc = "cas"
  /\ max_' = rec[r].ns
  /\ rec' = [rec EXCEPT ![r] = idle]
  /\ UNCHANGED <<buckets, recorded>>

\* compare_exchange_weak, which may also fail without reason: then the loop
\* goes round with the same cur.
RecordExchange(r) ==
  /\ rec[r].pc = "cas"
  /\ \/ /\ max_ = rec[r].cur
        /\ max_' = rec[r].ns
        /\ rec' = [rec EXCEPT ![r] = idle]
     \/ /\ compare(r, max_)
        /\ UNCHANGED max_
  /\ UNCHANGED <<buckets, recorded>>

-----------------------------------------------------------------------------
(* snapshot()                                                              *)

\* The call: local{} is zeroed.
SnapshotCall ==
  /\ local' = nothing_read
  /\ before' = SumFunction(recorded)
  /\ UNCHANGED last

\* Mutated form: the loop ends one bucket early.
SnapshotRead_all_but_one ==
  \E i \in Buckets \ DOMAIN local :
    /\ \A j \in Buckets \ DOMAIN local : i <= j
    /\ local' = [j \in DOMAIN local \cup {i} |->
                   IF j # i THEN local[j]
                   ELSE IF i = Max(Buckets) THEN 0 ELSE buckets[i]]
    /\ UNCHANGED <<last, before>>

\* One turn of the first loop: the next bucket is loaded.
SnapshotRead ==
  \E i \in Buckets \ DOMAIN local :
    /\ \A j \in Buckets \ DOMAIN local : i <= j
    /\ local' = [j \in DOMAIN local \cup {i} |->
                   IF j = i THEN buckets[i] ELSE local[j]]
    /\ UNCHANGED <<last, before>>

\* Mutated form: the rank is rounded down.
rank_rounded_down(total, q) == (total * q) \div 100

\* t50, t90, t99: how many values a percentile must cover.
rank(total, q) == (total * q + 99) \div 100

\* The second loop: the first bucket at which the count reaches the rank.
percentile(q) ==
  LET up_to(i) == SumFunctionOnSet(local, {j \in Buckets : j <= i})
  IN bucket_upper(Min({i \in Buckets : up_to(i) >= rank(SumFunction(local), q)}))

\* All buckets are read: max_ is loaded, the rest is local, and local{} goes
\* out of scope.
SnapshotReturn ==
  /\ DOMAIN local = Buckets
  /\ last' = IF SumFunction(local) = 0 THEN [none EXCEPT !.max = max_]
             ELSE [p50 |-> percentile(50), p90 |-> percentile(90),
                   p99 |-> percentile(99), max |-> max_,
                   count |-> SumFunction(local)]
  /\ local' = nothing_read
  /\ UNCHANGED before
-----------------------------------------------------------------------------
HistogramTypeOK ==
  /\ buckets \in [Buckets -> Nat]
  /\ max_ \in Clamped \cup {0}
  /\ \A r \in Recorders : rec[r].pc \in {"idle", "load", "cas"}
  /\ DOMAIN local \subseteq Buckets
  /\ {last.count, before} \subseteq Nat
=============================================================================
