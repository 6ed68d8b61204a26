----------------------------- MODULE MCMetrics ------------------------------
(* MetricsServer with two recording threads, a value of the linear part of *)
(* the histogram and one of the logarithmic part; and the bucket           *)
(* arithmetic over a range of values.                                      *)
EXTENDS MetricsServer

MCValues == {31, 1024}

\* record() and bucket_upper() fit together for every value up to 4100: the
\* bucket is one whose upper end approximates the value, and a larger value
\* never falls into an earlier bucket, so the walk of snapshot() meets values
\* in their order.
ASSUME BucketsFit ==
  \A ns \in 0 .. 4100 :
    /\ Approximates(bucket_upper(bucket(ns)), ns)
    /\ bucket(ns) <= bucket(ns + 1)

\* The upper ends themselves are in that order from kSub on; below it, where
\* the sub-bucket holds the leading bit as well, they overshoot the first of
\* the buckets that follow.
ASSUME UpperEndsOrdered ==
  /\ \A ns \in kSub .. 4100 :
       bucket_upper(bucket(ns)) <= bucket_upper(bucket(ns + 1))
  /\ bucket_upper(bucket(kSub - 1)) > bucket_upper(bucket(kSub))
=============================================================================
