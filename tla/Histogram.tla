------------------------------ MODULE Histogram ------------------------------
(* The log-linear latency histogram of cmd/agent/metrics.go. *)
EXTENDS Integers, FiniteSets, FiniteSetsExt, Functions

CONSTANTS SubBits,      \* 3 in the code: 2^SubBits buckets per octave
          NumBuckets    \* 256 in the code

Pow2[n \in Nat] == IF n = 0 THEN 1 ELSE 2 * Pow2[n - 1]

SubCount == Pow2[SubBits]
BucketIds == 0 .. NumBuckets - 1

ASSUME HistogramAssumption ==
    SubBits \in Nat /\ NumBuckets \in Nat \ {0} /\ NumBuckets >= SubCount

\* bits.Len64(v) - 1
Exponent(v) == CHOOSE e \in 0 .. v : Pow2[e] <= v /\ v < Pow2[e + 1]

\* Mutation: nothing bounds the index.
UnboundedIndex(v) ==
    LET e == Exponent(v)
    IN  IF v < SubCount THEN v
        ELSE (e - SubBits + 1) * SubCount + ((v \div Pow2[e - SubBits]) % SubCount)

\* Linear below SubCount, log-linear above, and the last bucket takes the rest.
bucketIndex(v) ==
    LET e   == Exponent(v)
        m   == (v \div Pow2[e - SubBits]) % SubCount
        idx == (e - SubBits + 1) * SubCount + m
    IN  IF v < SubCount THEN v
        ELSE IF idx >= NumBuckets THEN NumBuckets - 1 ELSE idx

\* The lower bound of a bucket.
bucketValue(i) ==
    LET e == (i \div SubCount) + SubBits - 1
        m == i % SubCount
    IN  IF i < SubCount THEN i ELSE (SubCount + m) * Pow2[e - SubBits]

\* How many observations lie in buckets 0 .. i, and in all.
Cumulative(buckets, i) == SumFunctionOnSet(buckets, 0 .. i)
Total(buckets) == Cumulative(buckets, NumBuckets - 1)

\* Quantile for q = percent / 100, in microseconds: the first bucket at which
\* the observations so far reach the rank, which is rounded down.
\* Mutation: the rank must be passed, not reached.
PastRank(cum, target) == cum > target

ReachesRank(cum, target) == cum >= target

Quantile(buckets, percent) ==
    LET target  == (percent * Total(buckets)) \div 100
        reached == {i \in BucketIds : ReachesRank(Cumulative(buckets, i), target)}
    IN  IF Total(buckets) = 0 THEN 0
        ELSE bucketValue(IF reached = {} THEN NumBuckets - 1 ELSE Min(reached))
=============================================================================
