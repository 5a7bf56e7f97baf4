-------------------------- MODULE ReportingProofs --------------------------
(***************************************************************************)
(* The metrics of a run for any number of workers, responses, requests and  *)
(* buckets.  The histogram comes first: bucketIndex stays in range, keeps    *)
(* the order of latencies, and loses less than a sub-bucket's width.  Then   *)
(* the invariants, each on top of the types: what a snapshot read lies      *)
(* between the snapshot before it and the counters (Between), so totals      *)
(* only go back when a report is overtaken; the intervals reported do not    *)
(* overlap (IntervalsDisjoint); live counters differ by the requests under   *)
(* way (Live), and so does a snapshot taken one counter at a time (Torn);    *)
(* and the flush reads what was observed, no more and no less (Conserved).   *)
(***************************************************************************)
EXTENDS Reporting, SumTheorems, TLAPS

-----------------------------------------------------------------------------
(* Powers of two *)

\* g is Pow2 up to n.
IsPow2(g, n) == g = [i \in 0 .. n |-> IF i = 0 THEN 1 ELSE 2 * g[i - 1]]

\* Up to any n the powers of two are a function.
LEMMA Pow2Prefix == \A n \in Nat : \E g : IsPow2(g, n)
<1> DEFINE Good == {n \in Nat : \E g : IsPow2(g, n)}
<1>1. 0 \in Good
  <2>1. IsPow2([i \in 0 .. 0 |-> 1], 0)
    BY DEF IsPow2
  <2> QED BY <2>1
<1>2. ASSUME NEW n \in Nat, n \in Good PROVE n + 1 \in Good
  <2>1. PICK g : IsPow2(g, n)
    BY <1>2
  <2> DEFINE h == [i \in 0 .. n + 1 |-> IF i = n + 1 THEN 2 * g[n] ELSE g[i]]
  <2>2. ASSUME NEW i \in 0 .. n + 1 PROVE h[i] = IF i = 0 THEN 1 ELSE 2 * h[i - 1]
    <3>1. CASE i = n + 1
        BY <3>1
    <3>2. CASE i \in 0 .. n
        BY <2>1, <3>2 DEF IsPow2
    <3> QED BY <3>1, <3>2
  <2>3. IsPow2(h, n + 1)
    BY <2>2 DEF IsPow2
  <2> QED BY <2>3
<1>3. \A n \in Nat : n \in Good => n + 1 \in Good
    BY <1>2
<1> HIDE DEF Good
<1>4. Nat \subseteq Good
    BY <1>1, <1>3, NatSetInduction
<1> QED BY <1>4 DEF Good

\* Two such functions agree where both are defined.
LEMMA Pow2Unique ==
    ASSUME NEW m \in Nat, NEW n \in Nat, NEW g, NEW h, IsPow2(g, m), IsPow2(h, n)
    PROVE  \A i \in Nat : i <= m /\ i <= n => g[i] = h[i]
<1> DEFINE Good == {i \in Nat : i <= m /\ i <= n => g[i] = h[i]}
<1>1. 0 \in Good
    BY DEF IsPow2
<1>2. ASSUME NEW i \in Nat, i \in Good PROVE i + 1 \in Good
  <2> SUFFICES ASSUME i + 1 <= m, i + 1 <= n PROVE g[i + 1] = h[i + 1]
    OBVIOUS
  <2>1. g[i + 1] = 2 * g[i] /\ h[i + 1] = 2 * h[i]
    BY DEF IsPow2
  <2>2. g[i] = h[i]
    BY <1>2
  <2> QED BY <2>1, <2>2
<1>3. \A i \in Nat : i \in Good => i + 1 \in Good
    BY <1>2
<1> HIDE DEF Good
<1>4. Nat \subseteq Good
    BY <1>1, <1>3, NatSetInduction
<1> QED BY <1>4 DEF Good

\* The definition of Pow2 has a solution, so Pow2 is one.
LEMMA Pow2Equation ==
    /\ Pow2[0] = 1
    /\ \A n \in Nat : Pow2[n + 1] = 2 * Pow2[n]
<1> DEFINE of(n) == CHOOSE g : IsPow2(g, n)
           p     == [n \in Nat |-> of(n)[n]]
<1>1. \A n \in Nat : IsPow2(of(n), n)
    BY Pow2Prefix
<1>2. ASSUME NEW n \in Nat PROVE p[n] = IF n = 0 THEN 1 ELSE 2 * p[n - 1]
  <2>0. ASSUME NEW g, NEW i \in 0 .. n, IsPow2(g, n)
        PROVE  g[i] = IF i = 0 THEN 1 ELSE 2 * g[i - 1]
    BY <2>0 DEF IsPow2
  <2>1. CASE n = 0
    <3> HIDE DEF of
    <3>1. of(n)[n] = 1
        BY <1>1, <2>0, <2>1
    <3> QED BY <2>1, <3>1
  <2>2. CASE n # 0
    <3> DEFINE k == n - 1
    <3>1. k \in Nat /\ k <= n
        BY <2>2
    <3>2. of(n)[n] = 2 * of(n)[k]
      <4> HIDE DEF of
      <4> QED BY <1>1, <2>0, <2>2
    <3>3. of(n)[k] = of(k)[k]
      <4> HIDE DEF of
      <4> QED BY <1>1, <3>1, Pow2Unique
    <3> QED BY <2>2, <3>1, <3>2, <3>3
  <2> QED BY <2>1, <2>2
<1>3. p = [n \in Nat |-> IF n = 0 THEN 1 ELSE 2 * p[n - 1]]
  <2>1. p = [n \in Nat |-> p[n]]
    OBVIOUS
  <2> HIDE DEF p
  <2> QED BY <1>2, <2>1
<1> HIDE DEF p
<1>4. \E g : g = [n \in Nat |-> IF n = 0 THEN 1 ELSE 2 * g[n - 1]]
    BY <1>3
<1>5. Pow2 = [n \in Nat |-> IF n = 0 THEN 1 ELSE 2 * Pow2[n - 1]]
    BY <1>4 DEF Pow2
<1> QED BY <1>5

\* Every power of two exceeds its exponent.
LEMMA Pow2Positive == \A n \in Nat : Pow2[n] \in Nat /\ n < Pow2[n]
<1> DEFINE Good == {n \in Nat : Pow2[n] \in Nat /\ n < Pow2[n]}
<1>1. 0 \in Good
    BY Pow2Equation
<1>2. \A n \in Nat : n \in Good => n + 1 \in Good
    BY Pow2Equation
<1> HIDE DEF Good
<1>3. Nat \subseteq Good
    BY <1>1, <1>2, NatSetInduction
<1> QED BY <1>3 DEF Good

\* Products of natural numbers.
LEMMA Products ==
    ASSUME NEW x \in Int, NEW y \in Int, NEW z \in Nat
    PROVE  /\ x * z \in Int
           /\ (x + y) * z = x * z + y * z
           /\ z * (x + y) = z * x + z * y
           /\ x <= y => x * z <= y * z /\ z * x <= z * y
OBVIOUS

\* What division with remainder means.
LEMMA Division ==
    ASSUME NEW x \in Nat, NEW z \in Nat \ {0}
    PROVE  /\ x \div z \in Nat /\ x % z \in Nat /\ x % z < z
           /\ x = ((x \div z) * z) + (x % z)
OBVIOUS

\* Exponents add up under multiplication.
LEMMA Pow2Sum ==
    ASSUME NEW a \in Nat
    PROVE  \A b \in Nat : Pow2[a + b] = Pow2[a] * Pow2[b]
<1> DEFINE Good == {b \in Nat : Pow2[a + b] = Pow2[a] * Pow2[b]}
<1>0. Pow2[a] \in Nat
    BY Pow2Positive
<1>1. 0 \in Good
    BY <1>0, Pow2Equation
<1>2. ASSUME NEW b \in Nat, b \in Good PROVE b + 1 \in Good
  <2>1. Pow2[a + b] = Pow2[a] * Pow2[b]
    BY <1>2
  <2>2. Pow2[b] \in Nat /\ Pow2[b + 1] = 2 * Pow2[b]
    BY Pow2Equation, Pow2Positive
  <2>3. a + (b + 1) = (a + b) + 1 /\ a + b \in Nat
    OBVIOUS
  <2>4. Pow2[a + (b + 1)] = 2 * (Pow2[a] * Pow2[b])
    BY <2>1, <2>3, Pow2Equation
  <2>5. 2 * (Pow2[a] * Pow2[b]) = Pow2[a] * (2 * Pow2[b])
    BY <1>0, <2>2
  <2> QED BY <2>2, <2>4, <2>5
<1>3. \A b \in Nat : b \in Good => b + 1 \in Good
    BY <1>2
<1> HIDE DEF Good
<1>4. Nat \subseteq Good
    BY <1>1, <1>3, NatSetInduction
<1> QED BY <1>4 DEF Good

\* Higher exponents have higher powers.
LEMMA Pow2Monotone ==
    ASSUME NEW a \in Nat, NEW b \in Nat, a <= b
    PROVE  Pow2[a] <= Pow2[b]
<1> DEFINE d == b - a
<1>1. d \in Nat /\ b = a + d
    OBVIOUS
<1>2. Pow2[b] = Pow2[a] * Pow2[d]
    BY <1>1, Pow2Sum
<1>3. Pow2[a] \in Nat /\ Pow2[d] \in Nat /\ 1 <= Pow2[d]
    BY <1>1, Pow2Positive
<1> HIDE DEF d
<1>4. Pow2[a] * 1 <= Pow2[a] * Pow2[d]
    BY <1>3, Products
<1> QED BY <1>2, <1>3, <1>4

-----------------------------------------------------------------------------
(* Buckets *)

\* Every v > 0 lies in the octave of its exponent.
LEMMA ExponentBounds ==
    ASSUME NEW v \in Nat \ {0}
    PROVE  Exponent(v) \in Nat /\ Pow2[Exponent(v)] <= v /\ v < Pow2[Exponent(v) + 1]
<1> DEFINE B == {n \in Nat : v < Pow2[n]}
<1>1. B \in SUBSET Nat /\ v \in B
    BY Pow2Positive
<1> HIDE DEF B
<1>2. PICK n \in B : \A k \in B : n <= k
    BY <1>1, NatLeast
<1>3. n \in Nat /\ v < Pow2[n] /\ \A k \in Nat : v < Pow2[k] => n <= k
    BY <1>2 DEF B
<1>4. n # 0
    BY <1>3, Pow2Equation
<1> DEFINE e == n - 1
<1>5. e \in Nat /\ e + 1 = n /\ ~ (n <= e)
    BY <1>3, <1>4
<1>6. Pow2[e] \in Nat /\ e < Pow2[e]
    BY <1>5, Pow2Positive
<1>7. Pow2[e] <= v
    BY <1>3, <1>5, <1>6
<1>8. e \in 0 .. v /\ v < Pow2[e + 1]
    BY <1>3, <1>5, <1>6, <1>7
<1> HIDE DEF e
<1>9. \E k \in 0 .. v : Pow2[k] <= v /\ v < Pow2[k + 1]
    BY <1>7, <1>8
<1> QED BY <1>9 DEF Exponent

\* There are sub-buckets, and no more than buckets.
LEMMA SubCountPositive == SubCount \in Nat \ {0} /\ SubCount <= NumBuckets /\ NumBuckets \in Nat \ {0}
BY Pow2Positive, HistogramAssumption DEF SubCount

\* Above the linear region v has the bucket of sub-bucket q - SubCount of
\* octave d, and q are its leading SubBits + 1 bits.
LEMMA Octave ==
    ASSUME NEW v \in Nat, v >= SubCount
    PROVE  \E d \in Nat : \E q \in SubCount .. 2 * SubCount - 1 :
              /\ q * Pow2[d] <= v /\ v < q * Pow2[d] + Pow2[d]
              /\ bucketIndex(v) = IF d * SubCount + q >= NumBuckets THEN NumBuckets - 1
                                  ELSE d * SubCount + q
<1> DEFINE S == SubCount
           e == Exponent(v)
           d == e - SubBits
           P == Pow2[d]
           q == v \div P
<1>0. S \in Nat \ {0} /\ S = Pow2[SubBits] /\ SubBits \in Nat /\ v # 0
    BY SubCountPositive, HistogramAssumption DEF SubCount
<1>1. e \in Nat /\ Pow2[e] <= v /\ v < Pow2[e + 1]
    BY <1>0, ExponentBounds
<1>2. d \in Nat
  <2> SUFFICES ASSUME e < SubBits PROVE FALSE
    BY <1>0, <1>1
  <2>1. Pow2[e + 1] <= Pow2[SubBits]
    <3> HIDE DEF e
    <3> QED BY <1>0, <1>1, Pow2Monotone
  <2> QED BY <1>0, <1>1, <2>1, Pow2Positive
<1>3. P \in Nat \ {0}
  <2> HIDE DEF d
  <2> QED BY <1>2, Pow2Positive
<1>4. Pow2[e] = S * P /\ Pow2[e + 1] = 2 * (S * P)
  <2>1. e = SubBits + d
    BY <1>0, <1>1
  <2> HIDE DEF e, d
  <2> QED BY <1>0, <1>1, <1>2, <2>1, Pow2Sum, Pow2Equation
<1> HIDE DEF P
<1>5. q \in Nat /\ \E r \in 0 .. P - 1 : v = q * P + r
  <2>1. q \in Nat /\ v % P \in 0 .. P - 1 /\ v = q * P + (v % P)
    BY <1>3, Division
  <2> HIDE DEF q
  <2> QED BY <2>1
<1>r. PICK r \in 0 .. P - 1 : v = q * P + r
    BY <1>5
<1>6. S <= q
  <2> SUFFICES ASSUME q <= S - 1 PROVE FALSE
    BY <1>0, <1>5
  <2> HIDE DEF S, q
  <2>1. q * P <= (S - 1) * P /\ (S - 1) * P + 1 * P = S * P
    BY <1>0, <1>3, <1>5, <1>r, Products
  <2> QED BY <1>0, <1>1, <1>3, <1>4, <1>5, <2>1
<1>7. q <= 2 * S - 1
  <2> SUFFICES ASSUME 2 * S <= q PROVE FALSE
    BY <1>0, <1>5
  <2> HIDE DEF S, q
  <2>1. (2 * S) * P <= q * P
    BY <1>0, <1>3, <1>5, <1>r, Products
  <2>2. (2 * S) * P = 2 * (S * P)
    BY <1>0, <1>3
  <2>3. 2 * (S * P) \in Int /\ q * P \in Int
    BY <1>0, <1>3, <1>5, <1>r
  <2>4. q * P <= v
    BY <1>3, <1>5, <1>r, <2>3
  <2>5. v < 2 * (S * P)
    BY <1>1, <1>4
  <2> QED BY <2>1, <2>2, <2>3, <2>4, <2>5
<1>8. q % S = q - S
  <2> HIDE DEF S, q
  <2> QED BY <1>0, <1>5, <1>6, <1>7
<1>9. (d + 1) * S + (q % S) = d * S + q
  <2> HIDE DEF S, q, d
  <2>1. (d + 1) * S = d * S + 1 * S /\ d * S \in Int
    BY <1>0, <1>2, Products
  <2>2. \A x \in Int : (x + 1 * S) + (q - S) = x + q
    BY <1>0, <1>5
  <2>3. (d + 1) * S + (q - S) = d * S + q
    BY <2>1, <2>2
  <2> QED BY <1>8, <2>3
<1>10. bucketIndex(v) = IF d * S + q >= NumBuckets THEN NumBuckets - 1 ELSE d * S + q
  <2>1. ~ (v < SubCount)
    BY <1>0
  <2>2. bucketIndex(v) = LET i == (d + 1) * S + (q % S)
                         IN  IF i >= NumBuckets THEN NumBuckets - 1 ELSE i
    BY <2>1, SMTT(30) DEF bucketIndex, P
  <2> QED BY <1>9, <2>2
<1>11. q * P <= v /\ v < q * P + P
  <2> HIDE DEF q
  <2>1. q * P \in Int
    BY <1>3, <1>5, <1>r
  <2> QED BY <1>3, <1>5, <1>r, <2>1
<1>12. q \in S .. 2 * S - 1
    BY <1>0, <1>5, <1>6, <1>7
<1> HIDE DEF q, d, S
<1> QED BY <1>2, <1>10, <1>11, <1>12 DEF P, S

\* An index is a bucket's.
LEMMA BucketRange ==
    ASSUME NEW v \in Nat
    PROVE  bucketIndex(v) \in BucketIds
<1>1. CASE v < SubCount
    BY <1>1, SubCountPositive DEF bucketIndex, BucketIds
<1>2. CASE v >= SubCount
  <2>1. PICK d \in Nat, q \in SubCount .. 2 * SubCount - 1 :
            bucketIndex(v) = IF d * SubCount + q >= NumBuckets THEN NumBuckets - 1
                             ELSE d * SubCount + q
    BY <1>2, Octave
  <2>2. d * SubCount \in Nat
    BY SubCountPositive
  <2> DEFINE i == d * SubCount + q
  <2>3. i \in Nat
    BY <2>2, SubCountPositive
  <2> HIDE DEF i
  <2> QED BY <2>1, <2>3, SubCountPositive DEF BucketIds, i
<1> QED BY <1>1, <1>2, SubCountPositive

\* The value of a bucket above the linear region.
LEMMA BucketDecode ==
    ASSUME NEW i \in Nat, i >= SubCount
    PROVE  \E d \in Nat : \E q \in SubCount .. 2 * SubCount - 1 :
              i = d * SubCount + q /\ bucketValue(i) = q * Pow2[d]
<1> DEFINE S == SubCount
           c == i \div S
           m == i % S
           d == c - 1
<1>1. S \in Nat \ {0} /\ c \in Nat /\ m \in Nat /\ m < S /\ i = (c * S) + m
    BY SubCountPositive, Division
<1>2. c # 0
  <2> HIDE DEF c, m, S
  <2>1. 0 * S = 0
    BY <1>1
  <2> QED BY <1>1, <2>1 DEF S
<1>3. d \in Nat /\ c = d + 1
    BY <1>1, <1>2
<1>4. bucketValue(i) = (S + m) * Pow2[d]
  <2>1. ~ (i < SubCount)
    BY <1>1
  <2>2. (c + SubBits - 1) - SubBits = d
    BY <1>1, HistogramAssumption
  <2> QED BY <2>1, <2>2 DEF bucketValue
<1>5. i = d * S + (S + m)
  <2> HIDE DEF c, m, S, d
  <2>1. (d + 1) * S = d * S + 1 * S
    BY <1>1, <1>3, Products
  <2>2. d * S \in Int /\ 1 * S = S
    BY <1>1, <1>3
  <2> QED BY <1>1, <1>3, <2>1, <2>2
<1>6. S + m \in S .. 2 * S - 1
    BY <1>1
<1> HIDE DEF c, m, S, d
<1> QED BY <1>3, <1>4, <1>5, <1>6 DEF S

\* The codes of two pairs, and the values they stand for, are in the order of
\* the octaves and then of the sub-buckets.
LEMMA CodeOrder ==
    ASSUME NEW d \in Nat, NEW k \in Nat,
           NEW q \in SubCount .. 2 * SubCount - 1, NEW p \in SubCount .. 2 * SubCount - 1,
           d < k \/ (d = k /\ q <= p)
    PROVE  /\ d * SubCount + q <= k * SubCount + p
           /\ q * Pow2[d] <= p * Pow2[k]
           /\ d < k => /\ d * SubCount + q < k * SubCount + p
                       /\ q * Pow2[d] + Pow2[d] <= p * Pow2[k]
<1> DEFINE S == SubCount
           P == Pow2[d]
           K == Pow2[k]
<1>0. S \in Nat \ {0} /\ P \in Nat /\ K \in Nat
    BY SubCountPositive, Pow2Positive
<1>1. CASE d = k /\ q <= p
  <2>1. q * P <= p * P
    BY <1>0, <1>1, Products
  <2>2. d * S \in Int
    BY <1>0
  <2> QED BY <1>0, <1>1, <2>1, <2>2
<1>2. CASE d < k
  <2>1. (d + 1) * S <= k * S /\ (d + 1) * S = d * S + 1 * S
    BY <1>0, <1>2, Products
  <2>2. d * S \in Int /\ k * S \in Int /\ 1 * S = S
    BY <1>0
  <2>3. d * S + q < k * S + p
    BY <1>0, <2>1, <2>2
  <2>4. 2 * P <= K
    BY <1>2, Pow2Equation, Pow2Monotone
  <2>5. /\ (q + 1) * P <= (2 * S) * P /\ (q + 1) * P = q * P + 1 * P
        /\ S * (2 * P) <= S * K /\ S * K <= p * K
    BY <1>0, <2>4, Products
  <2>6. /\ (2 * S) * P = S * (2 * P) /\ 1 * P = P
        /\ q * P \in Int /\ S * (2 * P) \in Int /\ S * K \in Int /\ p * K \in Int
    BY <1>0
  <2>7. q * P + P <= p * K
    BY <1>0, <2>5, <2>6
  <2> QED BY <1>0, <2>3, <2>6, <2>7
<1> QED BY <1>1, <1>2

\* A bucket further up has a higher value.
LEMMA ValueFollowsCode ==
    ASSUME NEW d \in Nat, NEW k \in Nat,
           NEW q \in SubCount .. 2 * SubCount - 1, NEW p \in SubCount .. 2 * SubCount - 1,
           d * SubCount + q <= k * SubCount + p
    PROVE  q * Pow2[d] <= p * Pow2[k]
<1>0. SubCount \in Nat \ {0}
    BY SubCountPositive
<1>1. d * SubCount \in Int /\ k * SubCount \in Int
    BY <1>0
<1>2. ~ (k < d)
  <2> SUFFICES ASSUME k < d PROVE FALSE
    OBVIOUS
  <2>1. k * SubCount + p < d * SubCount + q
    BY CodeOrder
  <2> QED BY <1>0, <1>1, <2>1
<1>3. k = d => q <= p
    BY <1>0, <1>1
<1>4. d < k \/ (d = k /\ q <= p)
    BY <1>2, <1>3
<1> QED BY <1>4, CodeOrder

\* A higher latency never has a lower bucket.
THEOREM BucketMonotone ==
    ASSUME NEW v \in Nat, NEW w \in Nat, v <= w
    PROVE  bucketIndex(v) <= bucketIndex(w)
<1>0. SubCount \in Nat \ {0} /\ SubCount <= NumBuckets /\ NumBuckets \in Nat \ {0}
    BY SubCountPositive
<1>1. CASE v < SubCount
  <2>1. bucketIndex(v) = v
    BY <1>1 DEF bucketIndex
  <2>2. CASE w < SubCount
    BY <2>1, <2>2 DEF bucketIndex
  <2>3. CASE w >= SubCount
    <3>1. PICK k \in Nat, p \in SubCount .. 2 * SubCount - 1 :
            bucketIndex(w) = IF k * SubCount + p >= NumBuckets THEN NumBuckets - 1
                             ELSE k * SubCount + p
        BY <2>3, Octave
    <3>2. k * SubCount \in Nat
        BY <1>0
    <3> QED BY <1>0, <1>1, <2>1, <3>1, <3>2
  <2> QED BY <1>0, <2>2, <2>3
<1>2. CASE v >= SubCount
  <2>1. PICK d \in Nat, q \in SubCount .. 2 * SubCount - 1 :
            /\ q * Pow2[d] <= v /\ v < q * Pow2[d] + Pow2[d]
            /\ bucketIndex(v) = IF d * SubCount + q >= NumBuckets THEN NumBuckets - 1
                                ELSE d * SubCount + q
    BY <1>2, Octave
  <2>2. PICK k \in Nat, p \in SubCount .. 2 * SubCount - 1 :
            /\ p * Pow2[k] <= w /\ w < p * Pow2[k] + Pow2[k]
            /\ bucketIndex(w) = IF k * SubCount + p >= NumBuckets THEN NumBuckets - 1
                                ELSE k * SubCount + p
    BY <1>0, <1>2, Octave
  <2>3. Pow2[d] \in Nat /\ Pow2[k] \in Nat
    BY Pow2Positive
  <2>4. q * Pow2[d] \in Int /\ p * Pow2[k] \in Int
    BY <1>0, <2>3
  <2>5. ~ (k < d)
    <3> SUFFICES ASSUME k < d PROVE FALSE
        OBVIOUS
    <3>1. p * Pow2[k] + Pow2[k] <= q * Pow2[d]
        BY CodeOrder
    <3> QED BY <2>1, <2>2, <2>3, <2>4, <3>1
  <2>6. k = d => q <= p
    <3> SUFFICES ASSUME k = d, p + 1 <= q PROVE FALSE
        BY <1>0
    <3>1. (p + 1) * Pow2[d] <= q * Pow2[d] /\ (p + 1) * Pow2[d] = p * Pow2[d] + 1 * Pow2[d]
        BY <1>0, <2>3, Products
    <3> QED BY <2>1, <2>2, <2>3, <2>4, <3>1
  <2>7. d < k \/ (d = k /\ q <= p)
    BY <2>5, <2>6
  <2>8. d * SubCount + q <= k * SubCount + p
    BY <2>7, CodeOrder
  <2>9. d * SubCount \in Int /\ k * SubCount \in Int
    BY <1>0
  <2> QED BY <1>0, <2>1, <2>2, <2>8, <2>9
<1> QED BY <1>0, <1>1, <1>2

\* What a bucket is read back as is at most the latency counted in it and, short
\* of the last bucket, less than a sub-bucket's width below it.
THEOREM BucketApproximates ==
    ASSUME NEW v \in Nat
    PROVE  LET b == bucketValue(bucketIndex(v))
           IN  /\ b \in Nat /\ b <= v
               /\ bucketIndex(v) < NumBuckets - 1 => (v - b) * SubCount <= v
<1>0. SubCount \in Nat \ {0} /\ SubCount <= NumBuckets /\ NumBuckets \in Nat \ {0}
    BY SubCountPositive
<1>1. CASE v < SubCount
  <2>1. bucketValue(bucketIndex(v)) = v
    BY <1>1 DEF bucketIndex, bucketValue
  <2>2. (v - v) * SubCount = 0
    BY <1>0
  <2> QED BY <2>1, <2>2
<1>2. CASE v >= SubCount
  <2>1. PICK d \in Nat, q \in SubCount .. 2 * SubCount - 1 :
            /\ q * Pow2[d] <= v /\ v < q * Pow2[d] + Pow2[d]
            /\ bucketIndex(v) = IF d * SubCount + q >= NumBuckets THEN NumBuckets - 1
                                ELSE d * SubCount + q
    BY <1>2, Octave
  <2> DEFINE code == d * SubCount + q
             i    == bucketIndex(v)
  <2>2. /\ Pow2[d] \in Nat /\ q * Pow2[d] \in Nat
        /\ code \in Nat /\ code >= SubCount
    BY <1>0, Pow2Positive
  <2> HIDE DEF code
  <2>3. i \in Nat /\ i <= code /\ i <= NumBuckets - 1 /\ (i < NumBuckets - 1 => i = code)
    BY <1>0, <2>1, <2>2 DEF code
  <2> HIDE DEF i
  <2>4. CASE i < SubCount
    <3>1. bucketValue(i) = i
        BY <2>4 DEF bucketValue
    <3>2. i = NumBuckets - 1
        BY <1>0, <2>2, <2>3, <2>4
    <3> QED BY <1>0, <1>2, <2>3, <2>4, <3>1, <3>2 DEF i
  <2>5. CASE i >= SubCount
    <3>1. PICK k \in Nat, p \in SubCount .. 2 * SubCount - 1 :
              i = k * SubCount + p /\ bucketValue(i) = p * Pow2[k]
        BY <2>3, <2>5, BucketDecode
    <3>2. Pow2[k] \in Nat /\ p * Pow2[k] \in Nat
        BY <1>0, Pow2Positive
    <3>3. bucketValue(i) <= q * Pow2[d]
        BY <2>3, <3>1, ValueFollowsCode DEF code
    <3>4. ASSUME i < NumBuckets - 1 PROVE (v - bucketValue(i)) * SubCount <= v
      <4>1. q * Pow2[d] <= bucketValue(i)
          BY <1>0, <2>2, <2>3, <3>1, <3>4, ValueFollowsCode DEF code
      <4> DEFINE gap == v - bucketValue(i)
      <4>2. gap \in Nat /\ gap <= Pow2[d]
          BY <2>1, <2>2, <3>1, <3>2, <3>3, <4>1
      <4> HIDE DEF gap
      <4>3. gap * SubCount <= Pow2[d] * SubCount /\ Pow2[d] * SubCount <= Pow2[d] * q
          BY <1>0, <2>2, <4>2, Products
      <4>4. Pow2[d] * q = q * Pow2[d] /\ gap * SubCount \in Int /\ Pow2[d] * SubCount \in Int
          BY <1>0, <2>2, <4>2
      <4>5. gap * SubCount <= v
          BY <2>1, <2>2, <4>3, <4>4
      <4> QED BY <4>5 DEF gap
    <3> QED BY <2>1, <2>2, <3>1, <3>2, <3>3, <3>4 DEF i
  <2> QED BY <1>0, <2>3, <2>4, <2>5
<1> QED BY <1>0, <1>1, <1>2
-----------------------------------------------------------------------------
(* Types *)

\* A set of numbers that is not empty contains its minimum.
LEMMA MinIsLeast ==
    ASSUME NEW B \in SUBSET Nat, B # {}
    PROVE  Min(B) \in B /\ \A y \in B : Min(B) <= y
<1>1. \E x \in B : \A y \in B : x <= y
  BY NatLeast
<1> QED
  BY <1>1 DEF Min

\* A quantile is the value of a bucket, whatever the buckets hold.
LEMMA QuantileType ==
    ASSUME NEW buckets, NEW percent
    PROVE  Quantile(buckets, percent) \in Nat
<1> DEFINE target  == (percent * Total(buckets)) \div 100
           reached == {i \in BucketIds : ReachesRank(Cumulative(buckets, i), target)}
           which   == IF reached = {} THEN NumBuckets - 1 ELSE Min(reached)
<1>1. reached \in SUBSET Nat /\ reached \subseteq BucketIds
  BY DEF BucketIds
<1>2. which \in BucketIds
  <2>1. NumBuckets - 1 \in BucketIds
    BY SubCountPositive DEF BucketIds
  <2> HIDE DEF reached
  <2> QED
    BY <1>1, <2>1, MinIsLeast
<1>3. \A i \in BucketIds : bucketValue(i) \in Nat
  <2>1. ASSUME NEW i \in Nat PROVE bucketValue(i) \in Nat
    <3>1. CASE i < SubCount
      BY <3>1 DEF bucketValue
    <3>2. CASE i >= SubCount
      <4>1. PICK d \in Nat, q \in SubCount .. 2 * SubCount - 1 :
                bucketValue(i) = q * Pow2[d]
        BY <3>2, BucketDecode
      <4> QED
        BY <4>1, SubCountPositive, Pow2Positive
    <3> QED
      BY <3>1, <3>2, SubCountPositive
  <2> QED
    BY <2>1 DEF BucketIds
<1>4. Quantile(buckets, percent) = IF Total(buckets) = 0 THEN 0 ELSE bucketValue(which)
  BY DEF Quantile
<1> HIDE DEF which
<1> QED
  BY <1>2, <1>3, <1>4

\* The counters are numbered from 1 to LastField.
LEMMA FieldNumbers ==
    /\ NumBuckets \in Nat \ {0} /\ LastField \in Nat /\ LastField > 6
    /\ Count \in Fields /\ Errors \in Fields /\ Bytes \in Fields
    /\ StatusOK \in Fields /\ Status4x \in Fields /\ Status5x \in Fields
    /\ Count <= LastField
    /\ \A i \in BucketIds : Bucket(i) \in Fields
    /\ \A f \in Fields : f \in Nat /\ f <= LastField
BY SubCountPositive DEF LastField, Fields, Count, Errors, Bytes, StatusOK, Status4x, Status5x,
   BucketIds, Bucket

Additions == [field : Fields, by : Nat]

\* What a response adds are additions to counters.
LEMMA ObserveAdditions ==
    ASSUME NEW r \in Responses
    PROVE  /\ r.kind # "error" => ObserveSuccess(r) \in Seq(Additions)
           /\ ObserveError(r) \in Seq(Additions)
<1>1. r \in ResponseType
  BY ReportingAssumption
<1> DEFINE b == Bucket(bucketIndex(r.latency))
           s == StatusField(r.kind)
<1>2. b \in Fields /\ r.bytes \in Nat
  BY <1>1, BucketRange, FieldNumbers DEF ResponseType
<1>3. r.kind # "error" => s \in Fields
  BY <1>1, FieldNumbers DEF ResponseType, StatusField
<1> HIDE DEF b, s
<1>4. \A f \in Fields, n \in Nat : Add(f, n) \in Additions
  BY DEF Add, Additions
<1>5. /\ Add(Errors, 1) \in Additions /\ Add(b, 1) \in Additions
      /\ Add(Count, 1) \in Additions /\ Add(Bytes, r.bytes) \in Additions
      /\ r.kind # "error" => Add(s, 1) \in Additions
  BY <1>2, <1>3, <1>4, FieldNumbers
<1>6. <<Add(Errors, 1), Add(b, 1)>> \in Seq(Additions)
  BY <1>5
<1>7. r.kind # "error" =>
        <<Add(Count, 1), Add(Bytes, r.bytes), Add(b, 1), Add(s, 1)>> \in Seq(Additions)
  BY <1>5
<1> QED
  BY <1>6, <1>7 DEF ObserveSuccess, ObserveError, b, s

\* What the types say of each variable.
LEMMA Numbers ==
    ASSUME ReportTypeOK
    PROVE  /\ counter \in [Fields -> Nat] /\ cur \in [Fields -> Nat] /\ prev \in [Fields -> Nat]
           /\ \A f \in Fields : counter[f] \in Nat /\ cur[f] \in Nat /\ prev[f] \in Nat
           /\ todo \in [Workers -> Seq(Additions)]
           /\ tick \in Nat /\ reading \in Nat /\ spawnCount \in Nat
           /\ \A m \in net : m.totalCount \in Nat /\ m.tickNumber \in Int
<1>1. \A m \in Reports : m.totalCount \in Nat /\ m.tickNumber \in Int
  BY DEF Reports, FlushTick
<1>2. \A m \in net : m.totalCount \in Nat /\ m.tickNumber \in Int
  BY <1>1 DEF ReportTypeOK
<1>3. reading \in Nat
  BY FieldNumbers DEF ReportTypeOK
<1>4. todo \in [Workers -> Seq(Additions)]
  BY DEF ReportTypeOK, Additions
<1> QED
  BY <1>2, <1>3, <1>4 DEF ReportTypeOK

\* A report of two snapshots is a report.
LEMMA BuildType ==
    ASSUME NEW s \in [Fields -> Nat], NEW d \in [Fields -> Int], NEW t \in Nat \union {FlushTick}
    PROVE  buildReport(s, d, t) \in Reports
<1>1. /\ Quantile(BucketsOf(d), 50) \in Nat /\ Quantile(BucketsOf(d), 95) \in Nat
      /\ Quantile(BucketsOf(d), 99) \in Nat
  BY QuantileType
<1> QED
  BY <1>1, FieldNumbers DEF buildReport, Reports

\* One addition moves from the worker's list to its counter.
LEMMA AddStep ==
    ASSUME ReportTypeOK, NEW w \in Workers, AddNext(w)
    PROVE  /\ Head(todo[w]) \in Additions /\ todo[w] # <<>>
           /\ todo[w] \in Seq(Additions)
           /\ counter' \in [Fields -> Nat] /\ \A f \in Fields : counter[f] <= counter'[f]
           /\ \A f \in Fields :
                counter'[f] = counter[f] + (IF f = Head(todo[w]).field THEN Head(todo[w]).by ELSE 0)
           /\ todo' \in [Workers -> Seq(Additions)]
           /\ \A v \in Workers : todo'[v] = IF v = w THEN Tail(todo[w]) ELSE todo[v]
<1>1. todo[w] \in Seq(Additions) /\ todo[w] # <<>>
  BY Numbers DEF AddNext
<1>2. Head(todo[w]) \in Additions /\ Tail(todo[w]) \in Seq(Additions)
  BY <1>1
<1> DEFINE a == Head(todo[w])
<1>3. a.by \in Nat
  BY <1>2 DEF Additions
<1>4. counter' = [counter EXCEPT ![a.field] = @ + a.by] /\ todo' = [todo EXCEPT ![w] = Tail(todo[w])]
  BY DEF AddNext
<1>5. counter \in [Fields -> Nat] /\ todo \in [Workers -> Seq(Additions)]
  BY Numbers
<1> HIDE DEF a
<1>6. \A f \in Fields : counter'[f] = counter[f] + (IF f = a.field THEN a.by ELSE 0)
  BY <1>3, <1>4, <1>5
<1>7. DOMAIN counter' = Fields /\ counter' = [f \in Fields |-> counter'[f]]
  BY <1>4, <1>5
<1>8. \A f \in Fields : counter'[f] \in Nat /\ counter[f] <= counter'[f]
  BY <1>3, <1>5, <1>6
<1>9. counter' \in [Fields -> Nat]
  BY <1>7, <1>8
<1>10. /\ todo' \in [Workers -> Seq(Additions)]
       /\ \A v \in Workers : todo'[v] = IF v = w THEN Tail(todo[w]) ELSE todo[v]
  BY <1>2, <1>4, <1>5
<1> QED
  BY <1>1, <1>2, <1>6, <1>8, <1>9, <1>10 DEF a

\* Every step keeps the types, and no counter ever falls.
LEMMA TypesStep ==
    ASSUME ReportTypeOK, [ReportNext]_vars
    PROVE  /\ ReportTypeOK'
           /\ \A f \in Fields : counter'[f] \in Nat /\ counter[f] <= counter'[f]
<1> DEFINE Goal == /\ ReportTypeOK'
                   /\ \A f \in Fields : counter'[f] \in Nat /\ counter[f] <= counter'[f]
<1>c. /\ counter \in [Fields -> Nat] /\ cur \in [Fields -> Nat] /\ prev \in [Fields -> Nat]
      /\ tick \in Nat /\ reading \in 1 .. LastField + 1 /\ LastField \in Nat
  BY FieldNumbers DEF ReportTypeOK
<1>o. 1 \in 1 .. LastField + 1
  BY <1>c
\* Steps that leave the counters alone.
<1>k. ASSUME UNCHANGED counter, ReportTypeOK' PROVE Goal
  BY <1>k, <1>c
<1>z. Zero \in [Fields -> Nat]
  BY DEF Zero
<1>1. ASSUME NEW w \in Workers, AddNext(w) PROVE Goal
  <2>1. /\ counter' \in [Fields -> Nat] /\ \A f \in Fields : counter[f] <= counter'[f]
        /\ todo' \in [Workers -> Seq(Additions)]
    BY <1>1, AddStep
  <2>2. UNCHANGED <<observed, runDone, ctxDone, loopVars, net, controlVars>>
    BY <1>1 DEF AddNext
  <2>3. ReportTypeOK'
    BY <2>1, <2>2 DEF ReportTypeOK, Additions, loopVars, controlVars
  <2> QED
    BY <2>1, <2>3
<1>2. ASSUME NEW w \in Workers, NEW r \in Responses, Observe(w, r) PROVE Goal
  <2>1. todo' = [todo EXCEPT ![w] = IF r.kind = "error" THEN ObserveError(r)
                                                          ELSE ObserveSuccess(r)]
    BY <1>2 DEF Observe
  <2>2. todo' \in [Workers -> Seq(Additions)]
    BY <2>1, ObserveAdditions, Numbers
  <2>3. observed' \in [Responses -> Nat]
    BY <1>2 DEF Observe, ReportTypeOK
  <2>4. UNCHANGED <<counter, runDone, ctxDone, loopVars, net, controlVars>>
    BY <1>2 DEF Observe
  <2>5. ReportTypeOK'
    BY <2>2, <2>3, <2>4 DEF ReportTypeOK, Additions, loopVars, controlVars
  <2> QED
    BY <1>k, <2>4, <2>5
<1>3. CASE Cancel \/ RunReturns
  <2>1. UNCHANGED <<metricVars, loopVars, net, controlVars>> /\ {runDone', ctxDone'} \subseteq BOOLEAN
    BY <1>3 DEF Cancel, RunReturns, ReportTypeOK
  <2> QED
    BY <1>k, <2>1 DEF metricVars, loopVars, controlVars, ReportTypeOK
<1>4. CASE Tick \/ LoopReturns \/ FinalFlush
  <2>1. /\ reading' = 1 /\ UNCHANGED <<metricVars, runDone, ctxDone, tick, cur, prev, net, controlVars>>
        /\ phase' \in {"snapshot", "stopped", "final"}
    BY <1>4 DEF Tick, LoopReturns, FinalFlush, Enter
  <2> QED
    BY <1>o, <1>k, <2>1 DEF metricVars, controlVars, ReportTypeOK
<1>5. CASE ReadCounter
  <2>1. cur' \in [Fields -> Nat]
    <3>1. \A f \in Fields : cur'[f] = IF f = reading THEN counter[reading] ELSE cur[f]
      BY <1>5, <1>c DEF ReadCounter
    <3>2. \A f \in Fields : cur'[f] \in Nat
      BY <3>1, <1>c
    <3>3. cur' = [f \in Fields |-> cur'[f]]
      BY <1>5, <1>c DEF ReadCounter
    <3> QED
      BY <3>2, <3>3
  <2>2. /\ UNCHANGED <<metricVars, runDone, ctxDone, phase, tick, prev, net, controlVars>>
        /\ reading' \in 1 .. LastField + 1
    BY <1>5, <1>c DEF ReadCounter
  <2> QED
    BY <1>k, <2>1, <2>2 DEF metricVars, controlVars, ReportTypeOK
<1>6. CASE SendReport
  <2>1. CASE Post(buildReport(cur, Sub(cur, prev), tick), "sending")
    <3> DEFINE m == buildReport(cur, Sub(cur, prev), tick)
    <3>1. m \in Reports
      <4>1. Sub(cur, prev) \in [Fields -> Int]
        BY <1>c DEF Sub
      <4> QED
        BY <1>c, <4>1, BuildType
    <3>2. /\ net' = net \union {m} /\ phase' = "sending"
          /\ UNCHANGED <<metricVars, runDone, ctxDone, tick, reading, cur, prev, controlVars>>
      BY <2>1 DEF Post
    <3> HIDE DEF m
    <3> QED
      BY <1>k, <3>1, <3>2 DEF metricVars, controlVars, ReportTypeOK
  <2>2. CASE /\ phase' = "sending"
             /\ UNCHANGED <<metricVars, runDone, ctxDone, tick, reading, cur, prev, net, controlVars>>
    BY <1>k, <2>2 DEF metricVars, controlVars, ReportTypeOK
  <2> QED
    BY <1>6, <2>1, <2>2 DEF SendReport
<1>7. CASE ReportReturns
  <2>1. /\ prev' = cur /\ cur' = Zero /\ tick' = tick + 1 /\ phase' = "wait" /\ reading' = 1
        /\ UNCHANGED <<metricVars, runDone, ctxDone, net, controlVars>>
    BY <1>7 DEF ReportReturns, NextBaseline
  <2>2. /\ tick' \in Nat /\ reading' \in 1 .. LastField + 1
        /\ cur' \in [Fields -> Nat] /\ prev' \in [Fields -> Nat]
    BY <1>c, <1>o, <1>z, <2>1
  <2> QED
    BY <1>k, <2>1, <2>2 DEF metricVars, controlVars, ReportTypeOK
<1>8. CASE SendFlush
  <2> DEFINE m == buildReport(cur, cur, FlushTick)
  <2>1. m \in Reports
    <3>1. cur \in [Fields -> Int]
      BY <1>c
    <3> QED
      BY <1>c, <3>1, BuildType
  <2>2. /\ net' = net \union {m} /\ phase' = "flushing"
        /\ UNCHANGED <<metricVars, runDone, ctxDone, tick, reading, cur, prev, controlVars>>
    BY <1>8 DEF SendFlush, Post
  <2> HIDE DEF m
  <2> QED
    BY <1>k, <2>1, <2>2 DEF metricVars, controlVars, ReportTypeOK
<1>9. CASE FlushReturns
  BY <1>9, <1>k DEF FlushReturns, metricVars, controlVars, ReportTypeOK
<1>10. ASSUME NEW m \in net, record_benchmark_metrics(m) PROVE Goal
  <2>1. m \in Reports /\ m.totalCount \in Nat /\ net \subseteq Reports /\ minute \in Nat
        /\ rows \subseteq [minute : Nat, report : Reports]
    BY <1>10, Numbers DEF ReportTypeOK
  <2>2. /\ minute' \in minute .. MaxMinute
        /\ rows' = rows \union {[minute |-> minute', report |-> m]}
        /\ spawnCount' = m.totalCount /\ net' \subseteq net
        /\ UNCHANGED <<metricVars, runDone, ctxDone, loopVars>>
    BY <1>10 DEF record_benchmark_metrics, ReportedTotal
  <2>3. minute' \in Nat
    BY <2>1, <2>2, ReportingAssumption
  <2>4. rows' \subseteq [minute : Nat, report : Reports]
    BY <2>1, <2>2, <2>3
  <2> QED
    BY <1>k, <2>1, <2>2, <2>3, <2>4 DEF metricVars, loopVars, ReportTypeOK
<1>11. CASE UNCHANGED vars
  BY <1>11, <1>k DEF vars, metricVars, loopVars, controlVars, ReportTypeOK
<1> QED
  BY <1>1, <1>2, <1>3, <1>4, <1>5, <1>6, <1>7, <1>8, <1>9, <1>10, <1>11 DEF ReportNext

\* The counters start at zero and nothing is under way.
LEMMA TypesStart == ReportInit => ReportTypeOK
<1> SUFFICES ASSUME ReportInit PROVE ReportTypeOK
  OBVIOUS
<1>1. Zero \in [Fields -> Nat]
  BY DEF Zero
<1>2. <<>> \in Seq(Additions)
  OBVIOUS
<1>3. todo \in [Workers -> Seq(Additions)] /\ observed \in [Responses -> Nat]
  BY <1>2 DEF ReportInit
<1>4. 1 \in 1 .. LastField + 1
  BY FieldNumbers
<1> QED
  BY <1>1, <1>3, <1>4 DEF ReportInit, ReportTypeOK, Additions

\* Whatever the workers record and however reports are lost or overtaken, every
\* counter keeps its type: bucketIndex never leaves the histogram, and what
\* Quantile reads back from any difference of snapshots is a latency.
THEOREM ReportTypesCorrect == ReportSpec => []ReportTypeOK
<1>1. ReportTypeOK /\ [ReportNext]_vars => ReportTypeOK'
  BY TypesStep
<1> QED
  BY <1>1, TypesStart, PTL DEF ReportSpec
-----------------------------------------------------------------------------
(* Snapshots *)

\* Every counter a snapshot has read lies between the snapshot before it and
\* the counter now.
Between ==
    /\ \A f \in Fields : prev[f] <= counter[f]
    /\ phase \in {"snapshot", "final", "sending"} =>
         \A f \in Fields : f < reading => prev[f] <= cur[f] /\ cur[f] <= counter[f]
    /\ phase = "sending" => reading > LastField

SnapshotInv == ReportTypeOK /\ Between

\* What a snapshot read stays between the one before it and the counters.
LEMMA BetweenStep ==
    ASSUME SnapshotInv, [ReportNext]_vars
    PROVE  SnapshotInv'
<1>g. ReportTypeOK' /\ \A f \in Fields : counter'[f] \in Nat /\ counter[f] <= counter'[f]
  BY TypesStep DEF SnapshotInv
<1>c. /\ \A f \in Fields : counter[f] \in Nat /\ cur[f] \in Nat /\ prev[f] \in Nat
      /\ cur \in [Fields -> Nat] /\ reading \in Nat
  BY Numbers DEF SnapshotInv
<1> USE FieldNumbers DEF SnapshotInv
\* The loop and the snapshot stand still.
<1>k. ASSUME UNCHANGED <<phase, reading, cur, prev>> PROVE SnapshotInv'
  BY <1>k, <1>g, <1>c DEF Between
<1>e. ASSUME UNCHANGED prev, phase' \notin {"snapshot", "final", "sending"} PROVE SnapshotInv'
  BY <1>e, <1>g, <1>c DEF Between
<1>1. CASE UNCHANGED loopVars
  BY <1>1, <1>k DEF loopVars
<1>2. CASE Tick \/ FinalFlush \/ LoopReturns
  <2>1. reading' = 1 /\ UNCHANGED prev /\ phase' \in {"snapshot", "final", "stopped"}
    BY <1>2 DEF Tick, FinalFlush, LoopReturns, Enter
  <2>2. \A f \in Fields : ~(f < 1)
    BY DEF Fields
  <2> QED
    BY <1>g, <1>c, <2>1, <2>2 DEF Between
<1>3. CASE ReadCounter
  <2>1. \A f \in Fields : cur'[f] = IF f = reading THEN counter[f] ELSE cur[f]
    BY <1>3, <1>c DEF ReadCounter
  <2>2. UNCHANGED <<counter, prev, phase>> /\ reading' = reading + 1
        /\ phase \in {"snapshot", "final"}
    BY <1>3 DEF ReadCounter, metricVars
  <2>3. \A f \in Fields : f < reading' => f < reading \/ f = reading
    BY <1>c, <2>2
  <2>4. \A f \in Fields : f < reading' => prev'[f] <= cur'[f] /\ cur'[f] <= counter'[f]
    BY <1>c, <2>1, <2>2, <2>3 DEF Between
  <2> QED
    BY <1>g, <2>2, <2>4 DEF Between
<1>4. CASE SendReport
  <2>1. UNCHANGED <<reading, cur, prev>> /\ phase = "snapshot" /\ reading > LastField
    BY <1>4 DEF SendReport, Post
  <2>2. counter' = counter
    BY <1>4 DEF SendReport, Post, metricVars
  <2> QED
    BY <1>g, <2>1, <2>2 DEF Between
<1>5. CASE ReportReturns
  <2>1. /\ prev' = cur /\ phase' = "wait" /\ counter' = counter
        /\ phase = "sending"
    BY <1>5 DEF ReportReturns, NextBaseline, metricVars
  <2>2. \A f \in Fields : cur[f] <= counter[f]
    BY <1>c, <2>1 DEF Between
  <2> QED
    BY <1>g, <2>1, <2>2 DEF Between
<1>6. CASE SendFlush \/ FlushReturns
  <2>1. UNCHANGED prev /\ phase' \in {"flushing", "done"}
    BY <1>6 DEF SendFlush, FlushReturns, Post
  <2> QED
    BY <1>e, <2>1
<1>7. CASE \/ \E w \in Workers : AddNext(w) \/ \E r \in Responses : Observe(w, r)
           \/ Cancel \/ RunReturns \/ \E m \in net : record_benchmark_metrics(m)
  <2>1. UNCHANGED loopVars
    BY <1>7 DEF AddNext, Observe, Cancel, RunReturns, record_benchmark_metrics
  <2> QED
    BY <1>1, <2>1
<1> QED
  BY <1>1, <1>2, <1>3, <1>4, <1>5, <1>6, <1>7 DEF ReportNext, vars

\* The first snapshot has nothing to fall short of.
LEMMA SnapshotStart == ReportInit => SnapshotInv
<1> SUFFICES ASSUME ReportInit PROVE SnapshotInv
  OBVIOUS
<1>1. ReportTypeOK
  BY TypesStart
<1>2. Between
  BY FieldNumbers DEF ReportInit, Between, Zero
<1> QED
  BY <1>1, <1>2 DEF SnapshotInv

\* No delta is negative: however many workers count while two snapshots are
\* taken counter by counter, Sub never wraps around.
THEOREM DeltasAreNonNegative == ReportSpec => []DeltasNonNegative
<1>1. ReportInit => SnapshotInv
  BY SnapshotStart
<1>2. SnapshotInv => DeltasNonNegative
  BY DEF SnapshotInv, Between, DeltasNonNegative
<1> QED
  BY <1>1, <1>2, BetweenStep, PTL DEF ReportSpec

-----------------------------------------------------------------------------
(* Totals *)

\* The total of the newest report sent.
Newest == IF phase \in {"sending", "flushing", "done"} THEN cur[Count] ELSE prev[Count]

\* No total is above the newest; a report carries the tick of the loop only
\* while it is in hand, and then its total is the newest.
TotalsOrdered ==
    /\ spawnCount <= Newest
    /\ \A m \in net :
         /\ m.totalCount <= Newest
         /\ m.tickNumber <= tick
         /\ m.tickNumber = tick => phase = "sending"
         /\ m.tickNumber = FlushTick => phase \in {"flushing", "done"}
         /\ InHand(m) => m.totalCount = cur[Count]

ReportInv == SnapshotInv /\ TotalsOrdered

\* Nothing was sent yet.
LEMMA ReportStart == ReportInit => ReportInv
<1> SUFFICES ASSUME ReportInit PROVE ReportInv
  OBVIOUS
<1>1. SnapshotInv
  BY SnapshotStart
<1>2. TotalsOrdered
  BY FieldNumbers DEF ReportInit, TotalsOrdered, Newest, Zero
<1> QED
  BY <1>1, <1>2 DEF ReportInv

\* The newest total never falls, and a report is posted with it.
LEMMA TotalsStep ==
    ASSUME ReportInv, [ReportNext]_vars
    PROVE  ReportInv'
<1>s. SnapshotInv'
  BY BetweenStep DEF ReportInv
<1>c. /\ \A f \in Fields : counter[f] \in Nat /\ cur[f] \in Nat /\ prev[f] \in Nat
      /\ Count \in Fields /\ Count <= LastField /\ LastField \in Nat /\ Count \in Nat
      /\ tick \in Nat /\ reading \in Nat /\ spawnCount \in Nat
      /\ \A m \in net : m.totalCount \in Nat /\ m.tickNumber \in Int
  BY Numbers, FieldNumbers DEF ReportInv, SnapshotInv
<1>b. phase \in {"snapshot", "final", "sending"} /\ reading > LastField
        => prev[Count] <= cur[Count]
  BY <1>c DEF ReportInv, SnapshotInv, Between
<1>t. TotalsOrdered
  BY DEF ReportInv
<1> SUFFICES TotalsOrdered'
  BY <1>s DEF ReportInv
\* Neither the loop nor the network moves.
<1>k. ASSUME UNCHANGED <<phase, cur, prev, tick, net, spawnCount>> PROVE TotalsOrdered'
  BY <1>k, <1>t DEF TotalsOrdered, Newest, InHand
<1>1. CASE UNCHANGED <<loopVars, net, controlVars>>
  BY <1>1, <1>k DEF loopVars, controlVars
<1>2. CASE Tick \/ FinalFlush \/ LoopReturns
  <2>1. /\ UNCHANGED <<cur, prev, tick, net, spawnCount>>
        /\ phase \in {"wait", "stopped"} /\ phase' \in {"snapshot", "final", "stopped"}
    BY <1>2 DEF Tick, FinalFlush, LoopReturns, Enter, controlVars
  <2> QED
    BY <1>t, <2>1 DEF TotalsOrdered, Newest, InHand
<1>3. CASE ReadCounter
  <2>1. /\ UNCHANGED <<phase, prev, tick, net, spawnCount>>
        /\ phase \in {"snapshot", "final"}
    BY <1>3 DEF ReadCounter, controlVars
  <2> QED
    BY <1>t, <2>1 DEF TotalsOrdered, Newest, InHand
<1>4. CASE SendReport
  <2> DEFINE r == buildReport(cur, Sub(cur, prev), tick)
  <2>1. r.totalCount = cur[Count] /\ r.tickNumber = tick
    BY DEF buildReport
  <2> HIDE DEF r
  <2>2. /\ UNCHANGED <<cur, prev, tick, spawnCount>>
        /\ phase = "snapshot" /\ phase' = "sending" /\ reading > LastField
        /\ net' = net \union {r} \/ net' = net
    BY <1>4 DEF SendReport, Post, controlVars, r
  <2>3. Newest = prev[Count] /\ Newest' = cur[Count] /\ prev[Count] <= cur[Count]
    BY <1>b, <2>2 DEF Newest
  <2>4. spawnCount' <= Newest'
    BY <1>c, <1>t, <2>2, <2>3 DEF TotalsOrdered
  <2>5. ASSUME NEW m \in net
        PROVE  /\ m.totalCount <= cur[Count] /\ m.tickNumber <= tick
               /\ m.tickNumber # tick /\ m.tickNumber # FlushTick
    BY <1>c, <1>t, <2>2, <2>3 DEF TotalsOrdered
  <2>6. tick # FlushTick
    BY <1>c DEF FlushTick
  <2>7. \A m \in net' : \/ m \in net
                        \/ m.totalCount = cur[Count] /\ m.tickNumber = tick
    BY <2>1, <2>2
  <2> QED
    BY <1>c, <2>2, <2>3, <2>4, <2>5, <2>6, <2>7 DEF TotalsOrdered, InHand
<1>5. CASE ReportReturns
  <2>1. /\ UNCHANGED <<net, spawnCount>> /\ prev' = cur /\ tick' = tick + 1
        /\ phase = "sending" /\ phase' = "wait"
    BY <1>5 DEF ReportReturns, NextBaseline, controlVars
  <2>2. Newest' = Newest
    BY <2>1 DEF Newest
  <2>3. ASSUME NEW m \in net
        PROVE  m.tickNumber <= tick /\ m.tickNumber # FlushTick /\ m.tickNumber < tick + 1
    BY <1>c, <1>t, <2>1 DEF TotalsOrdered
  <2> QED
    BY <1>c, <1>t, <2>1, <2>2, <2>3 DEF TotalsOrdered, InHand
<1>6. CASE SendFlush
  <2> DEFINE r == buildReport(cur, cur, FlushTick)
  <2>1. r.totalCount = cur[Count] /\ r.tickNumber = FlushTick
    BY DEF buildReport
  <2> HIDE DEF r
  <2>2. /\ UNCHANGED <<cur, prev, tick, spawnCount>>
        /\ phase = "final" /\ phase' = "flushing" /\ reading > LastField
        /\ net' = net \union {r}
    BY <1>6 DEF SendFlush, Post, controlVars, r
  <2>3. Newest = prev[Count] /\ Newest' = cur[Count] /\ prev[Count] <= cur[Count]
    BY <1>b, <2>2 DEF Newest
  <2>4. spawnCount' <= Newest'
    BY <1>c, <1>t, <2>2, <2>3 DEF TotalsOrdered
  <2>5. ASSUME NEW m \in net
        PROVE  /\ m.totalCount <= cur[Count] /\ m.tickNumber <= tick
               /\ m.tickNumber # tick /\ m.tickNumber # FlushTick
    BY <1>c, <1>t, <2>2, <2>3 DEF TotalsOrdered
  <2>6. tick # FlushTick /\ FlushTick <= tick
    BY <1>c DEF FlushTick
  <2>7. \A m \in net' : \/ m \in net
                        \/ m.totalCount = cur[Count] /\ m.tickNumber = FlushTick
    BY <2>1, <2>2
  <2> QED
    BY <1>c, <2>2, <2>3, <2>4, <2>5, <2>6, <2>7 DEF TotalsOrdered, InHand
<1>7. CASE FlushReturns
  <2>1. /\ UNCHANGED <<cur, prev, tick, net, spawnCount>>
        /\ phase = "flushing" /\ phase' = "done"
    BY <1>7 DEF FlushReturns, controlVars
  <2> QED
    BY <1>t, <2>1 DEF TotalsOrdered, Newest, InHand
<1>8. ASSUME NEW m \in net, record_benchmark_metrics(m) PROVE TotalsOrdered'
  <2>1. /\ UNCHANGED <<phase, cur, prev, tick>>
        /\ net' \subseteq net /\ spawnCount' = m.totalCount
    BY <1>8 DEF record_benchmark_metrics, ReportedTotal, loopVars
  <2> QED
    BY <1>t, <2>1 DEF TotalsOrdered, Newest, InHand
<1>9. CASE \/ \E w \in Workers : AddNext(w) \/ \E r \in Responses : Observe(w, r)
           \/ Cancel \/ RunReturns
  <2>1. UNCHANGED <<loopVars, net, controlVars>>
    BY <1>9 DEF AddNext, Observe, Cancel, RunReturns
  <2> QED
    BY <1>1, <2>1
<1> QED
  BY <1>1, <1>2, <1>3, <1>4, <1>5, <1>6, <1>7, <1>8, <1>9 DEF ReportNext, vars

\* COUNT only goes back when a report arrives that the agent no longer waits
\* for: one that is in hand carries the newest total there is.
THEOREM TotalsGoBackOnlyLate == ReportSpec => TotalGoesBackOnlyLate
<1>1. ASSUME ReportInv, [ReportNext]_vars, spawnCount' < spawnCount
      PROVE  \E m \in net \ net' : ~InHand(m)
  <2>1. ASSUME NEW m \in net, record_benchmark_metrics(m)
        PROVE  m \in net \ net' /\ ~InHand(m)
    <3>1. spawnCount' = m.totalCount /\ m \notin net'
      BY <2>1 DEF record_benchmark_metrics, ReportedTotal
    <3>2. InHand(m) => m.totalCount = Newest
      <4>1. InHand(m) => m.totalCount = cur[Count]
        BY <1>1 DEF ReportInv, TotalsOrdered
      <4> QED
        BY <4>1 DEF Newest, InHand
    <3>3. spawnCount <= Newest /\ spawnCount \in Nat
      BY <1>1, Numbers DEF ReportInv, SnapshotInv, TotalsOrdered
    <3>4. Newest \in Nat
      <4>1. cur[Count] \in Nat /\ prev[Count] \in Nat
        BY <1>1, Numbers, FieldNumbers DEF ReportInv, SnapshotInv
      <4> QED
        BY <4>1 DEF Newest
    <3> QED
      BY <1>1, <3>1, <3>2, <3>3, <3>4
  <2>2. CASE UNCHANGED spawnCount
    BY <1>1, <2>2, Numbers DEF ReportInv, SnapshotInv
  <2>3. (\E m \in net : record_benchmark_metrics(m)) \/ UNCHANGED spawnCount
    BY <1>1 DEF ReportNext, vars, AddNext, Observe, Cancel, RunReturns, Tick, ReadCounter,
                SendReport, ReportReturns, LoopReturns, FinalFlush, SendFlush, FlushReturns,
                Enter, Post, controlVars
  <2> QED
    BY <2>1, <2>2, <2>3
<1>2. ASSUME ReportInv, [ReportNext]_vars
      PROVE  [spawnCount' < spawnCount => \E m \in net \ net' : ~InHand(m)]_vars
  BY <1>1, <1>2
<1> QED
  BY <1>2, ReportStart, TotalsStep, PTL DEF ReportSpec, TotalGoesBackOnlyLate
-----------------------------------------------------------------------------
(* Bytes *)

\* The bytes of a report, and of the report in a row.
ByReport == [m \in Reports |-> m.bytes]
ByRow    == [row \in [minute : Nat, report : Reports] |-> row.report.bytes]

\* The reports of an interval, under way and recorded.
NetIntervals == {m \in net : m.tickNumber # FlushTick}
RowIntervals == {row \in rows : row.report.tickNumber # FlushTick}

\* What was reported up to the last snapshot that was sent.
BytesReported == IF phase = "sending" THEN cur[Bytes] ELSE prev[Bytes]

\* The intervals reported do not overlap: their bytes, wherever the reports are
\* now, are together at most those of the newest snapshot sent.
IntervalsDisjoint ==
    /\ IsFiniteSet(net) /\ IsFiniteSet(rows)
    /\ \A m \in net : m.bytes \in Nat
    /\ \A row \in rows : row.report.bytes \in Nat
    /\ SumFunctionOnSet(ByReport, NetIntervals) + SumFunctionOnSet(ByRow, RowIntervals)
          <= BytesReported

BytesInv == SnapshotInv /\ IntervalsDisjoint

\* Both sums are of finitely many numbers.
LEMMA SumsOfBytes ==
    ASSUME ReportTypeOK, IntervalsDisjoint
    PROVE  /\ IsFiniteSet(NetIntervals) /\ \A m \in net : ByReport[m] = m.bytes /\ ByReport[m] \in Nat
           /\ IsFiniteSet(RowIntervals)
           /\ \A row \in rows : ByRow[row] = row.report.bytes /\ ByRow[row] \in Nat
           /\ SumFunctionOnSet(ByReport, NetIntervals) \in Nat
           /\ SumFunctionOnSet(ByRow, RowIntervals) \in Nat
           /\ BytesReported \in Nat
<1>1. NetIntervals \in SUBSET net /\ RowIntervals \in SUBSET rows
  BY DEF NetIntervals, RowIntervals
<1>2. \A m \in net : ByReport[m] = m.bytes /\ ByReport[m] \in Nat
  BY DEF ByReport, ReportTypeOK, IntervalsDisjoint
<1>3. \A row \in rows : ByRow[row] = row.report.bytes /\ ByRow[row] \in Nat
  BY DEF ByRow, ReportTypeOK, IntervalsDisjoint
<1>4. IsFiniteSet(NetIntervals) /\ IsFiniteSet(RowIntervals)
  BY <1>1, FS_Subset DEF IntervalsDisjoint
<1>5. SumFunctionOnSet(ByReport, NetIntervals) \in Nat
  BY <1>1, <1>2, <1>4, SumNat
<1>6. SumFunctionOnSet(ByRow, RowIntervals) \in Nat
  BY <1>1, <1>3, <1>4, SumNat
<1>7. BytesReported \in Nat
  BY Numbers, FieldNumbers DEF BytesReported
<1> QED
  BY <1>2, <1>3, <1>4, <1>5, <1>6, <1>7

\* A snapshot that was read to the end is between the one before and the counters.
LEMMA FullyRead ==
    ASSUME SnapshotInv, phase \in {"snapshot", "final", "sending"}, reading > LastField,
           NEW f \in Fields
    PROVE  prev[f] <= cur[f] /\ cur[f] <= counter[f]
<1>1. ReportTypeOK /\ Between
  BY DEF SnapshotInv
<1>2. f \in Nat /\ f <= LastField /\ LastField \in Nat /\ reading \in Nat
  BY <1>1, FieldNumbers, Numbers
<1>3. f < reading
  BY <1>2
<1> QED
  BY <1>1, <1>3 DEF Between

\* An interval is added when its snapshot becomes the newest that was sent;
\* arriving only moves it, and being lost or cancelled leaves a gap.
LEMMA IntervalsStep ==
    ASSUME BytesInv, [ReportNext]_vars
    PROVE  BytesInv'
<1>s. SnapshotInv'
  BY BetweenStep DEF BytesInv
<1>t. ReportTypeOK /\ ReportTypeOK' /\ IntervalsDisjoint
  BY <1>s DEF BytesInv, SnapshotInv
<1>b. /\ SumFunctionOnSet(ByReport, NetIntervals) \in Nat
      /\ SumFunctionOnSet(ByRow, RowIntervals) \in Nat
      /\ IsFiniteSet(NetIntervals) /\ IsFiniteSet(RowIntervals)
      /\ \A m \in net : ByReport[m] = m.bytes /\ ByReport[m] \in Nat
      /\ \A row \in rows : ByRow[row] = row.report.bytes /\ ByRow[row] \in Nat
      /\ BytesReported \in Nat /\ BytesReported' \in Nat
  <2>1. BytesReported' \in Nat
    <3>1. cur'[Bytes] \in Nat /\ prev'[Bytes] \in Nat
      BY <1>t, FieldNumbers DEF ReportTypeOK
    <3> QED
      BY <3>1 DEF BytesReported
  <2> QED
    BY <1>t, <2>1, SumsOfBytes
<1> SUFFICES IntervalsDisjoint'
  BY <1>s DEF BytesInv
\* No report moves and the reported bytes do not shrink.
<1>k. ASSUME UNCHANGED <<net, rows>>, BytesReported <= BytesReported' PROVE IntervalsDisjoint'
  BY <1>k, <1>b, <1>t DEF IntervalsDisjoint, NetIntervals, RowIntervals
<1>1. CASE UNCHANGED <<phase, cur, prev, net, rows>>
  BY <1>1, <1>b, <1>k DEF BytesReported
<1>2. CASE \/ \E w \in Workers : AddNext(w) \/ \E r \in Responses : Observe(w, r)
           \/ Cancel \/ RunReturns
  BY <1>1, <1>2 DEF AddNext, Observe, Cancel, RunReturns, loopVars, controlVars
<1>3. CASE Tick \/ FinalFlush \/ LoopReturns \/ FlushReturns \/ ReadCounter
  <2>1. /\ UNCHANGED <<prev, net, rows>>
        /\ phase # "sending" /\ phase' # "sending"
    BY <1>3 DEF Tick, FinalFlush, LoopReturns, FlushReturns, ReadCounter, Enter, controlVars
  <2> QED
    BY <1>b, <1>k, <2>1 DEF BytesReported
<1>4. CASE SendReport
  <2>1. /\ phase = "snapshot" /\ phase' = "sending" /\ reading > LastField
        /\ UNCHANGED <<cur, prev, rows>>
    BY <1>4 DEF SendReport, Post, controlVars
  <2>2. /\ BytesReported = prev[Bytes] /\ BytesReported' = cur[Bytes]
        /\ prev[Bytes] \in Nat /\ cur[Bytes] \in Nat /\ prev[Bytes] <= cur[Bytes]
    <3>1. prev[Bytes] <= cur[Bytes]
      BY <2>1, FieldNumbers, FullyRead DEF BytesInv
    <3> QED
      BY <1>t, <2>1, <3>1, Numbers, FieldNumbers DEF BytesReported
  <2>3. CASE net' = net
    BY <1>k, <2>1, <2>2, <2>3
  <2>4. CASE Post(buildReport(cur, Sub(cur, prev), tick), "sending")
    <3> DEFINE m == buildReport(cur, Sub(cur, prev), tick)
    <3>1. m.bytes = cur[Bytes] - prev[Bytes] /\ m.tickNumber = tick
      BY FieldNumbers DEF buildReport, Sub
    <3>2. net' = net \union {m}
      BY <2>4 DEF Post
    <3>3. tick # FlushTick
      BY <1>t, Numbers DEF FlushTick
    <3> HIDE DEF m
    <3>4. NetIntervals' = NetIntervals \union {m} /\ RowIntervals' = RowIntervals
      BY <2>1, <3>1, <3>2, <3>3 DEF NetIntervals, RowIntervals
    <3>5. m \in Reports /\ m.bytes \in Nat /\ ByReport[m] = m.bytes
      <4>1. m \in Reports
        BY <1>t, <3>2 DEF ReportTypeOK
      <4>2. m.bytes \in Nat
        BY <2>2, <3>1
      <4> QED
        BY <4>1, <4>2 DEF ByReport
    <3>6. \A x \in NetIntervals \union {m} : ByReport[x] \in Nat
      BY <1>b, <3>5 DEF NetIntervals
    <3>7. SumFunctionOnSet(ByReport, NetIntervals \union {m})
            <= SumFunctionOnSet(ByReport, NetIntervals) + ByReport[m]
      BY <1>b, <3>6, SumAtMost
    <3>8. SumFunctionOnSet(ByReport, NetIntervals \union {m}) \in Nat
      BY <1>b, <3>6, SumNat, FS_AddElement
    <3>9. SumFunctionOnSet(ByReport, NetIntervals') + SumFunctionOnSet(ByRow, RowIntervals')
            <= BytesReported'
      BY <1>b, <1>t, <2>2, <3>1, <3>4, <3>5, <3>7, <3>8 DEF IntervalsDisjoint
    <3>10. IsFiniteSet(net') /\ \A x \in net' : x.bytes \in Nat
      BY <1>t, <3>2, <3>5, FS_AddElement DEF IntervalsDisjoint
    <3> QED
      BY <1>t, <2>1, <3>9, <3>10 DEF IntervalsDisjoint
  <2> QED
    BY <1>4, <2>3, <2>4 DEF SendReport
<1>5. CASE ReportReturns
  <2>1. UNCHANGED <<net, rows>> /\ prev' = cur /\ phase = "sending" /\ phase' = "wait"
    BY <1>5 DEF ReportReturns, NextBaseline, controlVars
  <2> QED
    BY <1>b, <1>k, <2>1 DEF BytesReported
<1>6. CASE SendFlush
  <2> DEFINE m == buildReport(cur, cur, FlushTick)
  <2>1. m.bytes = cur[Bytes] /\ m.tickNumber = FlushTick
    BY DEF buildReport
  <2>2. /\ net' = net \union {m} /\ UNCHANGED <<cur, prev, rows>>
        /\ phase = "final" /\ phase' = "flushing"
    BY <1>6 DEF SendFlush, Post, controlVars
  <2> HIDE DEF m
  <2>3. NetIntervals' = NetIntervals /\ RowIntervals' = RowIntervals
    BY <2>1, <2>2 DEF NetIntervals, RowIntervals
  <2>4. BytesReported' = BytesReported
    BY <2>2 DEF BytesReported
  <2>5. m.bytes \in Nat
    BY <1>t, <2>1, Numbers, FieldNumbers
  <2>6. IsFiniteSet(net') /\ \A x \in net' : x.bytes \in Nat
    BY <1>t, <2>2, <2>5, FS_AddElement DEF IntervalsDisjoint
  <2> QED
    BY <1>t, <2>2, <2>3, <2>4, <2>6 DEF IntervalsDisjoint
<1>7. ASSUME NEW m \in net, record_benchmark_metrics(m) PROVE IntervalsDisjoint'
  <2> DEFINE row == [minute |-> minute', report |-> m]
  <2>1. /\ rows' = rows \union {row} /\ net' = net \ {m}
        /\ UNCHANGED <<phase, cur, prev>>
    BY <1>7 DEF record_benchmark_metrics, loopVars
  <2>2. row \in [minute : Nat, report : Reports] /\ row.report = m
    BY <1>t, <2>1 DEF ReportTypeOK
  <2>3. ByRow[row] = m.bytes /\ m.bytes \in Nat /\ ByReport[m] = m.bytes
    BY <1>b, <2>2 DEF ByRow
  <2> HIDE DEF row
  <2>4. IsFiniteSet(net') /\ IsFiniteSet(rows')
    BY <1>t, <2>1, FS_AddElement, FS_Subset DEF IntervalsDisjoint
  <2>5. (\A x \in net' : x.bytes \in Nat) /\ (\A x \in rows' : x.report.bytes \in Nat)
    BY <1>t, <2>1, <2>2, <2>3 DEF IntervalsDisjoint
  <2>6. BytesReported' = BytesReported
    BY <2>1 DEF BytesReported
  <2>7. CASE m.tickNumber = FlushTick
    <3>1. NetIntervals' = NetIntervals /\ RowIntervals' = RowIntervals
      BY <2>1, <2>2, <2>7 DEF NetIntervals, RowIntervals
    <3> QED
      BY <1>t, <2>4, <2>5, <2>6, <3>1 DEF IntervalsDisjoint
  <2>8. CASE m.tickNumber # FlushTick
    <3>1. /\ NetIntervals' = NetIntervals \ {m} /\ m \in NetIntervals
          /\ RowIntervals' = RowIntervals \union {row}
      BY <2>1, <2>2, <2>8 DEF NetIntervals, RowIntervals
    <3>2. \A x \in RowIntervals \union {row} : ByRow[x] \in Nat
      BY <1>b, <2>3 DEF RowIntervals
    <3>3. SumFunctionOnSet(ByRow, RowIntervals \union {row})
            <= SumFunctionOnSet(ByRow, RowIntervals) + m.bytes
      BY <1>b, <2>3, <3>2, SumAtMost
    <3>4. \A x \in NetIntervals : ByReport[x] \in Nat
      BY <1>b DEF NetIntervals
    <3>5. SumFunctionOnSet(ByReport, NetIntervals)
            = m.bytes + SumFunctionOnSet(ByReport, NetIntervals \ {m})
      BY <1>b, <2>3, <3>1, <3>4, SumRemove
    <3>6. SumFunctionOnSet(ByReport, NetIntervals \ {m}) \in Nat
      BY <1>b, <3>4, SumNat, FS_Subset
    <3>7. SumFunctionOnSet(ByRow, RowIntervals \union {row}) \in Nat
      BY <1>b, <3>2, SumNat, FS_AddElement
    <3>8. SumFunctionOnSet(ByReport, NetIntervals \ {m})
            + SumFunctionOnSet(ByRow, RowIntervals \union {row}) <= BytesReported
      BY <1>b, <1>t, <2>3, <3>3, <3>5, <3>6, <3>7 DEF IntervalsDisjoint
    <3> QED
      BY <2>4, <2>5, <2>6, <3>1, <3>8 DEF IntervalsDisjoint
  <2> QED
    BY <2>7, <2>8
<1>8. CASE UNCHANGED vars
  BY <1>1, <1>8 DEF vars, loopVars, controlVars
<1> QED
  BY <1>2, <1>3, <1>4, <1>5, <1>6, <1>7, <1>8 DEF ReportNext

\* watch_job shows each row in at most one minute, so no more than all rows.
LEMMA ShownAtMostRows ==
    ASSUME ReportTypeOK, IntervalsDisjoint
    PROVE  BytesShown \in Int /\ BytesShown <= SumFunctionOnSet(ByRow, rows)
<1> DEFINE inMinute == [row \in rows |-> row.minute]
           shown    == DOMAIN watch_job
           f        == [row \in rows |-> row.report.bytes]
           perMin   == [m \in shown |-> watch_job[m].bytes]
<1>1. /\ IsFiniteSet(rows)
      /\ \A row \in rows : ByRow[row] = row.report.bytes /\ ByRow[row] \in Nat
  BY SumsOfBytes DEF IntervalsDisjoint
<1>2. IsFiniteSet(shown)
  <2>1. IsFiniteSet({inMinute[row] : row \in rows})
    BY <1>1, ImageFinite
  <2>2. Reported = {inMinute[row] : row \in rows}
    BY DEF Reported
  <2>3. shown \in SUBSET Reported
    BY DEF watch_job
  <2> QED
    BY <2>1, <2>2, <2>3, FS_Subset
<1>3. \A m \in shown : perMin[m] = SumFunctionOnSet(f, OfClass(inMinute, rows, {m}))
  <2>1. ASSUME NEW m \in shown
        PROVE  perMin[m] = SumFunctionOnSet(f, OfClass(inMinute, rows, {m}))
    <3>1. perMin[m] = MinuteOf(m).bytes
      BY DEF watch_job
    <3>2. RowsOf(m) = OfClass(inMinute, rows, {m})
      BY DEF RowsOf, OfClass
    <3> QED
      BY <3>1, <3>2 DEF MinuteOf
  <2> QED
    BY <2>1
<1>4. \A row \in rows : f[row] \in Int /\ f[row] = ByRow[row]
  BY <1>1
<1> HIDE DEF shown, perMin, f, inMinute
<1> DEFINE of == OfClass(inMinute, rows, shown)
<1>5. SumFunctionOnSet(perMin, shown) = SumFunctionOnSet(f, of)
  <2>1. IsFiniteSet(rows) /\ \A row \in rows : f[row] \in Int
    BY <1>1, <1>4
  <2> QED
    BY <1>2, <1>3, <2>1, SumByClass
<1>6. of \in SUBSET rows /\ IsFiniteSet(of)
  BY <1>1, FS_Subset DEF OfClass
<1> HIDE DEF of
<1>7. SumFunctionOnSet(f, of) = SumFunctionOnSet(ByRow, of)
  BY <1>1, <1>4, <1>6, SumAgree
<1>8. SumFunctionOnSet(ByRow, of) <= SumFunctionOnSet(ByRow, rows)
  BY <1>1, <1>6, SumSubset
<1>9. SumFunctionOnSet(f, of) \in Int
  BY <1>4, <1>6, SumInt
<1> QED
  BY <1>5, <1>7, <1>8, <1>9 DEF BytesShown, perMin, shown

\* Until the flush, what watch_job shows over all minutes was transferred: no
\* loss, cancellation or late arrival of a report makes it show bytes twice.
THEOREM NoIntervalShownTwice == ReportSpec => []NoIntervalTwice
<1>1. ReportInit => BytesInv
  <2> SUFFICES ASSUME ReportInit PROVE BytesInv
    OBVIOUS
  <2>1. NetIntervals = {} /\ RowIntervals = {}
    BY DEF ReportInit, NetIntervals, RowIntervals
  <2>2. BytesReported = 0
    BY FieldNumbers DEF ReportInit, BytesReported, Zero
  <2>3. IntervalsDisjoint
    BY <2>1, <2>2, SumEmpty, FS_EmptySet DEF ReportInit, IntervalsDisjoint
  <2> QED
    BY <2>3, SnapshotStart DEF BytesInv
<1>2. BytesInv => NoIntervalTwice
  <2> SUFFICES ASSUME BytesInv, ~Flushed PROVE BytesShown <= counter[Bytes]
    BY DEF NoIntervalTwice
  <2>1. ReportTypeOK /\ IntervalsDisjoint
    BY DEF BytesInv, SnapshotInv
  <2>2. RowIntervals = rows
    BY DEF Flushed, RowIntervals
  <2>3. BytesReported <= counter[Bytes]
    <3>1. CASE phase = "sending"
      BY <3>1, FieldNumbers, FullyRead DEF BytesInv, SnapshotInv, Between, BytesReported
    <3>2. CASE phase # "sending"
      BY <3>2, FieldNumbers DEF BytesInv, SnapshotInv, Between, BytesReported
    <3> QED
      BY <3>1, <3>2
  <2>4. SumFunctionOnSet(ByRow, rows) <= BytesReported /\ SumFunctionOnSet(ByRow, rows) \in Nat
        /\ BytesReported \in Nat
    BY <2>1, <2>2, SumsOfBytes DEF IntervalsDisjoint
  <2>5. counter[Bytes] \in Nat
    BY <2>1, Numbers, FieldNumbers
  <2>6. BytesShown \in Int /\ BytesShown <= SumFunctionOnSet(ByRow, rows)
    BY <2>1, ShownAtMostRows
  <2> QED
    BY <2>3, <2>4, <2>5, <2>6
<1>3. BytesInv /\ [ReportNext]_vars => BytesInv'
  BY IntervalsStep
<1> QED
  BY <1>1, <1>2, <1>3, PTL DEF ReportSpec
-----------------------------------------------------------------------------
(* Torn snapshots *)

Statuses     == {StatusOK, Status4x, Status5x}
BucketFields == 7 .. LastField

\* In what order a worker adds: a request is counted, its bytes are, then its
\* bucket is and last its status, which an error has none of.
Ordered(t) ==
    \A i \in 1 .. Len(t) :
        /\ t[i].field # Bytes => t[i].by = 1
        /\ t[i].field = Count => i < Len(t) /\ t[i + 1].field = Bytes
        /\ t[i].field \in {Errors, Bytes} => i < Len(t) /\ t[i + 1].field \in BucketFields
        /\ t[i].field \in BucketFields /\ i < Len(t) => t[i + 1].field \in Statuses
        /\ t[i].field \in Statuses => i = Len(t)

\* The workers whose request is counted and not yet in its bucket, and those
\* whose request is in its bucket and not yet in its status.
NextIn(set) == {w \in Workers : todo[w] # <<>> /\ Head(todo[w]).field \in set}
Lagging     == NextIn({Bytes} \union BucketFields)
Settling    == NextIn(Statuses)

Tallied == Total(BucketsOf(counter))

\* The live counters differ by the requests under way.
Live ==
    /\ \A w \in Workers : Ordered(todo[w])
    /\ counter[Count] + counter[Errors] = Tallied + Cardinality(Lagging)
    /\ counter[StatusOK] + counter[Status4x] + counter[Status5x] + Cardinality(Settling)
          <= Tallied

\* The buckets as the snapshot will have them if nothing more is counted.
Mixture == [i \in BucketIds |-> IF Bucket(i) < reading THEN cur[Bucket(i)]
                                                       ELSE counter[Bucket(i)]]
Mixed == Total(Mixture)

Torn ==
    phase \in {"snapshot", "final"} /\ reading > 6 =>
        /\ cur[Count] + cur[Errors] <= Mixed + Cardinality(Workers)
        /\ cur[StatusOK] + cur[Status4x] + cur[Status5x] <= Mixed

SkewInv == SnapshotInv /\ Live /\ Torn

\* The counters are the first six and the buckets.
LEMMA FieldKinds ==
    /\ BucketFields = {Bucket(i) : i \in BucketIds}
    /\ \A f \in Fields : f \in {Count, Errors, Bytes} \/ f \in Statuses \/ f \in BucketFields
    /\ BucketFields \subseteq Fields /\ Statuses \subseteq Fields
    /\ BucketFields \cap ({Count, Errors, Bytes} \union Statuses) = {}
    /\ {Count, Errors, Bytes} \cap Statuses = {}
<1>1. \A f \in BucketFields : f - 7 \in BucketIds /\ Bucket(f - 7) = f
  BY FieldNumbers DEF BucketFields, BucketIds, Bucket, LastField
<1>2. \A i \in BucketIds : Bucket(i) \in BucketFields
  BY FieldNumbers DEF BucketFields, BucketIds, Bucket, LastField
<1>3. BucketFields = {Bucket(i) : i \in BucketIds}
  BY <1>1, <1>2
<1> QED
  BY <1>3, FieldNumbers DEF BucketFields, Statuses, Fields, Count, Errors, Bytes, StatusOK,
     Status4x, Status5x

\* A worker that made one addition has the others to make in the same order.
LEMMA OrderedTail ==
    ASSUME NEW t \in Seq(Additions), t # <<>>, Ordered(t)
    PROVE  Ordered(Tail(t))
<1>1. /\ Len(t) \in Nat /\ Tail(t) \in Seq(Additions) /\ Len(Tail(t)) = Len(t) - 1
      /\ \A i \in 1 .. Len(Tail(t)) : Tail(t)[i] = t[i + 1]
  OBVIOUS
<1> SUFFICES ASSUME NEW i \in 1 .. Len(Tail(t))
             PROVE  LET u == Tail(t) IN
                    /\ u[i].field # Bytes => u[i].by = 1
                    /\ u[i].field = Count => i < Len(u) /\ u[i + 1].field = Bytes
                    /\ u[i].field \in {Errors, Bytes} => i < Len(u) /\ u[i + 1].field \in BucketFields
                    /\ u[i].field \in BucketFields /\ i < Len(u) => u[i + 1].field \in Statuses
                    /\ u[i].field \in Statuses => i = Len(u)
  BY DEF Ordered
<1>2. i + 1 \in 1 .. Len(t) /\ Tail(t)[i] = t[i + 1]
  BY <1>1
<1>3. i < Len(Tail(t)) => Tail(t)[i + 1] = t[i + 2]
  BY <1>1
<1>4. (i + 1) + 1 = i + 2
  OBVIOUS
<1> DEFINE j == i + 1
<1>5. /\ t[j].field # Bytes => t[j].by = 1
      /\ t[j].field = Count => j < Len(t) /\ t[j + 1].field = Bytes
      /\ t[j].field \in {Errors, Bytes} => j < Len(t) /\ t[j + 1].field \in BucketFields
      /\ t[j].field \in BucketFields /\ j < Len(t) => t[j + 1].field \in Statuses
      /\ t[j].field \in Statuses => j = Len(t)
  BY <1>2 DEF Ordered
<1>6. j < Len(t) <=> i < Len(Tail(t))
  BY <1>1
<1>7. j = Len(t) <=> i = Len(Tail(t))
  BY <1>1
<1> QED
  BY <1>2, <1>3, <1>4, <1>5, <1>6, <1>7

\* A response is added in order, beginning with its count or its error.
LEMMA OrderedStart ==
    ASSUME NEW r \in Responses, NEW t,
           t = IF r.kind = "error" THEN ObserveError(r) ELSE ObserveSuccess(r)
    PROVE  Ordered(t) /\ t # <<>> /\ Len(t) <= 4 /\ Head(t).field \in {Count, Errors}
<1> DEFINE b == Bucket(bucketIndex(r.latency))
           s == StatusField(r.kind)
<1>1. r \in ResponseType
  BY ReportingAssumption
<1>2. b \in BucketFields
  BY <1>1, BucketRange, FieldKinds DEF ResponseType
<1>3. r.kind # "error" => s \in Statuses
  BY <1>1 DEF ResponseType, StatusField, Statuses
<1> HIDE DEF b, s
<1>k. /\ b \notin {Count, Errors, Bytes} /\ b \notin Statuses
      /\ Count \notin Statuses /\ Errors \notin Statuses /\ Bytes \notin Statuses
      /\ Count \notin BucketFields /\ Errors \notin BucketFields /\ Bytes \notin BucketFields
      /\ Count # Errors /\ Count # Bytes /\ Errors # Bytes
  BY <1>2, FieldKinds DEF Count, Errors, Bytes
<1>4. CASE r.kind = "error"
  <2>1. t = <<[field |-> Errors, by |-> 1], [field |-> b, by |-> 1]>>
    BY <1>4 DEF ObserveError, Add, b
  <2>2. Len(t) = 2 /\ t[1].field = Errors /\ t[1].by = 1 /\ t[2].field = b /\ t[2].by = 1
        /\ Head(t) = t[1] /\ t # <<>>
    BY <2>1
  <2>3. \A i \in 1 .. 2 : i = 1 \/ i = 2
    OBVIOUS
  <2>4. Ordered(t)
    BY <1>2, <1>k, <2>2, <2>3 DEF Ordered
  <2>5. Len(t) <= 4
    BY <2>2
  <2>6. Head(t).field \in {Count, Errors}
    BY <2>2
  <2> QED
    BY <2>2, <2>4, <2>5, <2>6
<1>5. CASE r.kind # "error"
  <2>1. t = <<[field |-> Count, by |-> 1], [field |-> Bytes, by |-> r.bytes],
              [field |-> b, by |-> 1], [field |-> s, by |-> 1]>>
    BY <1>5 DEF ObserveSuccess, Add, b, s
  <2>2. /\ Len(t) = 4 /\ Head(t) = t[1] /\ t # <<>>
        /\ t[1].field = Count /\ t[1].by = 1 /\ t[2].field = Bytes
        /\ t[3].field = b /\ t[3].by = 1 /\ t[4].field = s /\ t[4].by = 1
    BY <2>1
  <2>3. \A i \in 1 .. 4 : i = 1 \/ i = 2 \/ i = 3 \/ i = 4
    OBVIOUS
  <2>4. s \in Statuses /\ s \notin BucketFields /\ s \notin {Count, Errors, Bytes}
    BY <1>3, <1>5, FieldKinds
  <2> DEFINE Good(i) ==
        /\ t[i].field # Bytes => t[i].by = 1
        /\ t[i].field = Count => i < Len(t) /\ t[i + 1].field = Bytes
        /\ t[i].field \in {Errors, Bytes} => i < Len(t) /\ t[i + 1].field \in BucketFields
        /\ t[i].field \in BucketFields /\ i < Len(t) => t[i + 1].field \in Statuses
        /\ t[i].field \in Statuses => i = Len(t)
  <2>a. Good(1)
    BY <1>k, <2>2
  <2>b. Good(2)
    BY <1>2, <1>k, <2>2
  <2>c. Good(3)
    BY <1>2, <1>k, <2>2, <2>4
  <2>d. Good(4)
    BY <2>2, <2>4
  <2>e. \A i \in 1 .. 4 : Good(i)
    <3> HIDE DEF Good
    <3> QED
      BY <2>3, <2>a, <2>b, <2>c, <2>d
  <2>5. Ordered(t)
    <3>1. 1 .. Len(t) = 1 .. 4
      BY <2>2
    <3> QED
      BY <3>1, <2>e DEF Ordered
  <2>6. Len(t) = 4 /\ 4 <= 4
    BY <2>2
  <2>7. Head(t).field \in {Count, Errors}
    BY <2>2
  <2> QED
    BY <2>2, <2>5, <2>6, <2>7
<1> QED
  BY <1>4, <1>5

\* All buckets of counters together.
LEMMA Tally ==
    ASSUME NEW c, \A f \in Fields : c[f] \in Nat
    PROVE  /\ Total(BucketsOf(c)) = SumFunctionOnSet(BucketsOf(c), BucketIds)
           /\ Total(BucketsOf(c)) \in Nat
           /\ IsFiniteSet(BucketIds)
           /\ \A i \in BucketIds : BucketsOf(c)[i] = c[Bucket(i)] /\ BucketsOf(c)[i] \in Nat
<1>1. IsFiniteSet(BucketIds)
  BY FieldNumbers, FS_Interval DEF BucketIds
<1>2. \A i \in BucketIds : BucketsOf(c)[i] = c[Bucket(i)] /\ BucketsOf(c)[i] \in Nat
  BY FieldNumbers DEF BucketsOf
<1>3. Total(BucketsOf(c)) = SumFunctionOnSet(BucketsOf(c), BucketIds)
  BY DEF Total, Cumulative, BucketIds
<1>4. SumFunctionOnSet(BucketsOf(c), BucketIds) \in Nat
  BY <1>1, <1>2, SumNat
<1> QED
  BY <1>1, <1>2, <1>3, <1>4

\* One observation more in one bucket, and in all.
LEMMA TallyGrows ==
    ASSUME NEW c, NEW d, NEW j \in BucketFields, \A f \in Fields : c[f] \in Nat,
           \A f \in BucketFields : d[f] = c[f] + (IF f = j THEN 1 ELSE 0)
    PROVE  Total(BucketsOf(d)) = Total(BucketsOf(c)) + 1
<1> DEFINE x == BucketsOf(c)
           y == BucketsOf(d)
<1>1. PICK i \in BucketIds : j = Bucket(i)
  BY FieldKinds
<1>2. IsFiniteSet(BucketIds) /\ \A k \in BucketIds : x[k] = c[Bucket(k)] /\ x[k] \in Int
  BY Tally
<1>3. \A k \in BucketIds : y[k] = d[Bucket(k)]
  BY DEF BucketsOf
<1>4. \A k \in BucketIds : Bucket(k) \in BucketFields /\ (Bucket(k) = j <=> k = i)
  BY <1>1, FieldKinds DEF Bucket, BucketIds
<1>5. \A k \in BucketIds : y[k] = x[k] + (IF k = i THEN 1 ELSE 0)
  BY <1>2, <1>3, <1>4
<1> HIDE DEF x, y
<1>6. y[i] \in Int /\ y[i] - x[i] = 1 /\ \A k \in BucketIds \ {i} : y[k] = x[k]
  BY <1>2, <1>5
<1>7. \A k \in BucketIds : x[k] \in Int
  BY <1>2
<1>8. SumFunctionOnSet(y, BucketIds) = SumFunctionOnSet(x, BucketIds) + (y[i] - x[i])
  BY <1>2, <1>6, <1>7, SumChange
<1> QED
  BY <1>6, <1>8 DEF x, y, Total, Cumulative, BucketIds

\* Nothing more in any bucket.
LEMMA TallySame ==
    ASSUME NEW c, NEW d, \A f \in BucketFields : d[f] = c[f]
    PROVE  Total(BucketsOf(d)) = Total(BucketsOf(c))
BY FieldKinds DEF BucketsOf

\* The workers that stand at a counter of the set are finitely many.
LEMMA NextFinite ==
    ASSUME NEW set
    PROVE  /\ IsFiniteSet(NextIn(set)) /\ Cardinality(NextIn(set)) \in Nat
           /\ Cardinality(NextIn(set)) <= Cardinality(Workers) /\ Cardinality(Workers) \in Nat
<1>1. NextIn(set) \in SUBSET Workers
  BY DEF NextIn
<1> QED
  BY <1>1, ReportingAssumption, FS_Subset, FS_CardinalityType

\* Sets that differ in one element at most.
LEMMA CardinalityMoves ==
    ASSUME NEW S, NEW T, NEW w, IsFiniteSet(S), IsFiniteSet(T), S \ {w} = T \ {w}
    PROVE  Cardinality(T) + (IF w \in S THEN 1 ELSE 0) = Cardinality(S) + (IF w \in T THEN 1 ELSE 0)
<1>1. Cardinality(S \ {w}) = IF w \in S THEN Cardinality(S) - 1 ELSE Cardinality(S)
  BY FS_RemoveElement
<1>2. Cardinality(T \ {w}) = IF w \in T THEN Cardinality(T) - 1 ELSE Cardinality(T)
  BY FS_RemoveElement
<1>3. Cardinality(S) \in Nat /\ Cardinality(T) \in Nat
  BY FS_CardinalityType
<1> QED
  BY <1>1, <1>2, <1>3

\* Which addition a worker makes decides what it has still to add.
LEMMA AddMoves ==
    ASSUME ReportTypeOK, Live, NEW w \in Workers, AddNext(w), NEW f, f = Head(todo[w]).field
    PROVE  /\ f \in Fields /\ (f # Bytes => Head(todo[w]).by = 1)
           /\ \A v \in Workers : Ordered(todo'[v])
           /\ w \in Lagging <=> f \in {Bytes} \union BucketFields
           /\ w \in Settling <=> f \in Statuses
           /\ w \in Lagging' <=> f \in {Count, Errors, Bytes}
           /\ w \in Settling' => f \in BucketFields
           /\ Lagging' \ {w} = Lagging \ {w}
           /\ Settling' \ {w} = Settling \ {w}
<1> DEFINE t == todo[w]
           u == Tail(todo[w])
<1>1. /\ t \in Seq(Additions) /\ t # <<>> /\ Head(t) \in Additions
      /\ \A v \in Workers : todo'[v] = IF v = w THEN u ELSE todo[v]
  BY AddStep
<1>2. f \in Fields
  BY <1>1 DEF Additions
<1>3. Ordered(t)
  BY DEF Live
<1>4. Ordered(u)
  BY <1>1, <1>3, OrderedTail
<1>5. Len(t) \in Nat /\ 1 \in 1 .. Len(t) /\ Head(t) = t[1]
  BY <1>1
<1>6. u # <<>> => Head(u) = t[2] /\ 1 < Len(t)
  BY <1>1
<1>7. u = <<>> => Len(t) = 1
  <2>1. Len(u) = Len(t) - 1 /\ Len(t) \in Nat
    BY <1>1
  <2> HIDE DEF u
  <2>2. ASSUME u = <<>> PROVE Len(u) = 0
    BY <2>2
  <2> QED
    BY <2>1, <2>2
<1> HIDE DEF t, u
<1>8. /\ f # Bytes => Head(t).by = 1
      /\ f = Count => 1 < Len(t) /\ t[2].field = Bytes
      /\ f \in {Errors, Bytes} => 1 < Len(t) /\ t[2].field \in BucketFields
      /\ f \in BucketFields /\ 1 < Len(t) => t[2].field \in Statuses
      /\ f \in Statuses => 1 = Len(t)
  <2>1. f = t[1].field /\ Head(t).by = t[1].by
    BY <1>5 DEF t
  <2>2. /\ t[1].field # Bytes => t[1].by = 1
        /\ t[1].field = Count => 1 < Len(t) /\ t[1 + 1].field = Bytes
        /\ t[1].field \in {Errors, Bytes} => 1 < Len(t) /\ t[1 + 1].field \in BucketFields
        /\ t[1].field \in BucketFields /\ 1 < Len(t) => t[1 + 1].field \in Statuses
        /\ t[1].field \in Statuses => 1 = Len(t)
    BY <1>3, <1>5 DEF Ordered
  <2>3. 1 + 1 = 2
    OBVIOUS
  <2> QED
    BY <2>1, <2>2, <2>3
<1>9. \A v \in Workers : Ordered(todo'[v])
  <2>1. \A v \in Workers : Ordered(todo[v])
    BY DEF Live
  <2> QED
    BY <1>1, <1>4, <2>1
<1>10. todo[w] = t /\ todo'[w] = u /\ Head(t).field = f
  BY <1>1 DEF t
<1>11. \A set : /\ w \in NextIn(set) <=> f \in set
                /\ w \in {v \in Workers : todo'[v] # <<>> /\ Head(todo'[v]).field \in set}
                     <=> 1 < Len(t) /\ t[2].field \in set
                /\ {v \in Workers : todo'[v] # <<>> /\ Head(todo'[v]).field \in set} \ {w}
                     = NextIn(set) \ {w}
  BY <1>1, <1>5, <1>6, <1>7, <1>10 DEF NextIn
<1>12. /\ w \in Lagging <=> f \in {Bytes} \union BucketFields
       /\ w \in Settling <=> f \in Statuses
       /\ w \in Lagging' <=> 1 < Len(t) /\ t[2].field \in {Bytes} \union BucketFields
       /\ w \in Settling' <=> 1 < Len(t) /\ t[2].field \in Statuses
       /\ Lagging' \ {w} = Lagging \ {w}
       /\ Settling' \ {w} = Settling \ {w}
  BY <1>11 DEF Lagging, Settling, NextIn
<1>13. w \in Lagging' <=> f \in {Count, Errors, Bytes}
  BY <1>2, <1>5, <1>8, <1>12, FieldKinds
<1>14. w \in Settling' => f \in BucketFields
  BY <1>2, <1>5, <1>8, <1>12, FieldKinds
<1> QED
  BY <1>2, <1>8, <1>9, <1>12, <1>13, <1>14 DEF t

\* One addition: a request is counted and its worker lags, or its bucket catches
\* up; a status is counted only after its bucket.
LEMMA LiveAdd ==
    ASSUME ReportTypeOK, Live, NEW w \in Workers, AddNext(w)
    PROVE  Live'
<1> DEFINE f == Head(todo[w]).field
           n == Head(todo[w]).by
<1>1. /\ counter' \in [Fields -> Nat]
      /\ \A g \in Fields : counter[g] \in Nat /\ counter'[g] \in Nat
      /\ \A g \in Fields : counter'[g] = counter[g] + (IF g = f THEN n ELSE 0)
  BY AddStep, Numbers
<1>2. /\ f \in Fields /\ (f # Bytes => n = 1)
      /\ \A v \in Workers : Ordered(todo'[v])
      /\ w \in Lagging <=> f \in {Bytes} \union BucketFields
      /\ w \in Settling <=> f \in Statuses
      /\ w \in Lagging' <=> f \in {Count, Errors, Bytes}
      /\ w \in Settling' => f \in BucketFields
      /\ Lagging' \ {w} = Lagging \ {w}
      /\ Settling' \ {w} = Settling \ {w}
  BY AddMoves
<1>3. /\ IsFiniteSet(Lagging) /\ IsFiniteSet(Settling) /\ Cardinality(Lagging) \in Nat /\ Cardinality(Settling) \in Nat
  BY NextFinite DEF Lagging, Settling
<1>4. Lagging' \in SUBSET Workers /\ Settling' \in SUBSET Workers
  BY DEF Lagging, Settling, NextIn
<1>5. IsFiniteSet(Lagging') /\ IsFiniteSet(Settling') /\ Cardinality(Lagging') \in Nat /\ Cardinality(Settling') \in Nat
  BY <1>4, ReportingAssumption, FS_Subset, FS_CardinalityType
<1> HIDE DEF f, n
<1>6. Cardinality(Lagging') + (IF w \in Lagging THEN 1 ELSE 0) = Cardinality(Lagging) + (IF w \in Lagging' THEN 1 ELSE 0)
  BY <1>2, <1>3, <1>5, CardinalityMoves
<1>7. Cardinality(Settling') + (IF w \in Settling THEN 1 ELSE 0) = Cardinality(Settling) + (IF w \in Settling' THEN 1 ELSE 0)
  BY <1>2, <1>3, <1>5, CardinalityMoves
<1>8. Tallied \in Nat /\ Tallied' \in Nat
  BY <1>1, Tally DEF Tallied
<1>9. /\ counter[Count] + counter[Errors] = Tallied + Cardinality(Lagging)
      /\ counter[StatusOK] + counter[Status4x] + counter[Status5x] + Cardinality(Settling) <= Tallied
  BY DEF Live
<1>f. /\ \A g \in {Count, Errors, Bytes, StatusOK, Status4x, Status5x} : g \in Fields
      /\ \A g \in Fields : counter'[g] = IF g = f THEN counter[g] + n ELSE counter[g]
  <2>1. \A g \in Fields : counter'[g] = IF g = f THEN counter[g] + n ELSE counter[g]
    BY <1>1
  <2> QED
    BY <2>1, FieldNumbers
<1>10. CASE f \in {Count, Errors}
  <2>1. Tallied' = Tallied
    BY <1>1, <1>10, <1>f, FieldKinds, TallySame DEF Tallied
  <2>2. Cardinality(Lagging') = Cardinality(Lagging) + 1 /\ Cardinality(Settling') = Cardinality(Settling)
    <3>1. w \notin Lagging /\ w \in Lagging' /\ w \notin Settling /\ w \notin Settling'
      BY <1>2, <1>10, FieldKinds DEF Count, Errors, Bytes
    <3> QED
      BY <1>3, <1>5, <1>6, <1>7, <3>1
  <2>3. counter'[Count] + counter'[Errors] = counter[Count] + counter[Errors] + 1
    BY <1>1, <1>2, <1>10, <1>f DEF Count, Errors, Bytes
  <2>4. UNCHANGED <<counter[StatusOK], counter[Status4x], counter[Status5x]>>
    BY <1>1, <1>2, <1>10, <1>f, FieldKinds DEF Statuses
  <2> QED
    BY <1>1, <1>2, <1>3, <1>8, <1>9, <1>f, <2>1, <2>2, <2>3, <2>4 DEF Live
<1>11. CASE f = Bytes
  <2>1. Tallied' = Tallied
    BY <1>1, <1>11, <1>f, FieldKinds, TallySame DEF Tallied
  <2>2. Cardinality(Lagging') = Cardinality(Lagging) /\ Cardinality(Settling') = Cardinality(Settling)
    <3>1. w \in Lagging /\ w \in Lagging' /\ w \notin Settling /\ w \notin Settling'
      BY <1>2, <1>11, FieldKinds
    <3> QED
      BY <1>3, <1>5, <1>6, <1>7, <3>1
  <2>3. UNCHANGED <<counter[Count], counter[Errors],
                    counter[StatusOK], counter[Status4x], counter[Status5x]>>
    BY <1>1, <1>2, <1>11, <1>f DEF Count, Errors, Bytes, StatusOK, Status4x, Status5x
  <2> QED
    BY <1>2, <1>9, <2>1, <2>2, <2>3 DEF Live
<1>12. CASE f \in BucketFields
  <2>1. Tallied' = Tallied + 1
    <3>1. n = 1
      BY <1>2, <1>12, FieldKinds
    <3>2. \A g \in BucketFields : counter'[g] = counter[g] + (IF g = f THEN 1 ELSE 0)
      BY <1>1, <3>1, FieldKinds
    <3> QED
      BY <1>1, <1>12, <3>2, TallyGrows DEF Tallied
  <2>2. Cardinality(Lagging') + 1 = Cardinality(Lagging) /\ Cardinality(Settling') <= Cardinality(Settling) + 1
    <3>1. w \in Lagging /\ w \notin Lagging' /\ w \notin Settling
      BY <1>2, <1>12, FieldKinds
    <3> QED
      BY <1>3, <1>5, <1>6, <1>7, <3>1
  <2>3. UNCHANGED <<counter[Count], counter[Errors],
                    counter[StatusOK], counter[Status4x], counter[Status5x]>>
    BY <1>1, <1>2, <1>12, <1>f, FieldKinds DEF Statuses
  <2> QED
    BY <1>1, <1>2, <1>3, <1>5, <1>8, <1>9, <1>f, <2>1, <2>2, <2>3 DEF Live
<1>13. CASE f \in Statuses
  <2>1. Tallied' = Tallied
    BY <1>1, <1>13, <1>f, FieldKinds, TallySame DEF Tallied
  <2>2. Cardinality(Lagging') = Cardinality(Lagging) /\ Cardinality(Settling') + 1 = Cardinality(Settling)
    <3>1. w \notin Lagging /\ w \notin Lagging' /\ w \in Settling /\ w \notin Settling'
      BY <1>2, <1>13, FieldKinds
    <3> QED
      BY <1>3, <1>5, <1>6, <1>7, <3>1
  <2>3. UNCHANGED <<counter[Count], counter[Errors]>>
    BY <1>1, <1>2, <1>13, <1>f, FieldKinds
  <2>4. counter'[StatusOK] + counter'[Status4x] + counter'[Status5x]
          = counter[StatusOK] + counter[Status4x] + counter[Status5x] + 1
    BY <1>1, <1>2, <1>13, <1>f DEF Statuses, Bytes, StatusOK, Status4x, Status5x
  <2> QED
    BY <1>1, <1>2, <1>3, <1>5, <1>8, <1>9, <1>f, <2>1, <2>2, <2>3, <2>4 DEF Live
<1> QED
  BY <1>2, <1>10, <1>11, <1>12, <1>13, FieldKinds

\* Observing a response changes no counter, and its worker has counted nothing.
LEMMA LiveObserve ==
    ASSUME ReportTypeOK, Live, NEW w \in Workers, NEW r \in Responses, Observe(w, r)
    PROVE  Live'
<1> DEFINE t == IF r.kind = "error" THEN ObserveError(r) ELSE ObserveSuccess(r)
<1>1. todo[w] = <<>> /\ UNCHANGED counter /\ \A v \in Workers : todo'[v] = IF v = w THEN t ELSE todo[v]
  BY Numbers DEF Observe
<1>2. Ordered(t) /\ t # <<>> /\ Head(t).field \in {Count, Errors}
  BY OrderedStart
<1> HIDE DEF t
<1>3. \A v \in Workers : Ordered(todo'[v])
  BY <1>1, <1>2 DEF Live
<1>4. {Count, Errors} \cap ({Bytes} \union BucketFields) = {} /\ {Count, Errors} \cap Statuses = {}
  BY FieldKinds DEF Count, Errors, Bytes
<1>5. Lagging' = Lagging
  BY <1>1, <1>2, <1>4 DEF Lagging, NextIn
<1>6. Settling' = Settling
  BY <1>1, <1>2, <1>4 DEF Settling, NextIn
<1> QED
  BY <1>1, <1>3, <1>5, <1>6 DEF Live, Tallied

\* The live counters stay as far apart as the requests under way.
LEMMA LiveStep ==
    ASSUME ReportTypeOK, Live, [ReportNext]_vars
    PROVE  Live'
<1>k. ASSUME UNCHANGED <<counter, todo>> PROVE Live'
  BY <1>k DEF Live, Tallied, Lagging, Settling, NextIn
<1>1. CASE UNCHANGED metricVars
  BY <1>1, <1>k DEF metricVars
<1>2. ASSUME NEW w \in Workers, AddNext(w) PROVE Live'
  BY <1>2, LiveAdd
<1>3. ASSUME NEW w \in Workers, NEW r \in Responses, Observe(w, r) PROVE Live'
  BY <1>3, LiveObserve
<1>4. CASE Cancel \/ RunReturns \/ Tick \/ LoopReturns \/ FinalFlush
  BY <1>1, <1>4 DEF Cancel, RunReturns, Tick, LoopReturns, FinalFlush, Enter
<1>5. CASE ReadCounter \/ SendReport \/ ReportReturns \/ SendFlush \/ FlushReturns
  BY <1>1, <1>5 DEF ReadCounter, SendReport, ReportReturns, SendFlush, FlushReturns, Post
<1>6. ASSUME NEW m \in net, record_benchmark_metrics(m) PROVE Live'
  BY <1>1, <1>6 DEF record_benchmark_metrics
<1>7. CASE UNCHANGED vars
  BY <1>1, <1>7 DEF vars
<1> QED
  BY <1>2, <1>3, <1>4, <1>5, <1>6, <1>7 DEF ReportNext

\* The mixture has a number for every bucket.
LEMMA MixtureType ==
    ASSUME ReportTypeOK
    PROVE  /\ \A i \in BucketIds : Mixture[i] \in Nat
           /\ Mixed \in Nat /\ Mixed = SumFunctionOnSet(Mixture, BucketIds)
           /\ IsFiniteSet(BucketIds)
<1>1. \A i \in BucketIds : Mixture[i] \in Nat
  BY Numbers, FieldNumbers DEF Mixture
<1>2. IsFiniteSet(BucketIds)
  BY FieldNumbers, FS_Interval DEF BucketIds
<1>3. Mixed = SumFunctionOnSet(Mixture, BucketIds)
  BY DEF Mixed, Total, Cumulative, BucketIds
<1> QED
  BY <1>1, <1>2, <1>3, SumNat

\* While workers count, the mixture only grows.
LEMMA MixedGrows ==
    ASSUME ReportTypeOK, ReportTypeOK', UNCHANGED <<reading, cur>>,
           \A f \in Fields : counter[f] <= counter'[f]
    PROVE  Mixed <= Mixed'
<1>1. /\ \A i \in BucketIds : Mixture[i] \in Nat
      /\ Mixed = SumFunctionOnSet(Mixture, BucketIds) /\ IsFiniteSet(BucketIds)
  BY MixtureType
<1>2. \A i \in BucketIds : Mixture'[i] \in Nat
  <2>1. \A i \in BucketIds : cur'[Bucket(i)] \in Nat /\ counter'[Bucket(i)] \in Nat
    BY FieldNumbers DEF ReportTypeOK
  <2> QED
    BY <2>1 DEF Mixture
<1>3. Mixed' = SumFunctionOnSet(Mixture', BucketIds)
  BY DEF Mixed, Total, Cumulative, BucketIds
<1>4. \A i \in BucketIds : Mixture[i] <= Mixture'[i]
  <2>1. ASSUME NEW i \in BucketIds PROVE Mixture[i] <= Mixture'[i]
    <3>1. /\ Bucket(i) \in Fields /\ cur[Bucket(i)] \in Nat /\ counter[Bucket(i)] <= counter'[Bucket(i)]
      BY Numbers, FieldNumbers
    <3>2. /\ Mixture[i] = IF Bucket(i) < reading THEN cur[Bucket(i)] ELSE counter[Bucket(i)]
          /\ Mixture'[i] = IF Bucket(i) < reading THEN cur[Bucket(i)] ELSE counter'[Bucket(i)]
      BY DEF Mixture
    <3> QED
      BY <3>1, <3>2
  <2> QED
    BY <2>1
<1> HIDE DEF Mixture
<1>5. \A i \in BucketIds : Mixture[i] \in Int /\ Mixture'[i] \in Int /\ Mixture[i] <= Mixture'[i]
  BY <1>1, <1>2, <1>4
<1>6. SumFunctionOnSet(Mixture, BucketIds) <= SumFunctionOnSet(Mixture', BucketIds)
  BY <1>1, <1>5, SumMonotone
<1> QED
  BY <1>1, <1>3, <1>6

\* The snapshot reads the status counters before any bucket, and the buckets only
\* grow under it.
LEMMA TornStep ==
    ASSUME SkewInv, [ReportNext]_vars
    PROVE  SkewInv'
<1>s. /\ SnapshotInv' /\ SnapshotInv /\ ReportTypeOK /\ ReportTypeOK' /\ Live /\ Live'
      /\ Torn
  <2>1. ReportTypeOK /\ Live /\ SnapshotInv /\ Torn
    BY DEF SkewInv, SnapshotInv
  <2>2. SnapshotInv' /\ Live'
    BY <2>1, BetweenStep, LiveStep
  <2> QED
    BY <2>1, <2>2 DEF SnapshotInv
<1>g. \A f \in Fields : counter[f] <= counter'[f]
  BY <1>s, TypesStep
<1>c. /\ \A f \in Fields : counter[f] \in Nat /\ cur[f] \in Nat
      /\ {Count, Errors, StatusOK, Status4x, Status5x} \subseteq Fields
      /\ reading \in Nat /\ cur \in [Fields -> Nat] /\ Mixed \in Nat
      /\ Cardinality(Workers) \in Nat
  BY <1>s, Numbers, FieldNumbers, MixtureType, ReportingAssumption, FS_CardinalityType
<1>m. Mixed' \in Nat
  <2>1. \A i \in BucketIds : cur'[Bucket(i)] \in Nat /\ counter'[Bucket(i)] \in Nat
    BY <1>s, FieldNumbers DEF ReportTypeOK
  <2>2. \A i \in BucketIds : Mixture'[i] \in Nat
    BY <2>1 DEF Mixture
  <2>3. Mixed' = SumFunctionOnSet(Mixture', BucketIds)
    BY DEF Mixed, Total, Cumulative, BucketIds
  <2> HIDE DEF Mixture
  <2>4. IsFiniteSet(BucketIds)
    BY <1>s, MixtureType
  <2> QED
    BY <2>2, <2>3, <2>4, SumNat
<1> SUFFICES Torn'
  BY <1>s DEF SkewInv
\* The snapshot stands still.
<1>k. ASSUME UNCHANGED <<phase, reading, cur>> PROVE Torn'
  <2>1. Mixed <= Mixed'
    BY <1>k, <1>g, <1>s, MixedGrows
  <2> QED
    BY <1>k, <1>c, <1>m, <1>s, <2>1 DEF Torn
\* No snapshot is being taken.
<1>e. ASSUME phase' \notin {"snapshot", "final"} \/ reading' = 1 PROVE Torn'
  BY <1>e DEF Torn
<1>1. CASE UNCHANGED loopVars
  BY <1>1, <1>k DEF loopVars
<1>2. CASE ReadCounter
  <2>1. /\ \A f \in Fields : cur'[f] = IF f = reading THEN counter[f] ELSE cur[f]
        /\ UNCHANGED <<counter, phase>> /\ reading' = reading + 1
        /\ phase \in {"snapshot", "final"} /\ reading <= LastField
    BY <1>2, <1>c DEF ReadCounter, metricVars
  <2>2. CASE reading < 6
    BY <1>c, <2>1, <2>2 DEF Torn
  <2>3. CASE reading = 6
    <3>1. Mixed' = Tallied
      <4>1. \A i \in BucketIds : ~(Bucket(i) < 7)
        BY DEF Bucket, BucketIds
      <4>2. Mixture' = BucketsOf(counter)
        BY <2>1, <2>3, <4>1 DEF Mixture, BucketsOf
      <4> QED
        BY <4>2 DEF Mixed, Tallied
    <3>2. \A f \in {Count, Errors, StatusOK, Status4x, Status5x} :
             cur'[f] \in Nat /\ counter[f] \in Nat /\ cur'[f] <= counter[f]
      <4>1. \A f \in {Count, Errors, StatusOK, Status4x, Status5x} : f < 7
        BY DEF Count, Errors, StatusOK, Status4x, Status5x
      <4>2. \A f \in Fields : f < reading' => cur'[f] <= counter'[f]
        BY <1>s, <2>1 DEF SnapshotInv, Between
      <4>3. reading' = 7
        BY <2>1, <2>3
      <4>4. \A f \in Fields : cur'[f] \in Nat
        BY <1>s DEF ReportTypeOK
      <4> QED
        BY <1>c, <2>1, <4>1, <4>2, <4>3, <4>4
    <3>3. Cardinality(Lagging) \in Nat /\ Cardinality(Lagging) <= Cardinality(Workers)
          /\ Cardinality(Settling) \in Nat
      BY NextFinite DEF Lagging, Settling
    <3>4. /\ counter[Count] + counter[Errors] = Tallied + Cardinality(Lagging)
          /\ counter[StatusOK] + counter[Status4x] + counter[Status5x] + Cardinality(Settling)
               <= Tallied
      BY <1>s DEF Live
    <3>5. /\ cur'[Count] + cur'[Errors] <= Mixed' + Cardinality(Workers)
          /\ cur'[StatusOK] + cur'[Status4x] + cur'[Status5x] <= Mixed'
      BY <1>c, <1>m, <3>1, <3>2, <3>3, <3>4
    <3> QED
      BY <3>5 DEF Torn
  <2>4. CASE reading > 6
    <3>1. \A i \in BucketIds : Mixture'[i] = Mixture[i]
      <4>1. \A i \in BucketIds : Bucket(i) \in Nat /\ Bucket(i) \in Fields
        BY FieldNumbers
      <4>2. \A i \in BucketIds : Bucket(i) < reading + 1 <=> Bucket(i) < reading \/ Bucket(i) = reading
        BY <1>c, <4>1
      <4> QED
        BY <1>c, <2>1, <4>1, <4>2 DEF Mixture
    <3>2. Mixture' = Mixture
      BY <3>1 DEF Mixture
    <3>3. Mixed' = Mixed
      BY <3>2 DEF Mixed
    <3>4. \A f \in {Count, Errors, StatusOK, Status4x, Status5x} : cur'[f] = cur[f]
      BY <1>c, <2>1, <2>4 DEF Count, Errors, StatusOK, Status4x, Status5x
    <3> QED
      BY <1>s, <2>1, <2>4, <3>3, <3>4 DEF Torn
  <2> QED
    BY <1>c, <2>2, <2>3, <2>4
<1>3. CASE Tick \/ LoopReturns \/ FinalFlush
  BY <1>3, <1>e DEF Tick, LoopReturns, FinalFlush, Enter
<1>4. CASE SendReport \/ ReportReturns \/ SendFlush \/ FlushReturns
  BY <1>4, <1>e DEF SendReport, ReportReturns, SendFlush, FlushReturns, Post
<1>5. CASE \/ \E w \in Workers : AddNext(w) \/ \E r \in Responses : Observe(w, r)
           \/ Cancel \/ RunReturns \/ \E m \in net : record_benchmark_metrics(m)
  BY <1>1, <1>5 DEF AddNext, Observe, Cancel, RunReturns, record_benchmark_metrics
<1>6. CASE UNCHANGED vars
  BY <1>1, <1>6 DEF vars
<1> QED
  BY <1>2, <1>3, <1>4, <1>5, <1>6 DEF ReportNext

\* However the workers race it, a snapshot holds at most one request per worker
\* in its count that is in none of its buckets, and none whose status it counted.
THEOREM SnapshotsAreBarelyTorn == ReportSpec => []SnapshotSkew
<1>1. ReportInit => SkewInv
  <2> SUFFICES ASSUME ReportInit PROVE SkewInv
    OBVIOUS
  <2>1. SnapshotInv /\ ReportTypeOK
    BY SnapshotStart, TypesStart
  <2>2. \A w \in Workers : todo[w] = <<>>
    BY DEF ReportInit
  <2>3. Lagging = {} /\ Settling = {}
    BY <2>2 DEF Lagging, Settling, NextIn
  <2>4. \A f \in Fields : counter[f] = 0
    BY DEF ReportInit, Zero
  <2>5. Tallied \in Nat
    BY <2>4, Tally DEF Tallied
  <2>6. Tallied = 0
    <3>1. IsFiniteSet(BucketIds) /\ Tallied = SumFunctionOnSet(BucketsOf(counter), BucketIds)
      BY <2>4, Tally DEF Tallied
    <3>2. \A i \in BucketIds : BucketsOf(counter)[i] = 0
      BY <2>4, Tally, FieldNumbers
    <3>3. SumFunctionOnSet(BucketsOf(counter), BucketIds) = 0 * Cardinality(BucketIds)
      BY <3>1, <3>2, SumConstant
    <3>4. Cardinality(BucketIds) \in Nat
      BY <3>1, FS_CardinalityType
    <3> QED
      BY <3>1, <3>3, <3>4
  <2>7. \A w \in Workers : Ordered(todo[w])
    <3>1. 1 .. Len(<<>>) = {}
      OBVIOUS
    <3> QED
      BY <2>2, <3>1 DEF Ordered
  <2>8. Live
    BY <2>3, <2>4, <2>6, <2>7, FieldNumbers, FS_EmptySet DEF Live
  <2>9. Torn
    BY DEF ReportInit, Torn
  <2> QED
    BY <2>1, <2>8, <2>9 DEF SkewInv
<1>2. SkewInv => SnapshotSkew
  <2> SUFFICES ASSUME SkewInv, phase \in {"snapshot", "final"}, reading > LastField
               PROVE  LET total == Total(BucketsOf(cur))
                      IN  /\ cur[Count] + cur[Errors] <= total + Cardinality(Workers)
                          /\ cur[StatusOK] + cur[Status4x] + cur[Status5x] <= total
    BY DEF SnapshotSkew
  <2>1. ReportTypeOK /\ Torn
    BY DEF SkewInv, SnapshotInv
  <2>2. reading \in Nat /\ LastField \in Nat /\ LastField > 6
    BY <2>1, Numbers, FieldNumbers
  <2>3. \A i \in BucketIds : Bucket(i) < reading
    BY <2>2, FieldNumbers
  <2>4. Mixture = BucketsOf(cur)
    BY <2>3 DEF Mixture, BucketsOf
  <2>5. Mixed = Total(BucketsOf(cur))
    BY <2>4 DEF Mixed
  <2> QED
    BY <2>1, <2>2, <2>5 DEF Torn
<1>3. SkewInv /\ [ReportNext]_vars => SkewInv'
  BY TornStep
<1> QED
  BY <1>1, <1>2, <1>3, PTL DEF ReportSpec
-----------------------------------------------------------------------------
(* The final flush *)

\* What the k-th of a worker's additions brings a counter, and what all do:
\* there are never more than four.
Term(t, k, f) == IF k <= Len(t) /\ t[k].field = f THEN t[k].by ELSE 0
Owed(t, f)    == Term(t, 1, f) + Term(t, 2, f) + Term(t, 3, f) + Term(t, 4, f)

\* What one response brings a counter.
Gives(r, f) == Owed(IF Ok(r) THEN ObserveSuccess(r) ELSE ObserveError(r), f)

\* Each counter holds what was observed but for what workers have still to add.
Conserved ==
    \A f \in Fields :
        counter[f] + SumFunctionOnSet([w \in Workers |-> Owed(todo[w], f)], Workers)
            = SumFunctionOnSet([r \in Responses |-> observed[r] * Gives(r, f)], Responses)

\* The flush reads what no worker adds to any more.
Ended ==
    /\ runDone => \A w \in Workers : todo[w] = <<>>
    /\ phase \in {"final", "flushing"} => runDone
    /\ phase = "flushing" => reading > LastField
    /\ phase \in {"final", "flushing"} =>
         \A f \in Fields : f < reading => cur[f] = counter[f]

FlushInv ==
    /\ ReportTypeOK
    /\ \A w \in Workers : Len(todo[w]) <= 4
    /\ Conserved /\ Ended

\* One addition made is one owed less.
LEMMA OwedTail ==
    ASSUME NEW t \in Seq(Additions), t # <<>>, Len(t) <= 4, NEW f
    PROVE  /\ Owed(t, f) \in Nat /\ Owed(Tail(t), f) \in Nat /\ Len(Tail(t)) <= 4
           /\ Owed(t, f) = (IF f = Head(t).field THEN Head(t).by ELSE 0) + Owed(Tail(t), f)
<1> DEFINE u == Tail(t)
<1>1. /\ Len(t) \in Nat /\ Len(u) = Len(t) - 1 /\ Head(t) = t[1] /\ 1 <= Len(t)
      /\ \A k \in 1 .. Len(u) : u[k] = t[k + 1]
  OBVIOUS
<1>2. \A k \in 1 .. Len(t) : t[k].by \in Nat
  <2>1. \A k \in 1 .. Len(t) : t[k] \in Additions
    OBVIOUS
  <2> QED
    BY <2>1 DEF Additions
<1> HIDE DEF u
<1>3. ASSUME NEW k \in {1, 2, 3} PROVE Term(u, k, f) = Term(t, k + 1, f)
  <2>1. k <= Len(u) <=> k + 1 <= Len(t)
    BY <1>1
  <2>2. k <= Len(u) => u[k] = t[k + 1]
    BY <1>1
  <2> QED
    BY <2>1, <2>2 DEF Term
<1>4. Term(u, 4, f) = 0
  BY <1>1 DEF Term
<1>5. ASSUME NEW k \in 1 .. 4 PROVE Term(t, k, f) \in Nat
  BY <1>1, <1>2 DEF Term
<1>6. Term(t, 1, f) = IF f = Head(t).field THEN Head(t).by ELSE 0
  BY <1>1 DEF Term
<1>7. /\ Term(t, 1, f) \in Nat /\ Term(t, 2, f) \in Nat /\ Term(t, 3, f) \in Nat /\ Term(t, 4, f) \in Nat
      /\ Term(u, 1, f) = Term(t, 2, f) /\ Term(u, 2, f) = Term(t, 3, f)
      /\ Term(u, 3, f) = Term(t, 4, f) /\ Term(u, 4, f) = 0
  <2>1. 1 + 1 = 2 /\ 2 + 1 = 3 /\ 3 + 1 = 4
    OBVIOUS
  <2>2. Term(u, 1, f) = Term(t, 2, f) /\ Term(u, 2, f) = Term(t, 3, f) /\ Term(u, 3, f) = Term(t, 4, f)
    BY <1>3, <2>1
  <2> QED
    BY <1>4, <1>5, <2>2
<1>8. Len(u) <= 4
  BY <1>1
<1>9. Owed(t, f) = Term(t, 1, f) + Owed(u, f) /\ Owed(t, f) \in Nat /\ Owed(u, f) \in Nat
  BY <1>7 DEF Owed
<1> QED
  BY <1>6, <1>8, <1>9 DEF u

\* Nothing to add is nothing owed, and what is owed is a number.
LEMMA OwedType ==
    ASSUME NEW t \in Seq(Additions), Len(t) <= 4, NEW f
    PROVE  Owed(t, f) \in Nat /\ (t = <<>> => Owed(t, f) = 0)
<1>1. CASE t = <<>>
  <2>1. Len(t) = 0
    BY <1>1
  <2>2. ASSUME NEW k \in {1, 2, 3, 4} PROVE Term(t, k, f) = 0
    BY <2>1 DEF Term
  <2>3. Term(t, 1, f) = 0 /\ Term(t, 2, f) = 0 /\ Term(t, 3, f) = 0 /\ Term(t, 4, f) = 0
    BY <2>2
  <2> QED
    BY <2>3 DEF Owed
<1>2. CASE t # <<>>
  BY <1>2, OwedTail
<1> QED
  BY <1>1, <1>2

\* What a response brings is what its worker owes when it begins.
LEMMA GivesType ==
    ASSUME NEW r \in Responses, NEW t, NEW f,
           t = IF r.kind = "error" THEN ObserveError(r) ELSE ObserveSuccess(r)
    PROVE  Gives(r, f) = Owed(t, f) /\ Gives(r, f) \in Nat /\ t \in Seq(Additions) /\ Len(t) <= 4
<1>1. t \in Seq(Additions) /\ Len(t) <= 4
  BY ObserveAdditions, OrderedStart
<1>2. Gives(r, f) = Owed(t, f)
  BY DEF Gives, Ok
<1> QED
  BY <1>1, <1>2, OwedType

\* What all workers owe a counter, and what was observed for it.
AllOwed(f)  == SumFunctionOnSet([w \in Workers |-> Owed(todo[w], f)], Workers)
AllGiven(f) == SumFunctionOnSet([r \in Responses |-> observed[r] * Gives(r, f)], Responses)

\* An addition moves from what is owed to its counter.
LEMMA AddConserves ==
    ASSUME FlushInv, NEW w \in Workers, AddNext(w)
    PROVE  Conserved'
<1> SUFFICES ASSUME NEW f \in Fields PROVE counter'[f] + AllOwed(f)' = AllGiven(f)'
  BY DEF Conserved, AllOwed, AllGiven
<1> DEFINE a == Head(todo[w])
           x == IF f = a.field THEN a.by ELSE 0
           g == [v \in Workers |-> Owed(todo[v], f)]
           h == [v \in Workers |-> Owed(todo'[v], f)]
<1>1. /\ a \in Additions /\ todo[w] \in Seq(Additions) /\ todo[w] # <<>>
      /\ counter'[f] = counter[f] + x
      /\ \A v \in Workers : todo'[v] = IF v = w THEN Tail(todo[w]) ELSE todo[v]
  BY AddStep DEF FlushInv
<1>2. \A v \in Workers : todo[v] \in Seq(Additions) /\ Len(todo[v]) <= 4
  BY Numbers DEF FlushInv
<1>3. x \in Nat /\ counter[f] \in Nat
  BY <1>1, Numbers DEF Additions, FlushInv
<1>4. Owed(todo[w], f) = x + Owed(todo'[w], f) /\ Owed(todo'[w], f) \in Nat
  BY <1>1, <1>2, OwedTail
<1>5. \A v \in Workers : g[v] \in Int
  BY <1>2, OwedType
<1>6. \A v \in Workers \ {w} : h[v] = g[v]
  BY <1>1
<1>7. h[w] \in Int /\ g[w] = x + h[w] /\ g[w] \in Int
  BY <1>4, <1>5
<1>8. counter[f] + AllOwed(f) = AllGiven(f)
  BY DEF FlushInv, Conserved, AllOwed, AllGiven
<1>9. AllOwed(f) = SumFunctionOnSet(g, Workers) /\ AllOwed(f)' = SumFunctionOnSet(h, Workers)
  BY DEF AllOwed
<1>10. AllGiven(f)' = AllGiven(f)
  BY DEF AddNext, AllGiven
<1> HIDE DEF g, h, x
<1>11. SumFunctionOnSet(h, Workers) = SumFunctionOnSet(g, Workers) + (h[w] - g[w])
  BY <1>5, <1>6, <1>7, SumChange, ReportingAssumption
<1>12. SumFunctionOnSet(g, Workers) \in Int
  BY <1>5, SumInt, ReportingAssumption
<1>13. counter'[f] = counter[f] + x
  BY <1>1 DEF x
<1>14. h[w] - g[w] = 0 - x
  BY <1>3, <1>7
<1> QED
  BY <1>3, <1>8, <1>9, <1>10, <1>11, <1>12, <1>13, <1>14

\* A response observed is owed by its worker.
LEMMA ObserveConserves ==
    ASSUME FlushInv, NEW w \in Workers, NEW r \in Responses, Observe(w, r)
    PROVE  Conserved' /\ \A v \in Workers : Len(todo'[v]) <= 4
<1> DEFINE t == IF r.kind = "error" THEN ObserveError(r) ELSE ObserveSuccess(r)
<1>1. /\ todo[w] = <<>> /\ UNCHANGED counter
      /\ \A v \in Workers : todo'[v] = IF v = w THEN t ELSE todo[v]
      /\ \A q \in Responses : observed'[q] = IF q = r THEN observed[r] + 1 ELSE observed[q]
  BY Numbers DEF Observe, FlushInv, ReportTypeOK
<1>2. \A v \in Workers : todo[v] \in Seq(Additions) /\ Len(todo[v]) <= 4
  BY Numbers DEF FlushInv
<1>3. t \in Seq(Additions) /\ Len(t) <= 4
  BY GivesType
<1> HIDE DEF t
<1>4. \A v \in Workers : Len(todo'[v]) <= 4
  BY <1>1, <1>2, <1>3
<1> SUFFICES ASSUME NEW f \in Fields PROVE counter'[f] + AllOwed(f)' = AllGiven(f)'
  BY <1>4 DEF Conserved, AllOwed, AllGiven
<1> DEFINE g == [v \in Workers |-> Owed(todo[v], f)]
           h == [v \in Workers |-> Owed(todo'[v], f)]
           p == [q \in Responses |-> observed[q] * Gives(q, f)]
           o == [q \in Responses |-> observed'[q] * Gives(q, f)]
<1>5. \A q \in Responses : Gives(q, f) \in Nat /\ observed[q] \in Nat
  BY GivesType DEF FlushInv, ReportTypeOK
<1>6. Gives(r, f) = Owed(t, f)
  BY GivesType DEF t
<1>7. \A v \in Workers : g[v] \in Int
  BY <1>2, OwedType
<1>8. g[w] = 0 /\ h[w] = Gives(r, f) /\ \A v \in Workers \ {w} : h[v] = g[v]
  BY <1>1, <1>2, <1>6, OwedType
<1>9. \A q \in Responses : p[q] \in Int
  BY <1>5, Products
<1>10. o[r] = p[r] + Gives(r, f) /\ \A q \in Responses \ {r} : o[q] = p[q]
  <2>1. (observed[r] + 1) * Gives(r, f) = observed[r] * Gives(r, f) + 1 * Gives(r, f)
    BY <1>5, Products
  <2> QED
    BY <1>1, <1>5, <2>1
<1>11. counter[f] + AllOwed(f) = AllGiven(f) /\ counter[f] \in Nat
  BY Numbers DEF FlushInv, Conserved, AllOwed, AllGiven
<1>12. AllOwed(f) = SumFunctionOnSet(g, Workers) /\ AllOwed(f)' = SumFunctionOnSet(h, Workers)
  BY DEF AllOwed
<1>13. AllGiven(f) = SumFunctionOnSet(p, Responses) /\ AllGiven(f)' = SumFunctionOnSet(o, Responses)
  BY DEF AllGiven
<1> DEFINE n == Gives(r, f)
<1>14. n \in Nat /\ h[w] = n /\ o[r] = p[r] + n
  BY <1>5, <1>8, <1>10
<1> HIDE DEF g, h, p, o, n
<1>15. SumFunctionOnSet(h, Workers) = SumFunctionOnSet(g, Workers) + (h[w] - g[w])
  <2>1. h[w] \in Int
    BY <1>14
  <2> QED
    BY <1>7, <1>8, <2>1, SumChange, ReportingAssumption
<1>16. SumFunctionOnSet(o, Responses) = SumFunctionOnSet(p, Responses) + (o[r] - p[r])
  <2>1. o[r] \in Int
    BY <1>9, <1>14
  <2> QED
    BY <1>9, <1>10, <2>1, SumChange, ReportingAssumption
<1>17. SumFunctionOnSet(g, Workers) \in Int /\ SumFunctionOnSet(p, Responses) \in Int
  BY <1>7, <1>9, SumInt, ReportingAssumption
<1>18. h[w] - g[w] = n /\ o[r] - p[r] = n
  BY <1>8, <1>9, <1>14
<1> QED
  BY <1>1, <1>11, <1>12, <1>13, <1>14, <1>15, <1>16, <1>17, <1>18

\* Once Run has returned no worker adds, so the flush reads counters at rest.
LEMMA EndedStep ==
    ASSUME FlushInv, [ReportNext]_vars
    PROVE  Ended'
<1>e. Ended /\ ReportTypeOK
  BY DEF FlushInv
<1>c. /\ \A f \in Fields : counter[f] \in Nat /\ cur[f] \in Nat /\ f \in Nat
      /\ cur \in [Fields -> Nat] /\ reading \in Nat /\ LastField \in Nat
  BY <1>e, Numbers, FieldNumbers
<1>1. ASSUME NEW w \in Workers, AddNext(w) PROVE Ended'
  <2>1. todo[w] # <<>> /\ UNCHANGED <<runDone, phase, reading>>
    BY <1>1 DEF AddNext, loopVars
  <2>2. ~runDone
    BY <1>e, <2>1 DEF Ended
  <2> QED
    BY <1>e, <2>1, <2>2 DEF Ended
<1>2. ASSUME NEW w \in Workers, NEW r \in Responses, Observe(w, r) PROVE Ended'
  <2>1. ~runDone /\ UNCHANGED <<runDone, phase, reading>>
    BY <1>2 DEF Observe, loopVars
  <2> QED
    BY <1>e, <2>1 DEF Ended
<1>3. CASE RunReturns
  <2>1. /\ \A w \in Workers : todo[w] = <<>>
        /\ UNCHANGED <<todo, counter, phase, reading, cur>> /\ runDone'
    BY <1>3 DEF RunReturns, WorkersReturned, metricVars, loopVars
  <2> QED
    BY <1>e, <2>1 DEF Ended
\* Nothing the flush depends on changes.
<1>k. ASSUME UNCHANGED <<todo, counter, runDone, reading, cur>>,
             phase' = phase \/ phase' \notin {"final", "flushing"}
      PROVE  Ended'
  BY <1>k, <1>e DEF Ended
<1>4. CASE Cancel \/ (\E m \in net : record_benchmark_metrics(m)) \/ UNCHANGED vars
  BY <1>4, <1>k DEF Cancel, record_benchmark_metrics, vars, metricVars, loopVars
<1>5. CASE SendReport \/ FlushReturns
  BY <1>5, <1>k DEF SendReport, FlushReturns, Post, metricVars
<1>6. CASE Tick \/ LoopReturns \/ FinalFlush
  <2>1. /\ UNCHANGED <<todo, counter, runDone>> /\ reading' = 1
        /\ (phase' \in {"snapshot", "stopped"} \/ (phase' = "final" /\ runDone))
    BY <1>6 DEF Tick, LoopReturns, FinalFlush, Enter, metricVars
  <2>2. \A f \in Fields : ~(f < 1)
    BY DEF Fields
  <2> QED
    BY <1>e, <2>1, <2>2 DEF Ended
<1>7. CASE ReadCounter
  <2>1. /\ \A f \in Fields : cur'[f] = IF f = reading THEN counter[f] ELSE cur[f]
        /\ UNCHANGED <<todo, counter, runDone, phase>> /\ reading' = reading + 1
        /\ phase \in {"snapshot", "final"}
    BY <1>7, <1>c DEF ReadCounter, metricVars
  <2>2. \A f \in Fields : f < reading' => f < reading \/ f = reading
    BY <1>c, <2>1
  <2> QED
    BY <1>e, <2>1, <2>2 DEF Ended
<1>8. CASE ReportReturns
  BY <1>e, <1>8 DEF ReportReturns, metricVars, Ended
<1>9. CASE SendFlush
  <2>1. /\ UNCHANGED <<todo, counter, runDone, reading, cur>>
        /\ phase = "final" /\ phase' = "flushing" /\ reading > LastField
    BY <1>9 DEF SendFlush, Post, metricVars
  <2> QED
    BY <1>e, <2>1 DEF Ended
<1> QED
  BY <1>1, <1>2, <1>3, <1>4, <1>5, <1>6, <1>7, <1>8, <1>9 DEF ReportNext

\* What was observed is counted or still to be added, at every step.
LEMMA FlushStep ==
    ASSUME FlushInv, [ReportNext]_vars
    PROVE  FlushInv'
<1>t. ReportTypeOK' /\ ReportTypeOK
  BY TypesStep DEF FlushInv
<1>e. Ended'
  BY EndedStep
<1>k. ASSUME UNCHANGED metricVars PROVE FlushInv'
  BY <1>k, <1>t, <1>e DEF FlushInv, Conserved, metricVars
<1>1. ASSUME NEW w \in Workers, AddNext(w) PROVE FlushInv'
  <2>1. Conserved'
    BY <1>1, AddConserves
  <2>2. /\ todo[w] \in Seq(Additions) /\ todo[w] # <<>> /\ Len(todo[w]) <= 4
        /\ \A v \in Workers : todo'[v] = IF v = w THEN Tail(todo[w]) ELSE todo[v]
    BY <1>1, <1>t, AddStep DEF FlushInv
  <2>3. Len(Tail(todo[w])) <= 4
    BY <2>2, OwedTail
  <2>4. \A v \in Workers : Len(todo'[v]) <= 4
    BY <2>2, <2>3 DEF FlushInv
  <2> QED
    BY <1>t, <1>e, <2>1, <2>4 DEF FlushInv
<1>2. ASSUME NEW w \in Workers, NEW r \in Responses, Observe(w, r) PROVE FlushInv'
  BY <1>2, <1>t, <1>e, ObserveConserves DEF FlushInv
<1>3. CASE Cancel \/ RunReturns \/ Tick \/ LoopReturns \/ FinalFlush
  BY <1>3, <1>k DEF Cancel, RunReturns, Tick, LoopReturns, FinalFlush, Enter
<1>4. CASE ReadCounter \/ SendReport \/ ReportReturns \/ SendFlush \/ FlushReturns
  BY <1>4, <1>k DEF ReadCounter, SendReport, ReportReturns, SendFlush, FlushReturns, Post
<1>5. CASE (\E m \in net : record_benchmark_metrics(m)) \/ UNCHANGED vars
  BY <1>5, <1>k DEF record_benchmark_metrics, vars
<1> QED
  BY <1>1, <1>2, <1>3, <1>4, <1>5 DEF ReportNext

\* Nothing is observed, counted or owed.
LEMMA FlushStart == ReportInit => FlushInv
<1> SUFFICES ASSUME ReportInit PROVE FlushInv
  OBVIOUS
<1>1. ReportTypeOK
  BY TypesStart
<1>2. \A w \in Workers : todo[w] = <<>> /\ Len(todo[w]) <= 4
  <2>1. Len(<<>>) <= 4
    OBVIOUS
  <2> QED
    BY <2>1 DEF ReportInit
<1>3. ASSUME NEW f \in Fields PROVE counter[f] + AllOwed(f) = AllGiven(f)
  <2> DEFINE g == [w \in Workers |-> Owed(todo[w], f)]
             p == [r \in Responses |-> observed[r] * Gives(r, f)]
  <2>1. \A w \in Workers : g[w] = 0
    <3>1. <<>> \in Seq(Additions) /\ Len(<<>>) <= 4
      OBVIOUS
    <3>2. Owed(<<>>, f) = 0
      BY <3>1, OwedType
    <3> QED
      BY <1>2, <3>2
  <2>2. \A r \in Responses : p[r] = 0
    BY GivesType DEF ReportInit
  <2>3. AllOwed(f) = SumFunctionOnSet(g, Workers) /\ AllGiven(f) = SumFunctionOnSet(p, Responses)
    BY DEF AllOwed, AllGiven
  <2> HIDE DEF g, p
  <2>4. /\ SumFunctionOnSet(g, Workers) = 0 * Cardinality(Workers)
        /\ SumFunctionOnSet(p, Responses) = 0 * Cardinality(Responses)
    BY <2>1, <2>2, SumConstant, ReportingAssumption
  <2>5. Cardinality(Workers) \in Nat /\ Cardinality(Responses) \in Nat
    BY FS_CardinalityType, ReportingAssumption
  <2>6. counter[f] = 0
    BY DEF ReportInit, Zero
  <2> QED
    BY <2>3, <2>4, <2>5, <2>6
<1>4. Conserved
  BY <1>3 DEF Conserved, AllOwed, AllGiven
<1>5. Ended
  BY DEF ReportInit, Ended
<1> QED
  BY <1>1, <1>2, <1>4, <1>5 DEF FlushInv

\* What each counter gets of a response.
LEMMA GivesWhat ==
    ASSUME NEW r \in Responses
    PROVE  /\ Gives(r, Count) = IF Ok(r) THEN 1 ELSE 0
           /\ Gives(r, Errors) = IF Ok(r) THEN 0 ELSE 1
           /\ Gives(r, Bytes) = IF Ok(r) THEN r.bytes ELSE 0
           /\ \A i \in BucketIds : Gives(r, Bucket(i)) = IF bucketIndex(r.latency) = i THEN 1 ELSE 0
<1> DEFINE j == bucketIndex(r.latency)
           b == Bucket(j)
           s == StatusField(r.kind)
<1>1. r \in ResponseType
  BY ReportingAssumption
<1>2. j \in BucketIds /\ r.bytes \in Nat
  BY <1>1, BucketRange DEF ResponseType
<1>3. Ok(r) => s \in Statuses
  BY <1>1 DEF ResponseType, StatusField, Statuses, Ok
<1>4. \A i \in BucketIds : Bucket(i) \in BucketFields /\ (b = Bucket(i) <=> j = i)
  BY <1>2, FieldKinds DEF Bucket, BucketIds
<1>5. b \in BucketFields
  BY <1>2, <1>4
<1> HIDE DEF j, b, s
<1>6. CASE ~Ok(r)
  <2> DEFINE t == <<[field |-> Errors, by |-> 1], [field |-> b, by |-> 1]>>
  <2>1. ObserveError(r) = t
    BY DEF ObserveError, Add, b, j
  <2>2. Len(t) = 2 /\ t[1].field = Errors /\ t[1].by = 1 /\ t[2].field = b /\ t[2].by = 1
    OBVIOUS
  <2> HIDE DEF t
  <2>3. \A f : Gives(r, f) = Owed(t, f)
    BY <1>6, <2>1 DEF Gives
  <2>4. \A f : Owed(t, f) = (IF f = Errors THEN 1 ELSE 0) + (IF f = b THEN 1 ELSE 0)
    <3>1. ASSUME NEW f PROVE Owed(t, f) = (IF f = Errors THEN 1 ELSE 0) + (IF f = b THEN 1 ELSE 0)
      <4>1. /\ Term(t, 1, f) = IF f = Errors THEN 1 ELSE 0
            /\ Term(t, 2, f) = IF f = b THEN 1 ELSE 0
            /\ Term(t, 3, f) = 0 /\ Term(t, 4, f) = 0
        BY <2>2 DEF Term
      <4> QED
        BY <4>1 DEF Owed
    <3> QED
      BY <3>1
  <2> QED
    BY <1>4, <1>5, <1>6, <2>3, <2>4, FieldKinds DEF Count, Errors, Bytes, j
<1>7. CASE Ok(r)
  <2> DEFINE t == <<[field |-> Count, by |-> 1], [field |-> Bytes, by |-> r.bytes],
                    [field |-> b, by |-> 1], [field |-> s, by |-> 1]>>
  <2>1. ObserveSuccess(r) = t
    BY DEF ObserveSuccess, Add, b, j, s
  <2>2. /\ Len(t) = 4 /\ t[1].field = Count /\ t[1].by = 1 /\ t[2].field = Bytes
        /\ t[2].by = r.bytes /\ t[3].field = b /\ t[3].by = 1 /\ t[4].field = s /\ t[4].by = 1
    OBVIOUS
  <2> HIDE DEF t
  <2>3. \A f : Gives(r, f) = Owed(t, f)
    BY <1>7, <2>1 DEF Gives
  <2>4. \A f \in {Count, Errors, Bytes} \union BucketFields :
           Owed(t, f) = (IF f = Count THEN 1 ELSE 0) + (IF f = Bytes THEN r.bytes ELSE 0)
                           + (IF f = b THEN 1 ELSE 0)
    <3>1. ASSUME NEW f \in {Count, Errors, Bytes} \union BucketFields
          PROVE  Owed(t, f) = (IF f = Count THEN 1 ELSE 0) + (IF f = Bytes THEN r.bytes ELSE 0)
                                 + (IF f = b THEN 1 ELSE 0)
      <4>1. f # s
        BY <1>3, <1>7, FieldKinds
      <4>2. /\ Term(t, 1, f) = IF f = Count THEN 1 ELSE 0
            /\ Term(t, 2, f) = IF f = Bytes THEN r.bytes ELSE 0
            /\ Term(t, 3, f) = IF f = b THEN 1 ELSE 0
            /\ Term(t, 4, f) = 0
        BY <2>2, <4>1 DEF Term
      <4> QED
        BY <1>2, <4>2 DEF Owed
    <3> QED
      BY <3>1
  <2>5. /\ Count \notin BucketFields /\ Errors \notin BucketFields /\ Bytes \notin BucketFields
        /\ Count # Errors /\ Count # Bytes /\ Errors # Bytes
    BY FieldKinds DEF Count, Errors, Bytes
  <2>6. Gives(r, Count) = 1 /\ Gives(r, Errors) = 0 /\ Gives(r, Bytes) = r.bytes
    BY <1>2, <1>5, <2>3, <2>4, <2>5
  <2>7. \A i \in BucketIds : Gives(r, Bucket(i)) = IF j = i THEN 1 ELSE 0
    BY <1>2, <1>4, <1>5, <2>3, <2>4, <2>5
  <2> QED
    BY <1>7, <2>6, <2>7 DEF j
<1> QED
  BY <1>6, <1>7

\* A sum may leave out the elements whose value is 0.
LEMMA SumWhere ==
    ASSUME NEW f, NEW g, NEW S, NEW T \in SUBSET S, IsFiniteSet(S),
           \A x \in T : f[x] \in Int /\ g[x] = f[x], \A x \in S \ T : g[x] = 0
    PROVE  SumFunctionOnSet(g, S) = SumFunctionOnSet(f, T)
<1> DEFINE R == S \ T
<1>1. IsFiniteSet(T) /\ IsFiniteSet(R) /\ T \union R = S /\ T \cap R = {}
  BY FS_Subset
<1>2. \A x \in R : g[x] = 0
  OBVIOUS
<1> HIDE DEF R
<1>3. SumFunctionOnSet(g, R) = 0 * Cardinality(R) /\ Cardinality(R) \in Nat
  BY <1>1, <1>2, SumConstant, FS_CardinalityType
<1>4. \A x \in T \union R : g[x] \in Int
  BY <1>2
<1>5. SumFunctionOnSet(g, T \union R) = SumFunctionOnSet(g, T) + SumFunctionOnSet(g, R)
  BY <1>1, <1>4, SumDisjoint
<1>6. SumFunctionOnSet(g, T) = SumFunctionOnSet(f, T) /\ SumFunctionOnSet(f, T) \in Int
  BY <1>1, SumAgree, SumInt
<1>7. SumFunctionOnSet(g, R) = 0
  BY <1>3
<1>8. SumFunctionOnSet(g, T \union R) = SumFunctionOnSet(f, T)
  BY <1>5, <1>6, <1>7
<1> QED
  BY <1>1, <1>8

\* Responses seen are finitely many numbers.
LEMMA SeenSets ==
    ASSUME ReportTypeOK, NEW T \in SUBSET Responses
    PROVE  /\ IsFiniteSet(T) /\ Seen(T) \in Nat /\ Seen({}) = 0
           /\ \A U \in SUBSET T : Seen(U) <= Seen(T)
<1>1. \A r \in Responses : observed[r] \in Nat
  BY DEF ReportTypeOK
<1>2. IsFiniteSet(T)
  BY ReportingAssumption, FS_Subset
<1>3. \A U \in SUBSET T : Seen(U) <= Seen(T)
  BY <1>1, <1>2, SumSubset DEF Seen
<1> QED
  BY <1>1, <1>2, <1>3, SumNat, SumEmpty DEF Seen

\* The bucket of each response, and the responses in a set of buckets.
BucketOf  == [r \in Responses |-> bucketIndex(r.latency)]
InBuckets(K) == OfClass(BucketOf, Responses, K)

\* In the flush each counter is what the responses observed bring it.
LEMMA FlushCounts ==
    ASSUME FlushInv, phase = "flushing"
    PROVE  /\ cur[Count] = Seen({r \in Responses : Ok(r)})
           /\ cur[Errors] = Seen({r \in Responses : ~Ok(r)})
           /\ cur[Bytes] = SumFunctionOnSet([r \in Responses |-> observed[r] * r.bytes],
                                            {r \in Responses : Ok(r)})
           /\ \A i \in BucketIds : BucketsOf(cur)[i] = Seen(InBuckets({i}))
<1>t. ReportTypeOK
  BY DEF FlushInv
<1>1. \A f \in Fields : cur[f] = counter[f] /\ counter[f] \in Nat
  <2>1. reading > LastField /\ \A f \in Fields : f < reading => cur[f] = counter[f]
    BY DEF FlushInv, Ended
  <2>2. reading \in Nat /\ LastField \in Nat /\ \A f \in Fields : f \in Nat /\ f <= LastField
    BY <1>t, Numbers, FieldNumbers
  <2>3. \A f \in Fields : f < reading
    BY <2>1, <2>2
  <2> QED
    BY <1>t, <2>1, <2>3, Numbers
<1>2. ASSUME NEW f \in Fields PROVE cur[f] = AllGiven(f)
  <2> DEFINE g == [w \in Workers |-> Owed(todo[w], f)]
  <2>1. \A w \in Workers : g[w] = 0
    <3>1. \A w \in Workers : todo[w] = <<>>
      BY DEF FlushInv, Ended
    <3>2. Owed(<<>>, f) = 0
      <4>1. <<>> \in Seq(Additions) /\ Len(<<>>) <= 4
        OBVIOUS
      <4> QED
        BY <4>1, OwedType
    <3> QED
      BY <3>1, <3>2
  <2>2. counter[f] + SumFunctionOnSet(g, Workers) = AllGiven(f)
    BY DEF FlushInv, Conserved, AllGiven
  <2> HIDE DEF g
  <2>3. SumFunctionOnSet(g, Workers) = 0 * Cardinality(Workers) /\ Cardinality(Workers) \in Nat
    BY <2>1, SumConstant, FS_CardinalityType, ReportingAssumption
  <2>4. SumFunctionOnSet(g, Workers) = 0
    BY <2>3
  <2> QED
    BY <1>1, <2>2, <2>4
<1>3. \A r \in Responses : observed[r] \in Nat /\ r.bytes \in Nat
  BY <1>t, ReportingAssumption DEF ReportTypeOK, ResponseType
<1>4. IsFiniteSet(Responses)
  BY ReportingAssumption
\* A counter that gets 1 of each response of a set.
<1>5. ASSUME NEW f \in Fields, NEW T \in SUBSET Responses,
             \A r \in Responses : Gives(r, f) = IF r \in T THEN 1 ELSE 0
      PROVE  cur[f] = Seen(T)
  <2> DEFINE g == [r \in Responses |-> observed[r] * Gives(r, f)]
  <2>1. \A r \in T : observed[r] \in Int /\ g[r] = observed[r]
    BY <1>3, <1>5
  <2>2. \A r \in Responses \ T : g[r] = 0
    BY <1>3, <1>5
  <2>3. cur[f] = SumFunctionOnSet(g, Responses)
    BY <1>2 DEF AllGiven
  <2> HIDE DEF g
  <2> QED
    BY <1>4, <2>1, <2>2, <2>3, SumWhere DEF Seen
<1>6. cur[Count] = Seen({r \in Responses : Ok(r)})
  <2> DEFINE T == {r \in Responses : Ok(r)}
  <2>1. \A r \in Responses : Gives(r, Count) = IF r \in T THEN 1 ELSE 0
    BY GivesWhat
  <2> HIDE DEF T
  <2>2. T \in SUBSET Responses
    BY DEF T
  <2>3. cur[Count] = Seen(T)
    BY <1>5, <2>1, <2>2, FieldNumbers
  <2> QED
    BY <2>3 DEF T
<1>7. cur[Errors] = Seen({r \in Responses : ~Ok(r)})
  <2> DEFINE T == {r \in Responses : ~Ok(r)}
  <2>1. \A r \in Responses : Gives(r, Errors) = IF r \in T THEN 1 ELSE 0
    BY GivesWhat
  <2> HIDE DEF T
  <2>2. T \in SUBSET Responses
    BY DEF T
  <2>3. cur[Errors] = Seen(T)
    BY <1>5, <2>1, <2>2, FieldNumbers
  <2> QED
    BY <2>3 DEF T
<1>8. cur[Bytes] = SumFunctionOnSet([r \in Responses |-> observed[r] * r.bytes],
                                    {r \in Responses : Ok(r)})
  <2> DEFINE T == {r \in Responses : Ok(r)}
             f == [r \in Responses |-> observed[r] * r.bytes]
             g == [r \in Responses |-> observed[r] * Gives(r, Bytes)]
  <2>1. \A r \in Responses : Gives(r, Bytes) = IF Ok(r) THEN r.bytes ELSE 0
    BY GivesWhat
  <2>2. \A r \in T : f[r] \in Int /\ g[r] = f[r]
    BY <1>3, <2>1, Products
  <2>3. \A r \in Responses \ T : g[r] = 0
    BY <1>3, <2>1
  <2>4. cur[Bytes] = SumFunctionOnSet(g, Responses)
    BY <1>2, FieldNumbers DEF AllGiven
  <2>5. T \in SUBSET Responses
    OBVIOUS
  <2> HIDE DEF T, f, g
  <2>6. cur[Bytes] = SumFunctionOnSet(f, T)
    BY <1>4, <2>2, <2>3, <2>4, <2>5, SumWhere
  <2> QED
    BY <2>6 DEF f, T
<1>9. ASSUME NEW i \in BucketIds PROVE BucketsOf(cur)[i] = Seen(InBuckets({i}))
  <2> DEFINE T == InBuckets({i})
  <2>1. \A r \in Responses : Gives(r, Bucket(i)) = IF r \in T THEN 1 ELSE 0
    BY GivesWhat DEF InBuckets, OfClass, BucketOf
  <2>2. T \in SUBSET Responses
    BY DEF InBuckets, OfClass
  <2> HIDE DEF T
  <2>3. cur[Bucket(i)] = Seen(T)
    BY <1>5, <2>1, <2>2, FieldNumbers
  <2> QED
    BY <2>3 DEF T, BucketsOf
<1> QED
  BY <1>6, <1>7, <1>8, <1>9

\* Up to a bucket the flush has the responses in the buckets up to it.
LEMMA FlushCumulates ==
    ASSUME FlushInv, phase = "flushing", NEW i \in BucketIds
    PROVE  Cumulative(BucketsOf(cur), i) = Seen(InBuckets(0 .. i))
<1> DEFINE g == BucketsOf(cur)
           K == 0 .. i
<1>0. i \in Nat /\ i <= NumBuckets - 1 /\ NumBuckets \in Nat
  BY FieldNumbers DEF BucketIds
<1>1. K \subseteq BucketIds
  BY <1>0 DEF BucketIds
<1>f. IsFiniteSet(K)
  BY <1>0, FS_Interval
<1>2. \A k \in BucketIds : g[k] = Seen(InBuckets({k}))
  BY FlushCounts
<1>3. \A k \in K : g[k] = SumFunctionOnSet(observed, OfClass(BucketOf, Responses, {k}))
  BY <1>1, <1>2 DEF Seen, InBuckets
<1>4. \A r \in Responses : observed[r] \in Int
  BY DEF FlushInv, ReportTypeOK
<1>5. IsFiniteSet(Responses)
  BY ReportingAssumption
<1> HIDE DEF g, K
<1>6. SumFunctionOnSet(g, K) = SumFunctionOnSet(observed, OfClass(BucketOf, Responses, K))
  BY <1>f, <1>3, <1>4, <1>5, SumByClass
<1> QED
  BY <1>6 DEF g, K, Cumulative, Seen, InBuckets

\* The responses at most as slow as v, and those faster.
Fastest(v)    == {r \in Responses : r.latency <= v}
FasterThan(v) == {r \in Responses : r.latency < v}

\* Every rank from 1 to the number of requests is some response's latency.
LEMMA RankExists ==
    ASSUME ReportTypeOK, NEW k \in Nat \ {0}, k <= Seen(Responses)
    PROVE  /\ Ranked(k) \in Nat
           /\ Seen(Fastest(Ranked(k))) >= k /\ Seen(FasterThan(Ranked(k))) < k
<1> DEFINE V == {r.latency : r \in Responses}
           R == {n \in Nat : Seen(Fastest(n)) >= k}
<1>1. \A r \in Responses : r.latency \in Nat
  BY ReportingAssumption DEF ResponseType
<1>2. \A n : Fastest(n) \in SUBSET Responses /\ FasterThan(n) \in SUBSET Responses
  BY DEF Fastest, FasterThan
<1>3. \A n : Seen(Fastest(n)) \in Nat /\ Seen(FasterThan(n)) \in Nat
  BY <1>2, SeenSets
<1>4. R # {}
  <2> DEFINE f == [r \in Responses |-> r.latency]
             W == {f[r] : r \in Responses}
  <2>1. IsFiniteSet(W)
    BY ImageFinite, ReportingAssumption
  <2>2. W \in SUBSET Nat
    BY <1>1
  <2>3. PICK n \in Nat : \A x \in W : x <= n
    BY <2>1, <2>2, FiniteBounded
  <2>4. Fastest(n) = Responses
    BY <2>3 DEF Fastest
  <2>5. Seen(Responses) \in Nat
    BY SeenSets
  <2>6. n \in R
    BY <2>4, <2>5
  <2> QED
    BY <2>6
<1>5. PICK n \in R : \A m \in R : n <= m
  <2>1. R \in SUBSET Nat
    OBVIOUS
  <2> HIDE DEF R
  <2> QED
    BY <1>4, <2>1, NatLeast
<1>6. Seen(FasterThan(n)) < k
  <2>1. CASE n = 0
    <3>1. FasterThan(n) = {}
      BY <1>1, <2>1 DEF FasterThan
    <3>2. Seen({}) = 0
      BY <1>2, SeenSets
    <3> QED
      BY <3>1, <3>2
  <2>2. CASE n # 0
    <3>1. n - 1 \in Nat /\ ~(n <= n - 1)
      BY <2>2
    <3>2. n - 1 \notin R
      BY <1>5, <3>1
    <3>3. FasterThan(n) = Fastest(n - 1)
      BY <1>1 DEF FasterThan, Fastest
    <3> QED
      BY <1>3, <3>1, <3>2, <3>3
  <2> QED
    BY <2>1, <2>2
<1>7. n \in V
  <2> SUFFICES ASSUME n \notin V PROVE FALSE
    OBVIOUS
  <2>1. Fastest(n) = FasterThan(n)
    BY <1>1 DEF Fastest, FasterThan
  <2> QED
    BY <1>3, <1>6, <2>1
<1>8. Seen(Fastest(n)) >= k
  OBVIOUS
<1>9. \E v \in V : /\ Seen({r \in Responses : r.latency <= v}) >= k
                   /\ Seen({r \in Responses : r.latency < v}) < k
  BY <1>6, <1>7, <1>8 DEF Fastest, FasterThan
<1>10. /\ Ranked(k) \in V
       /\ Seen({r \in Responses : r.latency <= Ranked(k)}) >= k
       /\ Seen({r \in Responses : r.latency < Ranked(k)}) < k
  <2> HIDE DEF V
  <2>1. Ranked(k) = CHOOSE v \in V : /\ Seen({r \in Responses : r.latency <= v}) >= k
                                     /\ Seen({r \in Responses : r.latency < v}) < k
    BY DEF Ranked, V
  <2> QED
    BY <1>9, <2>1
<1> QED
  BY <1>1, <1>10 DEF Fastest, FasterThan

\* The bucket the flush's quantile stops at is that of the latency at the rank.
LEMMA QuantileIsRanked ==
    ASSUME FlushInv, phase = "flushing", NEW percent \in {50, 95, 99},
           NEW k, k = (percent * Seen(Responses)) \div 100
    PROVE  IF k = 0 THEN Quantile(BucketsOf(cur), percent) = 0
                    ELSE Approximates(Quantile(BucketsOf(cur), percent), Ranked(k))
<1> DEFINE N == Seen(Responses)
           c(i) == Cumulative(BucketsOf(cur), i)
           reached == {i \in BucketIds : ReachesRank(c(i), k)}
<1>t. ReportTypeOK
  BY DEF FlushInv
<1>1. \A r \in Responses : r.latency \in Nat /\ bucketIndex(r.latency) \in BucketIds
  BY BucketRange, ReportingAssumption DEF ResponseType
<1>2. \A i \in BucketIds : c(i) = Seen(InBuckets(0 .. i))
  BY FlushCumulates
<1>3. NumBuckets - 1 \in BucketIds /\ 0 \in BucketIds /\ NumBuckets \in Nat \ {0}
      /\ \A i \in BucketIds : i \in Nat
  BY FieldNumbers DEF BucketIds
<1>4. \A i : InBuckets(0 .. i) \in SUBSET Responses
  BY DEF InBuckets, OfClass
<1>5. N \in Nat /\ \A i \in BucketIds : c(i) \in Nat
  <2>1. \A i \in BucketIds : Seen(InBuckets(0 .. i)) \in Nat
    BY <1>t, <1>4, SeenSets
  <2>2. N \in Nat
    BY <1>t, SeenSets
  <2> HIDE DEF N, c
  <2> QED
    BY <1>2, <2>1, <2>2
<1>6. Total(BucketsOf(cur)) = N
  <2>1. InBuckets(0 .. NumBuckets - 1) = Responses
    BY <1>1 DEF InBuckets, OfClass, BucketOf, BucketIds
  <2>2. c(NumBuckets - 1) = N
    BY <1>2, <1>3, <2>1
  <2> QED
    BY <2>2 DEF Total
<1>7. k \in Nat /\ k <= N /\ (N = 0 => k = 0)
  <2>1. k = (percent * N) \div 100
    OBVIOUS
  <2> HIDE DEF N
  <2>2. CASE percent = 50
    BY <1>5, <2>1, <2>2
  <2>3. CASE percent = 95
    BY <1>5, <2>1, <2>3
  <2>4. CASE percent = 99
    BY <1>5, <2>1, <2>4
  <2> QED
    BY <2>2, <2>3, <2>4
<1>8. Quantile(BucketsOf(cur), percent) =
        IF N = 0 THEN 0
        ELSE bucketValue(IF reached = {} THEN NumBuckets - 1 ELSE Min(reached))
  BY <1>6 DEF Quantile
<1>9. \A i \in BucketIds : i \in reached <=> c(i) >= k
  BY DEF ReachesRank
<1>10. reached \in SUBSET Nat
  BY <1>3
<1> HIDE DEF N, c
\* The first bucket that reaches the rank.
<1>11. ASSUME NEW b \in reached, \A i \in BucketIds : i < b => i \notin reached, N # 0
       PROVE  Quantile(BucketsOf(cur), percent) = bucketValue(b)
  <2>1. b \in BucketIds /\ reached \subseteq BucketIds
    OBVIOUS
  <2> HIDE DEF reached
  <2>2. reached # {}
    OBVIOUS
  <2>3. Min(reached) \in reached /\ \A i \in reached : Min(reached) <= i
    BY <1>10, <2>2, MinIsLeast
  <2> DEFINE first == Min(reached)
  <2>4. first \in BucketIds /\ first \in reached /\ first <= b
    BY <2>1, <2>3
  <2> HIDE DEF first
  <2>5. first \in Nat /\ b \in Nat
    BY <1>3, <2>1, <2>4
  <2>6. ~(first < b)
    BY <1>11, <2>4
  <2>7. first = b
    BY <2>4, <2>5, <2>6
  <2> QED
    BY <1>8, <1>11, <2>2, <2>7 DEF first
<1>12. CASE k = 0
  <2>1. CASE N = 0
    BY <1>8, <1>12, <2>1
  <2>2. CASE N # 0
    <3>1. 0 \in reached
      BY <1>3, <1>5, <1>9, <1>12
    <3>2. \A i \in BucketIds : ~(i < 0)
      BY <1>3
    <3>3. bucketValue(0) = 0
      BY SubCountPositive DEF bucketValue
    <3> HIDE DEF reached
    <3>4. Quantile(BucketsOf(cur), percent) = bucketValue(0)
      BY <1>11, <2>2, <3>1, <3>2
    <3> QED
      BY <1>12, <3>3, <3>4
  <2> QED
    BY <2>1, <2>2
<1>13. CASE k # 0
  <2> DEFINE v == Ranked(k)
             b == bucketIndex(v)
  <2>1. v \in Nat /\ Seen(Fastest(v)) >= k /\ Seen(FasterThan(v)) < k
    BY <1>t, <1>7, <1>13, RankExists DEF N
  <2> HIDE DEF v
  <2>2. b \in BucketIds
    BY <2>1, BucketRange
  <2>3. b \in reached
    <3>1. Fastest(v) \in SUBSET InBuckets(0 .. b)
      <4>1. ASSUME NEW r \in Responses, r.latency <= v PROVE bucketIndex(r.latency) \in 0 .. b
        <5>1. bucketIndex(r.latency) <= b
          BY <1>1, <2>1, <4>1, BucketMonotone
        <5> HIDE DEF b
        <5> QED
          BY <1>1, <1>3, <2>2, <5>1
      <4> QED
        BY <4>1 DEF Fastest, InBuckets, OfClass, BucketOf
    <3>2. Seen(Fastest(v)) <= Seen(InBuckets(0 .. b)) /\ Seen(Fastest(v)) \in Nat
      <4>1. Fastest(v) \in SUBSET Responses
        BY DEF Fastest
      <4> QED
        BY <1>t, <1>4, <3>1, <4>1, SeenSets
    <3> HIDE DEF reached, b
    <3>3. c(b) = Seen(InBuckets(0 .. b)) /\ c(b) \in Nat
      BY <1>2, <1>5, <2>2
    <3>4. c(b) >= k
      BY <1>7, <2>1, <3>2, <3>3
    <3> QED
      BY <1>9, <2>2, <3>4
  <2>4. ASSUME NEW i \in BucketIds, i < b PROVE i \notin reached
    <3>1. InBuckets(0 .. i) \in SUBSET FasterThan(v)
      <4>1. ASSUME NEW r \in Responses, bucketIndex(r.latency) \in 0 .. i PROVE r.latency < v
        <5>1. v <= r.latency => b <= bucketIndex(r.latency)
          BY <1>1, <2>1, BucketMonotone
        <5> HIDE DEF b
        <5>2. b \in Nat /\ i \in Nat /\ bucketIndex(r.latency) \in Nat /\ r.latency \in Nat
          BY <1>1, <1>3, <2>2
        <5>3. ~(b <= bucketIndex(r.latency))
          BY <2>4, <4>1, <5>2
        <5> QED
          BY <2>1, <5>1, <5>2, <5>3
      <4> QED
        BY <4>1 DEF FasterThan, InBuckets, OfClass, BucketOf
    <3>2. Seen(InBuckets(0 .. i)) <= Seen(FasterThan(v)) /\ Seen(FasterThan(v)) \in Nat
      <4>1. FasterThan(v) \in SUBSET Responses
        BY DEF FasterThan
      <4> QED
        BY <1>t, <3>1, <4>1, SeenSets
    <3> HIDE DEF reached, b
    <3>3. c(i) = Seen(InBuckets(0 .. i)) /\ c(i) \in Nat
      BY <1>2, <1>5
    <3>4. ~(c(i) >= k)
      BY <1>7, <2>1, <3>2, <3>3
    <3> QED
      BY <1>9, <3>4
  <2>5. N # 0
    BY <1>5, <1>7, <1>13
  <2>6. Quantile(BucketsOf(cur), percent) = bucketValue(b)
    <3> HIDE DEF reached, b
    <3> QED
      BY <1>11, <2>3, <2>4, <2>5
  <2>7. /\ bucketValue(b) <= v
        /\ bucketIndex(v) < NumBuckets - 1 => (v - bucketValue(b)) * SubCount <= v
    BY <2>1, BucketApproximates
  <2>8. Approximates(bucketValue(b), v)
    BY <2>7 DEF Approximates
  <2> HIDE DEF b
  <2>9. Approximates(Quantile(BucketsOf(cur), percent), v)
    BY <2>6, <2>8
  <2> QED
    BY <1>13, <2>9 DEF v
<1> QED
  BY <1>12, <1>13

\* The final flush holds every request recorded in the run and nothing else, and
\* its percentiles are those of the requests, up to the width of a sub-bucket.
THEOREM FlushHoldsTheRun == ReportSpec => []FlushIsExact
<1>1. FlushInv => FlushIsExact
  <2> SUFFICES ASSUME FlushInv, phase = "flushing" PROVE FlushIsExact
    BY DEF FlushIsExact
  <2>1. ASSUME NEW percent \in {50, 95, 99}
        PROVE  LET k == (percent * Seen(Responses)) \div 100
                   b == Quantile(BucketsOf(cur), percent)
               IN  IF k = 0 THEN b = 0 ELSE Approximates(b, Ranked(k))
    <3> DEFINE k == (percent * Seen(Responses)) \div 100
    <3>1. k = (percent * Seen(Responses)) \div 100
      OBVIOUS
    <3> HIDE DEF k
    <3>2. IF k = 0 THEN Quantile(BucketsOf(cur), percent) = 0
                   ELSE Approximates(Quantile(BucketsOf(cur), percent), Ranked(k))
      BY <3>1, QuantileIsRanked
    <3> QED
      BY <3>2 DEF k
  <2> QED
    BY <2>1, FlushCounts DEF FlushIsExact
<1>2. FlushInv /\ [ReportNext]_vars => FlushInv'
  BY FlushStep
<1> QED
  BY <1>1, <1>2, FlushStart, PTL DEF ReportSpec
=============================================================================
