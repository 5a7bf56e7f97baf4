------------------------------ MODULE Reporting ------------------------------
(***************************************************************************)
(* The metrics of one agent's run: the atomic counters of                   *)
(* cmd/agent/metrics.go that all workers add to, the snapshots reportLoop   *)
(* and execute take of them counter by counter, the reports that carry      *)
(* their differences, the rows record_benchmark_metrics makes of those that *)
(* arrive, and what watch_job shows of the rows.  One action is one atomic  *)
(* operation on a counter, or one step of a report.                         *)
(*                                                                          *)
(* A report is on its own once it was sent: it may arrive, be lost, or      *)
(* arrive after the agent gave up on it.  Counters that are only logged     *)
(* (timeouts, connections, wire time) are left out, and so are the rates    *)
(* and the means with their sum of latencies.                               *)
(***************************************************************************)
EXTENDS Histogram, Sequences

CONSTANTS
    Workers,        \* the worker goroutines
    Responses,      \* how a request may end
    WatchLimit,     \* LIMIT of watch_job, 300 minutes in the code
    MaxRequests,    \* bounds the requests recorded
    MaxTicks,       \* bounds the ticks of reportLoop
    MaxMinute       \* bounds the minutes of the control plane's clock

ResponseType == [kind : {"error", "2xx", "4xx", "5xx"}, latency : Nat, bytes : Nat]

ASSUME ReportingAssumption ==
    /\ IsFiniteSet(Workers)
    /\ Responses \subseteq ResponseType /\ IsFiniteSet(Responses)
    /\ {MaxRequests, MaxTicks, MaxMinute} \subseteq Nat /\ WatchLimit \in Nat \ {0}

\* The counters, numbered in the order Snapshot reads them.
Count     == 1
Errors    == 2
Bytes     == 3
StatusOK  == 4
Status4x  == 5
Status5x  == 6
Bucket(i) == 7 + i
LastField == 6 + NumBuckets
Fields    == 1 .. LastField

Zero == [f \in Fields |-> 0]

VARIABLES
    \* the agent
    counter,        \* Metrics
    todo,           \* the additions each worker has still to make
    runDone,        \* Run has returned
    ctxDone,        \* runCtx is cancelled
    phase,          \* where reportLoop, and execute after it, are
    tick,
    reading,        \* the counter the snapshot reads next
    cur, prev,
    \* the network and the control plane
    net,            \* reports under way or lost
    rows,           \* JOB_SPAWN_METRICS
    spawnCount,     \* COUNT in JOB_SPAWNS
    minute,         \* the minute of the newest CREATED_AT
    \* what happened, for the properties
    observed        \* how often each response was seen

metricVars  == <<counter, todo, observed>>
loopVars    == <<phase, tick, reading, cur, prev>>
controlVars == <<rows, spawnCount, minute>>
vars        == <<metricVars, runDone, ctxDone, loopVars, net, controlVars>>

ReportInit ==
    /\ counter = Zero /\ todo = [w \in Workers |-> <<>>]
    /\ observed = [r \in Responses |-> 0]
    /\ runDone = FALSE /\ ctxDone = FALSE
    /\ phase = "wait" /\ tick = 0 /\ reading = 1 /\ cur = Zero /\ prev = Zero
    /\ net = {} /\ rows = {} /\ spawnCount = 0 /\ minute = 0

-----------------------------------------------------------------------------
(* Metrics: the workers *)

Add(f, n) == [field |-> f, by |-> n]

StatusField(kind) ==
    CASE kind = "2xx" -> StatusOK [] kind = "4xx" -> Status4x [] kind = "5xx" -> Status5x

\* Mutation: the status is counted before the bucket.
StatusFirst(r) ==
    << Add(Count, 1), Add(Bytes, r.bytes), Add(StatusField(r.kind), 1),
       Add(Bucket(bucketIndex(r.latency)), 1) >>

ObserveSuccess(r) ==
    << Add(Count, 1), Add(Bytes, r.bytes),
       Add(Bucket(bucketIndex(r.latency)), 1), Add(StatusField(r.kind), 1) >>

ObserveError(r) ==
    << Add(Errors, 1), Add(Bucket(bucketIndex(r.latency)), 1) >>

\* How many responses of the set were seen.
Seen(set) == SumFunctionOnSet(observed, set)

Observe(w, r) ==
    /\ ~runDone /\ todo[w] = <<>> /\ Seen(Responses) < MaxRequests
    /\ todo' = [todo EXCEPT ![w] = IF r.kind = "error" THEN ObserveError(r)
                                                       ELSE ObserveSuccess(r)]
    /\ observed' = [observed EXCEPT ![r] = @ + 1]
    /\ UNCHANGED <<counter, runDone, ctxDone, loopVars, net, controlVars>>

\* One atomic Add.
AddNext(w) ==
    /\ todo[w] # <<>>
    /\ LET a == Head(todo[w])
       IN  counter' = [counter EXCEPT ![a.field] = @ + a.by]
    /\ todo' = [todo EXCEPT ![w] = Tail(@)]
    /\ UNCHANGED <<observed, runDone, ctxDone, loopVars, net, controlVars>>

\* watchStatus or a signal cancels the run early; how soon its workers then stop
\* is LoadRunner's matter, here they may go on until Run has returned.
Cancel ==
    /\ ~ctxDone
    /\ ctxDone' = TRUE
    /\ UNCHANGED <<metricVars, runDone, loopVars, net, controlVars>>

\* Run returns once its workers have, and execute cancels runCtx.
\* Mutation: Run does not wait for its workers.
NotWaited == TRUE

WorkersReturned == \A w \in Workers : todo[w] = <<>>

RunReturns ==
    /\ ~runDone /\ WorkersReturned
    /\ runDone' = TRUE /\ ctxDone' = TRUE
    /\ UNCHANGED <<metricVars, loopVars, net, controlVars>>

-----------------------------------------------------------------------------
(* reportLoop, and execute's final flush *)

Enter(where) ==
    /\ phase' = where /\ reading' = 1
    /\ UNCHANGED <<metricVars, runDone, ctxDone, tick, cur, prev, net, controlVars>>

Tick        == phase = "wait" /\ tick < MaxTicks /\ Enter("snapshot")
LoopReturns == phase = "wait" /\ ctxDone /\ Enter("stopped")
FinalFlush  == phase = "stopped" /\ runDone /\ Enter("final")

\* Mutation: the errors are swapped for 0, as if they were counted by interval.
SwapErrors ==
    /\ phase \in {"snapshot", "final"} /\ reading <= LastField
    /\ cur' = [cur EXCEPT ![reading] = counter[reading]]
    /\ counter' = [counter EXCEPT ![Errors] = IF reading = Errors THEN 0 ELSE @]
    /\ reading' = reading + 1
    /\ UNCHANGED <<todo, observed, runDone, ctxDone, phase, tick, prev, net, controlVars>>

\* Snapshot loads one counter.
ReadCounter ==
    /\ phase \in {"snapshot", "final"} /\ reading <= LastField
    /\ cur' = [cur EXCEPT ![reading] = counter[reading]]
    /\ reading' = reading + 1
    /\ UNCHANGED <<metricVars, runDone, ctxDone, phase, tick, prev, net, controlVars>>

Sub(s, p) == [f \in Fields |-> s[f] - p[f]]

BucketsOf(s) == [i \in BucketIds |-> s[Bucket(i)]]

FlushTick == -1

buildReport(cumulative, delta, t) ==
    [tickNumber |-> t, count |-> delta[Count], totalCount |-> cumulative[Count],
     bytes |-> delta[Bytes], status4xx |-> delta[Status4x], status5xx |-> delta[Status5x],
     p50 |-> Quantile(BucketsOf(delta), 50), p95 |-> Quantile(BucketsOf(delta), 95),
     p99 |-> Quantile(BucketsOf(delta), 99)]

Post(report, where) ==
    /\ net' = net \union {report}
    /\ phase' = where
    /\ UNCHANGED <<metricVars, runDone, ctxDone, tick, reading, cur, prev, controlVars>>

\* Under a context that is done the request is not even sent.
SendReport ==
    /\ phase = "snapshot" /\ reading > LastField
    /\ \/ ~ctxDone /\ Post(buildReport(cur, Sub(cur, prev), tick), "sending")
       \/ ctxDone /\ phase' = "sending" /\ UNCHANGED <<metricVars, runDone, ctxDone,
                          tick, reading, cur, prev, net, controlVars>>

\* Mutation: an interval whose report failed is reported again with the next.
KeepIfFailed ==
    IF \E m \in net : m.tickNumber = tick THEN prev ELSE cur

NextBaseline == cur

\* ReportMetrics returns: answered, failed, timed out or cancelled, the loop
\* goes on in the same way.
ReportReturns ==
    /\ phase = "sending"
    /\ prev' = NextBaseline /\ cur' = Zero /\ tick' = tick + 1
    /\ phase' = "wait" /\ reading' = 1
    /\ UNCHANGED <<metricVars, runDone, ctxDone, net, controlVars>>

\* The whole run, as cumulative figures and as the interval.
SendFlush ==
    /\ phase = "final" /\ reading > LastField
    /\ Post(buildReport(cur, cur, FlushTick), "flushing")

FlushReturns ==
    /\ phase = "flushing"
    /\ phase' = "done"
    /\ UNCHANGED <<metricVars, runDone, ctxDone, tick, reading, cur, prev, net, controlVars>>

-----------------------------------------------------------------------------
(* The control plane *)

\* Mutation: the spawn's total is the interval's.
IntervalTotal(m) == m.count

ReportedTotal(m) == m.totalCount

\* The batch of record_benchmark_metrics, in this or a later minute.  A report
\* that is lost never gets here.
record_benchmark_metrics(m) ==
    /\ minute' \in minute .. MaxMinute
    /\ rows' = rows \union {[minute |-> minute', report |-> m]}
    /\ spawnCount' = ReportedTotal(m)
    /\ net' = net \ {m}
    /\ UNCHANGED <<metricVars, runDone, ctxDone, loopVars>>

ReportNext ==
    \/ \E w \in Workers : AddNext(w) \/ \E r \in Responses : Observe(w, r)
    \/ Cancel \/ RunReturns
    \/ Tick \/ ReadCounter \/ SendReport \/ ReportReturns
    \/ LoopReturns \/ FinalFlush \/ SendFlush \/ FlushReturns
    \/ \E m \in net : record_benchmark_metrics(m)

ReportSpec == ReportInit /\ [][ReportNext]_vars

-----------------------------------------------------------------------------
(* What watch_job makes of the rows *)

\* One agent's rows, summed by minute; of the minutes that have any, the newest.
RowsOf(m) == {row \in rows : row.minute = m}

MinuteOf(m) ==
    [bytes |-> SumFunctionOnSet([row \in rows |-> row.report.bytes], RowsOf(m)),
     count |-> SumFunctionOnSet([row \in rows |-> row.report.count], RowsOf(m)),
     p95   |-> Max({row.report.p95 : row \in RowsOf(m)}),
     p99   |-> Max({row.report.p99 : row \in RowsOf(m)})]

Reported == {row.minute : row \in rows}

watch_job ==
    [m \in {n \in Reported : Cardinality({k \in Reported : k > n}) < WatchLimit} |->
        MinuteOf(m)]

-----------------------------------------------------------------------------
(* Properties *)

Reports == [tickNumber : Nat \union {FlushTick}, count : Int, totalCount : Nat,
            bytes : Int, status4xx : Int, status5xx : Int, p50 : Nat, p95 : Nat, p99 : Nat]

\* Types.
ReportTypeOK ==
    /\ counter \in [Fields -> Nat]
    /\ todo \in [Workers -> Seq([field : Fields, by : Nat])]
    /\ observed \in [Responses -> Nat]
    /\ {runDone, ctxDone} \subseteq BOOLEAN
    /\ phase \in {"wait", "snapshot", "sending", "stopped", "final", "flushing", "done"}
    /\ tick \in Nat /\ reading \in 1 .. LastField + 1
    /\ cur \in [Fields -> Nat] /\ prev \in [Fields -> Nat]
    /\ net \subseteq Reports
    /\ rows \subseteq [minute : Nat, report : Reports]
    /\ spawnCount \in Nat /\ minute \in Nat

\* "Counters are monotonic so this is always non-negative": no counter of a
\* snapshot is below the one Sub takes away from it, although both snapshots
\* were taken one counter at a time while workers counted.
DeltasNonNegative ==
    phase = "snapshot" =>
        \A f \in Fields : f < reading => prev[f] <= cur[f]

\* How far a snapshot may be torn: it may hold a request in its count that is
\* not in its buckets yet, but at most one per worker, and none whose status it
\* has counted, because Snapshot reads the buckets last.
SnapshotSkew ==
    phase \in {"snapshot", "final"} /\ reading > LastField =>
        LET total == Total(BucketsOf(cur))
        IN  /\ cur[Count] + cur[Errors] <= total + Cardinality(Workers)
            /\ cur[StatusOK] + cur[Status4x] + cur[Status5x] <= total

Ok(r) == r.kind # "error"

\* The k-th smallest of all latencies.
Ranked(k) ==
    CHOOSE v \in {r.latency : r \in Responses} :
        /\ Seen({r \in Responses : r.latency <= v}) >= k
        /\ Seen({r \in Responses : r.latency < v}) < k

\* The lower bound of v's bucket is not above v and, short of the last bucket,
\* less than a sub-bucket's width below it.
Approximates(b, v) ==
    /\ b = bucketValue(bucketIndex(v))
    /\ b <= v
    /\ bucketIndex(v) < NumBuckets - 1 => (v - b) * SubCount <= v

\* The final flush is exact: it holds every request recorded in the run and
\* nothing else, because Run has waited for its workers, and its percentiles
\* approximate the response at their rank (and are 0 when the rank rounds to 0).
FlushIsExact ==
    phase = "flushing" =>
        /\ cur[Count] = Seen({r \in Responses : Ok(r)})
        /\ cur[Errors] = Seen({r \in Responses : ~Ok(r)})
        /\ cur[Bytes] = SumFunctionOnSet([r \in Responses |-> observed[r] * r.bytes],
                                         {r \in Responses : Ok(r)})
        /\ \A percent \in {50, 95, 99} :
              LET k == (percent * Seen(Responses)) \div 100
                  b == Quantile(BucketsOf(cur), percent)
              IN  IF k = 0 THEN b = 0 ELSE Approximates(b, Ranked(k))

BytesShown ==
    SumFunctionOnSet([m \in DOMAIN watch_job |-> watch_job[m].bytes], DOMAIN watch_job)

Flushed == \E row \in rows : row.report.tickNumber = FlushTick

\* Until the flush is recorded, the bytes watch_job shows over all minutes are
\* bytes that were transferred: reportLoop may lose an interval, but none is
\* shown twice, whatever became of the reports.
NoIntervalTwice == ~Flushed => BytesShown <= counter[Bytes]

\* The same with the flush: "BYTES is a per-minute bucket sum", which the page
\* divides by 60 to show the throughput of the newest minute.
BytesWereTransferred == BytesShown <= counter[Bytes]

\* The report the agent is waiting on.
InHand(m) ==
    \/ phase = "sending" /\ m.tickNumber = tick
    \/ phase = "flushing" /\ m.tickNumber = FlushTick

\* The spawn's COUNT only goes back when a report arrives that the agent had
\* given up on; as long as every report is answered it is the latest total.
TotalGoesBackOnlyLate ==
    [][spawnCount' < spawnCount => \E m \in net \ net' : ~InHand(m)]_vars
=============================================================================
