# Verification of the R2 benchmark harness

This directory holds TLA+ models of the benchmark harness in this repository,
the TLC configurations that check them on small instances, and theorems with
proofs checked by TLAPS.

## The system and its parts

A Cloudflare Worker (`src/*.ts`) is the control plane: operators start, watch
and stop load-test jobs, agents ask for work and report, a cron sweep repairs
what agents leave behind. Its only state is a D1 (SQLite) database. A fleet of
VMs runs the Go agent (`cmd/agent`), which polls for a job, generates load
against R2 and reports metrics. The Go seeder (`cmd/seeder`) fills the buckets
beforehand.

| Part | State it keeps | Operations | What is hard |
|---|---|---|---|
| Job API (`orchestrator.ts`) | `JOBS` | `start_job`, `stop_job`; reads: `watch_job`, `list_jobs`, `deployment_config`, `get_internal_job_status` | check and insert are two statements; a stop races everything |
| Agent polling (`agents.ts`) | `JOB_SPAWNS` | `agent_poll`, `rps_for_slot` | five statements per poll; many agents poll at once; one agent polls twice when an answer is lost |
| Reports (`spawn.ts`) | `JOB_SPAWNS`, `JOB_SPAWN_METRICS` | `record_benchmark_metrics`, `complete_benchmark_spawn` | late, repeated and concurrent reports |
| Reaper (`spawn.ts`, `index.ts`) | none of its own | `reap_jobs`, four rules | runs between the statements of every handler, may die half way |
| Agent main loop (`cmd/agent/main.go`, `control.go`) | assignment, phase | poll, warm up, hold, load, report, watch status, flush, complete | crash, SIGTERM, lost answers, silence until the first report |
| Load runner and pacer (`runner.go`) | token channel, in-flight requests | `Run`, `worker`, `fetch`, `startPacer` | token bucket at its capacity |
| Metrics (`metrics.go`) | atomic counters, histogram | `Observe*`, `Snapshot`, `Sub`, `Quantile` | snapshots taken while workers count; deltas of snapshots |
| Seeder (`cmd/seeder`) | objects and sentinels in R2 | seed, repair, write sentinels | interruption, retry, changed shape |
| R2 client (`internal/r2/sigv4.go`) | signing-key cache | `Sign`, naming | double-checked cache |
| Operator page (`assets/app.js`, `watch.html`) | stored token, what a tab shows | `api`, `poll`, `stopJob`, `render` | a deploy refuses a right token; a poll overtakes a stop; a job is stopped that has ended by itself |
| Terraform, scripts | - | - | provisioning, not modelled |

## What makes each part correct

- **Job API.** A job moves only along the edges of its lifecycle, whoever writes
  its status and however old what the writer read. Every job ends. (That only
  one job is live at a time is what the code says, not what it guarantees.)
- **Agent polling.** No slot is handed out twice, none is left out, a job is
  never given more agents than it asked for, and the rates handed out add up.
- **Reports.** Late, repeated and concurrent reports reopen nothing, and the
  last of concurrent completion reports closes the job.
- **Reaper.** Whatever agents and earlier sweeps left behind is closed, with an
  outcome that fits what happened, and no healthy agent is taken for dead.
- **Agent loop.** An agent acts only on an answer it was waiting for, holds a
  slot nobody else holds, and lets go of a job that is over without depending on
  any answer.
- **Seeder.** A sentinel is never found in a bucket that is not full; a run that
  reports success left everything the agents will read; a repair rewrites
  nothing; one failing bucket costs no other its sentinel.
- **Runner and pacer.** The load is open loop: what is offered is the rate times
  the time, exactly, unless the channel is full, and then nothing is banked. Run
  ends after its stop, and what it records after the stop is bounded.
- **Metrics.** A snapshot is torn by no more than one request per worker, deltas
  never wrap, the last snapshot is exact, its percentiles are those of the
  responses up to a bucket, and no interval is shown twice.
- **Signing key.** No request is signed with the key of another date.
- **Operator page.** It is never ahead of the job: an end it shows is the job's,
  and STOPPING is shown only of a job that will not run again. A refusal or a
  late answer never locks it out of the job for good.

## Modules

| Module | Role |
|---|---|
| `JobLifecycle` | abstract specification of `JOBS.STATUS`: the edges a job may take |
| `ControlPlane` | the Worker, one action per D1 statement; implements `JobLifecycle` |
| `ControlPlaneProofs` | its theorems |
| `Fleet` | the Go agents composed with `ControlPlane` (EXTENDS it; every request is a joint action) |
| `FleetProofs` | its theorems: the fleet implements `ControlPlane`'s `Spec`, and why sweeps spare healthy agents |
| `Seeder` | `cmd/seeder` and the objects and sentinels it leaves in R2 |
| `SeederProofs` | its theorems |
| `KeyService` | abstract specification of `Signer.signingKey`: each caller gets the key of its date |
| `SigningKey` | the double-checked cache, one action per assignment; implements `KeyService` |
| `SigningKeyProofs` | its theorem: the refinement |
| `LoadRunner` | `Run`, the pacer and the workers composed with `SigningKey` (EXTENDS it) |
| `LoadRunnerProofs` | its theorems, the refinement of `KeyService` by the composition among them |
| `Histogram` | the bucket functions and the quantile, as operators |
| `Reporting` | counters, snapshots, reports, the rows they leave and `watch_job`'s sums |
| `ReportingProofs` | its theorems, those of the histogram among them |
| `SumTheorems` | lemmas on finite sums (`SumFunctionOnSet`), for both of the modules above that add up |
| `OperatorPage` | tabs of `watch.html` over `app.js`, the stored token, `require_admin` during a deploy; the job moves along the edges of `JobLifecycle` |
| `OperatorPageProofs` | its theorems |
| `MCControlPlane`, `MCFleet`, `MCSeeder`, `MCLoadRunner`, `MCReporting` | instances for TLC |

`PROJECT.json` maps every definition to the source lines it models, and lists
the runs, the mutants that show each property can fail, the findings, the
hazards and the theorems.

### ControlPlane

The tables are functions: `jobStatus`, `req`, `startAt`, `stopAt`, `createdAt`
for `JOBS`, `spawnStatus`, `slot`, `lastSeen` for `JOB_SPAWNS` (keyed by job and
agent, as `SPAWN_ID` is). `call` holds the local variables of every handler and
sweep in flight; a handler is a sequence of actions, one per awaited statement,
and anything may happen in between. A D1 batch is one action. `grants` records
the `run` answers; it is the only history variable and no action's effect on the
tables depends on it: it only says which spawn ids an agent can name in a
report. `Abort` is a D1 error or a lost isolate between two statements.

| Code | Actions |
|---|---|
| `start_job` | `StartCheck`, `StartInsert` |
| `stop_job` | `StopJob` |
| `agent_poll` | `PollSelectJob`, `PollSelectSpawn`, `PollTouch` or `PollClaim` and `PollReadSlot`, `PollPromote` |
| `record_benchmark_metrics` | `RecordMetrics` |
| `complete_benchmark_spawn` | `CompleteError`, or `CompleteRead`, `CompleteMark`, `CompleteCount`, `CompleteClose` |
| `reap_jobs` | `ReapBegin`, `ReapStale`, `ReapSelect`, (`ReapCount`, `ReapFinalise`)*, `ReapOrphans`, `ReapStopping` |

Time is a tick counter. The sweep's `Date.now()` is read once at its start and
kept in the activation, so it may be arbitrarily old when a statement runs; the
time a poll compares with `STOP_AT` lies anywhere between its two statements.
Where a time is bound to a single statement, `Lag` says how old it may be.

Abstractions: requests are records of the numbers `start_job` validates; job ids
are drawn from `Jobs`; the metrics columns are left out because nothing in the
control plane reads them back to decide anything.

### Fleet

Each agent has a `phase` that follows `main` and `execute`: down, polling,
holding (warm-up included), loading, finishing, completing. `waiting` is the
activation that serves its poll and `order` the assignment. Requests are joint
actions with `ControlPlane`; an answer may be lost at any time (`PollFails`, the
second disjunct of `Report`, `Flush` and `Complete`, and not taking
`WatchStatus`). `nextReport` is the tick of the clock `reportLoop`'s ticker fires
next: the ticker starts with the load, so the first report comes a whole
`ReportInterval` later, and a tick that finds its predecessor still in the
channel is dropped (`LaterTicks`). `Sigterm` is the first signal, which cancels
the context; `Crash` is a VM that disappears; `Boot` brings either back under the
same id.
The agent never reports an error of its own, so `CompleteError` is not part of
the composition. `Prompt` selects a fleet whose requests are answered within a
tick of the clock and whose reports are sent when their ticker fires (`Timely`),
for the one property that is about timing.

### Seeder

`object` and `sentinel` are what R2 holds; the rest is the current run. A run is
started with any command line of `Options` and may be `Killed` at any point. One
action is one request: a sentinel GET, a listing page, a PUT attempt. A PUT that
fails may have been stored. Jobs leave the channel in the order they were sent;
the channel's capacity only delays the sender and is left out. Not modelled: a
PUT that R2 applies after the request was given up *and* after a later run has
started.

### SigningKey and LoadRunner

The section of `signingKey` under the read lock only reads, so it is one action
that needs the write lock to be free; under the write lock the two assignments
(`DeriveKey`, `PublishDate`) are separate, so a reader without the lock would
see one and not the other. A key is the date it was derived from.

In `LoadRunner` a worker is at its select, signing, on the wire, or returned.
`BeginFetch` starts `SigningKey`'s caller of the same number, which is how the
two compose. When a token and the end of the context are both ready, select
takes either. `perTick` is the fraction RPS / ticks per second, so `credit` is
kept in ticks-per-second-ths of a token: the code's float is idealised to that
exact fraction. A tick the ticker drops while the pacer is late is not a tick of
the model; it only makes the pacer slower. `taken`, `takenAt`, `dropped` and
`atStop` record what happened, for the properties.

### Histogram and Reporting

Every atomic `Add` of a worker and every `Load` of a snapshot is an action, in
the order of the source. A report that was sent stays in `net` until it is
recorded, or for ever: `ReportReturns` does not depend on it, because
`reportLoop` goes on in the same way whatever `ReportMetrics` returned. The rows
carry the minute of `CREATED_AT`; `watch_job` is an operator on the rows, for
the rows of one agent. Workers may go on recording after a cancellation until
`Run` has returned, which is more than `LoadRunner` allows them. Of the
counters, those that are only logged (timeouts, connections, wire time), the sum
of latencies and everything divided by a measured time are left out; the rank
`q * total` is computed in integers, where the code's float product may round
to the integer below.

### OperatorPage

The job moves by itself along the edges of `JobLifecycle`, which `ControlPlane`
implements, at any time and to any end (`JobMoves`); only `stop_job` makes it
STOPPING, and it answers STOPPING of a job that was over as well. Each tab has at
most one poll and one stop request. `deployed` is the
`ADMIN_TOKEN` each location checks; `Deploy` changes `latest` and `Propagate`
brings it to one location. Opening a page by its URL stores the token for all
tabs, also an old one. A second click on the stop button before the first is
answered (possible after a poll re-enabled it) and a reload without a token are
left out: neither changes the token or the job any further.

## Runs

| Run | Shows | Bounds, and why they are enough |
|---|---|---|
| `claim` | `SlotsDense`, `GrantsMatch`, `RateIsShared`, `LastOneCloses`, `SpawnsNeverRevive`, types | three agents for two slots, two requests at a time: contention, a full job, a second poll of one agent while its first is in flight, two completion reports at once; RPS 3 over 2 slots leaves a remainder, and an unthrottled and a refused request are tried too. No activation dies: with deaths `LastOneCloses` is false and the sweep takes over (`finish`) |
| `finish` | `CompletedHasSpawn`, `ImplementsLifecycle`, `JobsFinish` | one job over three ticks, an agent that may fall silent, activations that die, `Date.now()` a tick old, a grace period of 0 so that rule 2 bites within a tick |
| `healthy` | `OneAgentPerSlot`, `HealthyNotFailed` | two agents and two polls in flight, so that claims race and the poll of a crashed agent may still run when it is back; a delay of 2 ticks and a report interval of 1 against a stale limit of 3, the boundary case, so that the first report arrives in the last tick that saves its spawn; one fault; every request is answered (`Prompt`) |
| `quiet` | `FleetTypeOK`, `OneAgentPerSlot`, `UsesControlPlane`, `FleetGoesQuiet` | two agents for two slots, a stop, one fault, losses, activations that die; a stale limit of 0, so that sweeps fail the spawns of agents at work; one tick, the length of the run; one request at a time, whose answer may come when its agent has given up on it |
| `load` | `PacedExactly`, `BurstBounded`, `LateCountsBounded`, `ServesKeys`, `RunReturns`, types | two workers, six ticks at six ticks per second: a rate of 4 leaves a fraction every tick and fills its channel of 2, a rate of 1 makes one token in six ticks, an unthrottled run is bounded by its requests; one midnight, so that two dates are in use at once |
| `reports` | `DeltasNonNegative`, `SnapshotSkew`, `FlushIsExact`, `NoIntervalTwice`, `TotalGoesBackOnlyLate`, types | two workers and two requests, so that both are half recorded while a snapshot is read; two ticks and the flush, so that a report can be lost between two others or overtaken; two minutes; four buckets of one sub-bit, with latencies in the linear part, an octave above it and past the last bucket |
| `page` | `ShownNotAhead`, `PageCatchesUp`, types | two tabs, because only another tab can change the token under a request or stop the job a tab still shows running; one changed token, and a page opened with the old one or the new one; one request without an answer |
| `seed` | `SentinelComplete`, `CleanBucketsStamped`, `SuccessIsReadable`, `ForcedIsExact`, `RepairOnlyAdds`, `Terminates`, types | three runs, so that a run meets what a killed one left of another shape; two buckets, two keys on two pages, two workers, two attempts |

Runs that TLC refutes, each against a line of the repository:

| Run | The line | What happens instead |
|---|---|---|
| `onejob` | orchestrator.ts:171, only one job may be active | two starts both find none and both insert |
| `longhold` | spawn.ts:4, silent agents are presumed dead | with a start delay above 80 s (90 s less the 10 s before the first report) agents are failed while they hold or load; in the run the delay is the stale limit itself, and the agent has just begun to load |
| `stale` | naming.go:36, the sentinel encodes the shape | a repair with another size stamps the new shape over old objects |
| `flush` | watch.html:255, BYTES is a per-minute bucket sum | the flush's row holds the whole run, so the last minute shows bytes never transferred in it |

Three more things the models show, for which there is no run of their own:

- `stop_job` moves `STOP_AT` to the time of the stop and rule 2 of the sweep
  selects STOPPING jobs too, so a stopped job whose agents still report is
  closed as COMPLETED after the grace period, although orchestrator.ts:297 says
  the reaper closes it once they have all reported. `JobLifecycle` therefore has
  the edge from STOPPING to COMPLETED.
- On SIGTERM `execute` reports completion. The spawn is then closed, so a VM
  restarted during the run is told to idle and does not reclaim its slot, as
  startup.sh.tftpl:77 says it would; after a crash it does.
- `stop_job` answers STOPPING of a job that is over (orchestrator.ts:313), with
  the truth in a message that `stopJob` does not show (watch.html:286). A tab
  that still showed the job running then shows it as STOPPING, a status the job
  may never have had, until its next poll. `ShownNotAhead` therefore does not say
  that the job was ever STOPPING; that the tab comes back to the true status is
  `PageCatchesUp`.

A reconnecting agent whose spawn the sweep fails between the poll's SELECT and
its UPDATE is still told to run: this is why `HealthyNotFailed` speaks of the
sweep's step and not of the state.

The bounds that only make the state space finite are named constants:
`Horizon` (operators act until then), `MaxTime`, `MaxFaults`, `MaxRuns`,
`MaxTicks`, `MaxRequests`, `MaxDay`, `MaxMinute`, `MaxDeploys`, `MaxOpens`,
`MaxFailures`. The runs of `Seeder`, `LoadRunner` and `Reporting` do not check
for deadlock: the seeder stops after `MaxRuns` runs, and a run of load and its
reports come to an end. The others do.

## Refinement

- `ControlPlane` implements `JobLifecycle` (run `finish`, theorem
  `LifecycleRefined`).
- `Fleet` implements `ControlPlane` (run `quiet`, theorem `FleetUses`).
- `SigningKey` implements `KeyService`, alone (theorem `SigningServesKeys`) and
  under the workers of `LoadRunner` (run `load`, theorem `LoadServesKeys`). The
  mapping takes a caller from the moment it read the clock as having asked, and
  as served when `signingKey` returns.

## Fairness

- `JobsFinish`: the clock advances (`WF(Tick)`), the cron trigger starts a sweep
  whenever none is running (`WF(ReapBegin)`; wrangler.jsonc schedules it every
  minute), and a statement of the sweep that is reached again and again is
  executed some time (`SF` for each). The last is needed because any single
  sweep may die at any statement; it says that not every sweep dies at the same
  one. No agent, operator or handler is assumed to do anything.
- `FleetGoesQuiet`: the clock advances, and an agent that can go on by itself
  does (`WF(AgentStep(a))`): timers fire, contexts have deadlines and every
  request ends within the client's timeout. No answer is assumed to arrive, and
  `WatchStatus` is not fair.
- `RunReturns`: a worker that can go on does (`WF(WorkerStep(w))`): requests end
  within the client's timeout and carry the context of the run, a select with
  something ready is taken. The pacer is not assumed to do anything. Weak
  fairness is enough although the write lock is contended: after the stop each
  worker signs at most one more request, so the lock becomes free for good for
  whoever still waits.
- `PageCatchesUp`: a deploy reaches every location (`WF(Propagate)`), the
  interval timer fires (`WF(Poll)`), a poll is served somewhere and its answer is
  acted on. Nothing is assumed of the operator or of the stop request.
- `Terminates`: every request of the seeder ends, because its HTTP client has a
  30 s timeout. It may end in failure every time.

## Proofs

All theorems hold for every value of the constants, under the named assumptions:
`ConstantsAssumption` (finitely many agents, bounds are naturals, handlers and
sweeps are different activations), `FleetAssumption`, `SeederAssumption`,
`SigningAssumption`, `LoadAssumption`, `HistogramAssumption`,
`ReportingAssumption` (finitely many workers and responses) and
`PageAssumption`, which only say what kind of numbers and sets the constants
are. One theorem, `HealthyAgentsKept`, has a hypothesis of its own,
`ShortHolds`, explained below.

**Sums.** The properties that add up over grants, workers, buckets or rows use
`SumFunctionOnSet`, a fold. `SumTheorems` proves what is needed of it for every
finite set: the empty sum, a sum with one element more or one value changed,
comparisons, sums over disjoint sets and over the classes of a partition. The
library's induction theorems take a predicate as a parameter, which the provers
cannot instantiate, so `NatSetInduction` and `AddInduction` say the same of a
*set* of good numbers or sets; each induction defines that set. `Pow2`, a
recursive function, is handled in the same way (`Pow2Equation`).

**ControlPlane.** `TypeOK` is not inductive: what a handler writes is typed
because of what it read before an await. `TypeInv` adds `LocalsOK`. The main
invariant `TableInv` joins `TypeInv`, `SlotsDense`, `GrantsMatch`,
`CompletedHasSpawn`, `SpawnsNeedJob` and `AllReadsHold`: what each activation
read and still relies on stays true of the tables. That holds because rows are
never deleted, slots never rewritten, and a job that reached STOPPING or an end
never leaves that class (`StableStep`); the rest is one case per statement.
`SlotsDense` rests on the cardinality of the set of rows growing by one exactly
when the slot equal to it is given out. From `TableInv` follow `SlotsAreDense`,
`GrantsAgree`, `CompletedRan`, `SpawnsStayDone` and the refinement
`LifecycleRefined`; `LastOneClosesJob` needs a further invariant on the reports
in flight. `RatesAddUp` adds that the request of a job was validated
(`RequestsValid`): the shares of the slots `0 .. n - 1` sum to the target
(`SharesAddUp`), grants of a job have different slots among these, and so sum to
no more, and to all of it when there are as many grants as slots.

**Fleet.** `FleetInv` adds to `TypeInv` and `FleetTypeOK` that an agent at work
was granted its order (`OrdersGranted`) and that the activation an agent waits
for serves its poll, for the job of its order (`WaitsMatch`). The second makes
the first inductive: the answer that puts an agent to work is the grant of that
very activation. Every step of the fleet is then a step of `ControlPlane` or
leaves it alone (`FleetUses`), so its theorems carry over, and
`SlotsHeldOnce` combines grants, `GrantsMatch` and `SlotsDense`.

`HealthyAgentsKept` proves `HealthyNotFailed` under `ShortHolds`: the fleet is
prompt, and the start delay of every job, or `Lag`, together with
`ReportInterval` is within `StaleAfter`. The code's defaults satisfy it
(orchestrator.ts:13 delays a start by 30 s, cmd/agent/config.go:77 reports every
10 s, spawn.ts:8 waits for 90 s) and `healthy` runs at its boundary; without the bound
the property is false, which is the finding of `longhold`. `HealthInv` follows
`LAST_SEEN` along an agent's way: the poll it waits for has written it before it
answers, even if an older poll of the same agent claimed the row (`WaiterSeen`);
an agent that holds or loads was then heard of lately enough that its next
report, which is not yet overdue, comes before the silence counts
(`AtWorkSeen`). `TimesKnown` says that nobody works with a start, or a
`Date.now()`, that would upset this. An earlier poll of an agent that crashed may
still touch the row; that only makes it younger.

**Seeder.** `SeedInv` says, by phase, what is known of each object of each
bucket to do: planned and still pending, in a worker's hand, counted as failed,
or stored; of buckets skipped, that their sentinel matched; of listings, that
what was seen is stored. From it follow the six theorems listed in
`PROJECT.json`.

**SigningKey.** `SignInv` says that exactly the caller past the write lock is the
writer, and that the cached key belongs to the cached date unless the writer has
derived its key and not yet published the date. The second is what the order of
the two assignments and the lock around them are for, and what makes a read
under the read lock safe. `SigningServesKeys` maps each step to a step of
`KeyService` or a stutter.

**LoadRunner.** That every `[LoadNext]` step is a `[SignNext]` step carries
`ServesKeys` over to the composition. The pacer's invariant is that the sum of
tokens taken, buffered and still to emit, in ticks-per-second-ths, plus the
credit is what the ticks are worth, or less once a token was dropped; it rests
on a token moving only between these three (`TokensConserved`) and on the
division of `PacerTick`. For bursts `BurstInv` bounds the same sum from every
earlier tick on: the channel was at most full then, and a fraction below one
token was carried. `LateInv` counts the workers on the wire: what was
recorded after the stop and what may still be recorded are together never more
than there are workers.

**Histogram.** For any number of sub-bits and buckets, `bucketIndex` stays within
the histogram (`BucketRange`), never swaps two latencies (`BucketMonotone`), and
`bucketValue` is below the latency by less than its sub-bucket's width, short of
the last bucket (`BucketApproximates`). The argument decodes an index: octave
and sub-bucket are the quotient and the remainder by `SubCount`, and the
lexicographic order on the two is the order of indices.

**Reporting.** `Between` says that each counter of a snapshot lies between the
baseline and the counter itself, which only grows; that holds field by field
although no two were read at the same time. For the totals, `TotalsOrdered`
says that no report and no `spawnCount` is above the newest total sent, and that
the report the agent waits for carries exactly that total. `ReportTypesCorrect`
rests on `BucketRange`: every addition goes to a counter that exists.

- `NoIntervalShownTwice`: the reports under way and recorded hold intervals of
  the byte counter that do not overlap, so their sum is at most the newest
  snapshot sent (`IntervalsDisjoint`), wherever each of them is.
- `SnapshotsAreBarelyTorn`: the live counters are out of step by exactly the
  workers that are between two additions (`Live`: a request is counted first,
  then put in its bucket, then in its status). A snapshot is torn by the time
  between two reads, so `Torn` compares what was read with the buckets the
  snapshot will have if nothing more is counted: those read, and the live ones
  for the rest. This mixture only grows, and at the end it is the snapshot.
- `FlushHoldsTheRun`: each counter, plus what the workers still owe it, is the
  sum over all responses observed of what one gives it (`Conserved`). When `Run`
  has returned nobody owes anything and nothing is added while the flush reads
  (`Ended`), so the flush is the run. That the quantile is the latency at its
  rank, up to a sub-bucket's width, follows from the order of the buckets: the
  cumulative count at a bucket is the number of responses up to a latency.

**OperatorPage.** `AnswersNotAhead` extends `ShownNotAhead` to answers still under
way. An answer is not ahead of the job when it is given, also the STOPPING of a
job that was over, and it stays so because the job only moves along the edges of
its lifecycle (`JobMovesOn`).

**Only model-checked.** The liveness properties (`JobsFinish`,
`FleetGoesQuiet`, `Terminates`, `RunReturns`, `PageCatchesUp`), which need
fairness and `ENABLED`. Every invariant and every action property of the passing
runs is a theorem. The strengthenings of `Reporting` and `Fleet` were checked by
TLC on the instances of `reports` and `healthy` before they were proved.

## Not modelled

- Pre-warming of connections, the connection pool and TLS (`newTransport`,
  `Warmup`): they decide how fast requests are, not what is counted.
- The counters that are only logged, means and rates: quotients by measured
  times, read by nobody in the code.
- Configuration parsing, once, before anything else runs, and the signature
  string: computations without state.
- `list_jobs`, `deployment_config`, the forms of `index.html` and the list of
  `jobs.html`: they read and format.
- Terraform and scripts: provisioning.

## Plan

Done: `ControlPlane` with `JobLifecycle`, `Fleet`, `Seeder`, `SigningKey` with
`KeyService`, `LoadRunner`, `Histogram`, `Reporting` and `OperatorPage`, each
with its proofs. What could be added:

1. Several agents in `Reporting`, for the rows `watch_job` groups by spawn.
2. A safety half of the liveness properties as theorems: that after the stop
   the measure each of them descends by (fetches under way, jobs to finalise,
   objects to do) never grows.
