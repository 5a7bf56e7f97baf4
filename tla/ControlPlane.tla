---------------------------- MODULE ControlPlane ----------------------------
(***************************************************************************)
(* The Cloudflare Worker of src/ as its database sees it.  Each HTTP        *)
(* handler and each cron sweep is an activation that issues D1 statements   *)
(* one at a time; a statement (or a batch) is atomic and everything else    *)
(* may happen between two of them.  One action is one statement, with the   *)
(* JavaScript that runs before the next await.                              *)
(*                                                                          *)
(* Read-only handlers (watch_job, list_jobs, deployment_config,             *)
(* get_internal_job_status) and requests refused by require_admin,          *)
(* verify_agent_token or the validation of start_job issue no write: they   *)
(* are stuttering steps.                                                    *)
(***************************************************************************)
EXTENDS Integers, FiniteSets, Functions

CONSTANTS
    Jobs,           \* job ids crypto.randomUUID may return
    Agents,         \* agent ids, the VM instance names
    Calls,          \* HTTP handler activations that may be in flight
    Crons,          \* cron activations that may be in flight
    Requests,       \* start requests an operator may send
    None,           \* no job, no agent
    MaxAgents,      \* MAX_AGENTS_PER_JOB
    WorkerCap,      \* MAX_WORKERS_PER_AGENT, 0 when the deployment has none
    StaleAfter,     \* SPAWN_STALE_AFTER_MS, in ticks
    FinaliseGrace,  \* JOB_FINALISE_GRACE_MS, in ticks
    QueuedTimeout,  \* QUEUED_WITHOUT_AGENTS_TIMEOUT_MS, in ticks
    Lag,            \* ticks between Date.now() and the statement it is bound to
    Horizon,        \* operators start and stop jobs until this tick
    MaxTime,        \* the clock stops here
    MayFail         \* may an activation die between two statements?

\* A start request after Math.floor; a field that is missing and has no
\* default, or not a number, is a 0 (a -1 for the delay): refused alike.
RequestType == [rps : Int, agents : Int, workers : Int, duration : Int,
                delay : Int, unthrottled : BOOLEAN]

NoRequest == [rps |-> 0, agents |-> 0, workers |-> 0, duration |-> 0,
              delay |-> 0, unthrottled |-> FALSE]

ASSUME ConstantsAssumption ==
    /\ IsFiniteSet(Agents)
    /\ None \notin Jobs \union Agents
    /\ Calls \intersect Crons = {}
    /\ Requests \subseteq RequestType
    /\ {MaxAgents, WorkerCap, StaleAfter, FinaliseGrace, QueuedTimeout,
        Lag, Horizon, MaxTime} \subseteq Nat
    /\ MayFail \in BOOLEAN

VARIABLES
    clock,          \* real time, in ticks
    \* Table JOBS, a function per column.
    jobStatus, req, startAt, stopAt, createdAt,
    \* Table JOB_SPAWNS, keyed by (job, agent) as SPAWN_ID is.
    spawnStatus, slot, lastSeen,
    call,           \* the local state of each activation
    grants          \* the "run" responses handed out so far

jobVars   == <<jobStatus, req, startAt, stopAt, createdAt>>
spawnVars == <<spawnStatus, slot, lastSeen>>
vars      == <<clock, jobVars, spawnVars, call, grants>>

-----------------------------------------------------------------------------
(* Status classes *)

TERMINAL_STATUSES == {"COMPLETED", "STOPPED", "FAILED"}
ACTIVE_STATUSES   == {"QUEUED", "RUNNING"}
LIVE_STATUSES     == ACTIVE_STATUSES \union {"STOPPING"}
JobStatuses       == {"NONE"} \union LIVE_STATUSES \union TERMINAL_STATUSES
SpawnStatuses     == {"NONE", "RUNNING"} \union TERMINAL_STATUSES

(* Activations *)

HandlerPcs == {"start_insert", "poll_spawn", "poll_touch", "poll_claim",
               "poll_read", "poll_promote",
               "complete_mark", "complete_count", "complete_close"}
ReaperPcs  == {"reap_stale", "reap_select", "reap_count", "reap_finalise",
               "reap_orphans", "reap_stopping"}

\* A call's locals: the job and agent it serves, a status it read or will
\* write, Date.now(), the STOP_AT it read, the slot it will answer, the
\* expired jobs left to finalise, the start request.  A local goes back to its
\* value in NoCall once the handler has no more use for it.
CallType ==
    [pc : {"idle"} \union HandlerPcs \union ReaperPcs,
     job : Jobs \union {None}, agent : Agents \union {None},
     status : JobStatuses, now : Nat, until : Nat, slot : Nat,
     todo : SUBSET Jobs, req : Requests \union {NoRequest}]

NoCall == [pc |-> "idle", job |-> None, agent |-> None, status |-> "NONE",
           now |-> 0, until |-> 0, slot |-> 0, todo |-> {}, req |-> NoRequest]

GrantType == [job : Jobs, agent : Agents, slot : Nat, rps : Int]

\* The activation goes on with locals l; it ends.
Goto(c, l) == call' = [call EXCEPT ![c] = l]
Return(c)  == Goto(c, NoCall)

(* Queries *)

SpawnsOf(j)  == {a \in Agents : spawnStatus[j][a] # "NONE"}
RunningOf(j) == {a \in Agents : spawnStatus[j][a] = "RUNNING"}

\* What Date.now() may have been just before a statement that runs now.
Stamps == {t \in 0..clock : clock <= t + Lag}

-----------------------------------------------------------------------------
Init ==
    /\ clock = 0
    /\ jobStatus = [j \in Jobs |-> "NONE"]
    /\ req = [j \in Jobs |-> NoRequest]
    /\ startAt = [j \in Jobs |-> 0]
    /\ stopAt = [j \in Jobs |-> 0]
    /\ createdAt = [j \in Jobs |-> 0]
    /\ spawnStatus = [j \in Jobs |-> [a \in Agents |-> "NONE"]]
    /\ slot = [j \in Jobs |-> [a \in Agents |-> 0]]
    /\ lastSeen = [j \in Jobs |-> [a \in Agents |-> 0]]
    /\ call = [c \in Calls \union Crons |-> NoCall]
    /\ grants = {}

-----------------------------------------------------------------------------
(* start_job *)

ValidRequest(q) ==
    /\ q.rps > 0 /\ q.agents > 0 /\ q.workers > 0 /\ q.duration > 0
    /\ q.delay >= 0
    /\ q.agents <= MaxAgents
    /\ q.unthrottled \/ q.rps >= q.agents
    /\ WorkerCap = 0 \/ q.workers <= WorkerCap

\* SELECT of a live job; one found, the request is refused.  Jobs bounds how
\* many are started: an id must be left.
StartCheck(c) ==
    /\ call[c].pc = "idle"
    /\ clock <= Horizon
    /\ \A j \in Jobs : jobStatus[j] \notin LIVE_STATUSES
    /\ \E j \in Jobs : jobStatus[j] = "NONE"
    /\ \E q \in Requests :
        /\ ValidRequest(q)
        /\ Goto(c, [NoCall EXCEPT !.pc = "start_insert", !.req = q, !.now = clock])
    /\ UNCHANGED <<clock, jobVars, spawnVars, grants>>

\* Date.now() is read at some time since the SELECT; CREATED_AT is the
\* database's own current_timestamp.
StartInsert(c) ==
    /\ call[c].pc = "start_insert"
    /\ \E j \in Jobs, now \in call[c].now..clock :
        LET q == call[c].req IN
        /\ jobStatus[j] = "NONE"
        /\ jobStatus' = [jobStatus EXCEPT ![j] = "QUEUED"]
        /\ req' = [req EXCEPT ![j] = q]
        /\ startAt' = [startAt EXCEPT ![j] = now + q.delay]
        /\ stopAt' = [stopAt EXCEPT ![j] = now + q.delay + q.duration]
        /\ createdAt' = [createdAt EXCEPT ![j] = clock]
    /\ Return(c)
    /\ UNCHANGED <<clock, spawnVars, grants>>

(* stop_job: one guarded UPDATE, which also moves the job's window. *)
StopJob(j) ==
    /\ clock <= Horizon
    /\ jobStatus[j] \in LIVE_STATUSES
    /\ jobStatus' = [jobStatus EXCEPT ![j] = "STOPPING"]
    /\ \E now \in Stamps : stopAt' = [stopAt EXCEPT ![j] = now]
    /\ UNCHANGED <<clock, req, startAt, createdAt, spawnVars, call, grants>>

-----------------------------------------------------------------------------
(* agent_poll *)

\* Mutation: the remainder goes to one slot too many.
RemainderPlusOne(targetRPS, agents, s) ==
    IF agents <= 0 THEN 0
    ELSE (targetRPS \div agents) + (IF s <= targetRPS % agents THEN 1 ELSE 0)

rps_for_slot(targetRPS, agents, s) ==
    IF agents <= 0 THEN 0
    ELSE (targetRPS \div agents) + (IF s < targetRPS % agents THEN 1 ELSE 0)

\* The oldest active job; CREATED_AT has one-second resolution, so any of
\* those created together may come first.
OldestActive(j) ==
    /\ jobStatus[j] \in ACTIVE_STATUSES
    /\ \A k \in Jobs : jobStatus[k] \in ACTIVE_STATUSES
                        => createdAt[j] <= createdAt[k]

\* With no active job the agent is told to idle: a stutter.
PollSelectJob(c, a) ==
    /\ call[c].pc = "idle"
    /\ \E j \in Jobs :
        /\ OldestActive(j)
        /\ Goto(c, [NoCall EXCEPT !.pc = "poll_spawn", !.job = j, !.agent = a,
                               !.status = jobStatus[j], !.until = stopAt[j],
                               !.now = clock])
    /\ UNCHANGED <<clock, jobVars, spawnVars, grants>>

\* The window check on the STOP_AT read before, then the SELECT of the
\* agent's own spawn.
PollSelectSpawn(c) ==
    LET j == call[c].job
        a == call[c].agent
    IN
    /\ call[c].pc = "poll_spawn"
    /\ \E now \in call[c].now..clock :
        \/ /\ now >= call[c].until
           /\ Return(c)
        \/ /\ now < call[c].until
           /\ spawnStatus[j][a] \notin {"NONE", "RUNNING"}
           /\ Return(c)
        \/ /\ now < call[c].until
           /\ spawnStatus[j][a] = "RUNNING"
           /\ Goto(c, [call[c] EXCEPT !.pc = "poll_touch", !.now = now,
                                   !.until = 0, !.slot = slot[j][a]])
        \/ /\ now < call[c].until
           /\ spawnStatus[j][a] = "NONE"
           /\ Goto(c, [call[c] EXCEPT !.pc = "poll_claim", !.now = now,
                                   !.until = 0])
    /\ UNCHANGED <<clock, jobVars, spawnVars, grants>>

\* Mutation: reconnecting puts the spawn back to RUNNING.
ReviveTouch(c) ==
    /\ call[c].pc = "poll_touch"
    /\ lastSeen' = [lastSeen EXCEPT ![call[c].job][call[c].agent] = call[c].now]
    /\ spawnStatus' = [spawnStatus EXCEPT ![call[c].job][call[c].agent] = "RUNNING"]
    /\ Goto(c, [call[c] EXCEPT !.pc = "poll_promote", !.now = 0])
    /\ UNCHANGED <<clock, jobVars, slot, grants>>

\* A reconnecting agent: LAST_SEEN is written whatever the row holds by now.
PollTouch(c) ==
    /\ call[c].pc = "poll_touch"
    /\ lastSeen' = [lastSeen EXCEPT ![call[c].job][call[c].agent] = call[c].now]
    /\ Goto(c, [call[c] EXCEPT !.pc = "poll_promote", !.now = 0])
    /\ UNCHANGED <<clock, jobVars, spawnStatus, slot, grants>>

\* The conditional INSERT: the slot is the number of rows the job has, the
\* row is only added below AGENTS, and an existing SPAWN_ID is left alone.
\* Mutations: the slot is numbered from the running rows only; from -1; it is
\* the highest one taken.
ClaimRunningSlot(j) == Cardinality(RunningOf(j))
ClaimPreviousSlot(j) == Cardinality(SpawnsOf(j)) - 1
ClaimHighestSlot(j) == IF SpawnsOf(j) = {} THEN 0 ELSE Cardinality(SpawnsOf(j)) - 1

ClaimSlot(j)   == Cardinality(SpawnsOf(j))
CanClaim(j, a) == /\ Cardinality(SpawnsOf(j)) < req[j].agents
                  /\ spawnStatus[j][a] = "NONE"

PollClaim(c) ==
    LET j == call[c].job
        a == call[c].agent
    IN
    /\ call[c].pc = "poll_claim"
    /\ IF CanClaim(j, a)
       THEN /\ spawnStatus' = [spawnStatus EXCEPT ![j][a] = "RUNNING"]
            /\ slot' = [slot EXCEPT ![j][a] = ClaimSlot(j)]
            /\ lastSeen' = [lastSeen EXCEPT ![j][a] = call[c].now]
       ELSE UNCHANGED spawnVars
    /\ Goto(c, [call[c] EXCEPT !.pc = "poll_read", !.now = 0])
    /\ UNCHANGED <<clock, jobVars, grants>>

\* Mutation: the slot answered is worked out from the number of rows.
CountedSlot(j, a) == Cardinality(SpawnsOf(j)) - 1

\* SELECT SLOT of the claimed row; no row means the job is fully staffed.
ClaimedSlot(j, a) == slot[j][a]

PollReadSlot(c) ==
    LET j == call[c].job
        a == call[c].agent
    IN
    /\ call[c].pc = "poll_read"
    /\ \/ /\ spawnStatus[j][a] = "NONE"
          /\ Return(c)
       \/ /\ spawnStatus[j][a] # "NONE"
          /\ Goto(c, [call[c] EXCEPT !.pc = "poll_promote",
                                  !.slot = ClaimedSlot(j, a)])
    /\ UNCHANGED <<clock, jobVars, spawnVars, grants>>

\* Mutation: the UPDATE has no condition on STATUS.
PromoteAnyway(j, seen) ==
    jobStatus' = IF seen = "QUEUED" THEN [jobStatus EXCEPT ![j] = "RUNNING"]
                                    ELSE jobStatus

\* The guarded promotion, issued only when the job was read QUEUED.
Promote(j, seen) ==
    jobStatus' = IF seen = "QUEUED" /\ jobStatus[j] = "QUEUED"
                 THEN [jobStatus EXCEPT ![j] = "RUNNING"]
                 ELSE jobStatus

\* The promotion and the "run" response.
PollPromote(c) ==
    LET j == call[c].job IN
    /\ call[c].pc = "poll_promote"
    /\ Promote(j, call[c].status)
    /\ grants' = grants \union
            {[job |-> j, agent |-> call[c].agent, slot |-> call[c].slot,
              rps |-> rps_for_slot(req[j].rps, req[j].agents, call[c].slot)]}
    /\ Return(c)
    /\ UNCHANGED <<clock, req, startAt, stopAt, createdAt, spawnVars>>

-----------------------------------------------------------------------------
(* Callbacks.  An agent reports on a spawn it was granted, at any time      *)
(* since: reports may be late, repeated, or come after the reaper has acted.*)

Granted(j, a) == \E g \in grants : g.job = j /\ g.agent = a

\* record_benchmark_metrics: one batch; of what it writes, LAST_SEEN is what
\* the control plane itself reads.
MetricsBatch(j, a) ==
    /\ \E now \in Stamps : lastSeen' = [lastSeen EXCEPT ![j][a] = now]
    /\ UNCHANGED <<clock, jobVars, spawnStatus, slot, call, grants>>

RecordMetrics(j, a) == Granted(j, a) /\ MetricsBatch(j, a)

\* complete_benchmark_spawn with an error: one batch.
CompleteError(j, a) ==
    /\ Granted(j, a)
    /\ spawnStatus' = [spawnStatus EXCEPT ![j][a] = "FAILED"]
    /\ jobStatus' = [jobStatus EXCEPT ![j] =
            IF @ \in ACTIVE_STATUSES THEN "FAILED" ELSE @]
    /\ UNCHANGED <<clock, req, startAt, stopAt, createdAt, slot, lastSeen,
                   call, grants>>

\* ... and without one: the job's status decides once, here, what both the
\* spawn and the job will be marked.
CompletionRead(c, j, a) ==
    /\ call[c].pc = "idle"
    /\ Goto(c, [NoCall EXCEPT !.pc = "complete_mark", !.job = j, !.agent = a,
                           !.status = IF jobStatus[j] \in {"STOPPING", "STOPPED"}
                                      THEN "STOPPED" ELSE "COMPLETED"])
    /\ UNCHANGED <<clock, jobVars, spawnVars, grants>>

CompleteRead(c, j, a) == Granted(j, a) /\ CompletionRead(c, j, a)

CompleteMark(c) ==
    /\ call[c].pc = "complete_mark"
    /\ spawnStatus' = [spawnStatus EXCEPT ![call[c].job][call[c].agent] =
                            call[c].status]
    /\ Goto(c, [call[c] EXCEPT !.pc = "complete_count"])
    /\ UNCHANGED <<clock, jobVars, slot, lastSeen, grants>>

\* Mutation: the job waits for as many completions as it has slots.
EverySlotLanded(j) ==
    Cardinality({a \in SpawnsOf(j) : spawnStatus[j][a] # "RUNNING"}) = req[j].agents

LastLanded(j) == RunningOf(j) = {}

CompleteCount(c) ==
    /\ call[c].pc = "complete_count"
    /\ \/ /\ ~LastLanded(call[c].job)
          /\ Return(c)
       \/ /\ LastLanded(call[c].job)
          /\ Goto(c, [call[c] EXCEPT !.pc = "complete_close"])
    /\ UNCHANGED <<clock, jobVars, spawnVars, grants>>

\* Mutation: the UPDATE has no condition on STATUS.
CloseAnyway(status, outcome) == outcome

\* What the guarded UPDATE of JOBS, here and in the sweep, makes of a status.
Close(status, outcome) == IF status \in LIVE_STATUSES THEN outcome ELSE status

CompleteClose(c) ==
    /\ call[c].pc = "complete_close"
    /\ jobStatus' = [jobStatus EXCEPT ![call[c].job] = Close(@, call[c].status)]
    /\ Return(c)
    /\ UNCHANGED <<clock, req, startAt, stopAt, createdAt, spawnVars, grants>>

-----------------------------------------------------------------------------
(* reap_jobs, the cron sweep.  Its Date.now() is read once, at the start.   *)

ReapBegin(c) ==
    /\ call[c].pc = "idle"
    /\ Goto(c, [NoCall EXCEPT !.pc = "reap_stale", !.now = clock])
    /\ UNCHANGED <<clock, jobVars, spawnVars, grants>>

\* Mutation: silent for exactly the limit is silent for too long.
StaleAtLimit(seen, now) == seen + StaleAfter <= now

Stale(seen, now) == seen + StaleAfter < now

\* 1. Fail the spawns that stopped reporting.
ReapStale(c) ==
    /\ call[c].pc = "reap_stale"
    /\ spawnStatus' = [j \in Jobs |-> [a \in Agents |->
            IF /\ spawnStatus[j][a] = "RUNNING"
               /\ Stale(lastSeen[j][a], call[c].now)
            THEN "FAILED" ELSE spawnStatus[j][a]]]
    /\ Goto(c, [call[c] EXCEPT !.pc = "reap_select"])
    /\ UNCHANGED <<clock, jobVars, slot, lastSeen, grants>>

\* 2. Finalise the jobs whose window has closed, one after the other.
\* Mutation: only the jobs an agent is known to have joined are finalised.
ExpiredStarted(now) == {j \in Jobs : /\ jobStatus[j] \in {"RUNNING", "STOPPING"}
                                     /\ stopAt[j] + FinaliseGrace < now}

Expired(now) == {j \in Jobs : /\ jobStatus[j] \in LIVE_STATUSES
                              /\ stopAt[j] + FinaliseGrace < now}

\* Where the loop over the expired jobs goes when `left` are still to do.
LoopPc(left) == IF left = {} THEN "reap_orphans" ELSE "reap_count"

ReapSelect(c) ==
    /\ call[c].pc = "reap_select"
    /\ LET expired == Expired(call[c].now) IN
       Goto(c, [call[c] EXCEPT !.pc = LoopPc(expired), !.todo = expired])
    /\ UNCHANGED <<clock, jobVars, spawnVars, grants>>

\* Mutation: the slots on offer are counted, not the spawns.
OfferedOutcome(j) == IF req[j].agents > 0 THEN "COMPLETED" ELSE "FAILED"

\* A job that never had a spawn failed; any other completed.
Outcome(j) == IF SpawnsOf(j) # {} THEN "COMPLETED" ELSE "FAILED"

ReapCount(c) ==
    /\ call[c].pc = "reap_count"
    /\ \E j \in call[c].todo :
        Goto(c, [call[c] EXCEPT !.pc = "reap_finalise", !.job = j,
                             !.status = Outcome(j)])
    /\ UNCHANGED <<clock, jobVars, spawnVars, grants>>

ReapFinalise(c) ==
    LET j    == call[c].job
        left == call[c].todo \ {j}
    IN
    /\ call[c].pc = "reap_finalise"
    /\ spawnStatus' = [spawnStatus EXCEPT ![j] = [a \in Agents |->
            IF spawnStatus[j][a] = "RUNNING" THEN "COMPLETED"
                                             ELSE spawnStatus[j][a]]]
    /\ jobStatus' = [jobStatus EXCEPT ![j] = Close(@, call[c].status)]
    /\ Goto(c, [call[c] EXCEPT !.pc = LoopPc(left), !.todo = left,
                            !.job = None, !.status = "NONE"])
    /\ UNCHANGED <<clock, req, startAt, stopAt, createdAt, slot, lastSeen, grants>>

\* 3. Fail the jobs that attracted no agent.
ReapOrphans(c) ==
    /\ call[c].pc = "reap_orphans"
    /\ jobStatus' = [j \in Jobs |->
            IF /\ jobStatus[j] = "QUEUED"
               /\ startAt[j] + QueuedTimeout < call[c].now
               /\ SpawnsOf(j) = {}
            THEN "FAILED" ELSE jobStatus[j]]
    /\ Goto(c, [call[c] EXCEPT !.pc = "reap_stopping", !.now = 0])
    /\ UNCHANGED <<clock, req, startAt, stopAt, createdAt, spawnVars, grants>>

\* 4. Close the stopping jobs that have no running spawn left.
ReapStopping(c) ==
    /\ call[c].pc = "reap_stopping"
    /\ jobStatus' = [j \in Jobs |->
            IF jobStatus[j] = "STOPPING" /\ RunningOf(j) = {}
            THEN "STOPPED" ELSE jobStatus[j]]
    /\ Return(c)
    /\ UNCHANGED <<clock, req, startAt, stopAt, createdAt, spawnVars, grants>>

-----------------------------------------------------------------------------
\* A D1 error or a lost isolate ends an activation between two statements:
\* fetch answers 503, scheduled logs; nothing is undone.
Abort(c) ==
    /\ MayFail
    /\ call[c].pc # "idle"
    /\ Return(c)
    /\ UNCHANGED <<clock, jobVars, spawnVars, grants>>

\* An INSERT in flight at the horizon lands before the clock moves on.
Tick ==
    /\ clock < MaxTime
    /\ clock = Horizon => \A c \in Calls : call[c].pc # "start_insert"
    /\ clock' = clock + 1
    /\ UNCHANGED <<jobVars, spawnVars, call, grants>>

HandlerStep(c) ==
    \/ StartInsert(c)
    \/ PollSelectSpawn(c) \/ PollTouch(c) \/ PollClaim(c)
    \/ PollReadSlot(c) \/ PollPromote(c)
    \/ CompleteMark(c) \/ CompleteCount(c) \/ CompleteClose(c)

ReaperStep(c) ==
    \/ ReapStale(c) \/ ReapSelect(c) \/ ReapCount(c) \/ ReapFinalise(c)
    \/ ReapOrphans(c) \/ ReapStopping(c)

Next ==
    \/ \E c \in Calls :
        \/ StartCheck(c)
        \/ \E a \in Agents : PollSelectJob(c, a)
        \/ \E j \in Jobs, a \in Agents : CompleteRead(c, j, a)
        \/ HandlerStep(c)
    \/ \E c \in Crons : ReapBegin(c) \/ ReaperStep(c)
    \/ \E c \in Calls \union Crons : Abort(c)
    \/ \E j \in Jobs : StopJob(j)
    \/ \E j \in Jobs, a \in Agents : RecordMetrics(j, a) \/ CompleteError(j, a)
    \/ Tick

Spec == Init /\ [][Next]_vars

\* Time passes, the cron trigger fires every minute, and although any sweep
\* may die between two statements, not every sweep dies at the same one.
Fairness ==
    /\ WF_vars(Tick)
    /\ \A c \in Crons : /\ WF_vars(ReapBegin(c))
                        /\ SF_vars(ReapStale(c))
                        /\ SF_vars(ReapSelect(c))
                        /\ SF_vars(ReapCount(c))
                        /\ SF_vars(ReapFinalise(c))
                        /\ SF_vars(ReapOrphans(c))
                        /\ SF_vars(ReapStopping(c))

FairSpec == Spec /\ Fairness
-----------------------------------------------------------------------------
(* Properties *)

\* Every column, local and grant has its type (the tables of migrations/).
TypeOK ==
    /\ clock \in Nat
    /\ jobStatus \in [Jobs -> JobStatuses]
    /\ req \in [Jobs -> Requests \union {NoRequest}]
    /\ startAt \in [Jobs -> Nat]
    /\ stopAt \in [Jobs -> Nat]
    /\ createdAt \in [Jobs -> Nat]
    /\ spawnStatus \in [Jobs -> [Agents -> SpawnStatuses]]
    /\ slot \in [Jobs -> [Agents -> Nat]]
    /\ lastSeen \in [Jobs -> [Agents -> Nat]]
    /\ call \in [Calls \union Crons -> CallType]
    /\ grants \subseteq GrantType

\* The locals an activation relies on after an await, by the point it is at.
LocalOK(l) ==
    /\ l.pc = "start_insert" => ValidRequest(l.req)
    /\ l.pc \in HandlerPcs \ {"start_insert"} => l.job \in Jobs /\ l.agent \in Agents
    /\ l.pc \in {"complete_mark", "complete_count", "complete_close"}
        => l.status \in {"COMPLETED", "STOPPED"}
    /\ l.pc = "reap_finalise"
        => l.job \in Jobs /\ l.status \in {"COMPLETED", "FAILED"}

LocalsOK == \A c \in Calls \union Crons : LocalOK(call[c])

\* The slots of a job are exactly 0..n-1 for its n spawns, no two spawns share
\* one and n never exceeds AGENTS, however polls, retries and sweeps
\* interleave: the conditional INSERT of agent_poll needs no transaction and
\* the UNIQUE index on (JOB_ID, SLOT) never rejects it.
SlotsDense ==
    \A j \in Jobs :
        /\ Cardinality(SpawnsOf(j)) <= req[j].agents
        /\ \A a \in SpawnsOf(j) : slot[j][a] < Cardinality(SpawnsOf(j))
        /\ \A a, b \in SpawnsOf(j) : slot[j][a] = slot[j][b] => a = b

\* What an agent was told to run is what the database says it holds: the slot
\* of a "run" response is the slot of the agent's row, although it was read
\* statements earlier, and the rate is that slot's share of the job's RPS.
GrantsMatch ==
    \A g \in grants :
        /\ spawnStatus[g.job][g.agent] # "NONE"
        /\ g.slot = slot[g.job][g.agent]
        /\ g.rps = rps_for_slot(req[g.job].rps, req[g.job].agents, g.slot)

\* The rates handed out for a job add up to at most its RPS, to exactly its RPS
\* once every slot is granted, and unless the job is unthrottled each of them
\* is positive: rps_for_slot over the slots of the database, not of one poll.
RateIsShared ==
    \A j \in Jobs :
        LET mine == {g \in grants : g.job = j}
            sum  == SumFunctionOnSet([g \in grants |-> g.rps], mine)
        IN  /\ sum <= req[j].rps
            /\ Cardinality(mine) = req[j].agents => sum = req[j].rps
            /\ \A g \in mine : req[j].unthrottled \/ g.rps >= 1

\* A job shown as RUNNING or COMPLETED had at least one agent; one that no
\* agent ever joined ends FAILED or STOPPED (the comment in rule 2 of
\* reap_jobs), even when the sweep counted spawns before another moved on.
CompletedHasSpawn ==
    \A j \in Jobs : jobStatus[j] \in {"RUNNING", "COMPLETED"} => SpawnsOf(j) # {}

\* complete_benchmark_spawn closes the job "once the last one lands": when the
\* spawns of a live job have all reported completion, some report is about to
\* count them and close the job, so concurrent last reports cannot each leave
\* the closing to the other.  Only an activation that dies can break this.
LastOneCloses ==
    \A j \in Jobs :
        /\ ~MayFail
        /\ jobStatus[j] \in LIVE_STATUSES
        /\ SpawnsOf(j) # {}
        /\ \A a \in SpawnsOf(j) : spawnStatus[j][a] \in {"COMPLETED", "STOPPED"}
        => \E c \in Calls : /\ call[c].pc \in {"complete_count", "complete_close"}
                            /\ call[c].job = j

\* A row of JOB_SPAWNS keeps its slot for good and a spawn that left RUNNING
\* never runs again, although two polls of one agent may race to insert it.
SpawnsNeverRevive ==
    [][\A j \in Jobs, a \in Agents :
            spawnStatus[j][a] # "NONE"
            => /\ slot'[j][a] = slot[j][a]
               /\ spawnStatus'[j][a] # "NONE"
               /\ spawnStatus'[j][a] = "RUNNING" => spawnStatus[j][a] = "RUNNING"
      ]_vars

\* Every write of JOBS.STATUS, by whichever handler and however stale what it
\* read, moves the job along an edge of the lifecycle: a finished job is never
\* reopened or relabelled, and STOPPED is only reached through STOPPING.
Lifecycle == INSTANCE JobLifecycle WITH Jobs <- Jobs, jobStatus <- jobStatus
ImplementsLifecycle == Lifecycle!Spec

\* No job stays live for ever: with the cron firing, every job that was queued
\* is closed, whatever became of its agents and of single sweeps.
JobsFinish ==
    \A j \in Jobs : jobStatus[j] \in LIVE_STATUSES
                     ~> jobStatus[j] \in TERMINAL_STATUSES

-----------------------------------------------------------------------------
(* Why the races are harmless: what an activation read before an await and  *)
(* still relies on after it stays true of the tables.                       *)

\* The reads of activation l, against the tables js, ss and sl.
ReadsHold(l, js, ss, sl) ==
    /\ l.pc \in {"poll_spawn", "poll_touch", "poll_claim", "poll_read", "poll_promote"}
        => js[l.job] # "NONE"
    /\ l.pc \in {"poll_touch", "poll_promote"}
        => ss[l.job][l.agent] # "NONE" /\ l.slot = sl[l.job][l.agent]
    /\ l.pc \in {"complete_mark", "complete_count", "complete_close"}
        => /\ ss[l.job][l.agent] # "NONE"
           /\ l.status = "STOPPED" => js[l.job] \in {"STOPPING"} \union TERMINAL_STATUSES
    /\ l.pc = "reap_finalise" /\ l.status = "COMPLETED"
        => \E a \in Agents : ss[l.job][a] # "NONE"

AllReadsHold == \A c \in Calls \union Crons :
                    ReadsHold(call[c], jobStatus, spawnStatus, slot)

SpawnsNeedJob ==
    \A j \in Jobs, a \in Agents : spawnStatus[j][a] # "NONE" => jobStatus[j] # "NONE"

\* A job that was started has a request that passed the validation of start_job.
RequestsValid == \A j \in Jobs : req[j] = NoRequest \/ ValidRequest(req[j])

-----------------------------------------------------------------------------
(* What comments and tests say, and the code does not guarantee. *)

\* orchestrator.ts:171, "Only one job may be active at a time".
OneActiveJob ==
    \A j, k \in Jobs : /\ jobStatus[j] \in LIVE_STATUSES
                       /\ jobStatus[k] \in LIVE_STATUSES
                       => j = k
=============================================================================
