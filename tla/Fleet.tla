-------------------------------- MODULE Fleet --------------------------------
(***************************************************************************)
(* The Go agents of cmd/agent and the control plane they talk to.  An agent *)
(* polls, holds until the shared start, generates load while it reports and *)
(* watches the job, flushes, reports completion and polls again.  Every     *)
(* request it sends is an action of ControlPlane taken together with the    *)
(* agent's own step; any answer may be lost, and the agent may crash or be  *)
(* told to terminate, and is started again under the same id.               *)
(*                                                                          *)
(* The agent waits at most 15 s for an answer.  It need not know how its    *)
(* completion report ended, so it is not made to wait for it here.          *)
(***************************************************************************)
EXTENDS ControlPlane

CONSTANTS
    MaxFaults,      \* crashes and SIGTERMs of the whole fleet
    ReportInterval, \* METRICS_INTERVAL_SECONDS, in ticks of the clock
    Prompt          \* is every request answered, and nobody behind the clock?

ASSUME FleetAssumption ==
    /\ MaxFaults \in Nat /\ Prompt \in BOOLEAN /\ None \notin Calls
    /\ ReportInterval \in Nat \ {0}

VARIABLES
    phase,          \* what each agent is doing
    waiting,        \* the poll whose answer it waits for
    order,          \* the assignment it was given, or will be by that poll
    nextReport,     \* the tick its reportLoop waits for, 0 without a ticker
    leaving,        \* has it received SIGTERM?
    faults

agentVars == <<phase, waiting, order, nextReport, leaving, faults>>
fleetVars == <<vars, agentVars>>

Phases == {"down", "polling", "holding", "loading", "finishing", "completing"}

NoOrder   == [job |-> None, start |-> 0, stop |-> 0]
OrderType == [job : Jobs, start : Nat, stop : Nat] \union {NoOrder}

\* Types, and: only a polling agent waits for an answer, an agent has an order
\* exactly while it waits for one or works on it, and a ticker exactly while it
\* loads.
FleetTypeOK ==
    /\ phase \in [Agents -> Phases]
    /\ waiting \in [Agents -> Calls \union {None}]
    /\ order \in [Agents -> OrderType]
    /\ nextReport \in [Agents -> Nat]
    /\ leaving \in [Agents -> BOOLEAN]
    /\ faults \in 0 .. MaxFaults
    /\ \A a \in Agents :
         /\ waiting[a] # None => phase[a] = "polling"
         /\ order[a] = NoOrder
              <=> phase[a] \in {"down", "polling"} /\ waiting[a] = None
         /\ nextReport[a] # 0 <=> phase[a] = "loading"

FleetInit ==
    /\ Init
    /\ phase = [a \in Agents |-> "down"]
    /\ waiting = [a \in Agents |-> None]
    /\ order = [a \in Agents |-> NoOrder]
    /\ nextReport = [a \in Agents |-> 0]
    /\ leaving = [a \in Agents |-> FALSE]
    /\ faults = 0

Enter(a, p) == phase' = [phase EXCEPT ![a] = p]

\* Mutation: the assignment outlives its execution.
LeaveWithOrder(a) ==
    /\ Enter(a, IF leaving[a] THEN "down" ELSE "polling")
    /\ leaving' = [leaving EXCEPT ![a] = FALSE]
    /\ UNCHANGED <<waiting, order, nextReport, faults>>

\* The order of a is dropped and the main loop goes on, or ends.
Leave(a) ==
    /\ Enter(a, IF leaving[a] THEN "down" ELSE "polling")
    /\ order' = [order EXCEPT ![a] = NoOrder]
    /\ leaving' = [leaving EXCEPT ![a] = FALSE]
    /\ UNCHANGED <<waiting, nextReport, faults>>

-----------------------------------------------------------------------------
(* Polling *)

Boot(a) ==
    /\ phase[a] = "down"
    /\ Enter(a, "polling")
    /\ UNCHANGED <<vars, waiting, order, nextReport, leaving, faults>>

\* The start and stop times of the answer are those of the row read here.
\* Told to idle at once, the agent just polls again.
Poll(a, c) ==
    /\ phase[a] = "polling" /\ waiting[a] = None
    /\ PollSelectJob(c, a)
    /\ \E j \in Jobs :
         /\ call'[c].job = j
         /\ order' = [order EXCEPT ![a] =
                        [job |-> j, start |-> startAt[j], stop |-> stopAt[j]]]
    /\ waiting' = [waiting EXCEPT ![a] = c]
    /\ UNCHANGED <<phase, nextReport, leaving, faults>>

\* The answer is lost or late.
PollFails(a) ==
    /\ ~Prompt /\ waiting[a] # None
    /\ waiting' = [waiting EXCEPT ![a] = None]
    /\ order' = [order EXCEPT ![a] = NoOrder]
    /\ UNCHANGED <<vars, phase, nextReport, leaving, faults>>

\* Mutation: the answer is executed whatever its action is.
ExecuteAnyAnswer(c) ==
    LET told == {a \in Agents : waiting[a] = c /\ call'[c].pc = "idle"} IN
    /\ waiting' = [a \in Agents |-> IF a \in told THEN None ELSE waiting[a]]
    /\ phase' = [a \in Agents |-> IF a \in told THEN "holding" ELSE phase[a]]
    /\ UNCHANGED <<order, nextReport, leaving, faults>>

\* A poll that ends without a "run" answer: idle, or a 503.
Idle(c) ==
    LET told == {a \in Agents : waiting[a] = c /\ call'[c].pc = "idle"} IN
    /\ waiting' = [a \in Agents |-> IF a \in told THEN None ELSE waiting[a]]
    /\ order' = [a \in Agents |-> IF a \in told THEN NoOrder ELSE order[a]]
    /\ UNCHANGED <<phase, nextReport, leaving, faults>>

PollStep(c) ==
    /\ PollSelectSpawn(c) \/ PollTouch(c) \/ PollClaim(c) \/ PollReadSlot(c)
    /\ Idle(c)

\* The "run" answer reaches whoever still waits for it.  execute: an expired
\* assignment is reported complete at once, any other is held.
Run(c) ==
    LET told == {a \in Agents : waiting[a] = c} IN
    /\ PollPromote(c)
    /\ phase' = [a \in Agents |->
                    IF a \notin told THEN phase[a]
                    ELSE IF order[a].stop > clock THEN "holding" ELSE "completing"]
    /\ waiting' = [a \in Agents |-> IF a \in told THEN None ELSE waiting[a]]
    /\ UNCHANGED <<order, nextReport, leaving, faults>>

-----------------------------------------------------------------------------
(* execute *)

\* Warm-up and hold are over; a late joiner does not hold at all.  reportLoop
\* starts its ticker, whose first tick is a whole interval away.
BeginLoad(a) ==
    /\ phase[a] = "holding" /\ clock >= order[a].start
    /\ Enter(a, "loading")
    /\ nextReport' = [nextReport EXCEPT ![a] = clock + ReportInterval]
    /\ UNCHANGED <<vars, waiting, order, leaving, faults>>

\* SIGTERM during the hold: completion is reported without a flush.
HoldInterrupted(a) ==
    /\ phase[a] = "holding" /\ clock < order[a].start /\ leaving[a]
    /\ Enter(a, "completing")
    /\ UNCHANGED <<vars, waiting, order, nextReport, leaving, faults>>

\* The ticks after the one that was due: the ticker's channel holds one that
\* came meanwhile, and drops the others.
LaterTicks(due) ==
    {t \in due + ReportInterval .. clock + ReportInterval :
        (t - due) % ReportInterval = 0}

\* reportLoop: the report arrives or is lost.
Report(a) ==
    /\ phase[a] = "loading" /\ clock >= nextReport[a]
    /\ MetricsBatch(order[a].job, a) \/ (~Prompt /\ UNCHANGED vars)
    /\ \E t \in LaterTicks(nextReport[a]) :
          nextReport' = [nextReport EXCEPT ![a] = t]
    /\ UNCHANGED <<phase, waiting, order, leaving, faults>>

\* The run is over, and with it reportLoop.
Finish(a) ==
    /\ Enter(a, "finishing")
    /\ nextReport' = [nextReport EXCEPT ![a] = 0]
    /\ UNCHANGED <<vars, waiting, order, leaving, faults>>

\* watchStatus: an answer that says the job is over cancels the run; one that
\* is lost is ignored.
WatchStatus(a) ==
    /\ phase[a] = "loading"
    /\ jobStatus[order[a].job] \in {"STOPPING"} \union TERMINAL_STATUSES
    /\ Finish(a)

\* Mutation: the deadline of the run is forgotten.
NoDeadline(a) == FALSE

\* runner.Run: context.WithDeadline at StopAt.
Deadline(a) == clock >= order[a].stop

\* The deadline, or SIGTERM, ends the run by itself.
EndLoad(a) ==
    /\ phase[a] = "loading"
    /\ Deadline(a) \/ leaving[a]
    /\ Finish(a)

\* The final metrics report arrives or is lost.
Flush(a) ==
    /\ phase[a] = "finishing"
    /\ MetricsBatch(order[a].job, a) \/ UNCHANGED vars
    /\ Enter(a, "completing")
    /\ UNCHANGED <<waiting, order, nextReport, leaving, faults>>

\* ReportComplete arrives or is lost.
Complete(a, c) ==
    /\ phase[a] = "completing"
    /\ CompletionRead(c, order[a].job, a) \/ UNCHANGED vars
    /\ Leave(a)

-----------------------------------------------------------------------------
(* Faults *)

\* The first SIGTERM; a poll in flight is cancelled and the loop ends.
Sigterm(a) ==
    /\ faults < MaxFaults
    /\ phase[a] # "down" /\ ~leaving[a]
    /\ faults' = faults + 1
    /\ IF phase[a] = "polling"
       THEN /\ Enter(a, "down")
            /\ waiting' = [waiting EXCEPT ![a] = None]
            /\ order' = [order EXCEPT ![a] = NoOrder]
            /\ UNCHANGED leaving
       ELSE /\ leaving' = [leaving EXCEPT ![a] = TRUE]
            /\ UNCHANGED <<phase, waiting, order>>
    /\ UNCHANGED <<vars, nextReport>>

\* The process dies without a word.
Crash(a) ==
    /\ faults < MaxFaults
    /\ phase[a] # "down"
    /\ faults' = faults + 1
    /\ Enter(a, "down")
    /\ waiting' = [waiting EXCEPT ![a] = None]
    /\ order' = [order EXCEPT ![a] = NoOrder]
    /\ nextReport' = [nextReport EXCEPT ![a] = 0]
    /\ leaving' = [leaving EXCEPT ![a] = FALSE]
    /\ UNCHANGED vars

-----------------------------------------------------------------------------
(* The control plane's own steps *)

\* What a prompt fleet has done before the clock moves on: no poll or report
\* takes a tick, nobody holds past the start or loads past the stop, and the
\* report of a tick that came is sent.
Timely(a) ==
    /\ phase[a] \notin {"finishing", "completing"}
    /\ phase[a] = "holding" => clock < order[a].start
    /\ phase[a] = "loading" => clock < order[a].stop /\ clock < nextReport[a]

FleetTick ==
    /\ Prompt => /\ \A a \in Agents : Timely(a)
                 /\ \A c \in Calls : call[c].pc = "idle"
    /\ Tick
    /\ UNCHANGED agentVars

ServerStep ==
    /\ \/ \E c \in Calls : \/ StartCheck(c) \/ StartInsert(c)
                           \/ CompleteMark(c) \/ CompleteCount(c)
                           \/ CompleteClose(c)
       \/ \E c \in Crons : ReapBegin(c) \/ ReaperStep(c) \/ Abort(c)
       \/ \E j \in Jobs : StopJob(j)
    /\ UNCHANGED agentVars

AgentStep(a) ==
    \/ PollFails(a)
    \/ BeginLoad(a) \/ HoldInterrupted(a) \/ EndLoad(a) \/ Flush(a)
    \/ \E c \in Calls : Complete(a, c)

FleetNext ==
    \/ \E a \in Agents : \/ Boot(a) \/ AgentStep(a)
                         \/ Report(a) \/ WatchStatus(a)
                         \/ Sigterm(a) \/ Crash(a)
                         \/ \E c \in Calls : Poll(a, c)
    \/ \E c \in Calls : PollStep(c) \/ Run(c) \/ (Abort(c) /\ Idle(c))
    \/ ServerStep
    \/ FleetTick

FleetSpec == FleetInit /\ [][FleetNext]_fleetVars

\* Timers fire and requests end within their timeouts, so an agent goes on
\* from every phase but polling.  No answer of the control plane is assumed.
FleetFairSpec ==
    /\ FleetSpec
    /\ WF_fleetVars(FleetTick)
    /\ \A a \in Agents : WF_fleetVars(AgentStep(a))

-----------------------------------------------------------------------------
(* Properties *)

\* The fleet makes no other use of the control plane than ControlPlane allows:
\* it reports only on spawns it was granted, however answers and agents are
\* lost.  What is shown of ControlPlane!Spec is thereby shown of the fleet.
UsesControlPlane == Spec

\* No two agents that hold an order for a job hold the same slot of it, in the
\* database, at any time between the answer and the completion report.
OneAgentPerSlot ==
    \A a, b \in Agents :
        /\ a # b
        /\ {phase[a], phase[b]} \subseteq {"holding", "loading", "finishing"}
        /\ order[a].job = order[b].job
        => slot[order[a].job][a] # slot[order[b].job][b]

\* No sweep takes an agent that is up and at work for "presumed dead"
\* (spawn.ts): true if the start delay and one METRICS_INTERVAL_SECONDS fit in
\* SPAWN_STALE_AFTER_MS and not for longer delays, because an agent reports
\* nothing before its load has run for that interval.
HealthyNotFailed ==
    [][\A a \in Agents :
            LET j == order[a].job IN
            /\ phase[a] \in {"holding", "loading"}
            /\ spawnStatus[j][a] = "RUNNING"
            => spawnStatus'[j][a] # "FAILED"]_fleetVars

\* Once a job is stopped or over, every agent lets go of it for good, even if
\* no status request of watchStatus is ever answered.
FleetGoesQuiet ==
    \A j \in Jobs :
        jobStatus[j] \notin ACTIVE_STATUSES \union {"NONE"}
            ~> [](\A a \in Agents : order[a].job # j)
=============================================================================
