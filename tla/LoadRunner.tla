----------------------------- MODULE LoadRunner -----------------------------
(***************************************************************************)
(* Runner.Run of cmd/agent/runner.go: the pacer, the channel of tokens and  *)
(* the workers, each of which signs its requests through SigningKey.        *)
(* perTick is the fraction rps / TicksPerSecond, so credit is kept in       *)
(* TicksPerSecond-ths of a token.  Ticks count what the pacer handled; a    *)
(* ticker that finds it busy drops ticks, which only slows the pacer down.  *)
(***************************************************************************)
EXTENDS SigningKey, Integers, FiniteSets

CONSTANTS
    TicksPerSecond,     \* 200 in the code
    MaxWorkers,         \* MAX_WORKERS
    Assignments,        \* what the control plane may ask for
    MaxTicks,           \* bounds the ticks of the pacer
    MaxRequests         \* bounds the requests of an unthrottled run

AssignmentType == [rps : Nat, workers : Int, unthrottled : BOOLEAN]

ASSUME LoadAssumption ==
    /\ {TicksPerSecond, MaxWorkers} \subseteq Nat \ {0}
    /\ Assignments \subseteq AssignmentType
    /\ {MaxTicks, MaxRequests} \subseteq Nat
    /\ Callers = 1 .. MaxWorkers

VARIABLES
    order,          \* the assignment
    ctxDone,        \* the stop time has passed, or the run was cancelled
    \* startPacer
    ticks, credit,
    toEmit,         \* tokens of this tick still to be sent
    buffered,       \* tokens in the channel
    closed,
    \* the workers
    phase,
    requests,       \* how many fetches were begun
    counted,        \* requests recorded in the metrics, errors included
    \* what happened, for the properties
    taken,          \* tokens received by workers
    takenAt,        \* takenAt[t]: taken when tick t was handled
    dropped,        \* was a token ever dropped?
    atStop          \* counted when the context was done

pacerVars == <<ticks, credit, toEmit, closed, takenAt, dropped>>
loadVars  == <<order, ctxDone, pacerVars, buffered, phase, requests, counted,
               taken, atStop>>

\* Run: the number of workers, clamped to what the agent allows.
WorkerCount ==
    IF order.workers <= 0 \/ order.workers > MaxWorkers THEN MaxWorkers
    ELSE order.workers
Workers   == 1 .. WorkerCount
Throttled == ~order.unthrottled /\ order.rps > 0

\* About 20ms of tokens: int(perTick * 4), at least 1.
Capacity ==
    IF 4 * order.rps < TicksPerSecond THEN 1 ELSE (4 * order.rps) \div TicksPerSecond

LoadTypeOK ==
    /\ order \in Assignments
    /\ {ctxDone, closed, dropped} \subseteq BOOLEAN
    /\ ticks \in 0 .. MaxTicks
    /\ {credit, toEmit} \subseteq Nat
    /\ buffered \in 0 .. Capacity
    /\ phase \in [Workers -> {"select", "sign", "wire", "returned"}]
    /\ {requests, counted, taken, atStop} \subseteq Nat
    /\ takenAt \in [0 .. ticks -> Nat]

LoadInit ==
    /\ SignInit
    /\ order \in Assignments
    /\ ctxDone = FALSE /\ closed = FALSE /\ dropped = FALSE
    /\ ticks = 0 /\ credit = 0 /\ toEmit = 0 /\ buffered = 0
    /\ phase = [w \in Workers |-> "select"]
    /\ requests = 0 /\ counted = 0 /\ taken = 0 /\ atStop = 0
    /\ takenAt = [t \in {0} |-> 0]

\* The deadline of Run, or cancel in execute.
Cancel ==
    /\ ~ctxDone
    /\ ctxDone' = TRUE /\ atStop' = counted
    /\ UNCHANGED <<signVars, order, pacerVars, buffered, phase, requests,
                   counted, taken>>

-----------------------------------------------------------------------------
(* startPacer *)

\* What is owed after one more tick, in TicksPerSecond-ths of a token: the
\* whole tokens are emitted, the fraction is carried over.
\* Mutations: the fraction is forgotten; one token is always deducted.
NoCarry      == 0
LessOneToken == (credit + order.rps) - TicksPerSecond

Owed  == credit + order.rps
Emit  == Owed \div TicksPerSecond
Carry == Owed % TicksPerSecond

PacerTick ==
    /\ Throttled /\ ~closed /\ toEmit = 0 /\ ticks < MaxTicks
    /\ ticks' = ticks + 1
    /\ toEmit' = Emit
    /\ credit' = Carry
    /\ takenAt' = [t \in 0 .. ticks + 1 |-> IF t <= ticks THEN takenAt[t] ELSE taken]
    /\ UNCHANGED <<signVars, order, ctxDone, buffered, closed, phase, requests,
                   counted, taken, dropped, atStop>>

\* Consumers are saturated: what could not be sent is not owed any more.
\* Mutation: it is owed to the next tick.
BankedCredit == credit + toEmit * TicksPerSecond

CreditWhenFull == 0

\* One turn of the emitting loop; a full channel ends the loop.
PacerSend ==
    /\ toEmit > 0
    /\ \/ /\ buffered < Capacity
          /\ buffered' = buffered + 1
          /\ toEmit' = toEmit - 1
          /\ UNCHANGED <<credit, dropped>>
       \/ /\ buffered = Capacity
          /\ toEmit' = 0 /\ credit' = CreditWhenFull /\ dropped' = TRUE
          /\ UNCHANGED buffered
    /\ UNCHANGED <<signVars, order, ctxDone, ticks, closed, phase, requests,
                   counted, taken, takenAt, atStop>>

PacerReturn ==
    /\ Throttled /\ ~closed /\ toEmit = 0 /\ ctxDone
    /\ closed' = TRUE
    /\ UNCHANGED <<signVars, order, ctxDone, ticks, credit, toEmit, buffered,
                   phase, requests, counted, taken, takenAt, dropped, atStop>>

-----------------------------------------------------------------------------
(* worker and fetch *)

Move(w, to) == phase' = [phase EXCEPT ![w] = to]

\* fetch signs the request with the date of this moment.
BeginFetch(w) ==
    /\ Move(w, "sign")
    /\ SignBegin(w)
    /\ requests' = requests + 1
    /\ UNCHANGED <<order, ctxDone, pacerVars, counted, atStop>>

TakeToken(w) ==
    /\ phase[w] = "select" /\ Throttled /\ buffered > 0
    /\ buffered' = buffered - 1 /\ taken' = taken + 1
    /\ BeginFetch(w)

GoUnpaced(w) ==
    /\ phase[w] = "select" /\ ~Throttled /\ ~ctxDone
    /\ requests < MaxRequests
    /\ BeginFetch(w)
    /\ UNCHANGED <<buffered, taken>>

\* Mutation: the loop ends with the channel only.
LeaveWhenClosed(w) ==
    /\ phase[w] = "select" /\ closed /\ buffered = 0
    /\ Move(w, "returned")
    /\ UNCHANGED <<signVars, order, ctxDone, pacerVars, buffered, requests,
                   counted, taken, atStop>>

\* The context is done, or the channel closed and drained.  With both a token
\* and the context ready, select takes either.
LeaveLoop(w) ==
    /\ phase[w] = "select"
    /\ ctxDone \/ (closed /\ buffered = 0)
    /\ Move(w, "returned")
    /\ UNCHANGED <<signVars, order, ctxDone, pacerVars, buffered, requests,
                   counted, taken, atStop>>

Sign(w) == SignStep(w) /\ UNCHANGED loadVars

\* Mutation: the request does not carry the context of the run.
SendAnyway(w) ==
    /\ phase[w] = "sign" /\ SignEnd(w)
    /\ Move(w, "wire")
    /\ UNCHANGED <<order, ctxDone, pacerVars, buffered, requests, counted,
                   taken, atStop>>

\* client.Do; under a context that is done it fails at once.
Send(w) ==
    /\ phase[w] = "sign" /\ SignEnd(w)
    /\ Move(w, IF ctxDone THEN "returned" ELSE "wire")
    /\ UNCHANGED <<order, ctxDone, pacerVars, buffered, requests, counted,
                   taken, atStop>>

\* A response, or an error while the run goes on: recorded, and on to the next.
FetchCounted(w) ==
    /\ phase[w] = "wire"
    /\ Move(w, "select")
    /\ counted' = counted + 1
    /\ UNCHANGED <<signVars, order, ctxDone, pacerVars, buffered, requests,
                   taken, atStop>>

\* An error under a context that is done is not a real error.
FetchAborted(w) ==
    /\ phase[w] = "wire" /\ ctxDone
    /\ Move(w, "returned")
    /\ UNCHANGED <<signVars, order, ctxDone, pacerVars, buffered, requests,
                   counted, taken, atStop>>

WorkerStep(w) ==
    \/ TakeToken(w) \/ GoUnpaced(w) \/ LeaveLoop(w)
    \/ Sign(w) \/ Send(w) \/ FetchCounted(w) \/ FetchAborted(w)

NextDay == Midnight /\ UNCHANGED loadVars

LoadNext ==
    \/ NextDay \/ Cancel \/ PacerTick \/ PacerSend \/ PacerReturn
    \/ \E w \in Workers : WorkerStep(w)

vars == <<signVars, loadVars>>

LoadSpec == LoadInit /\ [][LoadNext]_vars

\* A goroutine that can go on does: a request ends within RequestTimeout, a
\* locked section is left, and a select with something ready is taken.
LoadFairSpec == LoadSpec /\ \A w \in Callers : WF_vars(w \in Workers /\ WorkerStep(w))

-----------------------------------------------------------------------------
(* Properties *)

\* "a stalled consumer cannot bank a large backlog and then release it all at
\* once": the tokens taken since any tick t are at most a full channel, what
\* the ticks from t on are worth, and the fraction carried into t.
BurstBounded ==
    \A t \in 0 .. ticks :
        (taken - takenAt[t]) * TicksPerSecond
            < (Capacity + 1) * TicksPerSecond + order.rps * (ticks - t + 1)

\* The open loop, exactly: the tokens sent and the fraction carried are never
\* worth more than the ticks so far, and are worth just as much until a token
\* finds the channel full.  However slow the requests and however sends and
\* receives interleave, only a saturated channel lowers the offered rate.
PacedExactly ==
    LET sent == (taken + buffered + toEmit) * TicksPerSecond + credit
    IN  Throttled => /\ sent <= order.rps * ticks
                     /\ ~dropped => sent = order.rps * ticks

\* After the context is done the workers together record no more requests than
\* there are workers: those on the wire, although select may still hand out
\* tokens.
LateCountsBounded == ctxDone => counted - atStop <= WorkerCount

\* Run returns after the stop, which execute's wg.Wait and final flush wait for.
RunReturns == ctxDone ~> \A w \in Workers : phase[w] = "returned"
=============================================================================
