\* Two start requests in flight.
SPECIFICATION Spec
CONSTANTS
    None = None
    MaxAgents = 2
    WorkerCap = 1
    Jobs = {j1, j2}
    Agents = {a1}
    Calls = {c1, c2}
    Crons = {r1}
    Requests <- SingleOnly
    StaleAfter = 1
    FinaliseGrace = 1
    QueuedTimeout = 2
    Lag = 0
    Horizon = 1
    MaxTime = 3
    MayFail = FALSE
INVARIANTS OneActiveJob
