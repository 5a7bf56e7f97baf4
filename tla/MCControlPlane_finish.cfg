\* Liveness: activations may die, the agent may fall silent at any time, and
\* Date.now() may be a tick behind its statement.
SPECIFICATION FairSpec
CONSTANTS
    None = None
    MaxAgents = 2
    WorkerCap = 1
    Jobs = {j1}
    Agents = {a1}
    Calls = {c1}
    Crons = {r1}
    Requests <- SingleOnly
    StaleAfter = 1
    FinaliseGrace = 0
    QueuedTimeout = 1
    Lag = 1
    Horizon = 1
    MaxTime = 3
    MayFail = TRUE
INVARIANTS CompletedHasSpawn
PROPERTIES ImplementsLifecycle JobsFinish
