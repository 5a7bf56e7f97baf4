\* A prompt fleet whose hold is as long as a spawn may be silent, so that its
\* first report comes too late.
SPECIFICATION FleetFairSpec
CONSTANTS
    None = None
    MaxAgents = 2
    WorkerCap = 1
    Jobs = {j1}
    Agents = {a1, a2}
    Calls = {c1}
    Crons = {r1}
    Requests <- TwoAgents
    StaleAfter = 2
    FinaliseGrace = 1
    QueuedTimeout = 2
    Lag = 0
    Horizon = 1
    MaxTime = 6
    MayFail = FALSE
    MaxFaults = 0
    ReportInterval = 1
    Prompt = TRUE
PROPERTIES HealthyNotFailed
