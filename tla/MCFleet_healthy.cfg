\* A prompt fleet whose hold and first report interval are together as long as a
\* spawn may be silent, with two polls in flight and one restart.
SPECIFICATION FleetSpec
CONSTANTS
    None = None
    MaxAgents = 2
    WorkerCap = 1
    Jobs = {j1}
    Agents = {a1, a2}
    Calls = {c1, c2}
    Crons = {r1}
    Requests <- TwoAgents
    StaleAfter = 3
    FinaliseGrace = 1
    QueuedTimeout = 2
    Lag = 0
    Horizon = 1
    MaxTime = 6
    MayFail = FALSE
    MaxFaults = 1
    ReportInterval = 1
    Prompt = TRUE
INVARIANTS OneAgentPerSlot
PROPERTIES HealthyNotFailed
SYMMETRY Symmetry
