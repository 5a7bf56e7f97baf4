\* Two agents for a job of two, an early stop, a fault, activations that die,
\* answers that are lost or late, and sweeps to which every silence is too long.
SPECIFICATION FleetFairSpec
CONSTANTS
    None = None
    MaxAgents = 2
    WorkerCap = 1
    Jobs = {j1}
    Agents = {a1, a2}
    Calls = {c1}
    Crons = {r1}
    Requests <- NoHold
    StaleAfter = 0
    FinaliseGrace = 0
    QueuedTimeout = 0
    Lag = 0
    Horizon = 0
    MaxTime = 1
    MayFail = TRUE
    MaxFaults = 1
    ReportInterval = 1
    Prompt = FALSE
INVARIANTS FleetTypeOK OneAgentPerSlot
PROPERTIES UsesControlPlane FleetGoesQuiet
