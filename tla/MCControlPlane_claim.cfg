\* Three agents race for two slots, in two polls at a time.
SPECIFICATION Spec
CONSTANTS
    None = None
    MaxAgents = 2
    WorkerCap = 1
    Jobs = {j1}
    Agents = {a1, a2, a3}
    Calls = {c1, c2}
    Crons = {r1}
    Requests <- ShareCases
    StaleAfter = 1
    FinaliseGrace = 1
    QueuedTimeout = 2
    Lag = 0
    Horizon = 0
    MaxTime = 1
    MayFail = FALSE
SYMMETRY Symmetry
INVARIANTS TypeOK SlotsDense GrantsMatch RateIsShared LastOneCloses
PROPERTIES SpawnsNeverRevive
