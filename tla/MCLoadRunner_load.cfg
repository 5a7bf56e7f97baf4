\* Two workers over a midnight, a cancellation at any time, ticks enough to fill
\* the channel of the fast order.
SPECIFICATION LoadFairSpec
CONSTANTS
    None = None
    Callers <- TwoWorkers
    MaxDay = 1
    TicksPerSecond = 6
    MaxWorkers = 2
    Assignments <- AnyOrder
    MaxTicks = 6
    MaxRequests = 3
INVARIANTS LoadTypeOK PacedExactly BurstBounded LateCountsBounded
PROPERTIES ServesKeys RunReturns
CHECK_DEADLOCK FALSE
