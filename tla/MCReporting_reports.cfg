\* Two workers, two ticks and the flush: every snapshot races two recordings,
\* every report may be answered, lost, or late.
SPECIFICATION ReportSpec
CONSTANTS
    SubBits = 1
    NumBuckets = 4
    Workers = {w1, w2}
    Responses <- AnyResponse
    WatchLimit = 2
    MaxRequests = 2
    MaxTicks = 2
    MaxMinute = 1
SYMMETRY Symmetry
INVARIANTS ReportTypeOK DeltasNonNegative SnapshotSkew FlushIsExact NoIntervalTwice
PROPERTIES TotalGoesBackOnlyLate
CHECK_DEADLOCK FALSE
