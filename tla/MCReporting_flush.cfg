\* The same instance with the row of the flush taken for an interval.
SPECIFICATION ReportSpec
CONSTANTS
    SubBits = 1
    NumBuckets = 4
    Workers = {w1, w2}
    Responses <- AnyResponse
    WatchLimit = 2
    MaxRequests = 2
    MaxTicks = 2
    MaxMinute = 1
SYMMETRY Symmetry
INVARIANTS BytesWereTransferred
CHECK_DEADLOCK FALSE
