\* Three runs with any flags, two workers, every PUT may fail or lose its
\* answer, any run may be killed; the seeder is not started a fourth time.
SPECIFICATION FairSpec
CONSTANTS
    None = None
    BucketCount = 2
    MaxKeyspace = 2
    Sizes = {1, 2}
    Options <- EveryFlag
    Workers = {w1, w2}
    Attempts = 2
    PageSize = 1
    MaxRuns = 3
INVARIANTS
    TypeOK SentinelComplete CleanBucketsStamped SuccessIsReadable ForcedIsExact
PROPERTIES RepairOnlyAdds Terminates
CHECK_DEADLOCK FALSE
