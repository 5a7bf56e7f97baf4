\* Seeding, then seeding or repairing with another size.
SPECIFICATION Spec
CONSTANTS
    None = None
    BucketCount = 1
    MaxKeyspace = 1
    Sizes = {1, 2}
    Options <- TwoSizes
    Workers = {w1}
    Attempts = 2
    PageSize = 1
    MaxRuns = 3
INVARIANTS SentinelExact
CHECK_DEADLOCK FALSE
