SPECIFICATION FairSpec
CONSTANTS
    j1 = j1
    j2 = j2
    j3 = j3
    Jobs = {j1, j2, j3}
    Limit = 1
    ProcTimeout = 1
    FixDelay = 2
    MaxAttempt = 3
    MaxCrashes = 1
    MaxFailures = 1
INVARIANTS TypeOK DueServed LostNotLong
PROPERTIES Fetched TableSpec
