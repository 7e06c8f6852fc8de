SPECIFICATION FairSpec
CONSTANTS
    None = None
    j1 = j1
    j2 = j2
    w1 = w1
    w2 = w2
    Jobs = {j1, j2}
    Workers = {w1, w2}
    BufferSize = 2
    ConfigTimeout = 1
    MaxStops = 1
    MaxOvertakes = 1
INVARIANTS TypeOK TakenInHand CopiesBounded PauseExcludes
PROPERTIES StopsWhole JobsSettle TableSpec
