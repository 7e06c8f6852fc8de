SPECIFICATION FairSpec
CONSTANTS
    None = None
    u1 = u1
    n1 = n1
    n2 = n2
    r1 = r1
    r2 = r2
    w1 = w1
    w2 = w2
    Users = {u1}
    Numbers = {n1, n2}
    ValidNumbers = {n1, n2}
    Requests = {r1, r2}
    Workers = {w1, w2}
    Sums = {1}
    Accruals = {2}
    Unit = 1
    Isolation = "read committed"
    MaxOvertakes = 1
    MaxCrashes = 1
INVARIANTS OverpaymentBounded DecisionShown JobTellsOrder JobsRecoverable
PROPERTIES TableSpec RequestsEnd OrdersSettle
