SPECIFICATION Spec
CONSTANTS
    None = None
    u1 = u1
    u2 = u2
    n1 = n1
    n2 = n2
    n3 = n3
    r1 = r1
    r2 = r2
    r3 = r3
    w1 = w1
    w2 = w2
    bad = bad
    Users = {u1, u2}
    Numbers = {n1, n2, n3, bad}
    ValidNumbers = {n1, n2, n3}
    Requests = {r1, r2, r3}
    Workers = {w1, w2}
    Sums = {0, 1, 2}
    Accruals <- MixedAccruals
    Unit = 1
    Isolation = "read committed"
    MaxOvertakes = 0
    MaxCrashes = 1
SYMMETRY Symmetry
INVARIANTS TypeOK CreditedOnce NotMoreThanGranted Receipts OneHolder ReadYourWrites BalanceExplained
PROPERTY ListingsAdvance
