SPECIFICATION Spec
CONSTANTS
    None = None
    u1 = u1
    u2 = u2
    n1 = n1
    n2 = n2
    n3 = n3
    r1 = r1
    r2 = r2
    r3 = r3
    w1 = w1
    w2 = w2
    Users = {u1, u2}
    Numbers = {n1, n2, n3}
    ValidNumbers = {n1, n2, n3}
    Requests = {r1, r2, r3}
    Workers = {w1, w2}
    Sums = {1}
    Accruals = {0, 2}
    Unit = 1
    Isolation = "repeatable read"
    MaxOvertakes = 0
    MaxCrashes = 1
SYMMETRY Symmetry
INVARIANT BalanceExact
PROPERTY LedgerSpec
