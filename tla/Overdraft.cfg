SPECIFICATION Spec
CONSTANTS
    None = None
    u1 = u1
    n1 = n1
    n2 = n2
    n3 = n3
    r1 = r1
    r2 = r2
    r3 = r3
    w1 = w1
    Users = {u1}
    Numbers = {n1, n2, n3}
    ValidNumbers = {n1, n2, n3}
    Requests = {r1, r2, r3}
    Workers = {w1}
    Sums = {2}
    Accruals = {2}
    Unit = 1
    Isolation = "read committed"
    MaxOvertakes = 0
    MaxCrashes = 0
INVARIANT NoOverdraft
