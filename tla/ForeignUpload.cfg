SPECIFICATION Spec
CONSTANTS
    None = None
    u1 = u1
    u2 = u2
    n1 = n1
    r1 = r1
    r2 = r2
    w1 = w1
    Users = {u1, u2}
    Numbers = {n1}
    ValidNumbers = {n1}
    Requests = {r1, r2}
    Workers = {w1}
    Sums = {2}
    Accruals = {2}
    Unit = 1
    Isolation = "read committed"
    MaxOvertakes = 0
    MaxCrashes = 0
INVARIANT OwnerAnswer
