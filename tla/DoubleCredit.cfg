SPECIFICATION Spec
CONSTANTS
    None = None
    u1 = u1
    n1 = n1
    r1 = r1
    w1 = w1
    w2 = w2
    Users = {u1}
    Numbers = {n1}
    ValidNumbers = {n1}
    Requests = {r1}
    Workers = {w1, w2}
    Sums = {2}
    Accruals = {2}
    Unit = 1
    Isolation = "read committed"
    MaxOvertakes = 1
    MaxCrashes = 0
INVARIANT NotMoreThanGranted
