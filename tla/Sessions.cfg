SPECIFICATION SessionSpec
CONSTANTS
    None = None
    blank = blank
    r1 = r1
    r2 = r2
    r3 = r3
    r4 = r4
    l1 = l1
    l2 = l2
    p1 = p1
    p2 = p2
    Logins = {l1, l2}
    Passes = {p1, p2}
    Blank = blank
    Requests = {r1, r2, r3, r4}
    Second = 2
    Expires = 3
    MaxNow = 4
SYMMETRY Symmetry
INVARIANTS SessionTypeOK Accounts TokensHonest RegisteredOnce SessionsHonest SessionsLast
CHECK_DEADLOCK FALSE
