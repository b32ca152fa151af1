SPECIFICATION Spec
CONSTANTS
    a1 = a1
    a2 = a2
    c1 = c1
    c2 = c2
    t1 = t1
    t2 = t2
    r1 = r1
    r2 = r2
    None = None
    MaxForms = 2
    Accounts = {a1, a2}
    Connections = {c1, c2}
    Attempts = {t1, t2}
    Requests = {r1, r2}
SYMMETRY AccountSymmetry
INVARIANTS
    ConsentIsUsedOnce
    CalendarsWereConsented
