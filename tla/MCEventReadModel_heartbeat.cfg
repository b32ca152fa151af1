SPECIFICATION Spec
CONSTANTS
    o1 = o1
    o2 = o2
    e1 = e1
    e2 = e2
    e3 = e3
    w1 = w1
    w2 = w2
    None = None
    Objects = {o1}
    Events = {e1}
    ObjectOf <- OneEventOf
    SelfObject <- OneEventOf
    Workers = {w1}
    Cursorless = FALSE
    AuthRecheck = FALSE
    MaxResets = 1
    MaxVersion = 2
    MaxGen = 2
    MaxWrites = 0
    QuietRepairs = TRUE
INVARIANTS
    CurrentClaimIsRenewable
CHECK_DEADLOCK FALSE
