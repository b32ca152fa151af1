SPECIFICATION FairSpec
CONSTANTS
    o1 = o1
    o2 = o2
    e1 = e1
    e2 = e2
    e3 = e3
    w1 = w1
    w2 = w2
    None = None
    Objects = {o1, o2}
    Events = {e1, e3}
    ObjectOf <- SingleOf
    SelfObject <- SingleOf
    Workers = {w1}
    Cursorless = FALSE
    AuthRecheck = FALSE
    MaxResets = 1
    MaxVersion = 2
    MaxGen = 3
    MaxWrites = 1
    QuietRepairs = FALSE
PROPERTIES
    PageMembershipIsExact
    
CHECK_DEADLOCK FALSE
