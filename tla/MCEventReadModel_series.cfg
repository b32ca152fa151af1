SPECIFICATION Spec
CONSTANTS
    o1 = o1
    o2 = o2
    e1 = e1
    e2 = e2
    e3 = e3
    w1 = w1
    w2 = w2
    None = None
    Objects = {o1, o2}
    Events = {e1, e2, e3}
    ObjectOf <- SeriesOf
    SelfObject <- SeriesSelf
    Workers = {w1, w2}
    Cursorless = TRUE
    AuthRecheck = TRUE
    MaxResets = 1
    MaxVersion = 2
    MaxGen = 3
    MaxWrites = 0
    QuietRepairs = FALSE
SYMMETRY SeriesSymmetry
INVARIANTS
    MembersAreOneVersion
CHECK_DEADLOCK FALSE
