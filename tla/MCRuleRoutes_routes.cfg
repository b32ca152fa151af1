SPECIFICATION Spec
CONSTANTS
    c1 = c1
    c2 = c2
    A = A
    B = B
    C = C
    r1 = r1
    r2 = r2
    r3 = r3
    s1 = s1
    s2 = s2
    None = None
    Connections = {c1, c2}
    Rows <- SharedRows
    Rules = {r1, r2, r3}
    Cached = {r1}
    Sessions = {s1, s2}
    MaxEdits = 1
SYMMETRY RouteSymmetry
INVARIANTS
    RoutesAreAcyclic
    CachedTargetsAreExclusive
    RulesHaveCalendars
PROPERTIES
    EnabledOnPreview
CHECK_DEADLOCK FALSE
