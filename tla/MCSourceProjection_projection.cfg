SPECIFICATION Spec
CONSTANTS
    i1 = i1
    i2 = i2
    w1 = w1
    w2 = w2
    f1 = f1
    f2 = f2
    s1 = s1
    c1 = c1
    c2 = c2
    None = None
    Instances = {i1, i2}
    Workers = {w1}
    Fences = {f1}
    SourceRuns = {s1}
    CopyRuns = {c1}
    MaxHistory = 3
    MaxGen = 3
    MaxPending = 1
    MaxAttempts = 2
    MaxRevisions = 2
    Warnings = TRUE
SYMMETRY Symmetry
INVARIANTS
    
    ServedIncludesOwnMutations
    CapacityIsLeft
PROPERTIES
    RevisionIsFrozen
    RemovalsAreKept
CHECK_DEADLOCK FALSE
