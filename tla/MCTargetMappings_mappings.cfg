SPECIFICATION Spec
CONSTANTS
    Events = {e1}
    Instances = {e1}
    Runs = {r1, r2}
    Copies = {k1, k2}
    Contents = {n1, n2}
    Cancelled = Cancelled
    Foreign = Foreign
    MaxRows = 2
    MaxVersion = 4
    MaxEdits = 1
    None = None
    e1 = e1
    e2 = e2
    r1 = r1
    r2 = r2
    k1 = k1
    k2 = k2
    n1 = n1
    n2 = n2
SYMMETRY Symmetric
CHECK_DEADLOCK FALSE
INVARIANTS
    CallsAreIntended
    CurrentMappingsAreTrue
    LiveCopiesAreKnown
PROPERTIES
    UserEditsSurvive
    ImplementsMirror
