SPECIFICATION Spec
CONSTANTS
    o1 = o1
    o2 = o2
    None = None
    Objects = {o1, o2}
    Kinds = {"google", "microsoft", "apple"}
    MaxVersion = 4
    MaxClicks = 1
SYMMETRY ObjectSymmetry
INVARIANTS
    
    CorrectionsAreAuthorized
    UnsettledPatchIsReserved
CHECK_DEADLOCK FALSE
