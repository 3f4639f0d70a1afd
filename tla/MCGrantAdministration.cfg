CONSTANTS
    plain = plain
    scoped = scoped
    a = a
    b = b
    t1 = t1
    t2 = t2
    Grant <- MCGrant
    OwnerOf <- MCOwnerOf
    Scoped = {scoped}
    CreateList <- MCCreateList
    EnsureList <- MCEnsureList
    Thread = {t1, t2}
    Limit = 1
    MaxRows = 3
SYMMETRY MCSymmetry
SPECIFICATION Spec
INVARIANTS
    GrantAdministrationTypeOK
    
    OkMeansPresent
    PagesReturnOnce
