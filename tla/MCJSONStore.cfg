\* A file that cannot be decoded keeps the store down for good.
CHECK_DEADLOCK FALSE
CONSTANTS
    Fact <- MCFact
    t1 = t1
    t2 = t2
    Thread = {t1, t2}
    None = None
    Empty = Empty
    Garbled = Garbled
SYMMETRY MCSymmetry
SPECIFICATION Spec
INVARIANTS
    JSONStoreTypeOK
    SavedSurvives
