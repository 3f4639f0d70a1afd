CONSTANTS
    r1 = r1
    r2 = r2
    r3 = r3
    builtin = builtin
    s1 = s1
    s2 = s2
    RoleID = {r1, r2, r3}
    BuiltIn = {}
    Session = {s1, s2}
SYMMETRY MCSymmetry
SPECIFICATION Spec
CONSTRAINT Small
INVARIANTS
    PostgresRolesTypeOK
    ExpandsSettled
    ExpandsOnlyLinked
