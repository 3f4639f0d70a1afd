CONSTANTS
    r1 = r1
    r2 = r2
    r3 = r3
    builtin = builtin
    s1 = s1
    s2 = s2
    RoleID = {r1, r2, builtin}
    BuiltIn = {builtin}
    Session = {s1, s2}

SPECIFICATION Spec
CONSTRAINT Small
INVARIANT
    ExpandsToBuiltIns
