CONSTANTS
    r1 = r1
    r2 = r2
    r3 = r3
    builtin = builtin
    user = user
    int42 = int42
    str42 = str42
    Absent = Absent
    RoleID <- MCRoleID
    BuiltInRole = {builtin}
    RoleDef = {"def"}
    Principal = {user}
    Binding = {int42, str42}
    TextOf <- MCTextOf
SYMMETRY MCSymmetry
SPECIFICATION StoreSpec
CONSTRAINT Small
INVARIANTS
    BootstrapRolesTypeOK
    ExpandsAllInherited
    AssignmentsResolve
    OneAssignmentPerText
PROPERTY
    ImplementsPreorder
