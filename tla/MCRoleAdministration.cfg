CONSTANTS
    b1 = b1
    b2 = b2
    c1 = c1
    c2 = c2
    user = user
    int42 = int42
    Absent = Absent
    RoleID <- MCRoleID
    BuiltInRole <- MCBuiltInRole
    RoleDef = {"seeded"}
    Principal = {user}
    Binding = {int42}
    TextOf <- MCTextOf
    Grant = {}
    SyntheticRole <- MCSyntheticRole
    SyntheticDef = "seeded"
SPECIFICATION Spec
CONSTRAINT Small
INVARIANTS
    ExpandsLayeredHierarchy
    ServiceAssignmentsResolve
