CONSTANTS
    b1 = b1
    b2 = b2
    b3 = b3
    b4 = b4
    custom = custom
    Absent = Absent
    BuiltInRole <- MCBuiltInRole
    RoleID <- MCRoleID
    RoleDef = {"def"}
    Grant <- MCGrant
SYMMETRY MCSymmetry
SPECIFICATION RegistrySpec
INVARIANTS
    BuiltInRegistryTypeOK
    ClosureIsReachability
PROPERTY
    ImplementsHierarchy
