CONSTANTS
    Principal <- MCPrincipal
    Role = {owner, guest}
    Managed = {owner, guest}
    owner = owner
    guest = guest
    Binding = {"t1", "t1 object", "t2"}
    InScope = {"t1", "t1 object"}
    ScopeBinding = "t1"
    AssignmentRules <- MCAssignmentRules
    RemovalRules <- MCRemovalRules
    Admin = {"a1"}
    Nobody = Nobody
    Initial <- MCInitial
SPECIFICATION Spec
INVARIANTS
    AssignmentManagerTypeOK
    
PROPERTIES
    NeverCombines
    LastHolderStays
    SelfCallsObeyRules
