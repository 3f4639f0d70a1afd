CONSTANTS
    User = "user"
    Group = {"group"}
    Team = {"team"}
    Role <- MCRole
    BuiltInRole = {"builtin", "builtin.authenticated"}
    Inherits <- MCInherits
    Synthetic = {"builtin.authenticated"}
    Grant <- MCGrant
    Assignment <- MCAssignment
    Request <- MCRequest
    AnyTeam = "*"
    TeamVariable = "?team"
    NoTeam = ""
    WholeRequest = "whole"
    Never = Never
    Covers <- MCCovers
    MaxClock = 1
    MaxChanges = 1
SPECIFICATION Spec
CHECK_DEADLOCK FALSE
INVARIANTS
    PermissionEvaluationTypeOK
    
    AllowIsWitnessed
    
    ListsAgreeWithEvaluation
