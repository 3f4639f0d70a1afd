--------------------------- MODULE PostgresRoles ---------------------------
(***************************************************************************)
(* postgres/store.go: the tables roles, role_inheritance and role_closure, *)
(* shared by every process that opens a store on the same database.        *)
(* AddRoleInheritance is a transaction at PostgreSQL's default isolation,  *)
(* READ COMMITTED: each of its statements sees what was committed when the *)
(* statement began, so that its insert ... select is a snapshot (Select),  *)
(* the writing of the rows it found (Write) and, later, Commit.  A write   *)
(* of a key that another open transaction has written waits for the end of *)
(* that transaction.  A transaction may end without effect at any moment:  *)
(* the caller's context, a deadlock, a lost connection (Abort).            *)
(***************************************************************************)
EXTENDS RoleClosure

CONSTANTS BuiltIn,   \* the role IDs that begin with "builtin."
          Session    \* connections of the pool, of one or of several processes

ASSUME PostgresAssumption == BuiltIn \subseteq RoleID

VARIABLES roles,         \* rows of roles
          inheritance,   \* rows of role_inheritance: edges <<parent, child>>
          closure,       \* rows of role_closure: <<ancestor, descendant>>
          pc,            \* how far the transaction of each session is
          edge,          \* the edge it adds
          rows,          \* the closure rows its snapshot led to
          fresh,         \* history: its snapshot still holds, for both roles
          settled        \* history: edges whose linking nothing disturbed

tables == <<roles, inheritance, closure>>
txVars == <<pc, edge, rows, fresh>>
vars == <<tables, txVars, settled>>

Pair == RoleID \X RoleID

\* Service routes an edge between two built-in roles to the registry.
Edge == {e \in Pair : e[1] # e[2] /\ ~(e[1] \in BuiltIn /\ e[2] \in BuiltIn)}

NoEdge == <<>>

PostgresRolesTypeOK ==
    /\ roles \subseteq RoleID \ BuiltIn
    /\ inheritance \subseteq Edge
    /\ closure \subseteq Pair
    /\ pc \in [Session -> {"idle", "linked", "selected", "written"}]
    /\ edge \in [Session -> Edge \cup {NoEdge}]
    /\ rows \in [Session -> SUBSET Pair]
    /\ fresh \in [Session -> BOOLEAN]
    /\ settled \subseteq Edge

Init ==
    /\ roles = {}
    /\ inheritance = {}
    /\ closure = {}
    /\ pc = [s \in Session |-> "idle"]
    /\ edge = [s \in Session |-> NoEdge]
    /\ rows = [s \in Session |-> {}]
    /\ fresh = [s \in Session |-> FALSE]
    /\ settled = {}

\* CreateRole: a role and its row with itself, in one transaction.  Service
\* sends IDs of built-in roles to the registry; of two callers with the same
\* ID the primary key lets one through.
CreateRole(role) ==
    /\ role \notin roles
    /\ roles' = roles \cup {role}
    /\ closure' = closure \cup {<<role, role>>}
    /\ UNCHANGED <<inheritance, txVars, settled>>

\* DeleteRole: the row in roles and nothing else.
DeleteRole(role) ==
    /\ role \in roles
    /\ roles' = roles \ {role}
    /\ UNCHANGED <<inheritance, closure, txVars, settled>>
-----------------------------------------------------------------------------
(* AddRoleInheritance, statement by statement.                              *)

\* Mutant of Extension: the ancestors gain the child alone.
ExtensionChildOnly(e) ==
    IF <<e[2], e[2]>> \in closure THEN Heirs(closure, e[1]) \X {e[2]} ELSE {}

\* Mutant of Extension: the two placeholders of the query swapped.
ExtensionSwapped(e) == Heirs(closure, e[2]) \X Inherited(closure, e[1])

\* What the insert ... select finds: every ancestor of the parent with every
\* descendant of the child.  Unlike the registry it seeds neither row: a role
\* without a row of its own, as every built-in role is, contributes nothing.
Extension(e) == Heirs(closure, e[1]) \X Inherited(closure, e[2])

\* Both ends have the row of their own that CreateRole writes.
Registered(e) == <<e[1], e[1]>> \in closure /\ <<e[2], e[2]>> \in closure

\* Mutant of InsertEdge: the check that a role does not inherit itself dropped.
InsertAnyEdge(s, e) ==
    /\ pc[s] = "idle"
    /\ pc' = [pc EXCEPT ![s] = "linked"]
    /\ edge' = [edge EXCEPT ![s] = e]
    /\ UNCHANGED <<tables, rows, fresh, settled>>

\* insert into role_inheritance ... on conflict do nothing: an edge already
\* there is passed over, one another open transaction has inserted is waited
\* for.
InsertEdge(s, e) ==
    /\ pc[s] = "idle" /\ e \in Edge
    /\ e \in inheritance \/ \A t \in Session : edge[t] # e
    /\ pc' = [pc EXCEPT ![s] = "linked"]
    /\ edge' = [edge EXCEPT ![s] = e]
    /\ UNCHANGED <<tables, rows, fresh, settled>>

\* insert into role_closure ... select: the snapshot.
Select(s) ==
    /\ pc[s] = "linked"
    /\ pc' = [pc EXCEPT ![s] = "selected"]
    /\ rows' = [rows EXCEPT ![s] = Extension(edge[s])]
    /\ fresh' = [fresh EXCEPT ![s] = Registered(edge[s])]
    /\ UNCHANGED <<tables, edge, settled>>

\* ... on conflict do nothing: the rows found are inserted, after the end of
\* any transaction that has inserted one of them.
Write(s) ==
    /\ pc[s] = "selected"
    /\ \A t \in Session : pc[t] = "written" => rows[t] \cap rows[s] \subseteq closure
    /\ pc' = [pc EXCEPT ![s] = "written"]
    /\ UNCHANGED <<tables, edge, rows, fresh, settled>>

\* The transaction of s is over.
End(s) ==
    /\ pc' = [pc EXCEPT ![s] = "idle"]
    /\ edge' = [edge EXCEPT ![s] = NoEdge]
    /\ rows' = [rows EXCEPT ![s] = {}]

\* The edge and the rows become visible; a snapshot another session took
\* before is without them.
Commit(s) ==
    /\ pc[s] = "written"
    /\ inheritance' = inheritance \cup {edge[s]}
    /\ closure' = closure \cup rows[s]
    /\ settled' = IF fresh[s] THEN settled \cup {edge[s]} ELSE settled
    /\ fresh' = [t \in Session |-> t # s /\ fresh[t] /\ rows[s] \subseteq closure]
    /\ End(s)
    /\ UNCHANGED roles

Abort(s) ==
    /\ pc[s] # "idle"
    /\ fresh' = [fresh EXCEPT ![s] = FALSE]
    /\ End(s)
    /\ UNCHANGED <<tables, settled>>

Next ==
    \/ \E role \in RoleID \ BuiltIn : CreateRole(role) \/ DeleteRole(role)
    \/ \E s \in Session :
          \/ \E e \in Pair : InsertEdge(s, e)
          \/ Select(s) \/ Write(s) \/ Commit(s) \/ Abort(s)

Spec == Init /\ [][Next]_vars

-----------------------------------------------------------------------------
(* ExpandRoles, one query over role_closure.                                *)

ExpandRoles(roots) == UNION {Inherited(closure, r) : r \in roots}

(* A role expands to every role it reaches over edges whose linking nothing *)
(* disturbed: nothing came into role_closure between the snapshot and the   *)
(* commit, and both roles had been created.  What AddRoleInheritance can    *)
(* lose when two of them overlap is only paths over the later edge, until   *)
(* that edge is added again, which extends the closure anew; roles deleted  *)
(* and created again lose nothing.                                          *)
ExpandsSettled ==
    \A r \in roles : Inherited(Reach(settled), r) \subseteq ExpandRoles({r})

(* A role never expands to one it does not reach over the committed edges,  *)
(* whatever overlapped or was rolled back: the rows of role_closure and the *)
(* edge that explains them come into force together.                        *)
ExpandsOnlyLinked ==
    \A r \in RoleID : ExpandRoles({r}) \subseteq Inherited(Reach(inheritance), r)

(* The Store interface (store.go) says of ExpandRoles that it returns every *)
(* transitively inherited role, and docs/roles_architecture.md links a role *)
(* to a built-in one: a role that exists expands to the built-in roles it   *)
(* was linked to.                                                           *)
ExpandsToBuiltIns ==
    \A e \in inheritance :
        e[1] \in roles /\ e[2] \in BuiltIn => e[2] \in ExpandRoles({e[1]})
=============================================================================
