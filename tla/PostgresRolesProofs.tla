------------------------ MODULE PostgresRolesProofs ------------------------
(***************************************************************************)
(* PostgresRoles proved for every set of role IDs and of sessions.  The    *)
(* argument: a snapshot that nothing has disturbed is still the whole      *)
(* product of the parent's ancestors and the child's descendants when its  *)
(* transaction commits, and adding that product is all an edge between two *)
(* registered roles needs.  What any snapshot found is reachable over the  *)
(* edges committed with it.                                                *)
(***************************************************************************)
EXTENDS PostgresRoles, TLAPS

(* More edges reach no less (role_inheritance only grows).                  *)
LEMMA ReachableGrows ==
    ASSUME NEW edges, NEW more, edges \subseteq more,
           NEW a \in RoleID, NEW b \in RoleID, Reachable(edges, a, b)
    PROVE  Reachable(more, a, b)
<1>1. ClosedSets(more) \subseteq ClosedSets(edges)
  BY DEF ClosedSets
<1>. QED
  BY <1>1 DEF Reachable

(* A role reaches whatever an edge leads to from a role it reaches.         *)
LEMMA ReachableStep ==
    ASSUME NEW edges, NEW a \in RoleID, NEW e \in edges, Reachable(edges, a, e[1])
    PROVE  Reachable(edges, a, e[2])
BY DEF Reachable, ClosedSets

(* When every pair reachable over the old edges is in held, the pairs that  *)
(* a new edge between two registered roles makes reachable are those of its *)
(* extension: the ancestors of the one with the descendants of the other.   *)
LEMMA ExtensionSuffices ==
    ASSUME NEW held \in SUBSET Pair, NEW edges \in SUBSET Pair,
           NEW p \in RoleID, NEW c \in RoleID,
           <<p, p>> \in held, <<c, c>> \in held,
           \A a, b \in RoleID : Reachable(edges, a, b) => <<a, b>> \in held \/ a = b,
           NEW x \in RoleID, NEW y \in RoleID,
           Reachable(edges \cup {<<p, c>>}, x, y)
    PROVE  <<x, y>> \in held \cup (Heirs(held, p) \X Inherited(held, c)) \/ x = y
<1> DEFINE more == edges \cup {<<p, c>>}
           S == {z \in RoleID : \/ Reachable(edges, x, z)
                                \/ Reachable(edges, x, p) /\ Reachable(edges, c, z)}
<1>1. Reachable(edges, c, c) /\ x \in S
  BY DEF Reachable
<1>2. S \in ClosedSets(more)
  <2> SUFFICES ASSUME NEW e \in more, e[1] \in S
               PROVE  e[2] \in S
    BY DEF ClosedSets
  <2>1. CASE e \in edges
    <3>1. e[1] \in RoleID /\ e[2] \in RoleID
      BY <2>1 DEF Pair
    <3>. QED
      BY <2>1, <3>1, ReachableStep
  <2>2. CASE e = <<p, c>>
    BY <1>1, <2>2
  <2>. QED
    BY <2>1, <2>2
<1>3. y \in S
  BY <1>1, <1>2 DEF Reachable
<1>4. CASE Reachable(edges, x, y)
  BY <1>4
<1>5. CASE Reachable(edges, x, p) /\ Reachable(edges, c, y)
  <2>1. <<x, p>> \in held /\ <<c, y>> \in held
    BY <1>5
  <2>. QED
    BY <2>1 DEF Heirs, Inherited
<1>. QED
  BY <1>3, <1>4, <1>5

-----------------------------------------------------------------------------
(* The invariants.                                                          *)

Open(s) == pc[s] # "idle" => edge[s] \in Edge

SelfRows ==
    /\ \A r \in roles : <<r, r>> \in closure
    /\ \A e \in settled : Registered(e)

\* Every pair reachable over settled edges has its row, self pairs apart.
SettledHeld ==
    \A a, b \in RoleID : Reachable(settled, a, b) => <<a, b>> \in closure \/ a = b

\* An undisturbed snapshot is what the query would find now.
FreshIsCurrent ==
    \A s \in Session : fresh[s] =>
        /\ pc[s] \in {"selected", "written"}
        /\ Registered(edge[s])
        /\ Extension(edge[s]) \subseteq rows[s]

\* What a snapshot found is explained by the edges committed with it.
RowsSound ==
    \A s \in Session : pc[s] \in {"selected", "written"} =>
        \A a, b \in RoleID :
            <<a, b>> \in rows[s] => Reachable(inheritance \cup {edge[s]}, a, b)

IInv ==
    /\ PostgresRolesTypeOK
    /\ \A s \in Session : Open(s)
    /\ SelfRows
    /\ SettledHeld
    /\ FreshIsCurrent
    /\ IsSound(closure, inheritance)
    /\ RowsSound

LEMMA InitIInv == Init => IInv
<1> SUFFICES ASSUME Init PROVE IInv
  OBVIOUS
<1>1. PostgresRolesTypeOK
  BY DEF Init, PostgresRolesTypeOK, Pair
<1>2. SettledHeld
  <2> SUFFICES ASSUME NEW a \in RoleID, NEW b \in RoleID, Reachable({}, a, b)
               PROVE  a = b
    BY DEF Init, SettledHeld
  <2>1. {a} \in ClosedSets({})
    BY DEF ClosedSets
  <2>. QED
    BY <2>1 DEF Reachable
<1>. QED
  BY <1>1, <1>2 DEF Init, IInv, Open, SelfRows, FreshIsCurrent, IsSound, RowsSound

(* The closure gains the row of a role with itself and nothing else.        *)
LEMMA CreateRoleKeeps ==
    ASSUME IInv, NEW role \in RoleID \ BuiltIn, CreateRole(role)
    PROVE  IInv'
<1> USE DEF IInv, CreateRole, txVars
<1>1. PostgresRolesTypeOK'
  BY DEF PostgresRolesTypeOK, Pair
<1>2. (\A s \in Session : Open(s))'
  BY DEF Open
<1>3. SelfRows'
  BY DEF SelfRows, Registered
<1>4. SettledHeld'
  BY DEF SettledHeld
<1>5. FreshIsCurrent'
  <2> SUFFICES ASSUME NEW s \in Session, fresh[s]
               PROVE  /\ pc[s] \in {"selected", "written"}
                      /\ Registered(edge[s])'
                      /\ Extension(edge[s])' \subseteq rows[s]
    BY DEF FreshIsCurrent
  <2>1. /\ pc[s] \in {"selected", "written"}
        /\ Registered(edge[s])
        /\ Extension(edge[s]) \subseteq rows[s]
    BY DEF FreshIsCurrent
  <2>2. Extension(edge[s])' = Extension(edge[s])
    BY <2>1 DEF Extension, Heirs, Inherited, Registered
  <2>. QED
    BY <2>1, <2>2 DEF Registered
<1>6. IsSound(closure, inheritance)'
  BY DEF IsSound, Reachable
<1>7. RowsSound'
  BY DEF RowsSound
<1>. QED
  BY <1>1, <1>2, <1>3, <1>4, <1>5, <1>6, <1>7

(* What the commit of a transaction brings into force.                      *)
LEMMA CommitKeeps ==
    ASSUME IInv, NEW s \in Session, Commit(s)
    PROVE  IInv'
<1> USE DEF IInv
<1>1. edge[s] \in Edge /\ rows[s] \in SUBSET Pair
  BY DEF Commit, Open, PostgresRolesTypeOK
<1>2. edge[s] = <<edge[s][1], edge[s][2]>> /\ edge[s][1] \in RoleID /\ edge[s][2] \in RoleID
  BY <1>1 DEF Edge, Pair
<1>3. PostgresRolesTypeOK'
  BY <1>1 DEF Commit, End, PostgresRolesTypeOK
<1>4. (\A t \in Session : Open(t))'
  BY DEF Open, Commit, End, PostgresRolesTypeOK
<1>5. ASSUME fresh[s]
      PROVE  Registered(edge[s]) /\ Extension(edge[s]) \subseteq rows[s]
  BY <1>5 DEF FreshIsCurrent
<1>6. SelfRows'
  BY <1>5 DEF SelfRows, Commit, Registered
<1>7. SettledHeld'
  <2> SUFFICES ASSUME NEW a \in RoleID, NEW b \in RoleID, Reachable(settled', a, b)
               PROVE  <<a, b>> \in closure' \/ a = b
    BY DEF SettledHeld
  <2>1. CASE fresh[s]
    <3>1. settled' = settled \cup {<<edge[s][1], edge[s][2]>>}
      BY <1>2, <2>1 DEF Commit
    <3>2. closure \in SUBSET Pair /\ settled \in SUBSET Pair
      BY DEF PostgresRolesTypeOK, Edge
    <3>3. <<edge[s][1], edge[s][1]>> \in closure /\ <<edge[s][2], edge[s][2]>> \in closure
      BY <1>5, <2>1 DEF Registered
    <3>4. <<a, b>> \in closure \cup (Heirs(closure, edge[s][1]) \X Inherited(closure, edge[s][2])) \/ a = b
      BY <1>2, <3>1, <3>2, <3>3, ExtensionSuffices DEF SettledHeld
    <3>. QED
      BY <1>5, <2>1, <3>4 DEF Extension, Commit
  <2>2. CASE ~ fresh[s]
    BY <2>2 DEF Commit, SettledHeld
  <2>. QED
    BY <2>1, <2>2
<1>8. FreshIsCurrent'
  <2> SUFFICES ASSUME NEW t \in Session, fresh'[t]
               PROVE  /\ pc'[t] \in {"selected", "written"}
                      /\ Registered(edge[t])'
                      /\ Extension(edge[t])' \subseteq rows'[t]
    BY DEF FreshIsCurrent
  <2>1. t # s /\ fresh[t] /\ closure' = closure
    BY DEF Commit
  <2>2. pc'[t] = pc[t] /\ edge'[t] = edge[t] /\ rows'[t] = rows[t]
    BY <2>1 DEF Commit, End, PostgresRolesTypeOK
  <2>. QED
    BY <2>1, <2>2 DEF FreshIsCurrent, Registered, Extension
<1>9. inheritance \subseteq inheritance'
  BY DEF Commit
<1>10. IsSound(closure, inheritance)'
  <2> SUFFICES ASSUME NEW a \in RoleID, NEW b \in RoleID, <<a, b>> \in closure'
               PROVE  Reachable(inheritance', a, b)
    BY DEF IsSound
  <2>1. CASE <<a, b>> \in closure
    BY <1>9, <2>1, ReachableGrows DEF IsSound
  <2>2. CASE <<a, b>> \in rows[s]
    BY <2>2 DEF RowsSound, Commit
  <2>. QED
    BY <2>1, <2>2 DEF Commit
<1>11. RowsSound'
  <2> SUFFICES ASSUME NEW t \in Session, pc'[t] \in {"selected", "written"},
                      NEW a \in RoleID, NEW b \in RoleID, <<a, b>> \in rows'[t]
               PROVE  Reachable(inheritance' \cup {edge'[t]}, a, b)
    BY DEF RowsSound
  <2>1. t # s /\ pc'[t] = pc[t] /\ edge'[t] = edge[t] /\ rows'[t] = rows[t]
    BY DEF Commit, End, PostgresRolesTypeOK
  <2>2. Reachable(inheritance \cup {edge[t]}, a, b)
    BY <2>1 DEF RowsSound
  <2>3. inheritance \cup {edge[t]} \subseteq inheritance' \cup {edge'[t]}
    BY <1>9, <2>1
  <2>. QED
    BY <2>2, <2>3, ReachableGrows
<1>. QED
  BY <1>3, <1>4, <1>6, <1>7, <1>8, <1>10, <1>11

(* A step of one transaction that leaves the tables alone.                  *)
LEMMA TransactionStepKeeps ==
    ASSUME IInv, NEW s \in Session,
           (\E e \in Pair : InsertEdge(s, e)) \/ Select(s) \/ Write(s) \/ Abort(s)
    PROVE  IInv'
<1> USE DEF IInv, PostgresRolesTypeOK
<1>1. UNCHANGED <<roles, inheritance, closure, settled>>
  BY DEF InsertEdge, Select, Write, Abort, End, tables
<1>2. \A t \in Session : t # s =>
          pc'[t] = pc[t] /\ edge'[t] = edge[t] /\ rows'[t] = rows[t] /\ fresh'[t] = fresh[t]
  BY DEF InsertEdge, Select, Write, Abort, End
<1>3. SelfRows' /\ SettledHeld' /\ IsSound(closure, inheritance)'
  BY <1>1 DEF SelfRows, Registered, SettledHeld
<1>4. ASSUME pc[s] # "idle"
      PROVE  edge[s] \in Edge /\ Extension(edge[s]) \subseteq Pair
  BY <1>4 DEF Open, Extension, Heirs, Inherited, Pair
<1>5. /\ PostgresRolesTypeOK'
      /\ Open(s)'
  <2>1. CASE \E e \in Pair : InsertEdge(s, e)
    BY <2>1 DEF InsertEdge, tables, Open, Registered
  <2>2. CASE Select(s)
    BY <1>4, <2>2 DEF Select, tables, Open, Registered
  <2>3. CASE Write(s)
    BY <2>3 DEF Write, tables, Open, Registered
  <2>4. CASE Abort(s)
    BY <2>4 DEF Abort, End, tables, Open, Registered
  <2>. QED
    BY <2>1, <2>2, <2>3, <2>4
<1>6. (\A t \in Session : Open(t))'
  BY <1>2, <1>5 DEF Open
<1>7. FreshIsCurrent'
  <2> SUFFICES ASSUME NEW t \in Session, fresh'[t]
               PROVE  /\ pc'[t] \in {"selected", "written"}
                      /\ Registered(edge'[t])
                      /\ Extension(edge'[t]) \subseteq rows'[t]
    BY <1>1 DEF FreshIsCurrent, Registered, Extension
  <2>1. CASE t # s
    BY <1>2, <2>1 DEF FreshIsCurrent
  <2>2. CASE t = s /\ \E e \in Pair : InsertEdge(s, e)
    <3>1. pc[s] = "idle" /\ fresh[s]
      BY <2>2 DEF InsertEdge
    <3>. QED
      BY <3>1 DEF FreshIsCurrent
  <2>3. CASE t = s /\ Select(s)
    BY <2>3 DEF Select
  <2>4. CASE t = s /\ Write(s)
    BY <2>4 DEF Write, FreshIsCurrent
  <2>5. CASE t = s /\ Abort(s)
    BY <2>5 DEF Abort
  <2>. QED
    BY <2>1, <2>2, <2>3, <2>4, <2>5
<1>8. RowsSound'
  <2> SUFFICES ASSUME NEW t \in Session, pc'[t] \in {"selected", "written"},
                      NEW a \in RoleID, NEW b \in RoleID, <<a, b>> \in rows'[t]
               PROVE  Reachable(inheritance \cup {edge'[t]}, a, b)
    BY <1>1 DEF RowsSound
  <2>1. CASE t # s \/ Write(s)
    BY <1>2, <2>1 DEF Write, RowsSound
  <2>2. CASE t = s /\ \E e \in Pair : InsertEdge(s, e)
    BY <2>2 DEF InsertEdge
  <2>3. CASE t = s /\ Abort(s)
    BY <2>3 DEF Abort, End
  <2>4. CASE t = s /\ Select(s)
    <3> DEFINE e == edge[s]
               more == inheritance \cup {e}
    <3>1. edge'[s] = e /\ e \in Edge /\ <<a, b>> \in Extension(e)
      BY <1>4, <2>4 DEF Select
    <3>2. e[1] \in RoleID /\ e[2] \in RoleID
      BY <3>1 DEF Edge, Pair
    <3>3. Reachable(inheritance, a, e[1]) /\ Reachable(inheritance, e[2], b)
      BY <3>1, <3>2 DEF Extension, Heirs, Inherited, IsSound
    <3>4. Reachable(more, a, e[1]) /\ Reachable(more, e[2], b)
      BY <3>2, <3>3, ReachableGrows
    <3>5. Reachable(more, a, e[2])
      BY <3>4, ReachableStep
    <3>6. Reachable(more, a, b)
      BY <3>4, <3>5 DEF Reachable
    <3>. QED
      BY <2>4, <3>1, <3>6
  <2>. QED
    BY <2>1, <2>2, <2>3, <2>4
<1>. QED
  BY <1>3, <1>5, <1>6, <1>7, <1>8

LEMMA DeleteRoleKeeps ==
    ASSUME IInv, NEW role \in RoleID, DeleteRole(role)
    PROVE  IInv'
BY DEF DeleteRole, txVars, IInv, PostgresRolesTypeOK, Open, SelfRows, Registered,
       SettledHeld, FreshIsCurrent, Extension, RowsSound

LEMMA NextIInv == IInv /\ [Next]_vars => IInv'
<1> SUFFICES ASSUME IInv, [Next]_vars PROVE IInv'
  OBVIOUS
<1>1. CASE UNCHANGED vars
  BY <1>1 DEF vars, tables, txVars, IInv, PostgresRolesTypeOK, Open, SelfRows,
              Registered, SettledHeld, FreshIsCurrent, Extension, RowsSound
<1>2. ASSUME NEW role \in RoleID \ BuiltIn, CreateRole(role) \/ DeleteRole(role)
      PROVE  IInv'
  BY <1>2, CreateRoleKeeps, DeleteRoleKeeps
<1>3. ASSUME NEW s \in Session,
             (\E e \in Pair : InsertEdge(s, e)) \/ Select(s) \/ Write(s) \/ Abort(s)
      PROVE  IInv'
  BY <1>3, TransactionStepKeeps
<1>4. ASSUME NEW s \in Session, Commit(s)
      PROVE  IInv'
  BY <1>4, CommitKeeps
<1>. QED
  BY <1>1, <1>2, <1>3, <1>4 DEF Next

THEOREM Inductive == Spec => []IInv
<1>. QED
  BY InitIInv, NextIInv, PTL DEF Spec

-----------------------------------------------------------------------------
(* Type correctness of the tables and of the open transactions.             *)
THEOREM TypeCorrect == Spec => []PostgresRolesTypeOK
<1>1. IInv => PostgresRolesTypeOK
  BY DEF IInv
<1>. QED
  BY <1>1, Inductive, PTL

(* For any number of overlapping transactions: a link nothing disturbed is  *)
(* followed by every later expansion, alone and together with the others.   *)
THEOREM SettledLinksExpand == Spec => []ExpandsSettled
<1>1. IInv => ExpandsSettled
  <2> SUFFICES ASSUME IInv, NEW r \in roles, NEW b \in Inherited(Reach(settled), r)
               PROVE  b \in ExpandRoles({r})
    BY DEF ExpandsSettled
  <2>1. r \in RoleID /\ b \in RoleID /\ Reachable(settled, r, b)
    BY DEF IInv, PostgresRolesTypeOK, Inherited, Reach, Reachable
  <2>2. <<r, b>> \in closure
    BY <2>1 DEF IInv, SettledHeld, SelfRows
  <2>. QED
    BY <2>1, <2>2 DEF ExpandRoles, Inherited
<1>. QED
  BY <1>1, Inductive, PTL

(* For any number of overlapping transactions: expansion never goes beyond  *)
(* the edges that were committed.                                           *)
THEOREM OnlyLinksExpand == Spec => []ExpandsOnlyLinked
<1>1. IInv => ExpandsOnlyLinked
  <2> SUFFICES ASSUME IInv, NEW r \in RoleID, NEW b \in ExpandRoles({r})
               PROVE  b \in Inherited(Reach(inheritance), r)
    BY DEF ExpandsOnlyLinked
  <2>1. b \in RoleID /\ <<r, b>> \in closure
    BY DEF ExpandRoles, Inherited
  <2>2. Reachable(inheritance, r, b)
    BY <2>1 DEF IInv, IsSound
  <2>. QED
    BY <2>1, <2>2 DEF Inherited, Reach, Reachable
<1>. QED
  BY <1>1, Inductive, PTL
=============================================================================
