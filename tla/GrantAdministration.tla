------------------------ MODULE GrantAdministration ------------------------
(***************************************************************************)
(* service.go and the stores: how grants come into a store and are listed. *)
(* CreateGrants, EnsureGrantsForOwners and EnsureGrantForOwner run in      *)
(* several threads over one store of one of three kinds:                   *)
(*   bootstrap   the default store: bulk writes, offsets as page cursors   *)
(*   file        jsonstore and inmemory: no bulk writes, offsets           *)
(*   postgres    bulk writes in a transaction, row IDs as page cursors     *)
(* A grant stands for all grants that grantsEquivalent identifies.  They   *)
(* have one expiry time, so that they are active together or not at all:   *)
(* the clock is left out.  CreateGrant sends the grants of built-in roles  *)
(* to the registry (BuiltInRegistry); the other calls never do.            *)
(***************************************************************************)
EXTENDS Naturals, SequencesExt

CONSTANTS Grant,       \* grants, up to grantsEquivalent
          OwnerOf,     \* OwnerOf[g]: the principal a grant belongs to
          Scoped,      \* the grants with a fixed team or object scope
          CreateList,  \* the lists callers pass to CreateGrants, and
          EnsureList,  \* to EnsureGrantsForOwners: an empty one returns at once
          Thread,
          Limit,       \* rows per page
          MaxRows      \* bound: row IDs handed out

ASSUME GrantAssumption ==
    /\ Scoped \subseteq Grant
    /\ CreateList \cup EnsureList \subseteq Seq(Grant) \ {<<>>}
    /\ Limit \in Nat \ {0} /\ MaxRows \in Nat

Kind == {"bootstrap", "file", "postgres"}
Owner == {OwnerOf[g] : g \in Grant}

VARIABLES kind,      \* the store's kind
          rows,      \* the grants in the store: [id, grant]
          lastId,    \* the last ID handed out; the order of the slice
          pc,        \* per thread: where its call is
          list,      \* its argument
          missing,   \* the grants still to be written
          looked,    \* how many of the list it has looked up
          ids,       \* the IDs before the rows of its open transaction
          wiped,     \* history: its owners whose grants were deleted during it
          contested, \* history: grants that calls overlapped or doubled on
          listing,   \* whether a caller is going through the pages
          cursor,    \* its cursor: an offset or a row ID
          returned,  \* the IDs of the rows it has been given
          twice,     \* history: whether a row was among them already
          standing,  \* history: rows there since it began
          deleted    \* history: whether rows were deleted since it began

callVars == <<pc, list, missing, looked, ids>>
pageVars == <<listing, cursor, returned, twice, standing, deleted>>
vars == <<kind, rows, lastId, callVars, wiped, contested, pageVars>>

Row == [id : 1..MaxRows, grant : Grant]
RowIds == {r.id : r \in rows}

GrantAdministrationTypeOK ==
    /\ kind \in Kind
    /\ rows \subseteq Row
    /\ lastId \in 0..MaxRows
    /\ \A r, q \in rows : r.id = q.id => r = q
    /\ pc \in [Thread -> {"idle", "look", "write", "inserted", "ok"}]
    /\ list \in [Thread -> CreateList \cup EnsureList \cup {<<>>}]
    /\ missing \in [Thread -> Seq(Grant)]
    /\ looked \in [Thread -> Nat] /\ \A t \in Thread : looked[t] <= Len(list[t])
    /\ ids \in [Thread -> 0..MaxRows]
    /\ wiped \in [Thread -> SUBSET Owner]
    /\ contested \subseteq Grant
    /\ listing \in BOOLEAN /\ deleted \in BOOLEAN /\ twice \in BOOLEAN
    /\ cursor \in 0..MaxRows
    /\ returned \subseteq 1..MaxRows
    /\ standing \subseteq RowIds

Init ==
    /\ kind \in Kind
    /\ rows = {} /\ lastId = 0
    /\ pc = [t \in Thread |-> "idle"]
    /\ list = [t \in Thread |-> <<>>]
    /\ missing = [t \in Thread |-> <<>>]
    /\ looked = [t \in Thread |-> 0]
    /\ ids = [t \in Thread |-> 0]
    /\ wiped = [t \in Thread |-> {}]
    /\ contested = {}
    /\ listing = FALSE /\ cursor = 0 /\ returned = {} /\ twice = FALSE
    /\ standing = {} /\ deleted = FALSE

-----------------------------------------------------------------------------
(* The calls that write grants.                                             *)

\* Mutant of Numbered: the first row takes the number last used.
NumberedFrom(grants, base) ==
    {[id |-> base + i - 1, grant |-> grants[i]] : i \in DOMAIN grants}

\* The rows of a sequence of grants, numbered after base.
Numbered(grants, base) ==
    {[id |-> base + i, grant |-> grants[i]] : i \in DOMAIN grants}

\* The calls that are under way and may write or have written g.
Concerned(g) == {t \in Thread : pc[t] # "idle" /\ g \in ToSet(list[t])}

Begin(t, grants, at) ==
    /\ pc[t] = "idle"
    /\ pc' = [pc EXCEPT ![t] = at]
    /\ list' = [list EXCEPT ![t] = grants]
    /\ looked' = [looked EXCEPT ![t] = 0]
    /\ wiped' = [wiped EXCEPT ![t] = {}]
    /\ UNCHANGED <<kind, rows, lastId, ids, pageVars>>

CreateGrants(t, grants) ==
    /\ Begin(t, grants, "write")
    /\ missing' = [missing EXCEPT ![t] = grants]
    /\ contested' = contested \cup ToSet(grants)

EnsureGrants(t, grants) ==
    /\ Begin(t, grants, "look")
    /\ missing' = [missing EXCEPT ![t] = <<>>]
    /\ contested' = contested \cup
         {g \in ToSet(grants) :
             Concerned(g) # {} \/ Cardinality({i \in DOMAIN grants : grants[i] = g}) > 1}

\* GrantsForPrincipal of the bootstrap store: by owner.
FoundByOwner(g) == \E r \in rows : r.grant = g

\* GrantsForPrincipal of the other stores asks for the grants that apply to an
\* empty request, and a fixed team or object scope applies to none.
FoundForNoRequest(g) == FoundByOwner(g) /\ g \notin Scoped

Found(g) == IF kind = "bootstrap" THEN FoundByOwner(g) ELSE FoundForNoRequest(g)

\* What is missing after the next grant of the list has been looked up.
StillMissing(t) ==
    LET g == list[t][looked[t] + 1]
    IN  IF Found(g) THEN missing[t] ELSE Append(missing[t], g)

\* A turn of the loop that leaves more missing and n grants looked up.
Turn(t, more, n) ==
    /\ pc[t] = "look"
    /\ missing' = [missing EXCEPT ![t] = more]
    /\ looked' = [looked EXCEPT ![t] = n]
    /\ pc' = [pc EXCEPT ![t] = IF n < Len(list[t]) THEN "look"
                               ELSE IF more = <<>> THEN "ok" ELSE "write"]
    /\ UNCHANGED <<kind, rows, lastId, list, ids, wiped, contested, pageVars>>

\* Mutant of Look: the first grant that is there ends the search.
LookUntilFound(t) ==
    Turn(t, StillMissing(t),
         IF Found(list[t][looked[t] + 1]) THEN Len(list[t]) ELSE looked[t] + 1)

\* Mutant of Look: once a grant is missing, every later one is.
LookLoosely(t) ==
    Turn(t, IF missing[t] = <<>> THEN StillMissing(t)
            ELSE Append(missing[t], list[t][looked[t] + 1]), looked[t] + 1)

\* One turn of the loop of EnsureGrantsForOwners, the only one of
\* EnsureGrantForOwner: the next grant is looked up among its owner's.
Look(t) == Turn(t, StillMissing(t), looked[t] + 1)

\* CreateGrants of the bootstrap store, under its mutex.
WriteBulk(t) ==
    /\ pc[t] = "write" /\ kind = "bootstrap"
    /\ lastId + Len(missing[t]) <= MaxRows
    /\ rows' = rows \cup Numbered(missing[t], lastId)
    /\ lastId' = lastId + Len(missing[t])
    /\ pc' = [pc EXCEPT ![t] = "ok"]
    /\ UNCHANGED <<kind, list, missing, looked, ids, wiped, contested, pageVars>>

\* CreateGrants of the PostgreSQL store: the batch inserts its rows, with IDs
\* from the sequence, ...
InsertBatch(t) ==
    /\ pc[t] = "write" /\ kind = "postgres"
    /\ lastId + Len(missing[t]) <= MaxRows
    /\ ids' = [ids EXCEPT ![t] = lastId]
    /\ lastId' = lastId + Len(missing[t])
    /\ pc' = [pc EXCEPT ![t] = "inserted"]
    /\ UNCHANGED <<kind, rows, list, missing, looked, wiped, contested, pageVars>>

\* ... and they become visible together, possibly after rows with higher IDs.
CommitBatch(t) ==
    /\ pc[t] = "inserted"
    /\ rows' = rows \cup Numbered(missing[t], ids[t])
    /\ pc' = [pc EXCEPT ![t] = "ok"]
    /\ UNCHANGED <<kind, lastId, list, missing, looked, ids, wiped, contested, pageVars>>

\* Without a bulk store the service writes one grant after the other.
WriteOne(t) ==
    /\ pc[t] = "write" /\ kind = "file"
    /\ lastId < MaxRows
    /\ rows' = rows \cup Numbered(<<Head(missing[t])>>, lastId)
    /\ lastId' = lastId + 1
    /\ missing' = [missing EXCEPT ![t] = Tail(@)]
    /\ pc' = [pc EXCEPT ![t] = IF Len(missing[t]) = 1 THEN "ok" ELSE "write"]
    /\ UNCHANGED <<kind, list, looked, ids, wiped, contested, pageVars>>

\* The call of t is over.
End(t) ==
    /\ pc' = [pc EXCEPT ![t] = "idle"]
    /\ list' = [list EXCEPT ![t] = <<>>]
    /\ missing' = [missing EXCEPT ![t] = <<>>]
    /\ looked' = [looked EXCEPT ![t] = 0]
    /\ ids' = [ids EXCEPT ![t] = 0]
    /\ wiped' = [wiped EXCEPT ![t] = {}]
    /\ UNCHANGED <<kind, contested, pageVars>>

\* A file store that cannot save has the grant in memory and returns an error:
\* the rest of the list is not written.
FailAtOne(t) ==
    /\ pc[t] = "write" /\ kind = "file"
    /\ lastId < MaxRows
    /\ rows' = rows \cup Numbered(<<Head(missing[t])>>, lastId)
    /\ lastId' = lastId + 1
    /\ End(t)

\* The database fails a query or the transaction; a cancelled call likewise.
Fail(t) ==
    /\ pc[t] \in {"look", "write", "inserted"} /\ kind = "postgres"
    /\ UNCHANGED <<rows, lastId>>
    /\ End(t)

Return(t) ==
    /\ pc[t] = "ok"
    /\ UNCHANGED <<rows, lastId>>
    /\ End(t)

DeleteGrantsForOwner(owner) ==
    LET gone == {r \in rows : OwnerOf[r.grant] = owner}
    IN  /\ rows' = rows \ gone
        /\ wiped' = [t \in Thread |->
                       IF \E g \in ToSet(list[t]) : OwnerOf[g] = owner
                       THEN wiped[t] \cup {owner} ELSE wiped[t]]
        /\ standing' = standing \ {r.id : r \in gone}
        /\ deleted' = (deleted \/ (listing /\ gone # {}))
        /\ UNCHANGED <<kind, lastId, callVars, contested, listing, cursor, returned,
                       twice>>

-----------------------------------------------------------------------------
(* ListGrants, page by page.                                                *)

BeginListing ==
    /\ ~ listing
    /\ listing' = TRUE
    /\ cursor' = 0
    /\ returned' = {} /\ twice' = FALSE
    /\ standing' = RowIds
    /\ deleted' = FALSE
    /\ UNCHANGED <<kind, rows, lastId, callVars, wiped, contested>>

\* Where the row of that ID is in the slice: the rows are in the order of their
\* numbers.
Position(id) == Cardinality({x \in RowIds : x <= id})

\* A page is cut from the slice at an offset, and the cursor of the next is
\* where it ended.
OffsetPage == {id \in RowIds : cursor < Position(id) /\ Position(id) <= cursor + Limit}

\* where id > cursor order by id limit n; a full page brings a cursor, even
\* when nothing follows.
IdPage ==
    LET after == {id \in RowIds : id > cursor}
    IN  {id \in after : Cardinality({x \in after : x <= id}) <= Limit}

Page == IF kind = "postgres" THEN IdPage ELSE OffsetPage

\* Whether the page comes with a cursor for another one.
HasNext ==
    IF kind = "postgres" THEN Cardinality(Page) = Limit
    ELSE cursor + Limit < Cardinality(RowIds)

\* Mutant of NextCursor: the offset of the last row in place of the one after.
NextCursorShort ==
    IF kind = "postgres" THEN Max(Page) ELSE cursor + Limit - 1

NextCursor == IF kind = "postgres" THEN Max(Page) ELSE cursor + Limit

NextPage ==
    /\ listing
    /\ returned' = returned \cup Page
    /\ twice' = (twice \/ returned \cap Page # {})
    /\ listing' = HasNext
    /\ cursor' = IF HasNext THEN NextCursor ELSE cursor
    /\ UNCHANGED <<kind, rows, lastId, callVars, wiped, contested, standing, deleted>>

-----------------------------------------------------------------------------
Next ==
    \/ \E t \in Thread :
         \/ \E grants \in CreateList : CreateGrants(t, grants)
         \/ \E grants \in EnsureList : EnsureGrants(t, grants)
         \/ Look(t) \/ WriteBulk(t) \/ InsertBatch(t) \/ CommitBatch(t)
         \/ WriteOne(t) \/ FailAtOne(t) \/ Fail(t) \/ Return(t)
    \/ \E owner \in Owner : DeleteGrantsForOwner(owner)
    \/ BeginListing \/ NextPage

Spec == Init /\ [][Next]_vars

Copies(g) == {r \in rows : r.grant = g}

(* However many calls ensure a grant, one after the other, and whichever of *)
(* them failed half-way, the store has it once.  The overlaps that break    *)
(* this are named: calls at the same time, the same grant twice in one      *)
(* list, a grant that was also created, and a grant with a fixed scope in   *)
(* any store but the bootstrap store, which every call writes again.        *)
EnsuredOnce ==
    \A g \in Grant \ contested :
        kind = "bootstrap" \/ g \notin Scoped => Cardinality(Copies(g)) <= 1

(* A call that reports success has left every grant of its list in the      *)
(* store, whether it found or wrote it, unless the grants of that owner     *)
(* were deleted while it ran.                                               *)
OkMeansPresent ==
    \A t \in Thread : pc[t] = "ok" =>
        \A i \in DOMAIN list[t] :
            Copies(list[t][i]) # {} \/ OwnerOf[list[t][i]] \in wiped[t]

(* A listing returns every grant that was there from its first page to its  *)
(* last, whatever is added meanwhile: with row IDs always, with offsets if  *)
(* nothing was deleted meanwhile.  And it returns none twice, though        *)
(* offsets are counted in a slice that shrinks and row IDs become visible   *)
(* out of order.                                                            *)
PagesReturnOnce ==
    /\ ~ listing /\ (kind = "postgres" \/ ~ deleted) => standing \subseteq returned
    /\ ~ twice
=============================================================================
