---------------------- MODULE GrantAdministrationProofs ----------------------
(***************************************************************************)
(* GrantAdministration, for any grants, owners, lists, threads, page       *)
(* length and number of rows:                                              *)
(*   NumberInv   numbers are handed out once (with the types)              *)
(*   PresentInv  what a call has dealt with is there or yet to be written  *)
(*   OnceInv     a grant nobody overlaps on is written at most once        *)
(*   PageInv     the pages have returned what lies before the cursor       *)
(* Each is inductive with the types, and each gives one property.          *)
(***************************************************************************)
EXTENDS GrantAdministration, SequenceTheorems, FiniteSetTheorems, FunctionTheorems,
        NaturalsInduction, TLAPS

(* Numbers are handed out once: to rows, or to a batch not yet committed.   *)
NumberInv ==
    /\ \A id \in RowIds : id <= lastId
    /\ \A t \in Thread :
         /\ pc[t] # "idle" => list[t] # <<>>
         /\ pc[t] = "look" => looked[t] < Len(list[t])
         /\ pc[t] = "write" => missing[t] # <<>>
         /\ pc[t] = "inserted" =>
              /\ kind = "postgres"
              /\ ids[t] + Len(missing[t]) <= lastId
              /\ \A i \in 1..Len(missing[t]) : ids[t] + i \notin RowIds
    /\ \A t, u \in Thread :
         t # u /\ pc[t] = "inserted" /\ pc[u] = "inserted" =>
             \A i \in 1..Len(missing[t]), j \in 1..Len(missing[u]) : ids[t] + i # ids[u] + j

(* What the pages have returned is what lies before the cursor.             *)
PageInv ==
    /\ ~ twice
    /\ \A id \in returned : id <= lastId
    /\ listing /\ kind = "postgres" =>
         /\ \A id \in returned : id <= cursor
         /\ \A id \in standing : id <= cursor => id \in returned
    /\ listing /\ kind # "postgres" =>
         /\ \A id \in returned \cap RowIds : Position(id) <= cursor
         /\ ~ deleted => \A id \in standing : Position(id) <= cursor => id \in returned
    /\ ~ listing /\ (kind = "postgres" \/ ~ deleted) => standing \subseteq returned

(* The grants EnsuredOnce speaks of.                                        *)
Uncontested == {g \in Grant \ contested : kind = "bootstrap" \/ g \notin Scoped}

(* What holds of one of them in the call of t: the call writes it once, if  *)
(* it has looked for it and found no copy.                                  *)
OnceBy(t, g) ==
    /\ \A i, j \in 1..Len(list[t]) : list[t][i] = g /\ list[t][j] = g => i = j
    /\ \A i, j \in 1..Len(missing[t]) : missing[t][i] = g /\ missing[t][j] = g => i = j
    /\ \A i \in 1..Len(missing[t]) : missing[t][i] = g =>
         /\ \E k \in 1..Len(list[t]) : list[t][k] = g /\ (pc[t] = "look" => k <= looked[t])
         /\ pc[t] # "ok" => Copies(g) = {}

(* It is on the list of one call at most.                                   *)
OnceFor(g) ==
    /\ \A t, u \in Thread : g \in ToSet(list[t]) /\ g \in ToSet(list[u]) => t = u
    /\ \A t \in Thread : OnceBy(t, g)
    /\ \A r, q \in Copies(g) : r = q

OnceInv ==
    /\ \A t \in Thread : pc[t] = "idle" => list[t] = <<>>
    /\ \A g \in Uncontested : OnceFor(g)

(* Every grant a call has dealt with is there, is yet to be written, or is  *)
(* its owner's whose grants were deleted.                                   *)
PresentInv ==
    \A t \in Thread : \A i \in 1..Len(list[t]) :
        \/ pc[t] = "look" /\ i > looked[t]
        \/ pc[t] \in {"look", "write", "inserted"} /\ list[t][i] \in ToSet(missing[t])
        \/ Copies(list[t][i]) # {}
        \/ OwnerOf[list[t][i]] \in wiped[t]

-----------------------------------------------------------------------------
(* 1. Types, and the numbers of the rows *)

LEMMA ListTypes ==
    ASSUME GrantAdministrationTypeOK, NEW t \in Thread
    PROVE  /\ list[t] \in Seq(Grant) /\ Len(list[t]) \in Nat
           /\ \A i \in 1..Len(list[t]) : list[t][i] \in Grant
           /\ missing[t] \in Seq(Grant) /\ Len(missing[t]) \in Nat
           /\ looked[t] \in Nat /\ ids[t] \in Nat
<1>1. list[t] \in Seq(Grant)
    <2>1. list[t] \in CreateList \cup EnsureList \cup {<<>>}
        BY DEF GrantAdministrationTypeOK
    <2>2. <<>> \in Seq(Grant)
        BY EmptySeq
    <2> QED BY <2>1, <2>2, GrantAssumption
<1>2. missing[t] \in Seq(Grant) /\ looked[t] \in Nat /\ ids[t] \in Nat
    BY GrantAssumption DEF GrantAdministrationTypeOK
<1> QED BY <1>1, <1>2, LenProperties, ElementOfSeq

LEMMA NumberedIs ==
    ASSUME NEW grants \in Seq(Grant), NEW base
    PROVE  \A r : r \in Numbered(grants, base) <=>
               \E i \in 1..Len(grants) : r = [id |-> base + i, grant |-> grants[i]]
BY DEF Numbered

LEMMA ToSetIs ==
    ASSUME NEW s \in Seq(Grant)
    PROVE  \A g : g \in ToSet(s) <=> \E i \in 1..Len(s) : s[i] = g
BY DEF ToSet

(* Rows with numbers that no row has yet.                                   *)
LEMMA NewRows ==
    ASSUME GrantAdministrationTypeOK, NEW grants \in Seq(Grant), NEW base \in Nat,
           base + Len(grants) <= MaxRows,
           \A i \in 1..Len(grants) : base + i \notin RowIds,
           rows' = rows \cup Numbered(grants, base)
    PROVE  /\ rows' \subseteq Row
           /\ \A r, q \in rows' : r.id = q.id => r = q
           /\ \A id : id \in RowIds' <=> id \in RowIds \/ \E i \in 1..Len(grants) : id = base + i
<1>1. \A r \in Numbered(grants, base) :
          \E i \in 1..Len(grants) : r = [id |-> base + i, grant |-> grants[i]]
    BY NumberedIs
<1>2. rows' \subseteq Row
    <2>1. \A i \in 1..Len(grants) : [id |-> base + i, grant |-> grants[i]] \in Row
        BY GrantAssumption DEF Row
    <2> QED BY <1>1, <2>1 DEF GrantAdministrationTypeOK
<1>3. ASSUME NEW r \in rows', NEW q \in rows', r.id = q.id
      PROVE  r = q
    <2>1. CASE r \in rows /\ q \in rows
        BY <1>3, <2>1 DEF GrantAdministrationTypeOK
    <2>2. CASE r \in Numbered(grants, base) /\ q \in Numbered(grants, base)
        <3>1. PICK i \in 1..Len(grants) : r = [id |-> base + i, grant |-> grants[i]]
            BY <1>1, <2>2
        <3>2. PICK j \in 1..Len(grants) : q = [id |-> base + j, grant |-> grants[j]]
            BY <1>1, <2>2
        <3> QED BY <1>3, <3>1, <3>2
    <2>3. CASE r \in rows /\ q \in Numbered(grants, base)
        BY <1>1, <1>3, <2>3 DEF RowIds
    <2>4. CASE r \in Numbered(grants, base) /\ q \in rows
        BY <1>1, <1>3, <2>4 DEF RowIds
    <2> QED BY <2>1, <2>2, <2>3, <2>4
<1>4. \A id : id \in RowIds' <=> id \in RowIds \/ \E i \in 1..Len(grants) : id = base + i
    <2>1. \A id : id \in RowIds' <=> \E r \in rows' : r.id = id
        BY DEF RowIds
    <2>2. \A id : id \in RowIds <=> \E r \in rows : r.id = id
        BY DEF RowIds
    <2>3. ASSUME NEW i \in 1..Len(grants)
          PROVE  base + i \in RowIds'
        <3>1. [id |-> base + i, grant |-> grants[i]] \in rows'
            BY NumberedIs
        <3> QED BY <2>1, <3>1
    <2>4. \A r \in Numbered(grants, base) : \E i \in 1..Len(grants) : r.id = base + i
        BY <1>1
    <2> QED BY <2>1, <2>2, <2>3, <2>4
<1> QED BY <1>2, <1>3, <1>4

LEMMA RowIdTypes ==
    ASSUME GrantAdministrationTypeOK
    PROVE  /\ RowIds \subseteq 1..MaxRows /\ IsFiniteSet(RowIds)
           /\ Cardinality(RowIds) \in Nat /\ Cardinality(RowIds) <= MaxRows
<1>1. RowIds \subseteq 1..MaxRows
    BY DEF GrantAdministrationTypeOK, RowIds, Row
<1>2. IsFiniteSet(1..MaxRows) /\ Cardinality(1..MaxRows) = MaxRows
    BY FS_Interval, GrantAssumption
<1>3. IsFiniteSet(RowIds) /\ Cardinality(RowIds) <= MaxRows
    BY <1>1, <1>2, FS_Subset
<1> QED BY <1>1, <1>3, FS_CardinalityType

LEMMA LeastNatural ==
    ASSUME NEW T \in SUBSET Nat, T # {}
    PROVE  \E m \in T : \A k \in T : m <= k
<1> DEFINE less == OpToRel(<, Nat)
<1>1. IsWellFoundedOn(less, Nat)
    BY NatLessThanWellFounded
<1>2. \A x, y \in Nat : x < y => <<x, y>> \in less
    BY DEF OpToRel
<1> HIDE DEF less
<1>3. PICK m \in T : \A k \in T : <<k, m>> \notin less
    BY <1>1, WFMin
<1>4. \A k \in T : ~ (k < m)
    BY <1>2, <1>3
<1> QED BY <1>4

(* A set of numbers of rows that is not empty has a greatest.               *)
LEMMA MaxIs ==
    ASSUME NEW n \in Nat, NEW S \in SUBSET (1..n), S # {}
    PROVE  Max(S) \in S /\ \A y \in S : y <= Max(S)
<1> DEFINE T == {m \in Nat : \A y \in S : y <= m}
<1>1. n \in T
    OBVIOUS
<1>2. PICK m \in T : \A k \in T : m <= k
    BY <1>1, LeastNatural
<1>3. m \in S
    <2> SUFFICES ASSUME m \notin S
                 PROVE  FALSE
        OBVIOUS
    <2>1. PICK y \in S : TRUE
        OBVIOUS
    <2>2. m >= 1 /\ m \in Nat
        BY <1>2, <2>1
    <2>3. m - 1 \in T
        BY <1>2, <2>2
    <2> QED BY <1>2, <2>2
<1>4. \A y \in S : m >= y
    BY <1>2
<1> QED BY <1>3, <1>4 DEF Max

LEMMA PageTypes ==
    ASSUME GrantAdministrationTypeOK
    PROVE  /\ Page \subseteq RowIds
           /\ IsFiniteSet(Page) /\ Cardinality(Page) \in Nat
           /\ HasNext => NextCursor \in 0..MaxRows
<1>1. Page \subseteq RowIds
    BY DEF Page, IdPage, OffsetPage
<1>2. IsFiniteSet(Page) /\ Cardinality(Page) \in Nat
    BY <1>1, RowIdTypes, FS_Subset, FS_CardinalityType
<1>3. ASSUME HasNext
      PROVE  NextCursor \in 0..MaxRows
    <2>1. CASE kind = "postgres"
        <3>1. Page # {}
            BY <1>3, <2>1, FS_EmptySet, GrantAssumption DEF HasNext
        <3>2. Max(Page) \in Page
            BY <1>1, <3>1, MaxIs, RowIdTypes, GrantAssumption
        <3> QED BY <1>1, <2>1, <3>2, RowIdTypes DEF NextCursor
    <2>2. CASE kind # "postgres"
        <3>1. cursor + Limit < Cardinality(RowIds) /\ cursor \in Nat
            BY <1>3, <2>2 DEF HasNext, GrantAdministrationTypeOK
        <3> QED BY <2>2, <3>1, RowIdTypes, GrantAssumption DEF NextCursor
    <2> QED BY <2>1, <2>2
<1> QED BY <1>1, <1>2, <1>3

TInv == GrantAdministrationTypeOK /\ NumberInv

LEMMA InitTInv == Init => TInv
<1> SUFFICES ASSUME Init
             PROVE  TInv
    OBVIOUS
<1>1. RowIds = {}
    BY DEF Init, RowIds
<1>2. <<>> \in Seq(Grant) /\ Len(<<>>) = 0
    BY EmptySeq
<1>3. \A t \in Thread : pc[t] = "idle" /\ list[t] = <<>> /\ looked[t] = 0
    BY DEF Init
<1>4. GrantAdministrationTypeOK
    <2>1. /\ list \in [Thread -> CreateList \cup EnsureList \cup {<<>>}]
          /\ missing \in [Thread -> Seq(Grant)] /\ looked \in [Thread -> Nat]
        BY <1>2 DEF Init
    <2>2. ids \in [Thread -> 0..MaxRows] /\ lastId \in 0..MaxRows /\ cursor \in 0..MaxRows
        BY GrantAssumption DEF Init
    <2>3. \A t \in Thread : looked[t] <= Len(list[t])
        BY <1>2, <1>3
    <2> QED BY <2>1, <2>2, <2>3 DEF Init, GrantAdministrationTypeOK
<1>5. NumberInv
    BY <1>1, <1>3 DEF NumberInv
<1> QED BY <1>4, <1>5 DEF TInv

(* A step of one call: the rows are as they were.                           *)
LEMMA BeginTypes ==
    ASSUME TInv, NEW t \in Thread, NEW grants \in CreateList \cup EnsureList,
           CreateGrants(t, grants) \/ EnsureGrants(t, grants)
    PROVE  TInv'
<1>1. grants \in Seq(Grant) /\ grants # <<>> /\ Len(grants) \in Nat /\ Len(grants) > 0
    BY GrantAssumption, LenProperties, EmptySeq
<1>2. \A g \in ToSet(grants) : g \in Grant
    BY <1>1, ToSetIs, ElementOfSeq
<1>3. RowIds' = RowIds
    BY DEF CreateGrants, EnsureGrants, Begin, RowIds
<1>4. PICK at \in {"look", "write"}, more \in {grants, <<>>} :
          /\ pc[t] = "idle" /\ pc' = [pc EXCEPT ![t] = at]
          /\ list' = [list EXCEPT ![t] = grants]
          /\ looked' = [looked EXCEPT ![t] = 0]
          /\ missing' = [missing EXCEPT ![t] = more]
          /\ wiped' = [wiped EXCEPT ![t] = {}]
          /\ contested' \subseteq contested \cup ToSet(grants)
          /\ UNCHANGED <<kind, rows, lastId, ids, pageVars>>
          /\ at = "write" => more = grants
    BY DEF CreateGrants, EnsureGrants, Begin
<1>5. more \in Seq(Grant)
    BY <1>1, EmptySeq
<1>6. GrantAdministrationTypeOK'
    <2>1. pc' \in [Thread -> {"idle", "look", "write", "inserted", "ok"}]
        BY <1>4 DEF TInv, GrantAdministrationTypeOK
    <2>2. list' \in [Thread -> CreateList \cup EnsureList \cup {<<>>}]
        BY <1>4 DEF TInv, GrantAdministrationTypeOK
    <2>3. missing' \in [Thread -> Seq(Grant)]
        BY <1>4, <1>5 DEF TInv, GrantAdministrationTypeOK
    <2>4. looked' \in [Thread -> Nat] /\ \A u \in Thread : looked'[u] <= Len(list'[u])
        BY <1>1, <1>4 DEF TInv, GrantAdministrationTypeOK
    <2>5. wiped' \in [Thread -> SUBSET Owner] /\ contested' \subseteq Grant
        BY <1>2, <1>4 DEF TInv, GrantAdministrationTypeOK
    <2> QED
        BY <1>3, <1>4, <2>1, <2>2, <2>3, <2>4, <2>5 DEF TInv, GrantAdministrationTypeOK, pageVars
<1>7. NumberInv'
    <2>1. \A u \in Thread \ {t} : pc'[u] = pc[u] /\ list'[u] = list[u] /\ looked'[u] = looked[u]
                                   /\ missing'[u] = missing[u]
        BY <1>4 DEF TInv, GrantAdministrationTypeOK
    <2>2. pc'[t] = at /\ list'[t] = grants /\ looked'[t] = 0 /\ missing'[t] = more
        BY <1>4 DEF TInv, GrantAdministrationTypeOK
    <2> QED BY <1>1, <1>3, <1>4, <2>1, <2>2 DEF TInv, NumberInv
<1> QED BY <1>6, <1>7 DEF TInv

LEMMA LookTypes ==
    ASSUME TInv, NEW t \in Thread, Look(t)
    PROVE  TInv'
<1> DEFINE g == list[t][looked[t] + 1]
<1>1. pc[t] = "look" /\ looked[t] \in Nat /\ looked[t] + 1 \in 1..Len(list[t]) /\ g \in Grant
    BY ListTypes DEF TInv, NumberInv, Look, Turn
<1>2. StillMissing(t) \in Seq(Grant)
    BY <1>1, ListTypes DEF TInv, StillMissing
<1>3. RowIds' = RowIds
    BY DEF Look, Turn, RowIds
<1>4. GrantAdministrationTypeOK'
    BY <1>1, <1>2, <1>3 DEF TInv, GrantAdministrationTypeOK, Look, Turn, pageVars
<1>5. NumberInv'
    <2>1. /\ pc' = [pc EXCEPT ![t] = IF looked[t] + 1 < Len(list[t]) THEN "look"
                                     ELSE IF StillMissing(t) = <<>> THEN "ok" ELSE "write"]
          /\ missing' = [missing EXCEPT ![t] = StillMissing(t)]
          /\ looked' = [looked EXCEPT ![t] = looked[t] + 1]
          /\ UNCHANGED <<kind, lastId, list, ids>>
        BY DEF Look, Turn
    <2>2. \A u \in Thread \ {t} : pc'[u] = pc[u] /\ looked'[u] = looked[u]
                                   /\ missing'[u] = missing[u]
        BY <2>1 DEF TInv, GrantAdministrationTypeOK
    <2>3. /\ pc'[t] = IF looked[t] + 1 < Len(list[t]) THEN "look"
                      ELSE IF StillMissing(t) = <<>> THEN "ok" ELSE "write"
          /\ missing'[t] = StillMissing(t) /\ looked'[t] = looked[t] + 1
        BY <2>1 DEF TInv, GrantAdministrationTypeOK
    <2> QED BY <1>1, <1>3, <2>1, <2>2, <2>3 DEF TInv, NumberInv
<1> QED BY <1>4, <1>5 DEF TInv

(* A call ends: what is known of the others and of the rows is as it was.   *)
LEMMA EndCallTypes ==
    ASSUME TInv, NEW t \in Thread, End(t)
    PROVE  /\ pc' \in [Thread -> {"idle", "look", "write", "inserted", "ok"}]
           /\ list' \in [Thread -> CreateList \cup EnsureList \cup {<<>>}]
           /\ missing' \in [Thread -> Seq(Grant)]
           /\ looked' \in [Thread -> Nat] /\ \A u \in Thread : looked'[u] <= Len(list'[u])
           /\ ids' \in [Thread -> 0..MaxRows]
           /\ wiped' \in [Thread -> SUBSET Owner]
           /\ pc'[t] = "idle" /\ list'[t] = <<>> /\ missing'[t] = <<>> /\ wiped'[t] = {}
           /\ \A u \in Thread \ {t} :
                 pc'[u] = pc[u] /\ list'[u] = list[u] /\ looked'[u] = looked[u]
                 /\ missing'[u] = missing[u] /\ ids'[u] = ids[u] /\ wiped'[u] = wiped[u]
<1>1. <<>> \in Seq(Grant) /\ Len(<<>>) = 0
    BY EmptySeq
<1>2. \A u \in Thread : looked[u] <= Len(list[u])
    BY DEF TInv, GrantAdministrationTypeOK
<1> USE DEF TInv, GrantAdministrationTypeOK, End
<1>3. pc' \in [Thread -> {"idle", "look", "write", "inserted", "ok"}] /\ pc'[t] = "idle"
    OBVIOUS
<1>4. list' \in [Thread -> CreateList \cup EnsureList \cup {<<>>}] /\ list'[t] = <<>>
    OBVIOUS
<1>5. missing' \in [Thread -> Seq(Grant)] /\ missing'[t] = <<>>
    BY <1>1
<1>6. looked' \in [Thread -> Nat] /\ looked'[t] = 0
    OBVIOUS
<1>7. ids' \in [Thread -> 0..MaxRows] /\ wiped' \in [Thread -> SUBSET Owner] /\ wiped'[t] = {}
    BY GrantAssumption
<1>8. \A u \in Thread \ {t} :
          pc'[u] = pc[u] /\ list'[u] = list[u] /\ looked'[u] = looked[u]
          /\ missing'[u] = missing[u] /\ ids'[u] = ids[u] /\ wiped'[u] = wiped[u]
    OBVIOUS
<1> HIDE DEF TInv, GrantAdministrationTypeOK, End
<1>9. \A u \in Thread : looked'[u] <= Len(list'[u])
    BY <1>1, <1>2, <1>4, <1>6, <1>8
<1> QED BY <1>3, <1>4, <1>5, <1>6, <1>7, <1>8, <1>9

LEMMA EndTypes ==
    ASSUME TInv, NEW t \in Thread, Return(t) \/ Fail(t)
    PROVE  TInv'
<1>1. End(t) /\ UNCHANGED <<rows, lastId>>
    BY DEF Return, Fail
<1>2. RowIds' = RowIds
    BY <1>1 DEF RowIds
<1>3. GrantAdministrationTypeOK'
    <2>1. /\ UNCHANGED <<kind, rows, lastId, RowIds, contested, listing, cursor, returned, twice,
                       standing, deleted>>
        BY <1>1, <1>2 DEF End, pageVars
    <2> QED BY <1>1, <2>1, EndCallTypes DEF TInv, GrantAdministrationTypeOK
<1>4. NumberInv'
    <2>1. /\ pc'[t] = "idle"
          /\ \A u \in Thread \ {t} :
                pc'[u] = pc[u] /\ list'[u] = list[u] /\ looked'[u] = looked[u]
                /\ missing'[u] = missing[u] /\ ids'[u] = ids[u]
        BY <1>1, EndCallTypes
    <2>2. UNCHANGED <<kind, lastId>>
        BY <1>1 DEF End
    <2> QED BY <1>2, <2>1, <2>2 DEF TInv, NumberInv
<1> QED BY <1>3, <1>4 DEF TInv

(* The grants a step writes, as rows numbered after the last.               *)
Written(grants) ==
    /\ rows' = rows \cup Numbered(grants, lastId)
    /\ lastId' = lastId + Len(grants)

LEMMA WrittenTypes ==
    ASSUME TInv, NEW grants \in Seq(Grant), lastId + Len(grants) <= MaxRows, Written(grants)
    PROVE  /\ rows' \subseteq Row /\ \A r, q \in rows' : r.id = q.id => r = q
           /\ lastId' \in 0..MaxRows
           /\ RowIds \subseteq RowIds'
           /\ \A id \in RowIds' : id <= lastId'
           /\ \A id \in RowIds' \ RowIds : id \in Nat /\ id > lastId
<1>1. lastId \in Nat /\ Len(grants) \in Nat /\ \A id \in RowIds : id <= lastId /\ id \in Nat
    BY LenProperties, RowIdTypes DEF TInv, GrantAdministrationTypeOK, NumberInv
<1>2. \A i \in 1..Len(grants) : lastId + i \notin RowIds
    BY <1>1
<1>3. \A id : id \in RowIds' <=> id \in RowIds \/ \E i \in 1..Len(grants) : id = lastId + i
    BY <1>1, <1>2, NewRows DEF Written, TInv
<1>4. rows' \subseteq Row /\ \A r, q \in rows' : r.id = q.id => r = q
    BY <1>1, <1>2, NewRows DEF Written, TInv
<1>5. lastId' = lastId + Len(grants)
    BY DEF Written
<1>6. \A id \in RowIds' : id <= lastId'
    BY <1>1, <1>3, <1>5
<1>7. \A id \in RowIds' \ RowIds : id \in Nat /\ id > lastId
    BY <1>1, <1>3
<1> QED BY <1>1, <1>3, <1>4, <1>5, <1>6, <1>7, GrantAssumption

LEMMA OneGrant ==
    ASSUME TInv, NEW t \in Thread, pc[t] = "write"
    PROVE  /\ missing[t] \in Seq(Grant) /\ missing[t] # <<>> /\ Len(missing[t]) \in Nat \ {0}
           /\ <<Head(missing[t])>> \in Seq(Grant) /\ Len(<<Head(missing[t])>>) = 1
           /\ Head(missing[t]) = missing[t][1]
           /\ Tail(missing[t]) \in Seq(Grant) /\ Len(Tail(missing[t])) = Len(missing[t]) - 1
           /\ \A i \in 1..Len(Tail(missing[t])) : Tail(missing[t])[i] = missing[t][i + 1]
<1>1. missing[t] \in Seq(Grant) /\ missing[t] # <<>>
    BY ListTypes DEF TInv, NumberInv
<1>2. Len(missing[t]) \in Nat \ {0}
    BY <1>1, EmptySeq
<1>3. /\ Head(missing[t]) \in Grant
      /\ Tail(missing[t]) \in Seq(Grant) /\ Len(Tail(missing[t])) = Len(missing[t]) - 1
      /\ \A i \in 1..Len(Tail(missing[t])) : Tail(missing[t])[i] = missing[t][i + 1]
    BY <1>1, HeadTailProperties
<1> QED BY <1>1, <1>2, <1>3

(* The actions that write rows at once write them so.                       *)
LEMMA WritesAre ==
    ASSUME TInv, NEW t \in Thread, WriteBulk(t) \/ WriteOne(t) \/ FailAtOne(t)
    PROVE  /\ rows' \subseteq Row /\ \A r, q \in rows' : r.id = q.id => r = q
           /\ lastId' \in 0..MaxRows /\ lastId <= lastId'
           /\ RowIds \subseteq RowIds' /\ \A id \in RowIds' : id <= lastId'
           /\ \A id \in RowIds' \ RowIds : id \in Nat /\ id > lastId
<1> DEFINE grants == IF kind = "bootstrap" THEN missing[t] ELSE <<Head(missing[t])>>
<1>1. pc[t] = "write" /\ kind # "postgres"
    BY DEF WriteBulk, WriteOne, FailAtOne
<1>2. /\ grants \in Seq(Grant) /\ lastId + Len(grants) <= MaxRows /\ Written(grants)
    <2>1. CASE WriteBulk(t)
        BY <1>1, <2>1, OneGrant DEF WriteBulk, Written
    <2>2. CASE WriteOne(t) \/ FailAtOne(t)
        <3>1. lastId \in Nat /\ lastId < MaxRows /\ kind = "file"
            BY <2>2 DEF WriteOne, FailAtOne, TInv, GrantAdministrationTypeOK
        <3>2. lastId + Len(grants) <= MaxRows
            BY <1>1, <3>1, OneGrant, GrantAssumption
        <3> QED BY <1>1, <2>2, <3>1, <3>2, OneGrant DEF WriteOne, FailAtOne, Written
    <2> QED BY <2>1, <2>2, <1>1 DEF WriteBulk, WriteOne, FailAtOne
<1> HIDE DEF grants
<1>3. lastId <= lastId'
    <2>1. lastId \in Nat /\ Len(grants) \in Nat
        BY <1>2, LenProperties DEF TInv, GrantAdministrationTypeOK
    <2> QED BY <1>2, <2>1 DEF Written
<1> QED BY <1>2, <1>3, WrittenTypes

LEMMA WriteTypes ==
    ASSUME TInv, NEW t \in Thread, WriteBulk(t) \/ WriteOne(t) \/ FailAtOne(t)
    PROVE  TInv'
<1>1. pc[t] = "write" /\ kind # "postgres"
    BY DEF WriteBulk, WriteOne, FailAtOne
<1>2. /\ rows' \subseteq Row /\ \A r, q \in rows' : r.id = q.id => r = q
      /\ lastId' \in 0..MaxRows /\ RowIds \subseteq RowIds'
      /\ \A id \in RowIds' : id <= lastId'
    BY WritesAre
<1>3. \A u \in Thread : pc[u] # "inserted"
    BY <1>1 DEF TInv, NumberInv
<1>4. CASE WriteBulk(t)
    <2>1. GrantAdministrationTypeOK'
        BY <1>2, <1>4 DEF TInv, GrantAdministrationTypeOK, WriteBulk, pageVars
    <2>2. NumberInv'
        BY <1>2, <1>3, <1>4 DEF TInv, GrantAdministrationTypeOK, NumberInv, WriteBulk
    <2> QED BY <2>1, <2>2 DEF TInv
<1>5. CASE WriteOne(t)
    <2>1. Tail(missing[t]) \in Seq(Grant)
        BY <1>1, OneGrant
    <2>2. missing' \in [Thread -> Seq(Grant)]
        BY <1>5, <2>1 DEF TInv, GrantAdministrationTypeOK, WriteOne
    <2>3. pc' \in [Thread -> {"idle", "look", "write", "inserted", "ok"}]
        BY <1>5 DEF TInv, GrantAdministrationTypeOK, WriteOne
    <2>4. GrantAdministrationTypeOK'
        <3>1. UNCHANGED <<kind, list, looked, ids, wiped, contested, listing, cursor, returned,
                          twice, standing, deleted>>
            BY <1>5 DEF WriteOne, pageVars
        <3> QED BY <1>2, <2>2, <2>3, <3>1 DEF TInv, GrantAdministrationTypeOK
    <2>5. Len(missing[t]) # 1 => Tail(missing[t]) # <<>>
        <3>1. Len(missing[t]) \in Nat \ {0} /\ Len(Tail(missing[t])) = Len(missing[t]) - 1
            BY <1>1, OneGrant
        <3>2. Len(<<>>) = 0
            OBVIOUS
        <3>3. Tail(missing[t]) = <<>> => Len(Tail(missing[t])) = 0
            BY <3>2, Zenon
        <3>4. Len(Tail(missing[t])) # 0 \/ Len(missing[t]) = 1
            BY <3>1
        <3> QED BY <3>3, <3>4, Zenon
    <2>6. NumberInv'
        BY <1>2, <1>3, <1>5, <2>5 DEF TInv, GrantAdministrationTypeOK, NumberInv, WriteOne
    <2> QED BY <2>4, <2>6 DEF TInv
<1>6. CASE FailAtOne(t)
    <2>1. End(t)
        BY <1>6 DEF FailAtOne
    <2>2. GrantAdministrationTypeOK'
        <3>1. UNCHANGED <<kind, contested, listing, cursor, returned, twice, standing, deleted>>
            BY <2>1 DEF End, pageVars
        <3>2. GrantAdministrationTypeOK
            BY DEF TInv
        <3> QED BY <1>2, <2>1, <3>1, <3>2, EndCallTypes DEF GrantAdministrationTypeOK
    <2>3. NumberInv'
        <3>1. /\ pc'[t] = "idle"
              /\ \A u \in Thread \ {t} :
                    pc'[u] = pc[u] /\ list'[u] = list[u] /\ looked'[u] = looked[u]
                    /\ missing'[u] = missing[u]
            BY <2>1, EndCallTypes
        <3> QED BY <1>2, <1>3, <3>1 DEF TInv, NumberInv
    <2> QED BY <2>2, <2>3 DEF TInv
<1> QED BY <1>4, <1>5, <1>6

LEMMA InsertTypes ==
    ASSUME TInv, NEW t \in Thread, InsertBatch(t)
    PROVE  TInv'
<1>1. /\ pc[t] = "write" /\ kind = "postgres" /\ lastId + Len(missing[t]) <= MaxRows
      /\ ids' = [ids EXCEPT ![t] = lastId] /\ lastId' = lastId + Len(missing[t])
      /\ pc' = [pc EXCEPT ![t] = "inserted"]
      /\ UNCHANGED <<kind, rows, list, missing, looked, wiped, contested, listing, cursor,
                     returned, twice, standing, deleted>>
    BY DEF InsertBatch, pageVars
<1>2. lastId \in Nat /\ Len(missing[t]) \in Nat
    BY ListTypes DEF TInv, GrantAdministrationTypeOK
<1>3. RowIds' = RowIds
    BY <1>1 DEF RowIds
<1>4. lastId' \in 0..MaxRows /\ lastId' \in Nat /\ lastId <= lastId'
    BY <1>1, <1>2, GrantAssumption
<1>5. GrantAdministrationTypeOK'
    BY <1>1, <1>3, <1>4 DEF TInv, GrantAdministrationTypeOK
<1>6. NumberInv'
    <2>1. \A u \in Thread \ {t} : pc'[u] = pc[u] /\ ids'[u] = ids[u]
        BY <1>1 DEF TInv, GrantAdministrationTypeOK
    <2>2. pc'[t] = "inserted" /\ ids'[t] = lastId
        BY <1>1 DEF TInv, GrantAdministrationTypeOK
    <2>3. \A id \in RowIds : id \in Nat /\ id <= lastId /\ id <= lastId'
        BY <1>2, <1>4, RowIdTypes DEF TInv, NumberInv
    <2>4. ASSUME NEW u \in Thread, pc'[u] = "inserted"
          PROVE  /\ ids'[u] \in Nat /\ Len(missing'[u]) \in Nat /\ kind' = "postgres"
                 /\ ids'[u] + Len(missing'[u]) <= lastId'
                 /\ \A i \in 1..Len(missing'[u]) : ids'[u] + i \notin RowIds'
        <3>1. CASE u = t
            BY <1>1, <1>2, <1>3, <1>4, <2>2, <2>3, <3>1
        <3>2. CASE u # t
            <4>1. ids[u] \in Nat /\ Len(missing[u]) \in Nat
                BY ListTypes DEF TInv
            <4>2. /\ ids[u] + Len(missing[u]) <= lastId
                  /\ \A i \in 1..Len(missing[u]) : ids[u] + i \notin RowIds
                BY <2>1, <2>4, <3>2 DEF TInv, NumberInv
            <4> QED BY <1>1, <1>2, <1>3, <1>4, <2>1, <3>2, <4>1, <4>2
        <3> QED BY <3>1, <3>2
    <2>5. ASSUME NEW u \in Thread, NEW v \in Thread, u # v, pc'[u] = "inserted", pc'[v] = "inserted",
                 NEW i \in 1..Len(missing'[u]), NEW j \in 1..Len(missing'[v])
          PROVE  ids'[u] + i # ids'[v] + j
        <3>1. CASE u # t /\ v # t
            BY <1>1, <2>1, <2>5, <3>1 DEF TInv, NumberInv
        <3>2. ASSUME NEW w \in Thread \ {t}, pc'[w] = "inserted", NEW k \in 1..Len(missing'[w])
              PROVE  ids'[w] + k <= lastId /\ ids'[w] + k \in Nat
            <4>1. ids[w] \in Nat /\ Len(missing[w]) \in Nat
                BY ListTypes DEF TInv
            <4>2. ids[w] + Len(missing[w]) <= lastId
                BY <2>1, <3>2 DEF TInv, NumberInv
            <4>3. ids'[w] = ids[w] /\ k \in 1..Len(missing[w])
                BY <1>1, <2>1, <3>2
            <4> QED BY <1>2, <4>1, <4>2, <4>3
        <3>3. CASE u = t
            BY <1>2, <2>2, <2>5, <3>2, <3>3
        <3>4. CASE v = t
            BY <1>2, <2>2, <2>5, <3>2, <3>4
        <3> QED BY <3>1, <3>3, <3>4
    <2>6. ASSUME NEW u \in Thread
          PROVE  /\ pc'[u] # "idle" => list'[u] # <<>>
                 /\ pc'[u] = "look" => looked'[u] < Len(list'[u])
                 /\ pc'[u] = "write" => missing'[u] # <<>>
        BY <1>1, <2>1, <2>2 DEF TInv, NumberInv
    <2>7. \A id \in RowIds' : id <= lastId'
        BY <1>3, <2>3
    <2> QED BY <2>4, <2>5, <2>6, <2>7 DEF NumberInv
<1> QED BY <1>5, <1>6 DEF TInv

LEMMA CommitTypes ==
    ASSUME TInv, NEW t \in Thread, CommitBatch(t)
    PROVE  TInv'
<1>1. /\ pc[t] = "inserted" /\ rows' = rows \cup Numbered(missing[t], ids[t])
      /\ pc' = [pc EXCEPT ![t] = "ok"]
      /\ UNCHANGED <<kind, lastId, list, missing, looked, ids, wiped, contested, listing, cursor,
                     returned, twice, standing, deleted>>
    BY DEF CommitBatch, pageVars
<1>2. /\ missing[t] \in Seq(Grant) /\ Len(missing[t]) \in Nat /\ ids[t] \in Nat
      /\ ids[t] + Len(missing[t]) <= lastId /\ lastId \in Nat /\ lastId <= MaxRows
      /\ \A i \in 1..Len(missing[t]) : ids[t] + i \notin RowIds
    BY <1>1, ListTypes DEF TInv, NumberInv, GrantAdministrationTypeOK
<1>3. /\ rows' \subseteq Row /\ \A r, q \in rows' : r.id = q.id => r = q
      /\ \A id : id \in RowIds' <=> id \in RowIds \/ \E i \in 1..Len(missing[t]) : id = ids[t] + i
    <2>1. ids[t] + Len(missing[t]) <= MaxRows
        BY <1>2, GrantAssumption
    <2> QED BY <1>1, <1>2, <2>1, NewRows DEF TInv
<1>4. GrantAdministrationTypeOK'
    BY <1>1, <1>3 DEF TInv, GrantAdministrationTypeOK
<1>5. NumberInv'
    <2>1. \A u \in Thread \ {t} : pc'[u] = pc[u]
        BY <1>1 DEF TInv, GrantAdministrationTypeOK
    <2>2. pc'[t] = "ok"
        BY <1>1 DEF TInv, GrantAdministrationTypeOK
    <2>3. \A id \in RowIds' : id <= lastId'
        BY <1>1, <1>2, <1>3, RowIdTypes DEF TInv, NumberInv
    <2>4. ASSUME NEW u \in Thread, pc'[u] = "inserted"
          PROVE  \A i \in 1..Len(missing[u]) : ids[u] + i \notin RowIds'
        <3>1. u # t /\ pc[u] = "inserted"
            BY <2>1, <2>2, <2>4
        <3>2. \A i \in 1..Len(missing[u]) : ids[u] + i \notin RowIds
            BY <3>1 DEF TInv, NumberInv
        <3>3. \A i \in 1..Len(missing[u]), j \in 1..Len(missing[t]) : ids[u] + i # ids[t] + j
            BY <1>1, <3>1 DEF TInv, NumberInv
        <3> QED BY <1>3, <3>2, <3>3
    <2> QED BY <1>1, <2>1, <2>2, <2>3, <2>4 DEF TInv, NumberInv
<1> QED BY <1>4, <1>5 DEF TInv

LEMMA DeleteTypes ==
    ASSUME TInv, NEW owner \in Owner, DeleteGrantsForOwner(owner)
    PROVE  TInv'
<1> DEFINE gone == {r \in rows : OwnerOf[r.grant] = owner}
<1>1. /\ rows' = rows \ gone /\ standing' = standing \ {r.id : r \in gone}
      /\ wiped' \in [Thread -> SUBSET Owner] /\ deleted' \in BOOLEAN
      /\ UNCHANGED <<kind, lastId, pc, list, missing, looked, ids, contested, listing, cursor,
                     returned, twice>>
    BY DEF DeleteGrantsForOwner, callVars, TInv, GrantAdministrationTypeOK
<1>2. RowIds' \subseteq RowIds /\ standing' \subseteq RowIds'
    <2>1. RowIds' = RowIds \ {r.id : r \in gone}
        BY <1>1 DEF RowIds, TInv, GrantAdministrationTypeOK
    <2> QED BY <1>1, <2>1 DEF TInv, GrantAdministrationTypeOK
<1>3. GrantAdministrationTypeOK'
    BY <1>1, <1>2 DEF TInv, GrantAdministrationTypeOK
<1>4. NumberInv'
    BY <1>1, <1>2 DEF TInv, NumberInv
<1> QED BY <1>3, <1>4 DEF TInv

LEMMA PagingTypes ==
    ASSUME TInv, BeginListing \/ NextPage
    PROVE  TInv'
<1>1. UNCHANGED <<kind, rows, lastId, pc, list, missing, looked, ids, wiped, contested>>
    BY DEF BeginListing, NextPage, callVars
<1>2. RowIds' = RowIds
    BY <1>1 DEF RowIds
<1>3. /\ listing' \in BOOLEAN /\ deleted' \in BOOLEAN /\ twice' \in BOOLEAN
      /\ cursor' \in 0..MaxRows /\ returned' \subseteq 1..MaxRows /\ standing' \subseteq RowIds
    <2>1. CASE BeginListing
        <3>1. /\ listing' = TRUE /\ cursor' = 0 /\ returned' = {} /\ twice' = FALSE
              /\ standing' = RowIds /\ deleted' = FALSE
            BY <2>1 DEF BeginListing
        <3>2. 0 \in 0..MaxRows
            BY GrantAssumption
        <3> QED BY <3>1, <3>2
    <2>2. CASE NextPage
        <3>1. Page \subseteq RowIds /\ Page \subseteq 1..MaxRows
            BY PageTypes, RowIdTypes DEF TInv
        <3>2. HasNext \in BOOLEAN
            <4>1. cursor \in Nat /\ Limit \in Nat /\ Cardinality(RowIds) \in Nat
                BY RowIdTypes, GrantAssumption DEF TInv, GrantAdministrationTypeOK
            <4>2. (Cardinality(Page) = Limit) \in BOOLEAN
                OBVIOUS
            <4>3. (cursor + Limit < Cardinality(RowIds)) \in BOOLEAN
                BY <4>1
            <4> QED BY <4>2, <4>3, Zenon DEF HasNext
        <3>3. cursor' \in 0..MaxRows
            BY <2>2, PageTypes DEF NextPage, TInv, GrantAdministrationTypeOK
        <3> QED BY <2>2, <3>1, <3>2, <3>3 DEF NextPage, TInv, GrantAdministrationTypeOK
    <2> QED BY <2>1, <2>2
<1>4. GrantAdministrationTypeOK'
    BY <1>1, <1>2, <1>3 DEF TInv, GrantAdministrationTypeOK
<1>5. NumberInv'
    BY <1>1, <1>2 DEF TInv, NumberInv
<1> QED BY <1>4, <1>5 DEF TInv

LEMMA NextTInv ==
    ASSUME TInv, [Next]_vars
    PROVE  TInv'
<1>1. CASE UNCHANGED vars
    <2>1. UNCHANGED <<kind, rows, lastId, pc, list, missing, looked, ids, wiped, contested, listing,
                      cursor, returned, twice, standing, deleted>>
        BY <1>1 DEF vars, callVars, pageVars
    <2>2. RowIds' = RowIds
        BY <2>1 DEF RowIds
    <2> QED BY <2>1, <2>2 DEF TInv, GrantAdministrationTypeOK, NumberInv
<1>2. CASE Next
    BY <1>2, BeginTypes, LookTypes, WriteTypes, InsertTypes, CommitTypes, EndTypes, DeleteTypes,
       PagingTypes DEF Next
<1> QED BY <1>1, <1>2

(* Every variable keeps its type: no number is handed out twice, whatever   *)
(* overlaps, and every cursor is one that a page could end at.              *)
THEOREM GrantAdministrationTypeCorrect == Spec => []GrantAdministrationTypeOK
<1>1. TInv /\ [Next]_vars => TInv'
    BY NextTInv
<1>2. TInv => GrantAdministrationTypeOK
    BY DEF TInv
<1> QED BY InitTInv, <1>1, <1>2, PTL DEF Spec


-----------------------------------------------------------------------------
(* 2. A call that reports success has left its grants in the store *)

(* The rows of the written grants are there.                                *)
LEMMA NumberedCopies ==
    ASSUME NEW grants \in Seq(Grant), NEW base,
           rows' = rows \cup Numbered(grants, base)
    PROVE  /\ \A g : Copies(g) # {} => Copies(g)' # {}
           /\ \A g \in ToSet(grants) : Copies(g)' # {}
<1>1. \A g : Copies(g) \subseteq Copies(g)'
    BY DEF Copies
<1>2. ASSUME NEW g \in ToSet(grants)
      PROVE  Copies(g)' # {}
    <2>1. PICK i \in 1..Len(grants) : grants[i] = g
        BY ToSetIs
    <2>2. [id |-> base + i, grant |-> g] \in Numbered(grants, base)
        BY <2>1, NumberedIs
    <2>3. [id |-> base + i, grant |-> g] \in Copies(g)'
        BY <2>2 DEF Copies
    <2> QED BY <2>3
<1> QED BY <1>1, <1>2

(* What PresentInv says of one call.                                        *)
Dealt(t) ==
    \A i \in 1..Len(list[t]) :
        \/ pc[t] = "look" /\ i > looked[t]
        \/ pc[t] \in {"look", "write", "inserted"} /\ list[t][i] \in ToSet(missing[t])
        \/ Copies(list[t][i]) # {}
        \/ OwnerOf[list[t][i]] \in wiped[t]

(* The others: their state is as it was, and no copies are gone.            *)
LEMMA OthersDealt ==
    ASSUME PresentInv, NEW u \in Thread,
           pc'[u] = pc[u], list'[u] = list[u], looked'[u] = looked[u],
           missing'[u] = missing[u], wiped'[u] = wiped[u],
           \A g : Copies(g) # {} => Copies(g)' # {}
    PROVE  Dealt(u)'
BY DEF PresentInv, Dealt

LEMMA SameRowsCopies ==
    ASSUME UNCHANGED rows
    PROVE  \A g : Copies(g)' = Copies(g)
BY DEF Copies

LEMMA BeginPresent ==
    ASSUME TInv, PresentInv, NEW t \in Thread, NEW grants \in CreateList \cup EnsureList,
           CreateGrants(t, grants) \/ EnsureGrants(t, grants)
    PROVE  PresentInv'
<1>1. grants \in Seq(Grant)
    BY GrantAssumption
<1>2. PICK at \in {"look", "write"} :
          /\ pc' = [pc EXCEPT ![t] = at]
          /\ list' = [list EXCEPT ![t] = grants]
          /\ looked' = [looked EXCEPT ![t] = 0]
          /\ missing' = [missing EXCEPT ![t] = IF at = "write" THEN grants ELSE <<>>]
          /\ wiped' = [wiped EXCEPT ![t] = {}]
          /\ UNCHANGED rows
    BY DEF CreateGrants, EnsureGrants, Begin
<1>3. \A g : Copies(g)' = Copies(g)
    BY <1>2, SameRowsCopies
<1>4. \A u \in Thread \ {t} : pc'[u] = pc[u] /\ list'[u] = list[u] /\ looked'[u] = looked[u]
                               /\ missing'[u] = missing[u] /\ wiped'[u] = wiped[u]
    BY <1>2 DEF TInv, GrantAdministrationTypeOK
<1>5. pc'[t] = at /\ list'[t] = grants /\ looked'[t] = 0 /\ (at = "write" => missing'[t] = grants)
    BY <1>2 DEF TInv, GrantAdministrationTypeOK
<1>6. \A i \in 1..Len(grants) : i > 0 /\ grants[i] \in ToSet(grants)
    BY <1>1, ToSetIs
<1>7. Dealt(t)'
    BY <1>5, <1>6 DEF Dealt
<1>8. \A u \in Thread \ {t} : Dealt(u)'
    BY <1>3, <1>4, OthersDealt
<1> QED BY <1>7, <1>8 DEF PresentInv, Dealt

LEMMA LookPresent ==
    ASSUME TInv, PresentInv, NEW t \in Thread, Look(t)
    PROVE  PresentInv'
<1> DEFINE g == list[t][looked[t] + 1]
           more == StillMissing(t)
<1>1. /\ pc[t] = "look" /\ looked[t] \in Nat /\ looked[t] + 1 \in 1..Len(list[t]) /\ g \in Grant
      /\ missing[t] \in Seq(Grant) /\ Len(list[t]) \in Nat
    BY ListTypes DEF TInv, NumberInv, Look, Turn
<1>2. /\ pc' = [pc EXCEPT ![t] = IF looked[t] + 1 < Len(list[t]) THEN "look"
                                 ELSE IF more = <<>> THEN "ok" ELSE "write"]
      /\ missing' = [missing EXCEPT ![t] = more]
      /\ looked' = [looked EXCEPT ![t] = looked[t] + 1]
      /\ UNCHANGED <<rows, list, wiped>>
    BY DEF Look, Turn
<1>3. \A x : Copies(x)' = Copies(x)
    BY <1>2, SameRowsCopies
<1>4. \A u \in Thread \ {t} : pc'[u] = pc[u] /\ list'[u] = list[u] /\ looked'[u] = looked[u]
                               /\ missing'[u] = missing[u] /\ wiped'[u] = wiped[u]
    BY <1>2 DEF TInv, GrantAdministrationTypeOK
<1>5. /\ pc'[t] = IF looked[t] + 1 < Len(list[t]) THEN "look"
                  ELSE IF more = <<>> THEN "ok" ELSE "write"
      /\ missing'[t] = more /\ looked'[t] = looked[t] + 1 /\ list'[t] = list[t]
      /\ wiped'[t] = wiped[t]
    BY <1>2 DEF TInv, GrantAdministrationTypeOK
<1>6. /\ more \in Seq(Grant)
      /\ \A x \in ToSet(missing[t]) : x \in ToSet(more)
      /\ g \in ToSet(more) \/ Copies(g) # {}
    <2>1. CASE Found(g)
        <3>1. more = missing[t]
            BY <2>1 DEF StillMissing
        <3>2. Copies(g) # {}
            BY <2>1 DEF Found, FoundByOwner, FoundForNoRequest, Copies
        <3> QED BY <1>1, <3>1, <3>2
    <2>2. CASE ~ Found(g)
        <3>1. more = Append(missing[t], g)
            BY <2>2 DEF StillMissing
        <3>2. /\ more \in Seq(Grant) /\ Len(more) = Len(missing[t]) + 1 /\ Len(missing[t]) \in Nat
              /\ \A i \in 1..Len(missing[t]) : more[i] = missing[t][i]
              /\ more[Len(missing[t]) + 1] = g
            BY <1>1, <3>1, AppendProperties, LenProperties
        <3>3. \A i \in 1..Len(missing[t]) : missing[t][i] \in ToSet(more)
            BY <3>2, ToSetIs
        <3>4. g \in ToSet(more)
            BY <3>2, ToSetIs
        <3> QED BY <1>1, <3>2, <3>3, <3>4, ToSetIs
    <2> QED BY <2>1, <2>2
<1> HIDE DEF more
<1>7. \A x : x \in ToSet(more) => more # <<>>
    <2>1. \A x : x \notin ToSet(<<>>)
        BY DEF ToSet
    <2> QED BY <2>1
<1>8. ASSUME NEW i \in 1..Len(list[t])
      PROVE  \/ pc'[t] = "look" /\ i > looked'[t]
             \/ pc'[t] \in {"look", "write", "inserted"} /\ list[t][i] \in ToSet(more)
             \/ Copies(list[t][i]) # {}
             \/ OwnerOf[list[t][i]] \in wiped[t]
    <2>1. CASE i > looked[t] + 1
        BY <1>1, <1>5, <2>1
    <2>2. CASE i = looked[t] + 1
        BY <1>5, <1>6, <1>7, <2>2
    <2>3. CASE i <= looked[t]
        <3>1. \/ list[t][i] \in ToSet(missing[t]) \/ Copies(list[t][i]) # {}
              \/ OwnerOf[list[t][i]] \in wiped[t]
            BY <1>1, <2>3 DEF PresentInv
        <3> QED BY <1>5, <1>6, <1>7, <3>1
    <2> QED BY <1>1, <2>1, <2>2, <2>3
<1>9. Dealt(t)'
    BY <1>3, <1>5, <1>8 DEF Dealt
<1>10. \A u \in Thread \ {t} : Dealt(u)'
    BY <1>3, <1>4, OthersDealt
<1> QED BY <1>9, <1>10 DEF PresentInv, Dealt

(* All that is missing is written.                                          *)
LEMMA AllPresent ==
    ASSUME TInv, PresentInv, NEW t \in Thread, WriteBulk(t) \/ CommitBatch(t)
    PROVE  PresentInv'
<1>1. /\ pc[t] \in {"write", "inserted"}
      /\ \E base : rows' = rows \cup Numbered(missing[t], base)
      /\ pc' = [pc EXCEPT ![t] = "ok"]
      /\ UNCHANGED <<list, missing, looked, wiped>>
    BY DEF WriteBulk, CommitBatch
<1>2. missing[t] \in Seq(Grant)
    BY ListTypes DEF TInv
<1>3. /\ \A g : Copies(g) # {} => Copies(g)' # {}
      /\ \A g \in ToSet(missing[t]) : Copies(g)' # {}
    BY <1>1, <1>2, NumberedCopies
<1>4. \A u \in Thread \ {t} : pc'[u] = pc[u]
    BY <1>1 DEF TInv, GrantAdministrationTypeOK
<1>6. Dealt(t)'
    <2>1. ASSUME NEW i \in 1..Len(list[t]), NEW g, g = list[t][i]
          PROVE  Copies(g)' # {} \/ OwnerOf[g] \in wiped[t]
        BY <1>1, <1>3, <2>1 DEF PresentInv
    <2> QED BY <1>1, <2>1 DEF Dealt
<1>7. \A u \in Thread \ {t} : Dealt(u)'
    BY <1>1, <1>3, <1>4, OthersDealt
<1> QED BY <1>6, <1>7 DEF PresentInv, Dealt

LEMMA WriteOnePresent ==
    ASSUME TInv, PresentInv, NEW t \in Thread, WriteOne(t)
    PROVE  PresentInv'
<1> DEFINE rest == Tail(missing[t])
<1>1. /\ pc[t] = "write" /\ rows' = rows \cup Numbered(<<Head(missing[t])>>, lastId)
      /\ missing' = [missing EXCEPT ![t] = rest]
      /\ pc' = [pc EXCEPT ![t] = IF Len(missing[t]) = 1 THEN "ok" ELSE "write"]
      /\ UNCHANGED <<list, looked, wiped>>
    BY DEF WriteOne
<1>2. /\ missing[t] \in Seq(Grant) /\ Len(missing[t]) \in Nat \ {0}
      /\ <<Head(missing[t])>> \in Seq(Grant) /\ Len(<<Head(missing[t])>>) = 1
      /\ Head(missing[t]) = missing[t][1]
      /\ rest \in Seq(Grant) /\ Len(rest) = Len(missing[t]) - 1
      /\ \A i \in 1..Len(rest) : rest[i] = missing[t][i + 1]
    BY <1>1, OneGrant
<1> HIDE DEF rest
<1>3. /\ \A g : Copies(g) # {} => Copies(g)' # {}
      /\ \A g \in ToSet(<<Head(missing[t])>>) : Copies(g)' # {}
    BY <1>1, <1>2, NumberedCopies
<1>4. missing[t][1] \in ToSet(<<Head(missing[t])>>)
    <2>1. \A x : x \in ToSet(<<x>>)
        BY DEF ToSet
    <2> QED BY <1>2, <2>1
<1>5. ASSUME NEW g \in ToSet(missing[t])
      PROVE  g \in ToSet(rest) \/ Copies(g)' # {}
    <2>1. PICK i \in 1..Len(missing[t]) : missing[t][i] = g
        BY <1>2, ToSetIs
    <2>2. CASE i = 1
        BY <1>3, <1>4, <2>1, <2>2
    <2>3. CASE i # 1
        <3>1. i - 1 \in 1..Len(rest) /\ rest[i - 1] = missing[t][i]
            BY <1>2, <2>3
        <3> QED BY <1>2, <2>1, <3>1, ToSetIs
    <2> QED BY <2>2, <2>3
<1>6. \A g : g \in ToSet(rest) => Len(missing[t]) # 1
    BY <1>2, ToSetIs
<1>7. \A u \in Thread \ {t} : pc'[u] = pc[u] /\ missing'[u] = missing[u]
    BY <1>1 DEF TInv, GrantAdministrationTypeOK
<1>8. pc'[t] = (IF Len(missing[t]) = 1 THEN "ok" ELSE "write") /\ missing'[t] = rest
    BY <1>1 DEF TInv, GrantAdministrationTypeOK
<1>9. Dealt(t)'
    <2>1. ASSUME NEW i \in 1..Len(list[t]), NEW g, g = list[t][i]
          PROVE  \/ g \in ToSet(rest) /\ Len(missing[t]) # 1
                 \/ Copies(g)' # {}
                 \/ OwnerOf[g] \in wiped[t]
        <3>1. g \in ToSet(missing[t]) \/ Copies(g) # {} \/ OwnerOf[g] \in wiped[t]
            BY <1>1, <2>1 DEF PresentInv
        <3> QED BY <1>3, <1>5, <1>6, <3>1
    <2> QED BY <1>1, <1>8, <2>1 DEF Dealt
<1>10. \A u \in Thread \ {t} : Dealt(u)'
    BY <1>1, <1>3, <1>7, OthersDealt
<1> QED BY <1>9, <1>10 DEF PresentInv, Dealt

LEMMA EndPresent ==
    ASSUME TInv, PresentInv, NEW t \in Thread, FailAtOne(t) \/ Return(t) \/ Fail(t)
    PROVE  PresentInv'
<1>1. End(t)
    BY DEF FailAtOne, Return, Fail
<1>2. \A g : Copies(g) # {} => Copies(g)' # {}
    <2>1. rows \subseteq rows'
        BY DEF FailAtOne, Return, Fail
    <2>2. \A g : Copies(g) \subseteq Copies(g)'
        BY <2>1 DEF Copies
    <2> QED BY <2>2
<1>3. Dealt(t)'
    <2>1. list'[t] = <<>> /\ Len(<<>>) = 0
        BY <1>1, EndCallTypes, EmptySeq
    <2> QED BY <2>1 DEF Dealt
<1>4. \A u \in Thread \ {t} : Dealt(u)'
    BY <1>1, <1>2, EndCallTypes, OthersDealt
<1> QED BY <1>3, <1>4 DEF PresentInv, Dealt

LEMMA DeletePresent ==
    ASSUME TInv, PresentInv, NEW owner \in Owner, DeleteGrantsForOwner(owner)
    PROVE  PresentInv'
<1>1. /\ rows' = rows \ {r \in rows : OwnerOf[r.grant] = owner}
      /\ wiped' = [t \in Thread |->
                     IF \E g \in ToSet(list[t]) : OwnerOf[g] = owner
                     THEN wiped[t] \cup {owner} ELSE wiped[t]]
      /\ UNCHANGED <<pc, list, missing, looked>>
    BY DEF DeleteGrantsForOwner, callVars
<1>2. \A g : OwnerOf[g] # owner => Copies(g) \subseteq Copies(g)'
    BY <1>1 DEF Copies
<1>3. ASSUME NEW t \in Thread
      PROVE  Dealt(t)'
    <2>1. list[t] \in Seq(Grant)
        BY ListTypes DEF TInv
    <2>2. ASSUME NEW i \in 1..Len(list[t]), NEW g, g = list[t][i]
          PROVE  \/ pc[t] = "look" /\ i > looked[t]
                 \/ pc[t] \in {"look", "write", "inserted"} /\ g \in ToSet(missing[t])
                 \/ Copies(g)' # {}
                 \/ OwnerOf[g] \in wiped'[t]
        <3>1. g \in ToSet(list[t])
            BY <2>1, <2>2, ToSetIs
        <3>2. OwnerOf[g] = owner => owner \in wiped'[t]
            BY <1>1, <3>1
        <3>3. wiped[t] \subseteq wiped'[t]
            BY <1>1
        <3>4. \/ pc[t] = "look" /\ i > looked[t]
              \/ pc[t] \in {"look", "write", "inserted"} /\ g \in ToSet(missing[t])
              \/ Copies(g) # {}
              \/ OwnerOf[g] \in wiped[t]
            BY <2>2 DEF PresentInv
        <3> QED BY <1>2, <3>2, <3>3, <3>4
    <2> QED BY <1>1, <2>2 DEF Dealt
<1> QED BY <1>3 DEF PresentInv, Dealt

LEMMA SameCallsPresent ==
    ASSUME PresentInv, UNCHANGED <<rows, pc, list, missing, looked, wiped>>
    PROVE  PresentInv'
<1>1. \A g : Copies(g)' = Copies(g)
    BY SameRowsCopies
<1> QED BY <1>1 DEF PresentInv

LEMMA NextPresent ==
    ASSUME TInv, PresentInv, [Next]_vars
    PROVE  PresentInv'
<1>1. CASE UNCHANGED vars
    BY <1>1, SameCallsPresent DEF vars, callVars
<1>2. ASSUME NEW t \in Thread, InsertBatch(t)
      PROVE  PresentInv'
    <2>1. /\ pc[t] = "write" /\ pc' = [pc EXCEPT ![t] = "inserted"]
          /\ UNCHANGED <<rows, list, missing, looked, wiped>>
        BY <1>2 DEF InsertBatch
    <2>2. \A g : Copies(g)' = Copies(g)
        BY <2>1, SameRowsCopies
    <2>3. pc'[t] = "inserted" /\ \A u \in Thread \ {t} : pc'[u] = pc[u]
        BY <2>1 DEF TInv, GrantAdministrationTypeOK
    <2> QED BY <2>1, <2>2, <2>3 DEF PresentInv
<1>3. ASSUME BeginListing \/ NextPage
      PROVE  PresentInv'
    BY <1>3, SameCallsPresent DEF BeginListing, NextPage, callVars
<1> QED
    BY <1>1, <1>2, <1>3, BeginPresent, LookPresent, AllPresent, WriteOnePresent, EndPresent,
       DeletePresent DEF Next

LEMMA InitPresent == Init => PresentInv
<1> SUFFICES ASSUME Init
             PROVE  PresentInv
    OBVIOUS
<1>1. \A t \in Thread : list[t] = <<>>
    BY DEF Init
<1>2. Len(<<>>) = 0
    BY EmptySeq
<1> QED BY <1>1, <1>2 DEF PresentInv

(* A call that reports success has left every grant of its list in the      *)
(* store, whether it found or wrote it, in any of the stores and whatever   *)
(* overlaps with it, unless that owner's grants were deleted while it ran.  *)
THEOREM GrantAdministrationOkMeansPresent == Spec => []OkMeansPresent
<1>1. TInv /\ PresentInv => OkMeansPresent
    <2> SUFFICES ASSUME TInv, PresentInv, NEW t \in Thread, pc[t] = "ok",
                        NEW i \in DOMAIN list[t]
                 PROVE  Copies(list[t][i]) # {} \/ OwnerOf[list[t][i]] \in wiped[t]
        BY DEF OkMeansPresent
    <2>1. list[t] \in Seq(Grant)
        BY ListTypes DEF TInv
    <2>2. i \in 1..Len(list[t])
        BY <2>1
    <2> QED BY <2>2 DEF PresentInv
<1>2. (TInv /\ PresentInv) /\ [Next]_vars => (TInv /\ PresentInv)'
    BY NextTInv, NextPresent
<1>3. Init => TInv /\ PresentInv
    BY InitTInv, InitPresent
<1> QED BY <1>1, <1>2, <1>3, PTL DEF Spec

-----------------------------------------------------------------------------
(* 3. However often a grant is ensured, the store has it once *)

(* A grant written once more than it was there.                             *)
LEMMA NumberedOnce ==
    ASSUME NEW grants \in Seq(Grant), NEW base, NEW g,
           rows' = rows \cup Numbered(grants, base),
           \A i, j \in 1..Len(grants) : grants[i] = g /\ grants[j] = g => i = j,
           \A i \in 1..Len(grants) : grants[i] = g => Copies(g) = {},
           \A r, q \in Copies(g) : r = q
    PROVE  /\ \A r, q \in Copies(g)' : r = q
           /\ (\A i \in 1..Len(grants) : grants[i] # g) => Copies(g)' = Copies(g)
<1>1. \A r \in Copies(g)' : \/ r \in Copies(g)
                             \/ \E i \in 1..Len(grants) :
                                   grants[i] = g /\ r = [id |-> base + i, grant |-> g]
    <2> SUFFICES ASSUME NEW r \in Copies(g)', r \notin Copies(g)
                 PROVE  \E i \in 1..Len(grants) : grants[i] = g /\ r = [id |-> base + i, grant |-> g]
        OBVIOUS
    <2>1. r.grant = g /\ r \in Numbered(grants, base)
        BY DEF Copies
    <2>2. PICK i \in 1..Len(grants) : r = [id |-> base + i, grant |-> grants[i]]
        BY <2>1, NumberedIs
    <2> QED BY <2>1, <2>2
<1>2. Copies(g) \subseteq Copies(g)'
    BY DEF Copies
<1>3. ASSUME NEW r \in Copies(g)', NEW q \in Copies(g)'
      PROVE  r = q
    BY <1>1
<1> QED BY <1>1, <1>2, <1>3

(* A step of the call of t, as far as g goes: the others do not have it.    *)
LEMMA OnceStep ==
    ASSUME TInv, NEW t \in Thread, NEW g, OnceFor(g),
           \A u \in Thread \ {t} :
               pc'[u] = pc[u] /\ list'[u] = list[u] /\ looked'[u] = looked[u]
               /\ missing'[u] = missing[u],
           list'[t] \in {list[t], <<>>},
           OnceBy(t, g)',
           \A r, q \in Copies(g)' : r = q,
           g \in ToSet(list[t]) \/ Copies(g)' \subseteq Copies(g)
    PROVE  OnceFor(g)'
<1>1. \A x : x \notin ToSet(<<>>)
    BY DEF ToSet
<1>2. \A u \in Thread : g \in ToSet(list'[u]) => g \in ToSet(list[u])
    BY <1>1
<1>3. \A u, v \in Thread : g \in ToSet(list'[u]) /\ g \in ToSet(list'[v]) => u = v
    BY <1>2 DEF OnceFor
<1>4. ASSUME NEW u \in Thread \ {t}
      PROVE  OnceBy(u, g)'
    <2>1. OnceBy(u, g)
        BY DEF OnceFor
    <2>2. (\E i \in 1..Len(missing[u]) : missing[u][i] = g) => g \in ToSet(list[u])
        <3>1. list[u] \in Seq(Grant)
            BY ListTypes DEF TInv
        <3>2. (\E i \in 1..Len(missing[u]) : missing[u][i] = g) =>
                  \E k \in 1..Len(list[u]) : list[u][k] = g
            BY <2>1 DEF OnceBy
        <3> QED BY <3>1, <3>2, ToSetIs
    <2>3. (\E i \in 1..Len(missing[u]) : missing[u][i] = g) => Copies(g)' \subseteq Copies(g)
        BY <2>2 DEF OnceFor
    <2> QED BY <2>1, <2>3 DEF OnceBy
<1>5. \A u \in Thread : OnceBy(u, g)'
    BY <1>4
<1> QED BY <1>3, <1>5 DEF OnceFor

LEMMA OneIndex ==
    ASSUME NEW n \in Nat, NEW S \in SUBSET (1..n), Cardinality(S) <= 1
    PROVE  \A i, j \in S : i = j
<1> SUFFICES ASSUME NEW i \in S, NEW j \in S, i # j
             PROVE  FALSE
    OBVIOUS
<1>1. IsFiniteSet(1..n)
    BY FS_Interval
<1>2. IsFiniteSet(S) /\ Cardinality(S) \in Nat
    BY <1>1, FS_Subset, FS_CardinalityType
<1>3. Cardinality({i} \cup {j}) = 2
    <2>1. IsFiniteSet({i}) /\ Cardinality({i}) = 1
        BY FS_Singleton
    <2>2. j \notin {i}
        OBVIOUS
    <2>3. Cardinality({i} \cup {j}) = Cardinality({i}) + 1
        BY <2>1, <2>2, FS_AddElement
    <2> QED BY <2>1, <2>3
<1>4. {i} \cup {j} \subseteq S
    OBVIOUS
<1>5. Cardinality({i} \cup {j}) <= Cardinality(S)
    BY <1>2, <1>4, FS_Subset
<1> QED BY <1>2, <1>3, <1>5

LEMMA BeginOnce ==
    ASSUME TInv, OnceInv, NEW t \in Thread, NEW grants \in CreateList \cup EnsureList,
           CreateGrants(t, grants) \/ EnsureGrants(t, grants)
    PROVE  OnceInv'
<1>1. grants \in Seq(Grant) /\ Len(grants) \in Nat
    BY GrantAssumption
<1>2. PICK at \in {"look", "write"} :
          /\ pc[t] = "idle" /\ pc' = [pc EXCEPT ![t] = at]
          /\ list' = [list EXCEPT ![t] = grants]
          /\ looked' = [looked EXCEPT ![t] = 0]
          /\ missing' = [missing EXCEPT ![t] = IF at = "write" THEN grants ELSE <<>>]
          /\ UNCHANGED <<kind, rows>>
          /\ at = "write" => contested' = contested \cup ToSet(grants)
          /\ at = "look" => contested' = contested \cup
                 {g \in ToSet(grants) :
                     Concerned(g) # {} \/ Cardinality({i \in DOMAIN grants : grants[i] = g}) > 1}
    BY DEF CreateGrants, EnsureGrants, Begin
<1>3. \A g : Copies(g)' = Copies(g)
    BY <1>2, SameRowsCopies
<1>4. \A u \in Thread \ {t} : pc'[u] = pc[u] /\ list'[u] = list[u] /\ looked'[u] = looked[u]
                               /\ missing'[u] = missing[u]
    BY <1>2 DEF TInv, GrantAdministrationTypeOK
<1>5. /\ pc'[t] = at /\ list'[t] = grants /\ looked'[t] = 0
      /\ missing'[t] = IF at = "write" THEN grants ELSE <<>>
    BY <1>2 DEF TInv, GrantAdministrationTypeOK
<1>6. Uncontested' \subseteq Uncontested
    BY <1>2 DEF Uncontested
<1>7. \A u \in Thread : pc[u] = "idle" => list[u] = <<>>
    BY DEF OnceInv
<1>8. ASSUME NEW g \in Uncontested'
      PROVE  OnceFor(g)'
    <2>1. OnceFor(g) /\ g \in Grant /\ g \notin contested'
        BY <1>6, <1>8 DEF OnceInv, Uncontested
    <2>2. g \in ToSet(grants) =>
              /\ at = "look" /\ Concerned(g) = {}
              /\ \A i, j \in 1..Len(grants) : grants[i] = g /\ grants[j] = g => i = j
        <3> SUFFICES ASSUME g \in ToSet(grants)
                     PROVE  /\ at = "look" /\ Concerned(g) = {}
                            /\ \A i, j \in 1..Len(grants) : grants[i] = g /\ grants[j] = g => i = j
            OBVIOUS
        <3> DEFINE at_g == {i \in DOMAIN grants : grants[i] = g}
        <3>1. at = "look" /\ Concerned(g) = {} /\ ~ (Cardinality(at_g) > 1)
            BY <1>2, <2>1
        <3>2. at_g \subseteq 1..Len(grants)
            BY <1>1
        <3>3. IsFiniteSet(1..Len(grants))
            BY <1>1, FS_Interval
        <3>4. Cardinality(at_g) \in Nat
            BY <3>2, <3>3, FS_Subset, FS_CardinalityType
        <3>5. Cardinality(at_g) <= 1
            BY <3>1, <3>4
        <3> HIDE DEF at_g
        <3>6. \A i, j \in at_g : i = j
            BY <1>1, <3>2, <3>5, OneIndex
        <3> QED BY <1>1, <3>1, <3>6 DEF at_g
    <2>3. g \in ToSet(grants) => \A u \in Thread : g \notin ToSet(list[u])
        <3>1. \A x : x \notin ToSet(<<>>)
            BY DEF ToSet
        <3> QED BY <1>7, <2>2, <3>1 DEF Concerned
    <2>4. \A u, v \in Thread : g \in ToSet(list'[u]) /\ g \in ToSet(list'[v]) => u = v
        BY <1>4, <1>5, <2>1, <2>3 DEF OnceFor
    <2>5. \A i \in 1..Len(grants) : grants[i] = g => g \in ToSet(grants)
        BY <1>1, ToSetIs
    <2>6. \A i \in 1..Len(missing'[t]) : missing'[t][i] # g
        <3>1. CASE at = "write"
            BY <1>5, <2>2, <2>5, <3>1
        <3>2. CASE at = "look"
            <4>1. missing'[t] = <<>> /\ Len(<<>>) = 0
                BY <1>5, <3>2, EmptySeq
            <4> QED BY <4>1
        <3> QED BY <3>1, <3>2
    <2>7. OnceBy(t, g)'
        BY <1>5, <2>2, <2>5, <2>6 DEF OnceBy
    <2>8. \A u \in Thread \ {t} : OnceBy(u, g)'
        BY <1>3, <1>4, <2>1 DEF OnceFor, OnceBy
    <2> QED BY <1>3, <2>1, <2>4, <2>7, <2>8 DEF OnceFor
<1>9. \A u \in Thread : pc'[u] = "idle" => list'[u] = <<>>
    BY <1>4, <1>5, <1>7
<1> QED BY <1>8, <1>9 DEF OnceInv

LEMMA LookOnce ==
    ASSUME TInv, OnceInv, NEW t \in Thread, Look(t)
    PROVE  OnceInv'
<1> DEFINE next == list[t][looked[t] + 1]
           more == StillMissing(t)
<1>1. /\ pc[t] = "look" /\ looked[t] \in Nat /\ looked[t] + 1 \in 1..Len(list[t]) /\ next \in Grant
      /\ missing[t] \in Seq(Grant) /\ Len(missing[t]) \in Nat
      /\ list[t] \in Seq(Grant) /\ Len(list[t]) \in Nat
    BY ListTypes DEF TInv, NumberInv, Look, Turn
<1>2. /\ pc' = [pc EXCEPT ![t] = IF looked[t] + 1 < Len(list[t]) THEN "look"
                                 ELSE IF more = <<>> THEN "ok" ELSE "write"]
      /\ missing' = [missing EXCEPT ![t] = more]
      /\ looked' = [looked EXCEPT ![t] = looked[t] + 1]
      /\ UNCHANGED <<kind, rows, list, contested>>
    BY DEF Look, Turn
<1>3. \A x : Copies(x)' = Copies(x)
    BY <1>2, SameRowsCopies
<1>4. \A u \in Thread \ {t} : pc'[u] = pc[u] /\ list'[u] = list[u] /\ looked'[u] = looked[u]
                               /\ missing'[u] = missing[u]
    BY <1>2 DEF TInv, GrantAdministrationTypeOK
<1>5. /\ missing'[t] = more /\ looked'[t] = looked[t] + 1 /\ list'[t] = list[t]
      /\ pc'[t] # "idle"
    BY <1>2 DEF TInv, GrantAdministrationTypeOK
<1>6. \/ more = missing[t]
      \/ /\ ~ Found(next)
         /\ Len(more) = Len(missing[t]) + 1
         /\ \A i \in 1..Len(missing[t]) : more[i] = missing[t][i]
         /\ more[Len(missing[t]) + 1] = next
    BY <1>1, AppendProperties DEF StillMissing
<1> HIDE DEF more
<1>7. Uncontested' = Uncontested
    BY <1>2 DEF Uncontested
<1>8. ASSUME NEW g \in Uncontested
      PROVE  OnceFor(g)'
    <2>1. OnceFor(g)
        BY DEF OnceInv
    <2>2. OnceBy(t, g)
        BY <2>1 DEF OnceFor
    <2>3. \A i \in 1..Len(missing[t]) : missing[t][i] = g =>
              \E k \in 1..Len(list[t]) : list[t][k] = g /\ k <= looked[t]
        BY <1>1, <2>2 DEF OnceBy
    <2>4. next = g => \A i \in 1..Len(missing[t]) : missing[t][i] # g
        BY <1>1, <2>2, <2>3 DEF OnceBy
    <2>5. next = g /\ ~ Found(next) => Copies(g) = {}
        BY DEF Found, FoundByOwner, FoundForNoRequest, Copies, Uncontested
    <2>6. \A i \in 1..Len(missing[t]) : missing[t][i] = g => Copies(g) = {}
        BY <1>1, <2>2 DEF OnceBy
    <2>7. /\ \A i, j \in 1..Len(more) : more[i] = g /\ more[j] = g => i = j
          /\ \A i \in 1..Len(more) : more[i] = g =>
               /\ \E k \in 1..Len(list[t]) : list[t][k] = g /\ k <= looked[t] + 1
               /\ Copies(g) = {}
        <3>1. CASE more = missing[t]
            BY <1>1, <2>2, <2>3, <2>6, <3>1 DEF OnceBy
        <3>2. CASE more # missing[t]
            <4>1. \A i \in 1..Len(more) : i \in 1..Len(missing[t]) \/ i = Len(missing[t]) + 1
                BY <1>1, <1>6, <3>2
            <4>2. \A i \in 1..Len(more) : more[i] = g =>
                      \/ next = g /\ i = Len(missing[t]) + 1
                      \/ i \in 1..Len(missing[t]) /\ missing[t][i] = g
                BY <1>6, <3>2, <4>1
            <4>3. \A i, j \in 1..Len(more) : more[i] = g /\ more[j] = g => i = j
                BY <2>2, <2>4, <4>2 DEF OnceBy
            <4>4. \A i \in 1..Len(more) : more[i] = g =>
                      \E k \in 1..Len(list[t]) : list[t][k] = g /\ k <= looked[t] + 1
                BY <1>1, <2>3, <4>2
            <4>5. \A i \in 1..Len(more) : more[i] = g => Copies(g) = {}
                BY <1>6, <2>5, <2>6, <3>2, <4>2
            <4> QED BY <4>3, <4>4, <4>5
        <3> QED BY <3>1, <3>2
    <2>8. OnceBy(t, g)'
        BY <1>3, <1>5, <2>2, <2>7 DEF OnceBy
    <2> QED BY <1>3, <1>4, <1>5, <2>1, <2>8, OnceStep DEF OnceFor
<1> QED BY <1>4, <1>5, <1>7, <1>8 DEF OnceInv

(* All that is missing is written.                                          *)
LEMMA AllOnce ==
    ASSUME TInv, OnceInv, NEW t \in Thread, WriteBulk(t) \/ CommitBatch(t)
    PROVE  OnceInv'
<1>1. /\ pc[t] \in {"write", "inserted"}
      /\ \E base : rows' = rows \cup Numbered(missing[t], base)
      /\ pc' = [pc EXCEPT ![t] = "ok"]
      /\ UNCHANGED <<kind, list, missing, looked, contested>>
    BY DEF WriteBulk, CommitBatch
<1>2. missing[t] \in Seq(Grant) /\ list[t] \in Seq(Grant)
    BY ListTypes DEF TInv
<1>3. pc'[t] = "ok" /\ \A u \in Thread \ {t} : pc'[u] = pc[u]
    BY <1>1 DEF TInv, GrantAdministrationTypeOK
<1>4. Uncontested' = Uncontested
    BY <1>1 DEF Uncontested
<1>5. ASSUME NEW g \in Uncontested
      PROVE  OnceFor(g)'
    <2>1. OnceFor(g)
        BY DEF OnceInv
    <2>2. OnceBy(t, g) /\ \A r, q \in Copies(g) : r = q
        BY <2>1 DEF OnceFor
    <2>3. /\ \A i, j \in 1..Len(missing[t]) : missing[t][i] = g /\ missing[t][j] = g => i = j
          /\ \A i \in 1..Len(missing[t]) : missing[t][i] = g => Copies(g) = {}
        BY <1>1, <2>2 DEF OnceBy
    <2>4. /\ \A r, q \in Copies(g)' : r = q
          /\ (\A i \in 1..Len(missing[t]) : missing[t][i] # g) => Copies(g)' = Copies(g)
        <3>1. PICK base : rows' = rows \cup Numbered(missing[t], base)
            BY <1>1
        <3> QED BY ONLY <1>2, <2>2, <2>3, <3>1, NumberedOnce
    <2>5. g \in ToSet(list[t]) \/ Copies(g)' = Copies(g)
        <3>1. \A i \in 1..Len(missing[t]) : missing[t][i] = g =>
                  \E k \in 1..Len(list[t]) : list[t][k] = g
            BY <2>2 DEF OnceBy
        <3> QED BY <1>2, <2>4, <3>1, ToSetIs
    <2>6. OnceBy(t, g)'
        BY <1>1, <1>3, <2>2 DEF OnceBy
    <2> QED BY <1>1, <1>3, <2>1, <2>4, <2>5, <2>6, OnceStep
<1> QED BY <1>1, <1>3, <1>4, <1>5 DEF OnceInv

(* The next of them is written, by a call that goes on or one that fails.   *)
LEMMA OneOnce ==
    ASSUME TInv, OnceInv, NEW t \in Thread, WriteOne(t) \/ FailAtOne(t)
    PROVE  OnceInv'
<1> DEFINE rest == Tail(missing[t])
           one == <<Head(missing[t])>>
<1>1. /\ pc[t] = "write" /\ rows' = rows \cup Numbered(one, lastId)
      /\ UNCHANGED <<kind, contested>>
    BY DEF WriteOne, FailAtOne, End
<1>2. /\ missing[t] \in Seq(Grant) /\ Len(missing[t]) \in Nat \ {0}
      /\ one \in Seq(Grant) /\ Len(one) = 1 /\ one[1] = missing[t][1]
      /\ rest \in Seq(Grant) /\ Len(rest) = Len(missing[t]) - 1
      /\ \A i \in 1..Len(rest) : rest[i] = missing[t][i + 1]
      /\ list[t] \in Seq(Grant)
    BY <1>1, OneGrant, ListTypes DEF TInv
<1>3. /\ \/ pc'[t] \in {"ok", "write"} /\ missing'[t] = rest /\ list'[t] = list[t]
         \/ pc'[t] = "idle" /\ missing'[t] = <<>> /\ list'[t] = <<>>
      /\ \A u \in Thread \ {t} : pc'[u] = pc[u] /\ list'[u] = list[u] /\ looked'[u] = looked[u]
                                  /\ missing'[u] = missing[u]
    <2>1. CASE WriteOne(t)
        <3>1. /\ pc' = [pc EXCEPT ![t] = IF Len(missing[t]) = 1 THEN "ok" ELSE "write"]
              /\ missing' = [missing EXCEPT ![t] = rest] /\ UNCHANGED <<list, looked>>
            BY <2>1 DEF WriteOne
        <3>2. pc'[t] \in {"ok", "write"} /\ \A u \in Thread \ {t} : pc'[u] = pc[u]
            BY <3>1 DEF TInv, GrantAdministrationTypeOK
        <3>3. missing'[t] = rest /\ \A u \in Thread \ {t} : missing'[u] = missing[u]
            BY <3>1 DEF TInv, GrantAdministrationTypeOK
        <3> QED BY <3>1, <3>2, <3>3
    <2>2. CASE FailAtOne(t)
        <3>1. End(t)
            BY <2>2 DEF FailAtOne
        <3> QED BY <3>1, EndCallTypes
    <2> QED BY <2>1, <2>2
<1> HIDE DEF rest, one
<1>4. Uncontested' = Uncontested
    BY <1>1 DEF Uncontested
<1>5. ASSUME NEW g \in Uncontested
      PROVE  OnceFor(g)'
    <2>1. OnceFor(g)
        BY DEF OnceInv
    <2>2. OnceBy(t, g) /\ \A r, q \in Copies(g) : r = q
        BY <2>1 DEF OnceFor
    <2>3. /\ \A i, j \in 1..Len(missing[t]) : missing[t][i] = g /\ missing[t][j] = g => i = j
          /\ \A i \in 1..Len(missing[t]) : missing[t][i] = g =>
                Copies(g) = {} /\ \E k \in 1..Len(list[t]) : list[t][k] = g
        BY <1>1, <2>2 DEF OnceBy
    <2>4. 1 \in 1..Len(missing[t])
        BY <1>2
    <2>5. /\ \A r, q \in Copies(g)' : r = q
          /\ missing[t][1] # g => Copies(g)' = Copies(g)
        <3>1. \A i, j \in 1..Len(one) : one[i] = g /\ one[j] = g => i = j
            BY <1>2
        <3>2. \A i \in 1..Len(one) : one[i] = missing[t][1]
            BY <1>2
        <3>3. \A i \in 1..Len(one) : one[i] = g => Copies(g) = {}
            BY <2>3, <2>4, <3>2
        <3>4. /\ \A r, q \in Copies(g)' : r = q
              /\ (\A i \in 1..Len(one) : one[i] # g) => Copies(g)' = Copies(g)
            BY <1>1, <1>2, <2>2, <3>1, <3>3, NumberedOnce
        <3> QED BY <3>2, <3>4
    <2>6. g \in ToSet(list[t]) \/ Copies(g)' = Copies(g)
        BY <1>2, <2>3, <2>4, <2>5, ToSetIs
    <2>7. OnceBy(t, g)'
        <3>1. CASE missing'[t] = rest /\ list'[t] = list[t] /\ pc'[t] \in {"ok", "write"}
            <4>1. \A i \in 1..Len(rest) : i + 1 \in 1..Len(missing[t]) /\ i + 1 # 1
                BY <1>2
            <4>2. \A i, j \in 1..Len(rest) : rest[i] = g /\ rest[j] = g => i = j
                <5>1. \A i, j \in 1..Len(rest) : rest[i] = g /\ rest[j] = g => i + 1 = j + 1
                    BY <1>2, <2>3, <4>1
                <5> QED BY <5>1
            <4>3. \A i \in 1..Len(rest) : rest[i] = g =>
                      /\ Copies(g) = {} /\ missing[t][1] # g
                      /\ \E k \in 1..Len(list[t]) : list[t][k] = g
                BY <1>2, <2>3, <2>4, <4>1
            <4>4. \A i \in 1..Len(rest) : rest[i] = g => Copies(g)' = {}
                BY <2>5, <4>3
            <4> QED BY <2>2, <3>1, <4>2, <4>3, <4>4 DEF OnceBy
        <3>2. CASE missing'[t] = <<>> /\ list'[t] = <<>>
            <4>1. Len(<<>>) = 0
                BY EmptySeq
            <4> QED BY <3>2, <4>1 DEF OnceBy
        <3> QED BY <1>3, <3>1, <3>2
    <2> QED BY <1>3, <2>1, <2>5, <2>6, <2>7, OnceStep
<1> QED BY <1>3, <1>4, <1>5 DEF OnceInv

LEMMA EndOnce ==
    ASSUME TInv, OnceInv, NEW t \in Thread, Return(t) \/ Fail(t)
    PROVE  OnceInv'
<1>1. End(t) /\ UNCHANGED rows
    BY DEF Return, Fail
<1>2. Uncontested' = Uncontested
    BY <1>1 DEF Uncontested, End
<1>3. \A x : Copies(x)' = Copies(x)
    BY <1>1, SameRowsCopies
<1>4. ASSUME NEW g \in Uncontested
      PROVE  OnceFor(g)'
    <2>1. OnceFor(g)
        BY DEF OnceInv
    <2>2. OnceBy(t, g)'
        <3>1. Len(<<>>) = 0 /\ missing'[t] = <<>> /\ list'[t] = <<>>
            BY <1>1, EmptySeq, EndCallTypes
        <3> QED BY <3>1 DEF OnceBy
    <2>3. \A r, q \in Copies(g)' : r = q
        BY <1>3, <2>1 DEF OnceFor
    <2> QED BY <1>1, <1>3, <2>1, <2>2, <2>3, EndCallTypes, OnceStep
<1> QED BY <1>1, <1>2, <1>4, EndCallTypes DEF OnceInv

(* Steps of no call, and the insert of a batch, which nobody sees yet.      *)
LEMMA OtherOnce ==
    ASSUME TInv, OnceInv, UNCHANGED <<kind, list, missing, looked, contested>>,
           \A g : Copies(g)' \subseteq Copies(g),
           \A t \in Thread : pc'[t] = pc[t] \/ (pc[t] = "write" /\ pc'[t] = "inserted")
    PROVE  OnceInv'
<1>1. Uncontested' = Uncontested
    BY DEF Uncontested
<1>2. ASSUME NEW g \in Uncontested
      PROVE  OnceFor(g)'
    <2>1. OnceFor(g)
        BY DEF OnceInv
    <2>2. \A t \in Thread : OnceBy(t, g)'
        BY <2>1 DEF OnceFor, OnceBy
    <2> QED BY <2>1, <2>2 DEF OnceFor
<1>3. \A t \in Thread : pc'[t] = "idle" => list'[t] = <<>>
    BY DEF OnceInv
<1> QED BY <1>1, <1>2, <1>3 DEF OnceInv

LEMMA NextOnce ==
    ASSUME TInv, OnceInv, [Next]_vars
    PROVE  OnceInv'
<1>1. CASE UNCHANGED vars
    <2>1. UNCHANGED <<kind, rows, pc, list, missing, looked, contested>>
        BY <1>1 DEF vars, callVars
    <2>2. \A g : Copies(g)' = Copies(g)
        BY <2>1, SameRowsCopies
    <2> QED BY <2>1, <2>2, OtherOnce
<1>2. ASSUME NEW t \in Thread, InsertBatch(t)
      PROVE  OnceInv'
    <2>1. /\ pc[t] = "write" /\ pc' = [pc EXCEPT ![t] = "inserted"]
          /\ UNCHANGED <<kind, rows, list, missing, looked, contested>>
        BY <1>2 DEF InsertBatch
    <2>2. \A g : Copies(g)' = Copies(g)
        BY <2>1, SameRowsCopies
    <2>3. pc'[t] = "inserted" /\ \A u \in Thread \ {t} : pc'[u] = pc[u]
        BY <2>1 DEF TInv, GrantAdministrationTypeOK
    <2> QED BY <2>1, <2>2, <2>3, OtherOnce
<1>3. ASSUME BeginListing \/ NextPage
      PROVE  OnceInv'
    <2>1. UNCHANGED <<kind, rows, pc, list, missing, looked, contested>>
        BY <1>3 DEF BeginListing, NextPage, callVars
    <2>2. \A g : Copies(g)' = Copies(g)
        BY <2>1, SameRowsCopies
    <2> QED BY <2>1, <2>2, OtherOnce
<1>4. ASSUME NEW owner \in Owner, DeleteGrantsForOwner(owner)
      PROVE  OnceInv'
    <2>1. rows' \subseteq rows /\ UNCHANGED <<kind, pc, list, missing, looked, contested>>
        BY <1>4 DEF DeleteGrantsForOwner, callVars
    <2>2. \A g : Copies(g)' \subseteq Copies(g)
        BY <2>1 DEF Copies
    <2> QED BY <2>1, <2>2, OtherOnce
<1> QED
    BY <1>1, <1>2, <1>3, <1>4, BeginOnce, LookOnce, AllOnce, OneOnce, EndOnce DEF Next

LEMMA InitOnce == Init => OnceInv
<1> SUFFICES ASSUME Init
             PROVE  OnceInv
    OBVIOUS
<1>1. /\ \A t \in Thread : list[t] = <<>> /\ missing[t] = <<>>
      /\ \A g : Copies(g) = {}
    BY DEF Init, Copies
<1>2. Len(<<>>) = 0 /\ \A x : x \notin ToSet(<<>>)
    BY EmptySeq DEF ToSet
<1> QED BY <1>1, <1>2 DEF OnceInv, OnceFor, OnceBy

(* The store has a grant once, however many calls ensured it one after the  *)
(* other and whichever failed half-way, unless calls overlapped on it.      *)
THEOREM GrantAdministrationEnsuredOnce == Spec => []EnsuredOnce
<1>1. TInv /\ OnceInv => EnsuredOnce
    <2> SUFFICES ASSUME TInv, OnceInv, NEW g \in Grant \ contested,
                        kind = "bootstrap" \/ g \notin Scoped
                 PROVE  Cardinality(Copies(g)) <= 1
        BY DEF EnsuredOnce
    <2>1. \A r, q \in Copies(g) : r = q
        BY DEF OnceInv, Uncontested, OnceFor
    <2>2. CASE Copies(g) = {}
        BY <2>2, FS_EmptySet
    <2>3. CASE Copies(g) # {}
        <3>1. PICK r \in Copies(g) : TRUE
            BY <2>3
        <3>2. Copies(g) = {r}
            BY <2>1
        <3> QED BY <3>2, FS_Singleton
    <2> QED BY <2>2, <2>3
<1>2. (TInv /\ OnceInv) /\ [Next]_vars => (TInv /\ OnceInv)'
    BY NextTInv, NextOnce
<1>3. Init => TInv /\ OnceInv
    BY InitTInv, InitOnce
<1> QED BY <1>1, <1>2, <1>3, PTL DEF Spec

-----------------------------------------------------------------------------
(* 4. A listing misses nothing and returns nothing twice *)

LEMMA PositionTypes ==
    ASSUME TInv, NEW id
    PROVE  /\ IsFiniteSet({x \in RowIds : x <= id})
           /\ Position(id) \in Nat /\ Position(id) <= Cardinality(RowIds)
           /\ id \in RowIds => Position(id) > 0
<1> DEFINE before == {x \in RowIds : x <= id}
<1>1. IsFiniteSet(RowIds) /\ RowIds \subseteq 1..MaxRows /\ MaxRows \in Nat
    BY RowIdTypes, GrantAssumption DEF TInv
<1>2. before \subseteq RowIds
    OBVIOUS
<1>3. IsFiniteSet(before) /\ Cardinality(before) \in Nat
      /\ Cardinality(before) <= Cardinality(RowIds)
    BY <1>1, <1>2, FS_Subset, FS_CardinalityType
<1>4. ASSUME id \in RowIds
      PROVE  Cardinality(before) > 0
    <2>1. id \in before
        BY <1>1, <1>4
    <2>2. Cardinality(before) # 0
        BY <1>3, <2>1, FS_EmptySet
    <2> QED BY <1>3, <2>2
<1> QED BY <1>3, <1>4 DEF Position

(* Rows with higher numbers do not move a row; a deletion moves it forward. *)
LEMMA PositionKept ==
    ASSUME TInv, RowIds \subseteq RowIds', \A x \in RowIds' \ RowIds : x \in Nat /\ x > lastId,
           NEW id \in Nat, id <= lastId
    PROVE  Position(id)' = Position(id)
<1>1. lastId \in Nat
    BY DEF TInv, GrantAdministrationTypeOK
<1>2. \A x \in RowIds' \ RowIds : ~ (x <= id)
    BY <1>1
<1>3. {x \in RowIds' : x <= id} = {x \in RowIds : x <= id}
    BY <1>2
<1> QED BY <1>3 DEF Position

LEMMA PositionLower ==
    ASSUME TInv, NEW id, RowIds' \subseteq RowIds
    PROVE  Position(id)' <= Position(id)
<1>1. {x \in RowIds' : x <= id} \subseteq {x \in RowIds : x <= id}
    OBVIOUS
<1>2. Cardinality({x \in RowIds' : x <= id}) <= Cardinality({x \in RowIds : x <= id})
    BY <1>1, PositionTypes, FS_Subset
<1> QED BY <1>2 DEF Position

(* A page that leaves out a row after the cursor is full: the first row it  *)
(* leaves out comes right after the rows it has.                            *)
LEMMA FullPage ==
    ASSUME TInv, NEW id \in RowIds, id > cursor, id \notin IdPage
    PROVE  Cardinality(IdPage) = Limit
<1> DEFINE after == {x \in RowIds : x > cursor}
           upTo(y) == {x \in after : x <= y}
           out == after \ IdPage
<1>1. /\ RowIds \subseteq 1..MaxRows /\ IsFiniteSet(RowIds) /\ MaxRows \in Nat
      /\ Limit \in Nat \ {0}
    BY RowIdTypes, GrantAssumption DEF TInv
<1>2. /\ \A x : x \in IdPage <=> x \in after /\ Cardinality(upTo(x)) <= Limit
      /\ IdPage \subseteq after /\ after \subseteq Nat
    <2>1. IdPage = {x \in after : Cardinality(upTo(x)) <= Limit}
        BY DEF IdPage
    <2>2. after \subseteq Nat
        <3>1. RowIds \subseteq Nat
            BY <1>1
        <3> QED BY <3>1
    <2> HIDE DEF after, upTo
    <2> QED BY <2>1, <2>2
<1>3. \A y : upTo(y) \subseteq RowIds
    OBVIOUS
<1>4. \A y : IsFiniteSet(upTo(y)) /\ Cardinality(upTo(y)) \in Nat
    BY <1>1, <1>3, FS_Subset, FS_CardinalityType
<1>5. IsFiniteSet(IdPage) /\ Cardinality(IdPage) \in Nat
    <2>1. IdPage \subseteq RowIds
        BY <1>2
    <2> QED BY <1>1, <2>1, FS_Subset, FS_CardinalityType
<1>6. PICK m \in out : \A k \in out : m <= k
    <2>1. out \in SUBSET Nat /\ out # {}
        BY <1>2
    <2> HIDE DEF out
    <2> QED BY <2>1, LeastNatural
<1>7. m \in after /\ m \in Nat /\ m \notin IdPage /\ ~ (Cardinality(upTo(m)) <= Limit)
    BY <1>2, <1>6
<1>8. upTo(m) = IdPage \cup {m}
    <2>1. ASSUME NEW x \in after, x < m
          PROVE  x \in IdPage
        <3>1. x \in Nat /\ ~ (m <= x)
            BY <1>2, <1>7, <2>1
        <3> QED BY <1>6, <3>1
    <2>2. ASSUME NEW x \in IdPage
          PROVE  x < m
        <3> SUFFICES ASSUME ~ (x < m)
                     PROVE  FALSE
            OBVIOUS
        <3>1. x \in Nat /\ m <= x
            BY <1>2, <1>7
        <3>2. upTo(m) \subseteq upTo(x)
            BY <1>2, <1>7, <3>1
        <3>3. Cardinality(upTo(m)) <= Cardinality(upTo(x)) /\ Cardinality(upTo(x)) <= Limit
            BY <1>2, <1>4, <3>2, FS_Subset
        <3>4. Cardinality(upTo(m)) \in Nat /\ Cardinality(upTo(x)) \in Nat
            BY <1>4
        <3> HIDE DEF upTo
        <3> QED BY <1>1, <1>7, <3>3, <3>4
    <2>3. \A x \in after : x <= m <=> x < m \/ x = m
        BY <1>2, <1>7
    <2> QED BY <1>2, <1>7, <2>1, <2>2, <2>3
<1>9. Cardinality(IdPage) >= Limit
    <2>1. Cardinality(IdPage \cup {m}) = Cardinality(IdPage) + 1
        BY <1>5, <1>7, FS_AddElement
    <2>2. Cardinality(IdPage \cup {m}) > Limit
        <3>1. Cardinality(upTo(m)) \in Nat
            BY <1>4
        <3> HIDE DEF upTo
        <3> QED BY <1>1, <1>7, <1>8, <3>1
    <2> QED BY <1>1, <1>5, <2>1, <2>2
<1>10. Cardinality(IdPage) <= Limit
    <2> DEFINE last == Max(IdPage)
    <2>1. IdPage # {} /\ IdPage \in SUBSET (1..MaxRows)
        BY <1>1, <1>2, <1>5, <1>9, FS_EmptySet
    <2>2. last \in IdPage /\ \A y \in IdPage : y <= last
        BY <1>1, <2>1, MaxIs
    <2> HIDE DEF last
    <2>3. IdPage \subseteq upTo(last)
        BY <1>2, <2>2
    <2>4. Cardinality(IdPage) <= Cardinality(upTo(last)) /\ Cardinality(upTo(last)) <= Limit
        BY <1>2, <1>4, <2>2, <2>3, FS_Subset
    <2>5. Cardinality(upTo(last)) \in Nat
        BY <1>4
    <2> HIDE DEF upTo
    <2> QED BY <1>1, <1>5, <2>4, <2>5
<1> QED BY <1>1, <1>5, <1>9, <1>10

(* Steps that leave the listing alone and add rows, if any, after those     *)
(* that are there; a batch is committed to a store whose cursors are IDs.   *)
LEMMA AddedPage ==
    ASSUME TInv, PageInv, UNCHANGED <<kind, listing, cursor, returned, twice, standing, deleted>>,
           lastId' \in Nat, lastId <= lastId',
           kind # "postgres" => /\ RowIds \subseteq RowIds'
                                /\ \A x \in RowIds' \ RowIds : x \in Nat /\ x > lastId
    PROVE  PageInv'
<1>1. lastId \in Nat /\ \A id \in RowIds : id \in Nat /\ id <= lastId
    BY RowIdTypes, GrantAssumption DEF TInv, NumberInv, GrantAdministrationTypeOK
<1>2. \A id \in returned : id \in Nat /\ id <= lastId
    BY GrantAssumption DEF PageInv, TInv, GrantAdministrationTypeOK
<1>3. \A id \in standing : id \in Nat /\ id <= lastId
    BY <1>1 DEF TInv, GrantAdministrationTypeOK
<1>4. \A id \in returned : id <= lastId'
    BY <1>1, <1>2
<1>5. CASE kind = "postgres"
    BY <1>4, <1>5 DEF PageInv
<1>6. CASE kind # "postgres"
    <2>1. \A id \in returned \cup standing : Position(id)' = Position(id)
        BY <1>2, <1>3, <1>6, PositionKept
    <2>2. returned \cap RowIds' = returned \cap RowIds
        <3>1. \A x \in RowIds' \ RowIds : x \notin returned
            BY <1>1, <1>2, <1>6
        <3> QED BY <1>6, <3>1
    <2>3. listing => \A id \in returned \cap RowIds' : Position(id)' <= cursor
        BY <1>6, <2>1, <2>2 DEF PageInv
    <2>4. listing /\ ~ deleted => \A id \in standing : Position(id)' <= cursor => id \in returned
        BY <1>6, <2>1 DEF PageInv
    <2> QED BY <1>4, <1>6, <2>3, <2>4 DEF PageInv
<1> QED BY <1>5, <1>6

LEMMA DeletePage ==
    ASSUME TInv, PageInv, NEW owner \in Owner, DeleteGrantsForOwner(owner)
    PROVE  PageInv'
<1> DEFINE gone == {r \in rows : OwnerOf[r.grant] = owner}
<1>1. /\ rows' = rows \ gone /\ standing' = standing \ {r.id : r \in gone}
      /\ deleted' = (deleted \/ (listing /\ gone # {}))
      /\ UNCHANGED <<kind, lastId, listing, cursor, returned, twice>>
    BY DEF DeleteGrantsForOwner
<1>2. RowIds' \subseteq RowIds
    BY <1>1 DEF RowIds
<1>3. standing' \subseteq standing
    BY <1>1
<1>4. listing /\ ~ deleted' => rows' = rows /\ ~ deleted
    BY <1>1
<1>5. listing /\ ~ deleted' => \A id : Position(id)' = Position(id)
    BY <1>4 DEF Position, RowIds
<1>6. listing /\ kind # "postgres" => \A id \in returned \cap RowIds' : Position(id)' <= cursor
    <2> SUFFICES ASSUME listing, kind # "postgres", NEW id \in returned \cap RowIds'
                 PROVE  Position(id)' <= cursor
        OBVIOUS
    <2>1. cursor \in Nat
        BY DEF TInv, GrantAdministrationTypeOK
    <2>5. Position(id) \in Nat
        BY PositionTypes
    <2>2. Position(id)' <= Position(id)
        BY <1>2, PositionLower
    <2>3. Position(id)' \in Nat
        <3>1. {x \in RowIds' : x <= id} \subseteq RowIds
            BY <1>2
        <3>2. IsFiniteSet(RowIds)
            BY RowIdTypes DEF TInv
        <3>3. Cardinality({x \in RowIds' : x <= id}) \in Nat
            BY <3>1, <3>2, FS_Subset, FS_CardinalityType
        <3> QED BY <3>3 DEF Position
    <2>4. Position(id) <= cursor
        BY <1>2 DEF PageInv
    <2> QED BY <2>1, <2>2, <2>3, <2>4, <2>5
<1>7. listing /\ kind # "postgres" /\ ~ deleted' =>
          \A id \in standing' : Position(id)' <= cursor => id \in returned
    BY <1>3, <1>4, <1>5 DEF PageInv
<1>8. deleted => deleted'
    BY <1>1
<1> QED BY <1>1, <1>3, <1>6, <1>7, <1>8 DEF PageInv

LEMMA BeginPage ==
    ASSUME TInv, PageInv, BeginListing
    PROVE  PageInv'
<1>1. /\ listing' = TRUE /\ cursor' = 0 /\ returned' = {} /\ twice' = FALSE
      /\ standing' = RowIds /\ UNCHANGED <<kind, rows>>
    BY DEF BeginListing
<1>2. \A id \in RowIds : id \in Nat /\ ~ (id <= 0)
    BY RowIdTypes, GrantAssumption DEF TInv
<1>3. \A id : Position(id)' = Position(id)
    BY <1>1 DEF Position, RowIds
<1>4. \A id \in RowIds : ~ (Position(id) <= 0)
    <2>1. \A id \in RowIds : Position(id) \in Nat /\ Position(id) > 0
        BY PositionTypes
    <2> QED BY <2>1
<1> QED BY <1>1, <1>2, <1>3, <1>4 DEF PageInv

(* A page by row IDs: what follows the cursor, up to its last row.          *)
LEMMA NextIdPage ==
    ASSUME TInv, PageInv, NextPage, kind = "postgres"
    PROVE  PageInv'
<1>1. /\ listing /\ returned' = returned \cup IdPage
      /\ twice' = (twice \/ returned \cap IdPage # {})
      /\ listing' = HasNext /\ UNCHANGED <<kind, rows, lastId, standing, deleted>>
      /\ HasNext => cursor' = Max(IdPage)
    BY DEF NextPage, NextCursor, Page
<1>2. /\ cursor \in Nat /\ MaxRows \in Nat /\ standing \subseteq RowIds
      /\ \A id \in RowIds : id \in 1..MaxRows /\ id <= lastId
      /\ \A id \in returned : id \in Nat /\ id <= lastId /\ id <= cursor
    BY <1>1, RowIdTypes, GrantAssumption DEF TInv, NumberInv, PageInv, GrantAdministrationTypeOK
<1>3. /\ \A id \in IdPage : id \in RowIds /\ id > cursor
      /\ IdPage \subseteq 1..MaxRows
    BY <1>2 DEF IdPage
<1>4. ~ twice'
    <2>1. \A id \in IdPage : id \notin returned
        BY <1>2, <1>3
    <2> QED BY <1>1, <2>1 DEF PageInv
<1>5. \A id \in returned' : id <= lastId'
    BY <1>1, <1>2, <1>3
<1>6. ASSUME HasNext
      PROVE  /\ \A id \in returned' : id <= cursor'
             /\ \A id \in standing : id <= cursor' => id \in returned'
    <2> DEFINE last == Max(IdPage)
    <2>1. IdPage # {}
        BY <1>1, <1>6, FS_EmptySet, GrantAssumption DEF HasNext, Page
    <2>2. last \in IdPage /\ \A id \in IdPage : id <= last
        BY <1>2, <1>3, <2>1, MaxIs
    <2>3. cursor' = last
        BY <1>1, <1>6
    <2> HIDE DEF last
    <2>4. \A id \in returned' : id <= last
        <3>1. last \in Nat /\ last > cursor
            BY <1>2, <1>3, <2>2
        <3>2. \A id \in returned : id <= last
            BY <1>2, <3>1
        <3> QED BY <1>1, <2>2, <3>2
    <2>5. ASSUME NEW id \in standing, id <= last
          PROVE  id \in returned'
        <3>1. CASE id <= cursor
            BY <1>1, <3>1 DEF PageInv
        <3>2. CASE id > cursor
            <4> DEFINE after == {x \in RowIds : x > cursor}
                       upTo(y) == {x \in after : x <= y}
            <4>1. last \in Nat /\ id \in after /\ id \in Nat
                BY <1>2, <1>3, <2>2, <3>2
            <4>2. upTo(id) \subseteq upTo(last) /\ upTo(last) \subseteq RowIds
                <5>1. \A x \in after : x \in Nat
                    BY <1>2
                <5>2. \A x \in after : x <= id => x <= last
                    BY <2>5, <4>1, <5>1
                <5> QED BY <5>2
            <4>3. IsFiniteSet(upTo(last)) /\ IsFiniteSet(upTo(id))
                BY <4>2, RowIdTypes, FS_Subset DEF TInv
            <4>4. /\ Cardinality(upTo(id)) <= Cardinality(upTo(last))
                  /\ Cardinality(upTo(id)) \in Nat /\ Cardinality(upTo(last)) \in Nat
                BY <4>2, <4>3, FS_Subset, FS_CardinalityType
            <4>5. Cardinality(upTo(last)) <= Limit
                BY <2>2 DEF IdPage
            <4>6. Cardinality(upTo(id)) <= Limit
                <5> HIDE DEF upTo
                <5> QED BY <4>4, <4>5, GrantAssumption
            <4>7. id \in IdPage
                BY <4>1, <4>6 DEF IdPage
            <4> QED BY <1>1, <4>7
        <3>3. id \in Nat
            BY <1>2
        <3> QED BY <1>2, <3>1, <3>2, <3>3
    <2> QED BY <2>3, <2>4, <2>5
<1>7. ASSUME ~ HasNext
      PROVE  standing \subseteq returned'
    <2>1. Cardinality(IdPage) # Limit
        BY <1>7 DEF HasNext, Page
    <2>2. ASSUME NEW id \in standing
          PROVE  id \in returned'
        <3>1. CASE id <= cursor
            BY <1>1, <3>1 DEF PageInv
        <3>2. CASE id > cursor
            BY <1>1, <1>2, <2>1, <3>2, FullPage
        <3>3. id \in Nat
            BY <1>2
        <3> QED BY <1>2, <3>1, <3>2, <3>3
    <2> QED BY <2>2
<1> QED BY <1>1, <1>4, <1>5, <1>6, <1>7 DEF PageInv

(* A page by offsets: the rows at the next Limit positions.                 *)
LEMMA NextOffsetPage ==
    ASSUME TInv, PageInv, NextPage, kind # "postgres"
    PROVE  PageInv'
<1>1. /\ listing /\ returned' = returned \cup OffsetPage
      /\ twice' = (twice \/ returned \cap OffsetPage # {})
      /\ listing' = HasNext /\ UNCHANGED <<kind, rows, lastId, standing, deleted>>
      /\ HasNext => cursor' = cursor + Limit
    BY DEF NextPage, NextCursor, Page
<1>2. /\ cursor \in Nat /\ Limit \in Nat /\ standing \subseteq RowIds
      /\ \A id \in RowIds : id <= lastId
      /\ Cardinality(RowIds) \in Nat
    BY RowIdTypes, GrantAssumption DEF TInv, NumberInv, GrantAdministrationTypeOK
<1>3. \A id : Position(id) \in Nat /\ Position(id) <= Cardinality(RowIds)
    BY PositionTypes
<1>4. RowIds' = RowIds /\ \A id : Position(id)' = Position(id)
    BY <1>1 DEF RowIds, Position
<1>5. \A id \in OffsetPage :
          id \in RowIds /\ ~ (Position(id) <= cursor) /\ Position(id) <= cursor + Limit
    BY <1>2, <1>3 DEF OffsetPage
<1>6. \A id \in returned \cap RowIds : Position(id) <= cursor
    BY <1>1 DEF PageInv
<1>7. ~ twice'
    BY <1>1, <1>5, <1>6 DEF PageInv
<1>8. \A id \in returned' : id <= lastId'
    BY <1>1, <1>2, <1>5 DEF PageInv
<1>9. \A id \in returned' \cap RowIds : Position(id) <= cursor + Limit
    BY <1>1, <1>2, <1>3, <1>5, <1>6
<1>10. ~ deleted => \A id \in standing : Position(id) <= cursor + Limit => id \in returned'
    <2> SUFFICES ASSUME ~ deleted, NEW id \in standing, Position(id) <= cursor + Limit
                 PROVE  id \in returned'
        OBVIOUS
    <2>1. CASE Position(id) <= cursor
        BY <1>1, <2>1 DEF PageInv
    <2>2. CASE ~ (Position(id) <= cursor)
        BY <1>1, <1>2, <1>3, <2>2 DEF OffsetPage
    <2> QED BY <2>1, <2>2
<1>11. ~ HasNext => \A id : Position(id) <= cursor + Limit
    BY <1>2, <1>3 DEF HasNext
<1>12. ~ HasNext /\ ~ deleted => standing \subseteq returned'
    BY <1>10, <1>11
<1> QED BY <1>1, <1>4, <1>7, <1>8, <1>9, <1>10, <1>12 DEF PageInv

LEMMA NextPageInv ==
    ASSUME TInv, PageInv, [Next]_vars
    PROVE  PageInv'
<1>1. lastId \in Nat
    BY DEF TInv, GrantAdministrationTypeOK
<1>2. ASSUME UNCHANGED <<kind, rows, lastId, pageVars>>
      PROVE  PageInv'
    <2>1. RowIds' = RowIds
        BY <1>2 DEF RowIds
    <2> QED BY <1>1, <1>2, <2>1, AddedPage DEF pageVars
<1>3. CASE UNCHANGED vars
    BY <1>2, <1>3 DEF vars
<1>4. ASSUME NEW t \in Thread, NEW grants, CreateGrants(t, grants) \/ EnsureGrants(t, grants)
      PROVE  PageInv'
    BY <1>2, <1>4 DEF CreateGrants, EnsureGrants, Begin
<1>5. ASSUME NEW t \in Thread, Look(t) \/ Fail(t) \/ Return(t)
      PROVE  PageInv'
    BY <1>2, <1>5 DEF Look, Turn, Fail, Return, End
<1>6. ASSUME NEW t \in Thread, WriteBulk(t) \/ WriteOne(t) \/ FailAtOne(t)
      PROVE  PageInv'
    <2>1. UNCHANGED <<kind, listing, cursor, returned, twice, standing, deleted>>
        BY <1>6 DEF WriteBulk, WriteOne, FailAtOne, End, pageVars
    <2> QED BY <1>6, <2>1, WritesAre, AddedPage, GrantAssumption
<1>7. ASSUME NEW t \in Thread, InsertBatch(t) \/ CommitBatch(t)
      PROVE  PageInv'
    <2>1. /\ UNCHANGED <<kind, listing, cursor, returned, twice, standing, deleted>>
          /\ kind = "postgres"
          /\ lastId' = lastId \/ lastId' = lastId + Len(missing[t])
        BY <1>7 DEF InsertBatch, CommitBatch, pageVars, TInv, NumberInv
    <2>2. Len(missing[t]) \in Nat
        BY ListTypes DEF TInv
    <2> QED BY <1>1, <2>1, <2>2, AddedPage
<1> QED
    BY <1>3, <1>4, <1>5, <1>6, <1>7, DeletePage, BeginPage, NextIdPage, NextOffsetPage DEF Next

(* A listing gives every grant that was there throughout, with row IDs      *)
(* always and with offsets unless something was deleted, and none twice,    *)
(* for any page length and whatever is written meanwhile.                   *)
THEOREM GrantAdministrationPagesReturnOnce == Spec => []PagesReturnOnce
<1>1. TInv /\ PageInv => PagesReturnOnce
    BY DEF PageInv, PagesReturnOnce
<1>2. (TInv /\ PageInv) /\ [Next]_vars => (TInv /\ PageInv)'
    BY NextTInv, NextPageInv
<1>3. Init => TInv /\ PageInv
    BY InitTInv DEF Init, PageInv
<1> QED BY <1>1, <1>2, <1>3, PTL DEF Spec
=============================================================================
