--------------------------- MODULE JSONStoreProofs ---------------------------
(***************************************************************************)
(* The JSON store, for any facts and any number of threads; and, at the    *)
(* end, the lock of the identity file that lies beside it, for any callers *)
(* and groups.                                                             *)
(***************************************************************************)
EXTENDS JSONStore, IdentityLock, TLAPS

(* A snapshot is none of the marks that stand for a file without one.       *)
LEMMA Contents ==
    /\ \A d \in SUBSET Saved : d \in Content /\ d # None /\ d # Empty /\ d # Garbled
    /\ None \in Content /\ Empty \in Content /\ Garbled \in Content
    /\ None # Empty /\ None # Garbled /\ Empty # Garbled
    /\ \A c \in Content : c \in {None, Empty, Garbled} \/ c \in SUBSET Saved
<1>1. SUBSET Saved \subseteq SUBSET Fact
  BY DEF Saved
<1>2. \A d \in SUBSET Saved : d \in Content /\ d # None /\ d # Empty /\ d # Garbled
  <2> SUFFICES ASSUME NEW d \in SUBSET Saved
               PROVE  d \in Content /\ d # None /\ d # Empty /\ d # Garbled
    OBVIOUS
  <2>1. d \in SUBSET Fact
    BY <1>1
  <2>2. None # d /\ Empty # d /\ Garbled # d
    BY <2>1, ContentAssumption
  <2>. QED
    BY <2>2 DEF Content
<1>3. None # Empty /\ None # Garbled /\ Empty # Garbled
  BY ContentAssumption
<1>. QED
  BY <1>2, <1>3 DEF Content

LEMMA NothingMarked == Nothing \in [Saved -> Mark] /\ \A f \in Saved : Nothing[f] = "none"
  BY DEF Nothing, Mark

(* Overwriting a file with a snapshot leaves the snapshot or no text.       *)
LEMMA OverwrittenContent ==
    ASSUME NEW old, NEW new \in SUBSET Saved, NEW c \in Overwritten(old, new)
    PROVE  c \in {new, Garbled} /\ (old = Empty => c = new)
  BY DEF Overwritten

(* A descriptor is open only while its call writes.                         *)
TypeInv ==
    /\ JSONStoreTypeOK
    /\ \A t \in Thread : pc[t] # "write" => fd[t] = "none"
    /\ \A t \in Thread : fd[t] = "tmp" => tmpFile # None
    /\ \A t \in Thread : fd[t] = "store" => storeFile # None
    /\ \A t \in Thread : pc[t] = "idle" => touched[t] = Nothing
    /\ ~ up => \A t \in Thread : pc[t] = "idle"

Promise(mark, f, d) == mark # "none" => (mark = "in" <=> f \in d)

(* What the memory, the copies of the saving threads and the two files have *)
(* to do with each other.  A thread alone in Save works on a temporary file *)
(* that holds its own copy and nothing else; while threads overlap, nothing *)
(* is owed.  What is owed, and what a call under way is to change, is in    *)
(* the memory, and what is owed is in every copy that may become the file.  *)
AloneInv ==
    \A t \in Thread :
        /\ alone[t] => Saving(t) /\ \A s \in Thread \ {t} : ~ Saving(s)
        /\ Saving(t) /\ ~ alone[t] => owed = Nothing
        /\ alone[t] /\ pc[t] = "write" => fd[t] = "tmp" /\ tmpFile = Empty
        /\ alone[t] /\ pc[t] = "rename" => tmpFile = snap[t]

MemoryInv ==
    \A f \in Saved :
        /\ up => Promise(owed[f], f, data)
        /\ \A t \in Thread : Promise(touched[t][f], f, data)

CopyInv ==
    \A t \in Thread, f \in Saved : alone[t] =>
        Promise(owed[f], f, snap[t]) /\ Promise(touched[t][f], f, snap[t])

SaveInv == AloneInv /\ MemoryInv /\ CopyInv /\ SavedSurvives
(* Every call that changes the store is an instance of Change.              *)
LEMMA Calls ==
    ASSUME TypeInv, Next
    PROVE  \/ \E t \in Thread, d \in SUBSET Fact, facts \in SUBSET Fact :
                Change(t, d, facts) /\ d \ facts = data \ facts
           \/ \E t \in Thread, f \in Fact : AddRoleInheritanceAgain(t, f)
           \/ \E t \in Thread : \/ Snapshot(t) \/ Open(t) \/ Write(t) \/ Rename(t)
                                \/ SaveFails(t) \/ WriteFails(t)
           \/ Crash
           \/ Load
<1>1. ASSUME NEW t \in Thread, NEW d \in SUBSET Fact, SetData(t, d)
      PROVE  \E e \in SUBSET Fact, facts \in SUBSET Fact :
               Change(t, e, facts) /\ e \ facts = data \ facts
  BY <1>1 DEF SetData, TypeInv, JSONStoreTypeOK
<1>2. ASSUME NEW t \in Thread, NEW f \in Fact,
             CreateGrant(t, f) \/ AssignRole(t, f) \/ AddRoleInheritance(t, f)
      PROVE  \E e \in SUBSET Fact, facts \in SUBSET Fact :
               Change(t, e, facts) /\ e \ facts = data \ facts
  <2>1. data \cup {f} \in SUBSET Fact /\ {f} \in SUBSET Fact
    BY DEF TypeInv, JSONStoreTypeOK
  <2>. QED
    BY <1>2, <2>1 DEF CreateGrant, AssignRole, AddRoleInheritance
<1>3. ASSUME NEW t \in Thread, NEW f \in Fact, UnassignRole(t, f)
      PROVE  \E e \in SUBSET Fact, facts \in SUBSET Fact :
               Change(t, e, facts) /\ e \ facts = data \ facts
  <2>1. data \ {f} \in SUBSET Fact /\ {f} \in SUBSET Fact
    BY DEF TypeInv, JSONStoreTypeOK
  <2>. QED
    BY <1>3, <2>1 DEF UnassignRole
<1>4. ASSUME NEW t \in Thread, NEW owner, DeleteGrantsForOwner(t, owner)
      PROVE  \E e \in SUBSET Fact, facts \in SUBSET Fact :
               Change(t, e, facts) /\ e \ facts = data \ facts
  <2>. DEFINE grants == {f \in Fact : f.kind = "grant" /\ f.owner = owner}
  <2>1. data \ grants \in SUBSET Fact /\ grants \in SUBSET Fact
    BY DEF TypeInv, JSONStoreTypeOK
  <2>2. Change(t, data \ grants, grants)
    BY <1>4 DEF DeleteGrantsForOwner
  <2>. QED
    BY <2>1, <2>2
<1>. QED
  BY <1>1, <1>2, <1>3, <1>4 DEF Next


LEMMA TypeInvariant == Spec => []TypeInv
<1>1. Init => TypeInv
  BY Contents, NothingMarked DEF Init, TypeInv, JSONStoreTypeOK, Mark
<1>2. TypeInv /\ [Next]_vars => TypeInv'
  <2> SUFFICES ASSUME TypeInv, [Next]_vars
               PROVE  TypeInv'
    OBVIOUS
  <2>1. ASSUME NEW t \in Thread, NEW d \in SUBSET Fact, NEW facts \in SUBSET Fact,
               Change(t, d, facts), d \ facts = data \ facts
        PROVE  TypeInv'
    BY <2>1, Contents, NothingMarked DEF Change, Goto, TypeInv, JSONStoreTypeOK, Mark
  <2>2. ASSUME NEW t \in Thread, NEW f \in Fact, AddRoleInheritanceAgain(t, f)
        PROVE  TypeInv'
    BY <2>2, Contents, NothingMarked DEF AddRoleInheritanceAgain, TypeInv,
       JSONStoreTypeOK, Saved
  <2>3. ASSUME NEW t \in Thread, Snapshot(t)
        PROVE  TypeInv'
    BY <2>3, Contents, NothingMarked DEF Snapshot, Goto, Saving, TypeInv,
       JSONStoreTypeOK, Saved
  <2>4. ASSUME NEW t \in Thread, Open(t)
        PROVE  TypeInv'
    BY <2>4, Contents, NothingMarked DEF Open, Goto, TypeInv, JSONStoreTypeOK
  <2>5. ASSUME NEW t \in Thread, Write(t)
        PROVE  TypeInv'
    BY <2>5, Contents, NothingMarked, OverwrittenContent DEF Write, Goto, Put, File,
       TypeInv, JSONStoreTypeOK
  <2>6. ASSUME NEW t \in Thread, Rename(t)
        PROVE  TypeInv'
    BY <2>6, Contents, NothingMarked DEF Rename, Return, TypeInv, JSONStoreTypeOK, Mark
  <2>7. ASSUME NEW t \in Thread, SaveFails(t)
        PROVE  TypeInv'
    BY <2>7, Contents, NothingMarked DEF SaveFails, Return, TypeInv, JSONStoreTypeOK
  <2>8. ASSUME NEW t \in Thread, WriteFails(t)
        PROVE  TypeInv'
    BY <2>8, Contents, NothingMarked DEF WriteFails, Put, File, Return, TypeInv,
       JSONStoreTypeOK
  <2>9. ASSUME Crash
        PROVE  TypeInv'
    BY <2>9, Contents, NothingMarked DEF Crash, TypeInv, JSONStoreTypeOK
  <2>10. ASSUME Load
        PROVE  TypeInv'
    BY <2>10, Contents, NothingMarked DEF Load, Loadable, TypeInv, JSONStoreTypeOK,
       Saved
  <2>11. CASE UNCHANGED vars
    BY <2>11 DEF vars, TypeInv, JSONStoreTypeOK
  <2>. QED
    BY <2>1, <2>2, <2>3, <2>4, <2>5, <2>6, <2>7, <2>8, <2>9, <2>10, <2>11, Calls
<1>. QED
  BY <1>1, <1>2, PTL DEF Spec

(* The store, its files and the calls stay within their types.              *)
THEOREM JSONStoreTypeCorrect == Spec => []JSONStoreTypeOK
  BY TypeInvariant, PTL DEF TypeInv

-----------------------------------------------------------------------------
(* Nobody else saves while a thread is alone, and nothing is owed while two *)
(* do.                                                                      *)
LEMMA AloneStep == TypeInv /\ SaveInv /\ [Next]_vars => AloneInv'
<1> SUFFICES ASSUME TypeInv, SaveInv, [Next]_vars
             PROVE  AloneInv'
  OBVIOUS
<1>1. ASSUME NEW t \in Thread, NEW d \in SUBSET Fact, NEW facts \in SUBSET Fact,
             Change(t, d, facts), d \ facts = data \ facts
      PROVE  AloneInv'
  BY <1>1, NothingMarked DEF Change, Goto, TypeInv, JSONStoreTypeOK, SaveInv,
     AloneInv, Saving
<1>2. ASSUME NEW t \in Thread, NEW f \in Fact, AddRoleInheritanceAgain(t, f)
      PROVE  AloneInv'
  BY <1>2, NothingMarked DEF AddRoleInheritanceAgain, TypeInv, JSONStoreTypeOK,
     SaveInv, AloneInv, Saving
<1>3. ASSUME NEW t \in Thread, Snapshot(t)
      PROVE  AloneInv'
  BY <1>3, NothingMarked DEF Snapshot, Goto, Saving, TypeInv, JSONStoreTypeOK,
     SaveInv, AloneInv, Saved
<1>4. ASSUME NEW t \in Thread, Open(t)
      PROVE  AloneInv'
  BY <1>4, NothingMarked DEF Open, Goto, TypeInv, JSONStoreTypeOK, SaveInv, AloneInv,
     Saving
<1>5. ASSUME NEW t \in Thread, Write(t)
      PROVE  AloneInv'
  BY <1>5, OverwrittenContent, NothingMarked DEF Write, Goto, Put, File, TypeInv,
     JSONStoreTypeOK, SaveInv, AloneInv, Saving
<1>6. ASSUME NEW t \in Thread, Rename(t)
      PROVE  AloneInv'
  BY <1>6, NothingMarked DEF Rename, Return, TypeInv, JSONStoreTypeOK, SaveInv,
     AloneInv, Saving
<1>7. ASSUME NEW t \in Thread, SaveFails(t)
      PROVE  AloneInv'
  BY <1>7, NothingMarked DEF SaveFails, Return, TypeInv, JSONStoreTypeOK, SaveInv,
     AloneInv, Saving
<1>8. ASSUME NEW t \in Thread, WriteFails(t)
      PROVE  AloneInv'
  BY <1>8, NothingMarked DEF WriteFails, Put, File, Return, TypeInv, JSONStoreTypeOK,
     SaveInv, AloneInv, Saving
<1>9. ASSUME Crash
      PROVE  AloneInv'
  BY <1>9, NothingMarked DEF Crash, TypeInv, JSONStoreTypeOK, SaveInv, AloneInv,
     Saving
<1>10. ASSUME Load
      PROVE  AloneInv'
  BY <1>10, NothingMarked DEF Load, Loadable, TypeInv, JSONStoreTypeOK, SaveInv,
     AloneInv, Saving, Saved
<1>11. CASE UNCHANGED vars
  BY <1>11 DEF vars, TypeInv, JSONStoreTypeOK, SaveInv, AloneInv, Saving
<1>. QED
  BY <1>1, <1>2, <1>3, <1>4, <1>5, <1>6, <1>7, <1>8, <1>9, <1>10, <1>11, Calls

(* The memory keeps every promise, or it was read from a file that does.    *)
LEMMA MemoryStep == TypeInv /\ SaveInv /\ [Next]_vars => MemoryInv'
<1> SUFFICES ASSUME TypeInv, SaveInv, [Next]_vars
             PROVE  MemoryInv'
  OBVIOUS
<1>1. ASSUME NEW t \in Thread, NEW d \in SUBSET Fact, NEW facts \in SUBSET Fact,
             Change(t, d, facts), d \ facts = data \ facts
      PROVE  MemoryInv'
  <2>1. data' = d /\ up /\ up' = up
    BY <1>1 DEF Change
  <2>2. \A f \in Saved : owed'[f] = IF f \in facts THEN "none" ELSE owed[f]
    BY <1>1 DEF Change
  <2>3. \A s \in Thread, f \in Saved :
          touched'[s][f] = IF f \notin facts THEN touched[s][f]
                           ELSE IF s # t THEN "none" ELSE IF f \in d THEN "in" ELSE "out"
    BY <1>1 DEF Change
  <2>4. \A f \in Saved \ facts : f \in d <=> f \in data
    BY <1>1 DEF Saved
  <2>. QED
    BY <2>1, <2>2, <2>3, <2>4 DEF SaveInv, MemoryInv, Promise
<1>2. ASSUME NEW t \in Thread, NEW f \in Fact, AddRoleInheritanceAgain(t, f)
      PROVE  MemoryInv'
  BY <1>2, NothingMarked DEF AddRoleInheritanceAgain, TypeInv, JSONStoreTypeOK,
     SaveInv, MemoryInv, Promise, SavedSurvives, AloneInv
<1>3. ASSUME NEW t \in Thread, Snapshot(t)
      PROVE  MemoryInv'
  BY <1>3, NothingMarked DEF Snapshot, Goto, Saving, TypeInv, JSONStoreTypeOK,
     SaveInv, MemoryInv, Promise, SavedSurvives, AloneInv, Saved
<1>4. ASSUME NEW t \in Thread, Open(t)
      PROVE  MemoryInv'
  BY <1>4, NothingMarked DEF Open, Goto, TypeInv, JSONStoreTypeOK, SaveInv, MemoryInv,
     Promise, SavedSurvives, AloneInv
<1>5. ASSUME NEW t \in Thread, Write(t)
      PROVE  MemoryInv'
  BY <1>5, NothingMarked DEF Write, Goto, Put, File, TypeInv, JSONStoreTypeOK,
     SaveInv, MemoryInv, Promise, SavedSurvives, AloneInv
<1>6. ASSUME NEW t \in Thread, Rename(t)
      PROVE  MemoryInv'
  BY <1>6, NothingMarked DEF Rename, Return, TypeInv, JSONStoreTypeOK, SaveInv,
     MemoryInv, Promise, SavedSurvives, AloneInv
<1>7. ASSUME NEW t \in Thread, SaveFails(t)
      PROVE  MemoryInv'
  BY <1>7, NothingMarked DEF SaveFails, Return, TypeInv, JSONStoreTypeOK, SaveInv,
     MemoryInv, Promise, SavedSurvives, AloneInv
<1>8. ASSUME NEW t \in Thread, WriteFails(t)
      PROVE  MemoryInv'
  BY <1>8, NothingMarked DEF WriteFails, Put, File, Return, TypeInv, JSONStoreTypeOK,
     SaveInv, MemoryInv, Promise, SavedSurvives, AloneInv
<1>9. ASSUME Crash
      PROVE  MemoryInv'
  BY <1>9, NothingMarked DEF Crash, TypeInv, JSONStoreTypeOK, SaveInv, MemoryInv,
     Promise, SavedSurvives, AloneInv
<1>10. ASSUME Load
      PROVE  MemoryInv'
  BY <1>10, Contents, NothingMarked DEF Load, Loadable, TypeInv, JSONStoreTypeOK,
     SaveInv, MemoryInv, Promise, SavedSurvives, AloneInv, Saved
<1>11. CASE UNCHANGED vars
  BY <1>11 DEF vars, TypeInv, JSONStoreTypeOK, SaveInv, MemoryInv, Promise,
     SavedSurvives, AloneInv
<1>. QED
  BY <1>1, <1>2, <1>3, <1>4, <1>5, <1>6, <1>7, <1>8, <1>9, <1>10, <1>11, Calls

(* The copy of a thread that is alone keeps the promises made before it and *)
(* those its own call will make.                                            *)
LEMMA CopyStep == TypeInv /\ SaveInv /\ [Next]_vars => CopyInv'
<1> SUFFICES ASSUME TypeInv, SaveInv, [Next]_vars
             PROVE  CopyInv'
  OBVIOUS
<1>1. ASSUME NEW t \in Thread, NEW d \in SUBSET Fact, NEW facts \in SUBSET Fact,
             Change(t, d, facts), d \ facts = data \ facts
      PROVE  CopyInv'
  BY <1>1, NothingMarked DEF Change, Goto, TypeInv, JSONStoreTypeOK, SaveInv, CopyInv,
     MemoryInv, Promise, AloneInv, Saving
<1>2. ASSUME NEW t \in Thread, NEW f \in Fact, AddRoleInheritanceAgain(t, f)
      PROVE  CopyInv'
  BY <1>2, NothingMarked DEF AddRoleInheritanceAgain, TypeInv, JSONStoreTypeOK,
     SaveInv, CopyInv, MemoryInv, Promise, AloneInv, Saving
<1>3. ASSUME NEW t \in Thread, Snapshot(t)
      PROVE  CopyInv'
  BY <1>3, NothingMarked DEF Snapshot, Goto, Saving, TypeInv, JSONStoreTypeOK,
     SaveInv, CopyInv, MemoryInv, Promise, AloneInv, Saved
<1>4. ASSUME NEW t \in Thread, Open(t)
      PROVE  CopyInv'
  BY <1>4, NothingMarked DEF Open, Goto, TypeInv, JSONStoreTypeOK, SaveInv, CopyInv,
     MemoryInv, Promise, AloneInv, Saving
<1>5. ASSUME NEW t \in Thread, Write(t)
      PROVE  CopyInv'
  BY <1>5, NothingMarked DEF Write, Goto, Put, File, TypeInv, JSONStoreTypeOK,
     SaveInv, CopyInv, MemoryInv, Promise, AloneInv, Saving
<1>6. ASSUME NEW t \in Thread, Rename(t)
      PROVE  CopyInv'
  BY <1>6, NothingMarked DEF Rename, Return, TypeInv, JSONStoreTypeOK, SaveInv,
     CopyInv, MemoryInv, Promise, AloneInv, Saving
<1>7. ASSUME NEW t \in Thread, SaveFails(t)
      PROVE  CopyInv'
  BY <1>7, NothingMarked DEF SaveFails, Return, TypeInv, JSONStoreTypeOK, SaveInv,
     CopyInv, MemoryInv, Promise, AloneInv, Saving
<1>8. ASSUME NEW t \in Thread, WriteFails(t)
      PROVE  CopyInv'
  BY <1>8, NothingMarked DEF WriteFails, Put, File, Return, TypeInv, JSONStoreTypeOK,
     SaveInv, CopyInv, MemoryInv, Promise, AloneInv, Saving
<1>9. ASSUME Crash
      PROVE  CopyInv'
  BY <1>9, NothingMarked DEF Crash, TypeInv, JSONStoreTypeOK, SaveInv, CopyInv,
     MemoryInv, Promise, AloneInv, Saving
<1>10. ASSUME Load
      PROVE  CopyInv'
  BY <1>10, NothingMarked DEF Load, Loadable, TypeInv, JSONStoreTypeOK, SaveInv,
     CopyInv, MemoryInv, Promise, AloneInv, Saving, Saved
<1>11. CASE UNCHANGED vars
  BY <1>11 DEF vars, TypeInv, JSONStoreTypeOK, SaveInv, CopyInv, MemoryInv, Promise,
     AloneInv, Saving
<1>. QED
  BY <1>1, <1>2, <1>3, <1>4, <1>5, <1>6, <1>7, <1>8, <1>9, <1>10, <1>11, Calls

(* Only a thread that is alone replaces the file while something is owed.   *)
LEMMA FileStep == TypeInv /\ SaveInv /\ [Next]_vars => SavedSurvives'
<1> SUFFICES ASSUME TypeInv, SaveInv, [Next]_vars
             PROVE  SavedSurvives'
  OBVIOUS
<1>1. ASSUME NEW t \in Thread, NEW d \in SUBSET Fact, NEW facts \in SUBSET Fact,
             Change(t, d, facts), d \ facts = data \ facts
      PROVE  SavedSurvives'
  BY <1>1, NothingMarked DEF Change, Goto, TypeInv, JSONStoreTypeOK, SaveInv,
     SavedSurvives, CopyInv, Promise, AloneInv, Saving, Loadable
<1>2. ASSUME NEW t \in Thread, NEW f \in Fact, AddRoleInheritanceAgain(t, f)
      PROVE  SavedSurvives'
  BY <1>2, NothingMarked DEF AddRoleInheritanceAgain, TypeInv, JSONStoreTypeOK,
     SaveInv, SavedSurvives, CopyInv, Promise, AloneInv, Saving, Loadable
<1>3. ASSUME NEW t \in Thread, Snapshot(t)
      PROVE  SavedSurvives'
  BY <1>3, NothingMarked DEF Snapshot, Goto, Saving, TypeInv, JSONStoreTypeOK,
     SaveInv, SavedSurvives, CopyInv, Promise, AloneInv, Loadable, Saved
<1>4. ASSUME NEW t \in Thread, Open(t)
      PROVE  SavedSurvives'
  BY <1>4, NothingMarked DEF Open, Goto, TypeInv, JSONStoreTypeOK, SaveInv,
     SavedSurvives, CopyInv, Promise, AloneInv, Saving, Loadable
<1>5. ASSUME NEW t \in Thread, Write(t)
      PROVE  SavedSurvives'
  BY <1>5, Contents, NothingMarked DEF Write, Goto, Put, File, TypeInv,
     JSONStoreTypeOK, SaveInv, SavedSurvives, CopyInv, Promise, AloneInv, Saving,
     Loadable
<1>6. ASSUME NEW t \in Thread, Rename(t)
      PROVE  SavedSurvives'
  BY <1>6, Contents, NothingMarked DEF Rename, Return, TypeInv, JSONStoreTypeOK,
     SaveInv, SavedSurvives, CopyInv, Promise, AloneInv, Saving, Loadable
<1>7. ASSUME NEW t \in Thread, SaveFails(t)
      PROVE  SavedSurvives'
  BY <1>7, NothingMarked DEF SaveFails, Return, TypeInv, JSONStoreTypeOK, SaveInv,
     SavedSurvives, CopyInv, Promise, AloneInv, Saving, Loadable
<1>8. ASSUME NEW t \in Thread, WriteFails(t)
      PROVE  SavedSurvives'
  BY <1>8, Contents, NothingMarked DEF WriteFails, Put, File, Return, TypeInv,
     JSONStoreTypeOK, SaveInv, SavedSurvives, CopyInv, Promise, AloneInv, Saving,
     Loadable
<1>9. ASSUME Crash
      PROVE  SavedSurvives'
  BY <1>9, NothingMarked DEF Crash, TypeInv, JSONStoreTypeOK, SaveInv, SavedSurvives,
     CopyInv, Promise, AloneInv, Saving, Loadable
<1>10. ASSUME Load
      PROVE  SavedSurvives'
  BY <1>10, NothingMarked DEF Load, Loadable, TypeInv, JSONStoreTypeOK, SaveInv,
     SavedSurvives, CopyInv, Promise, AloneInv, Saving, Saved
<1>11. CASE UNCHANGED vars
  BY <1>11 DEF vars, TypeInv, JSONStoreTypeOK, SaveInv, SavedSurvives, CopyInv,
     Promise, AloneInv, Saving, Loadable
<1>. QED
  BY <1>1, <1>2, <1>3, <1>4, <1>5, <1>6, <1>7, <1>8, <1>9, <1>10, <1>11, Calls

(* A call that saved without error is not lost, whatever crashes, fails or  *)
(* is called afterwards, as long as no two calls of Save overlap.           *)
THEOREM JSONStoreSaveInv == Spec => []SaveInv
<1>1. Init => SaveInv
  BY NothingMarked DEF Init, SaveInv, AloneInv, MemoryInv, CopyInv, SavedSurvives, Saving, Promise
<1>2. TypeInv /\ SaveInv /\ [Next]_vars => SaveInv'
  BY AloneStep, MemoryStep, CopyStep, FileStep DEF SaveInv
<1>. QED
  BY <1>1, <1>2, TypeInvariant, PTL DEF Spec

(* What was saved is found again by Load.                                   *)
THEOREM JSONStoreSavedSurvives == Spec => []SavedSurvives
  BY JSONStoreSaveInv, PTL DEF SaveInv

-----------------------------------------------------------------------------
(* The lock of the identity file (IdentityLock)                             *)

IdentityTypes ==
    /\ inGroup \subseteq Group
    /\ step \in [Caller -> {"idle", "read", "team", "scan", "look", "lock", "write", "save"}]
    /\ count \in [Caller -> Nat]
    /\ todo \in [Caller -> SUBSET Group] /\ found \in [Caller -> SUBSET Group]
    /\ asked \in [Caller -> SUBSET Group] /\ during \in [Caller -> SUBSET SUBSET Group]

(* How many read locks a caller holds.                                      *)
LocksHeld(t) ==
    /\ step[t] \in {"idle", "lock", "write", "save"} => t \notin waiting /\ count[t] = 0
    /\ step[t] \in {"read", "team"} =>
         \/ t \in waiting /\ count[t] = 0
         \/ t \notin waiting /\ count[t] = 1
    /\ step[t] = "scan" => t \in waiting \/ count[t] > 0
    /\ step[t] = "look" => count[t] > 0 /\ (t \in waiting \/ count[t] > 1)

(* What a scan has found are the user's groups among those looked at, and   *)
(* the groups are those of a moment of the call.                            *)
ScanIsCurrent(t) ==
    /\ step[t] # "idle" => inGroup \in during[t]
    /\ step[t] \in {"scan", "look"} => found[t] = (Group \ todo[t]) \cap inGroup
    /\ step[t] = "scan" /\ t \in waiting => todo[t] = Group

IdentityInv == IdentityTypes /\ \A t \in Caller : LocksHeld(t) /\ ScanIsCurrent(t)

(* A step of one caller: the others hold what they held.                    *)
OthersKept(t) ==
    /\ inGroup' = inGroup /\ waiting' \in {waiting, waiting \cup {t}}
    /\ \A u \in Caller \ {t} :
         /\ step'[u] = step[u] /\ count'[u] = count[u] /\ todo'[u] = todo[u]
         /\ found'[u] = found[u] /\ during'[u] = during[u]

LEMMA OneCaller ==
    ASSUME IdentityInv, NEW t \in Caller, OthersKept(t), IdentityTypes',
           LocksHeld(t)', ScanIsCurrent(t)'
    PROVE  IdentityInv'
<1>1. ASSUME NEW u \in Caller \ {t}
      PROVE  LocksHeld(u)' /\ ScanIsCurrent(u)'
  <2>1. u \in waiting' <=> u \in waiting
    BY DEF OthersKept
  <2>2. LocksHeld(u) /\ ScanIsCurrent(u)
    BY DEF IdentityInv
  <2>. QED
    BY <2>1, <2>2 DEF OthersKept, LocksHeld, ScanIsCurrent
<1>. QED
  BY <1>1 DEF IdentityInv

(* A read lock is given, or the caller waits for it.                        *)
LEMMA RLockGivesOne ==
    ASSUME count \in [Caller -> Nat], NEW t \in Caller, RLock(t)
    PROVE  /\ count' \in [Caller -> Nat] /\ \A u \in Caller \ {t} : count'[u] = count[u]
           /\ \/ count'[t] = count[t] + 1 /\ waiting' = waiting
              \/ count'[t] = count[t] /\ waiting' = waiting \cup {t}
  BY DEF RLock

LEMMA ReleaseTakes ==
    ASSUME count \in [Caller -> Nat], NEW t \in Caller, NEW n \in Nat, n <= count[t],
           Release(t, n)
    PROVE  /\ count' \in [Caller -> Nat] /\ \A u \in Caller \ {t} : count'[u] = count[u]
           /\ count'[t] = count[t] - n /\ waiting' = waiting
<1>1. count[t] - n \in Nat
  OBVIOUS
<1>. QED
  BY <1>1 DEF Release

(* The calls begin.                                                         *)
LEMMA CallsKeep ==
    ASSUME IdentityInv, NEW t \in Caller,
           ReadOnce(t) \/ IsUserInTeam(t) \/ GetUserTeams(t) \/ CallWrite(t)
    PROVE  IdentityInv'
<1>1. PICK at \in {"read", "team", "scan", "lock"} :
          /\ step[t] = "idle" /\ step' = [step EXCEPT ![t] = at]
          /\ during' = [during EXCEPT ![t] = {inGroup}]
          /\ UNCHANGED <<inGroup, asked>>
          /\ IF at = "lock" THEN UNCHANGED <<count, waiting>> ELSE RLock(t)
          /\ IF at = "scan" THEN BeginScan(t) ELSE UNCHANGED <<todo, found>>
  BY DEF ReadOnce, IsUserInTeam, GetUserTeams, CallWrite, Call, lockVars
<1>2. IdentityTypes /\ t \notin waiting /\ count[t] = 0
  BY <1>1 DEF IdentityInv, LocksHeld
<1>3. /\ count' \in [Caller -> Nat] /\ \A u \in Caller \ {t} : count'[u] = count[u]
      /\ waiting' \in {waiting, waiting \cup {t}}
      /\ at = "lock" => count'[t] = 0 /\ t \notin waiting'
      /\ at # "lock" => \/ t \in waiting' /\ count'[t] = 0
                        \/ t \notin waiting' /\ count'[t] = 1
  <2>1. CASE at = "lock"
    BY <1>1, <1>2, <2>1 DEF IdentityTypes
  <2>2. CASE at # "lock"
    <3>1. count \in [Caller -> Nat] /\ RLock(t)
      BY <1>1, <1>2, <2>2 DEF IdentityTypes
    <3>2. /\ count' \in [Caller -> Nat] /\ \A u \in Caller \ {t} : count'[u] = count[u]
          /\ \/ count'[t] = count[t] + 1 /\ waiting' = waiting
             \/ count'[t] = count[t] /\ waiting' = waiting \cup {t}
      BY <3>1, RLockGivesOne
    <3>. QED
      BY <1>2, <2>2, <3>2
  <2>. QED
    BY <2>1, <2>2
<1>4. /\ todo' \in [Caller -> SUBSET Group] /\ found' \in [Caller -> SUBSET Group]
      /\ \A u \in Caller \ {t} : todo'[u] = todo[u] /\ found'[u] = found[u]
      /\ at = "scan" => todo'[t] = Group /\ found'[t] = {}
  BY <1>1, <1>2 DEF BeginScan, IdentityTypes
<1>5. IdentityTypes'
  <2>1. {inGroup} \in SUBSET SUBSET Group
    BY <1>2 DEF IdentityTypes
  <2>2. during' \in [Caller -> SUBSET SUBSET Group]
    BY <1>1, <1>2, <2>1 DEF IdentityTypes
  <2>3. step' \in [Caller -> {"idle", "read", "team", "scan", "look", "lock", "write", "save"}]
    BY <1>1, <1>2 DEF IdentityTypes
  <2>4. inGroup' \subseteq Group /\ asked' \in [Caller -> SUBSET Group]
    BY <1>1, <1>2 DEF IdentityTypes
  <2>. QED
    BY <1>3, <1>4, <2>2, <2>3, <2>4 DEF IdentityTypes
<1>6. step'[t] = at /\ during'[t] = {inGroup} /\ inGroup' = inGroup
  BY <1>1, <1>2 DEF IdentityTypes
<1>7. OthersKept(t)
  BY <1>1, <1>2, <1>3, <1>4 DEF IdentityTypes, OthersKept
<1>8. LocksHeld(t)'
  BY <1>3, <1>6 DEF LocksHeld
<1>9. ScanIsCurrent(t)'
  BY <1>4, <1>6 DEF ScanIsCurrent
<1>. QED
  BY <1>5, <1>7, <1>8, <1>9, OneCaller

(* They take a further lock: a look-up inside a call, or Save.              *)
LEMMA NestedKeep ==
    ASSUME IdentityInv, NEW t \in Caller,
           AskTeams(t) \/ (\E g \in Group : AskGroup(t, g)) \/ Save(t)
    PROVE  IdentityInv'
<1>1. PICK at \in {"scan", "look", "read"} :
          /\ step' = [step EXCEPT ![t] = at] /\ RLock(t) /\ UNCHANGED <<inGroup, during>>
          /\ asked' \in [Caller -> SUBSET Group]
          /\ at = "scan" => Running(t, "team") /\ BeginScan(t)
          /\ at = "look" => Running(t, "scan") /\ UNCHANGED <<todo, found>>
          /\ at = "read" => step[t] = "save" /\ UNCHANGED <<todo, found>>
  <2>1. asked \in [Caller -> SUBSET Group]
    BY DEF IdentityInv, IdentityTypes
  <2>2. CASE AskTeams(t)
    BY <2>1, <2>2 DEF AskTeams
  <2>3. ASSUME NEW g \in Group, AskGroup(t, g)
        PROVE  /\ step' = [step EXCEPT ![t] = "look"] /\ RLock(t)
               /\ UNCHANGED <<inGroup, during, todo, found>>
               /\ asked' \in [Caller -> SUBSET Group] /\ Running(t, "scan")
    BY <2>1, <2>3 DEF AskGroup
  <2>4. CASE Save(t)
    BY <2>1, <2>4 DEF Save
  <2>. QED
    BY <2>2, <2>3, <2>4
<1>2. /\ IdentityTypes /\ t \notin waiting /\ step[t] # "idle"
      /\ at = "read" => count[t] = 0
      /\ at # "read" => count[t] > 0
  <2>1. IdentityTypes /\ LocksHeld(t) /\ count[t] \in Nat
    BY DEF IdentityInv, IdentityTypes
  <2>. QED
    BY <1>1, <2>1 DEF LocksHeld, Running
<1>3. /\ count' \in [Caller -> Nat] /\ \A u \in Caller \ {t} : count'[u] = count[u]
      /\ \/ count'[t] = count[t] + 1 /\ waiting' = waiting
         \/ count'[t] = count[t] /\ waiting' = waiting \cup {t}
  BY <1>1, <1>2, RLockGivesOne DEF IdentityTypes
<1>4. /\ todo' \in [Caller -> SUBSET Group] /\ found' \in [Caller -> SUBSET Group]
      /\ \A u \in Caller \ {t} : todo'[u] = todo[u] /\ found'[u] = found[u]
      /\ at = "scan" => todo'[t] = Group /\ found'[t] = {}
      /\ at # "scan" => todo'[t] = todo[t] /\ found'[t] = found[t]
  <2>1. CASE at = "scan"
    BY <1>1, <1>2, <2>1 DEF BeginScan, IdentityTypes
  <2>2. CASE at # "scan"
    BY <1>1, <1>2, <2>2 DEF IdentityTypes
  <2>. QED
    BY <2>1, <2>2
<1>5. IdentityTypes'
  BY <1>1, <1>2, <1>3, <1>4 DEF IdentityTypes
<1>6. step'[t] = at /\ during'[t] = during[t] /\ inGroup' = inGroup /\ count[t] \in Nat
  BY <1>1, <1>2 DEF IdentityTypes
<1>7. OthersKept(t)
  BY <1>1, <1>2, <1>3, <1>4 DEF IdentityTypes, OthersKept
<1>8. LocksHeld(t)'
  BY <1>2, <1>3, <1>6 DEF LocksHeld
<1>9. ScanIsCurrent(t)'
  <2>1. ScanIsCurrent(t)
    BY DEF IdentityInv
  <2>. QED
    BY <1>1, <1>2, <1>4, <1>6, <2>1 DEF ScanIsCurrent, Running
<1>. QED
  BY <1>5, <1>7, <1>8, <1>9, OneCaller

LEMMA LookKeeps ==
    ASSUME IdentityInv, NEW t \in Caller, LookAtGroup(t)
    PROVE  IdentityInv'
<1>1. /\ step[t] = "look" /\ t \notin waiting /\ step' = [step EXCEPT ![t] = "scan"]
      /\ todo' = [todo EXCEPT ![t] = @ \ asked[t]]
      /\ found' = [found EXCEPT ![t] = @ \cup (asked[t] \cap inGroup)]
      /\ asked' = [asked EXCEPT ![t] = {}]
      /\ Release(t, 1) /\ UNCHANGED <<inGroup, during>>
  BY DEF LookAtGroup, Running
<1>2. /\ IdentityTypes /\ count[t] \in Nat /\ count[t] > 1 /\ inGroup \in during[t]
      /\ found[t] = (Group \ todo[t]) \cap inGroup /\ asked[t] \subseteq Group
  BY <1>1 DEF IdentityInv, IdentityTypes, LocksHeld, ScanIsCurrent
<1>3. /\ count' \in [Caller -> Nat] /\ \A u \in Caller \ {t} : count'[u] = count[u]
      /\ count'[t] = count[t] - 1 /\ waiting' = waiting
  <2>1. count \in [Caller -> Nat] /\ 1 <= count[t]
    BY <1>2 DEF IdentityTypes
  <2>. QED
    BY <1>1, <2>1, ReleaseTakes
<1>4. IdentityTypes'
  BY <1>1, <1>2, <1>3 DEF IdentityTypes
<1>5. /\ step'[t] = "scan" /\ todo'[t] = todo[t] \ asked[t]
      /\ found'[t] = found[t] \cup (asked[t] \cap inGroup)
  BY <1>1, <1>2 DEF IdentityTypes
<1>6. OthersKept(t)
  BY <1>1, <1>2, <1>3 DEF IdentityTypes, OthersKept
<1>7. LocksHeld(t)'
  BY <1>1, <1>2, <1>3, <1>5 DEF LocksHeld
<1>8. found'[t] = (Group \ todo'[t]) \cap inGroup
  BY <1>2, <1>5
<1>9. ScanIsCurrent(t)'
  BY <1>1, <1>2, <1>3, <1>5, <1>8 DEF ScanIsCurrent
<1>. QED
  BY <1>4, <1>6, <1>7, <1>9, OneCaller

LEMMA ReturnsKeep ==
    ASSUME IdentityInv, NEW t \in Caller, FinishRead(t) \/ Answer(t)
    PROVE  IdentityInv'
<1>1. /\ step[t] \in {"read", "scan"} /\ t \notin waiting
      /\ step' = [step EXCEPT ![t] = "idle"]
      /\ during' = [during EXCEPT ![t] = {}]
      /\ Release(t, IF step[t] = "read" THEN 1 ELSE count[t])
      /\ UNCHANGED <<inGroup, asked, todo>>
      /\ found' \in {found, [found EXCEPT ![t] = {}]}
  BY DEF FinishRead, Answer, Running
<1>2. /\ IdentityTypes /\ count[t] \in Nat /\ (step[t] = "read" => count[t] = 1)
  BY <1>1 DEF IdentityInv, IdentityTypes, LocksHeld
<1>3. Release(t, count[t])
  BY <1>1, <1>2
<1>4. /\ count' \in [Caller -> Nat] /\ \A u \in Caller \ {t} : count'[u] = count[u]
      /\ count'[t] = 0 /\ waiting' = waiting
  <2>1. count \in [Caller -> Nat] /\ count[t] <= count[t] /\ count[t] - count[t] = 0
    BY <1>2 DEF IdentityTypes
  <2>. QED
    BY <1>2, <1>3, <2>1, ReleaseTakes
<1>5. IdentityTypes'
  BY <1>1, <1>2, <1>4 DEF IdentityTypes
<1>6. OthersKept(t)
  BY <1>1, <1>2, <1>4 DEF IdentityTypes, OthersKept
<1>7. LocksHeld(t)' /\ ScanIsCurrent(t)'
  BY <1>1, <1>2, <1>4 DEF IdentityTypes, LocksHeld, ScanIsCurrent
<1>. QED
  BY <1>5, <1>6, <1>7, OneCaller

LEMMA AnnounceKeeps ==
    ASSUME IdentityInv, NEW t \in Caller, Announce(t)
    PROVE  IdentityInv'
<1>1. /\ step[t] = "lock" /\ step' = [step EXCEPT ![t] = "write"]
      /\ UNCHANGED <<inGroup, count, waiting, asked, todo, found, during>>
  BY DEF Announce
<1>2. IdentityTypes' /\ OthersKept(t) /\ step'[t] = "write"
  BY <1>1 DEF IdentityInv, IdentityTypes, OthersKept
<1>3. LocksHeld(t)' /\ ScanIsCurrent(t)'
  BY <1>1, <1>2 DEF IdentityInv, LocksHeld, ScanIsCurrent
<1>. QED
  BY <1>2, <1>3, OneCaller

(* A writer gets in when nobody holds a lock: every scan under way has yet  *)
(* to begin.                                                                *)
LEMMA WriteKeeps ==
    ASSUME IdentityInv, NEW t \in Caller, NEW groups \in Update, WriteGroups(t, groups)
    PROVE  IdentityInv'
<1>1. PICK at \in {"idle", "save"} :
          /\ step[t] = "write" /\ step' = [step EXCEPT ![t] = at]
          /\ \A r \in Caller : count[r] = 0
          /\ inGroup' = groups /\ waiting' = {}
          /\ count' = [r \in Caller |-> IF r \in waiting THEN count[r] + 1 ELSE count[r]]
          /\ during' = [r \in Caller |->
                          IF step'[r] = "idle" THEN {} ELSE during[r] \cup {groups}]
          /\ UNCHANGED <<asked, todo, found>>
  BY DEF WriteGroups, Unlock
<1>2. groups \subseteq Group /\ IdentityTypes
  BY IdentityAssumption DEF IdentityInv
<1>3. IdentityTypes'
  <2>1. step' \in [Caller -> {"idle", "read", "team", "scan", "look", "lock", "write", "save"}]
    BY <1>1, <1>2 DEF IdentityTypes
  <2>2. count' \in [Caller -> Nat]
    BY <1>1, <1>2 DEF IdentityTypes
  <2>3. \A r \in Caller : during[r] \cup {groups} \subseteq SUBSET Group
    BY <1>2 DEF IdentityTypes
  <2>4. during' \in [Caller -> SUBSET SUBSET Group]
    BY <1>1, <2>3
  <2>. QED
    BY <1>1, <1>2, <2>1, <2>2, <2>4 DEF IdentityTypes
<1>4. \A r \in Caller : count'[r] = IF r \in waiting THEN 1 ELSE 0
  BY <1>1
<1>5. step'[t] = at /\ \A r \in Caller \ {t} : step'[r] = step[r]
  BY <1>1, <1>2 DEF IdentityTypes
<1>6. ASSUME NEW r \in Caller
      PROVE  LocksHeld(r)' /\ ScanIsCurrent(r)'
  <2>1. LocksHeld(r) /\ ScanIsCurrent(r) /\ count[r] = 0
    BY <1>1 DEF IdentityInv
  <2>2. step[r] # "look" /\ (step[r] = "scan" => r \in waiting)
    BY <2>1 DEF LocksHeld
  <2>3. LocksHeld(r)'
    BY <1>1, <1>4, <1>5, <2>1, <2>2 DEF LocksHeld
  <2>4. step'[r] = "scan" => todo'[r] = Group /\ found'[r] = {}
    BY <1>1, <1>5, <2>1, <2>2 DEF ScanIsCurrent
  <2>5. step'[r] # "look" /\ (step'[r] # "idle" => inGroup' \in during'[r])
    BY <1>1, <1>5, <2>2
  <2>. QED
    BY <2>3, <2>4, <2>5 DEF ScanIsCurrent
<1>. QED
  BY <1>3, <1>6 DEF IdentityInv

LEMMA InitIdentityInv == IdentityInit => IdentityInv
  BY DEF IdentityInit, IdentityInv, IdentityTypes, LocksHeld, ScanIsCurrent

LEMMA NextIdentityInv ==
    ASSUME IdentityInv, [IdentityNext]_identityVars
    PROVE  IdentityInv'
<1>1. CASE UNCHANGED identityVars
  BY <1>1 DEF identityVars, callVars, lockVars, IdentityInv, IdentityTypes, LocksHeld,
              ScanIsCurrent
<1>2. CASE IdentityNext
  <2>1. PICK t \in Caller : Begin(t) \/ Announce(t) \/ Continue(t)
    BY <1>2 DEF IdentityNext
  <2>. QED
    BY <2>1, CallsKeep, NestedKeep, LookKeeps, ReturnsKeep, AnnounceKeeps, WriteKeeps
       DEF Begin, Continue
<1>. QED
  BY <1>1, <1>2

(* GetUserTeams answers with the teams of one moment of the call, for any   *)
(* number of callers, writers and groups: its own read lock keeps writers   *)
(* out from the first look-up to the last.                                  *)
THEOREM IdentityTeamsOfOneMoment == IdentitySpec => []TeamsOfOneMoment
<1>1. IdentityInv => TeamsOfOneMoment
  <2> SUFFICES ASSUME IdentityInv, NEW t \in Caller, Running(t, "scan"), todo[t] = {}
               PROVE  found[t] \in during[t]
    BY DEF TeamsOfOneMoment
  <2>1. found[t] = (Group \ todo[t]) \cap inGroup /\ inGroup \in during[t]
    BY DEF IdentityInv, ScanIsCurrent, Running
  <2>2. inGroup \subseteq Group
    BY DEF IdentityInv, IdentityTypes
  <2>. QED
    BY <2>1, <2>2
<1>. QED
  BY <1>1, InitIdentityInv, NextIdentityInv, PTL DEF IdentitySpec

(* The writers' mutex is held by the writer that has announced itself, and  *)
(* nobody waits for a lock but for its sake.                                *)
WriterInv ==
    /\ \A t \in Caller : step[t] = "write" <=> writer = t
    /\ writer # NoOne => writer \in Caller
    /\ writer = NoOne => waiting = {}

LEMMA NextWriterInv ==
    ASSUME IdentityInv, WriterInv, [IdentityNext]_identityVars
    PROVE  WriterInv'
<1> USE DEF WriterInv
<1>1. IdentityTypes
  BY DEF IdentityInv
<1>2. CASE UNCHANGED identityVars
  BY <1>2 DEF identityVars, callVars, lockVars
<1>3. ASSUME NEW t \in Caller, NEW at, at # "write", step[t] # "write",
             step' = [step EXCEPT ![t] = at], writer' = writer,
             waiting' = waiting \/ writer # NoOne
      PROVE  WriterInv'
  BY <1>1, <1>3 DEF IdentityTypes
<1>4. ASSUME NEW t \in Caller, Begin(t)
      PROVE  WriterInv'
  <2>1. PICK at \in {"read", "team", "scan", "lock"} :
            step[t] = "idle" /\ step' = [step EXCEPT ![t] = at] /\ (UNCHANGED lockVars \/ RLock(t))
    BY <1>4 DEF Begin, ReadOnce, IsUserInTeam, GetUserTeams, CallWrite, Call
  <2>. QED
    BY <1>3, <2>1 DEF RLock, lockVars
<1>5. ASSUME NEW t \in Caller, Announce(t)
      PROVE  WriterInv'
  BY <1>1, <1>5, IdentityAssumption DEF Announce, IdentityTypes
<1>6. ASSUME NEW t \in Caller, AskTeams(t) \/ (\E g \in Group : AskGroup(t, g)) \/ Save(t)
      PROVE  WriterInv'
  <2>1. PICK at \in {"scan", "look", "read"} :
            step[t] # "write" /\ step' = [step EXCEPT ![t] = at] /\ RLock(t)
    BY <1>6 DEF AskTeams, AskGroup, Save, Running
  <2>. QED
    BY <1>3, <2>1 DEF RLock
<1>7. ASSUME NEW t \in Caller, FinishRead(t) \/ LookAtGroup(t) \/ Answer(t)
      PROVE  WriterInv'
  <2>1. PICK at \in {"idle", "scan"} :
            /\ step[t] # "write" /\ step' = [step EXCEPT ![t] = at]
            /\ writer' = writer /\ waiting' = waiting
    BY <1>7 DEF FinishRead, LookAtGroup, Answer, Running, Release
  <2>. QED
    BY <1>3, <2>1
<1>8. ASSUME NEW t \in Caller, NEW groups \in Update, WriteGroups(t, groups)
      PROVE  WriterInv'
  <2>1. PICK at \in {"idle", "save"} :
            step[t] = "write" /\ step' = [step EXCEPT ![t] = at] /\ writer' = NoOne /\ waiting' = {}
    BY <1>8 DEF WriteGroups, Unlock
  <2>. QED
    BY <1>1, <2>1, IdentityAssumption DEF IdentityTypes
<1>. QED
  BY <1>2, <1>4, <1>5, <1>6, <1>7, <1>8 DEF IdentityNext, Continue

(* Whoever waits, waits for the announced writer, and that one for readers  *)
(* inside; so without the embrace one of them can go on, for any number of  *)
(* callers and groups.  What is left of the liveness is fairness.           *)
THEOREM IdentityStopsOnlyByEmbrace == IdentitySpec => []StopsOnlyByEmbrace
<1>1. IdentityInit => WriterInv
  BY IdentityAssumption DEF IdentityInit, WriterInv
<1>2. IdentityInv /\ WriterInv => StopsOnlyByEmbrace
  <2> SUFFICES ASSUME IdentityInv, WriterInv, NEW t \in Caller, step[t] # "idle", ~ Embrace,
                      \A r \in Caller : ~ CanGoOn(r)
               PROVE  FALSE
    BY DEF StopsOnlyByEmbrace
  <2>1. step[t] \in {"read", "team", "scan", "look", "lock", "write", "save"}
    BY DEF IdentityInv, IdentityTypes
  <2>2. writer # NoOne
    BY <2>1, IdentityAssumption DEF CanGoOn, WriterInv
  <2>3. writer \in Caller /\ step[writer] = "write"
    BY <2>2 DEF WriterInv
  <2>4. PICK r \in Caller : count[r] # 0
    BY <2>3 DEF CanGoOn
  <2>5. count[r] \in Nat /\ LocksHeld(r) /\ step[r] \in
            {"idle", "read", "team", "scan", "look", "lock", "write", "save"}
    BY DEF IdentityInv, IdentityTypes
  <2>6. step[r] \in {"read", "team", "scan", "look"}
    BY <2>4, <2>5 DEF LocksHeld
  <2>7. r \in waiting /\ count[r] > 0
    BY <2>4, <2>5, <2>6 DEF CanGoOn
  <2>. QED
    BY <2>7 DEF Embrace
<1>. QED
  BY <1>1, <1>2, InitIdentityInv, NextIdentityInv, NextWriterInv, PTL DEF IdentitySpec
=============================================================================
