------------------------------ MODULE JSONStore ------------------------------
(***************************************************************************)
(* jsonstore/store.go: a permission store in memory that is written to a   *)
(* file after each change.  The lock covers the change and, separately,    *)
(* the snapshot that Save takes; the rest of Save, a temporary file and    *)
(* its renaming, is done by every caller for itself and under one name.    *)
(* The process may crash at any point and load the file again.             *)
(*                                                                         *)
(* What the store holds is a set of facts: grants, assignments, edges of   *)
(* the role hierarchy, members of teams.                                   *)
(***************************************************************************)
CONSTANTS Fact,            \* [kind, owner]
          Thread,
          None,            \* no such file
          Empty, Garbled   \* contents of a file besides a snapshot

Kind == {"grant", "assignment", "edge", "membership"}

ASSUME FactAssumption == \A f \in Fact : f.kind \in Kind
ASSUME ContentAssumption ==
    /\ \A d \in SUBSET Fact : None # d /\ Empty # d /\ Garbled # d
    /\ None # Empty /\ None # Garbled /\ Empty # Garbled

\* What cloneData copies: Data's TeamMembership is left out.
Saved == {f \in Fact : f.kind # "membership"}

VARIABLES
    up,                  \* the process runs
    data,                \* in memory
    storeFile, tmpFile,  \* path and path.tmp
    pc, snap,            \* per thread: the call, and the copy it is to write
    fd                   \* per thread: which file its descriptor is, as renamed since

\* History: per thread what its call is to change, unless another call did since,
\* and whether no other Save overlaps its own; what the file must hold.
VARIABLES touched, alone, owed, \* owed: by calls that saved
          held                  \* edges whose caller was told that they are kept

vars == <<up, data, storeFile, tmpFile, pc, snap, fd, touched, alone, owed, held>>

Content == (SUBSET Saved) \cup {None, Empty, Garbled}
Mark == {"in", "out", "none"}

JSONStoreTypeOK ==
    /\ up \in BOOLEAN
    /\ data \subseteq Fact
    /\ storeFile \in Content /\ tmpFile \in Content
    /\ pc \in [Thread -> {"idle", "save", "open", "write", "rename"}]
    /\ snap \in [Thread -> SUBSET Saved]
    /\ fd \in [Thread -> {"none", "tmp", "store", "gone"}]
    /\ touched \in [Thread -> [Saved -> Mark]]
    /\ alone \in [Thread -> BOOLEAN]
    /\ owed \in [Saved -> Mark]
    /\ held \subseteq Saved

Nothing == [f \in Saved |-> "none"]

\* NewStore on a path where there is no file
Init ==
    /\ up = TRUE
    /\ data = {}
    /\ storeFile = None /\ tmpFile = None
    /\ pc = [t \in Thread |-> "idle"]
    /\ snap = [t \in Thread |-> {}]
    /\ fd = [t \in Thread |-> "none"]
    /\ touched = [t \in Thread |-> Nothing]
    /\ alone = [t \in Thread |-> FALSE]
    /\ owed = Nothing
    /\ held = {}

-----------------------------------------------------------------------------
(* The calls that change the store: under the lock, then Save               *)

Goto(t, from, to) == pc[t] = from /\ pc' = [pc EXCEPT ![t] = to]

\* The memory becomes d; the call is about facts.
Change(t, d, facts) ==
    /\ up
    /\ Goto(t, "idle", "save")
    /\ data' = d
    /\ touched' = [s \in Thread |-> [f \in Saved |->
                     IF f \notin facts THEN touched[s][f]
                     ELSE IF s # t THEN "none"
                     ELSE IF f \in d THEN "in" ELSE "out"]]
    /\ owed' = [f \in Saved |-> IF f \in facts THEN "none" ELSE owed[f]]
    /\ held' = held \ facts
    /\ UNCHANGED <<up, storeFile, tmpFile, snap, fd, alone>>

SetData(t, d) == Change(t, d, Fact)

CreateGrant(t, f) == f.kind = "grant" /\ Change(t, data \cup {f}, {f})

DeleteGrantsForOwner(t, owner) ==
    LET grants == {f \in Fact : f.kind = "grant" /\ f.owner = owner}
    IN  Change(t, data \ grants, grants)

AssignRole(t, f) == f.kind = "assignment" /\ Change(t, data \cup {f}, {f})

\* No error if there is nothing to remove; the store is saved all the same.
UnassignRole(t, f) == f.kind = "assignment" /\ Change(t, data \ {f}, {f})

AddRoleInheritance(t, f) ==
    /\ f.kind = "edge" /\ f \notin data
    /\ Change(t, data \cup {f}, {f})

\* The edge is in memory: the call returns without a Save.
AddRoleInheritanceAgain(t, f) ==
    /\ up /\ pc[t] = "idle"
    /\ f.kind = "edge" /\ f \in data
    /\ held' = held \cup {f}
    /\ UNCHANGED <<up, data, storeFile, tmpFile, pc, snap, fd, touched, alone, owed>>

-----------------------------------------------------------------------------
(* Save *)

Saving(t) == pc[t] \in {"open", "write", "rename"}

\* Mutant of Snapshot: all of Data is copied.
SnapshotAll(t) ==
    LET others == {s \in Thread \ {t} : Saving(s)}
    IN  /\ Goto(t, "save", "open")
        /\ snap' = [snap EXCEPT ![t] = data]
        /\ alone' = [s \in Thread |-> IF s = t THEN others = {} ELSE alone[s] /\ others = {}]
        /\ owed' = IF others = {} THEN owed ELSE Nothing
        /\ held' = IF others = {} THEN held ELSE {}
        /\ UNCHANGED <<up, data, storeFile, tmpFile, fd, touched>>

\* From here on the store may change, and others may save. What two Saves leave
\* behind if they overlap is nothing to rely on.
Snapshot(t) ==
    LET others == {s \in Thread \ {t} : Saving(s)}
    IN  /\ Goto(t, "save", "open")
        /\ snap' = [snap EXCEPT ![t] = data \cap Saved]
        /\ alone' = [s \in Thread |-> IF s = t THEN others = {} ELSE alone[s] /\ others = {}]
        /\ owed' = IF others = {} THEN owed ELSE Nothing
        /\ held' = IF others = {} THEN held ELSE {}
        /\ UNCHANGED <<up, data, storeFile, tmpFile, fd, touched>>

\* Mutant of Open: what a failed Save left in the temporary file stays there.
OpenWithoutTruncation(t) ==
    /\ Goto(t, "open", "write")
    /\ tmpFile' = IF tmpFile = None THEN Empty ELSE tmpFile
    /\ fd' = [fd EXCEPT ![t] = "tmp"]
    /\ UNCHANGED <<up, data, storeFile, snap, touched, alone, owed, held>>

\* WriteFile creates the temporary file or truncates the one there is.
Open(t) ==
    /\ Goto(t, "open", "write")
    /\ tmpFile' = Empty
    /\ fd' = [fd EXCEPT ![t] = "tmp"]
    /\ UNCHANGED <<up, data, storeFile, snap, touched, alone, owed, held>>

\* What a file may hold once new was written over old from its beginning: the
\* rest of a longer text stays behind it.
Overwritten(old, new) ==
    IF old = Empty \/ old = new THEN {new}
    ELSE IF old = Garbled THEN {new, Garbled}
    ELSE IF old \subseteq new THEN {new}
    ELSE IF new \subseteq old THEN {Garbled}
    ELSE {new, Garbled}

\* The file that t's descriptor leads to.
File(t) == IF fd[t] = "tmp" THEN tmpFile ELSE storeFile

\* It becomes content; one that was replaced is gone with what is written to it.
Put(t, content) ==
    /\ tmpFile' = IF fd[t] = "tmp" THEN content ELSE tmpFile
    /\ storeFile' = IF fd[t] = "store" THEN content ELSE storeFile
    /\ fd' = [fd EXCEPT ![t] = "none"]

Write(t) ==
    /\ Goto(t, "write", "rename")
    /\ \E content \in Overwritten(File(t), snap[t]) : Put(t, content)
    /\ UNCHANGED <<up, data, snap, touched, alone, owed, held>>

\* The call returns, and its locals are gone.
Return(t) ==
    /\ pc' = [pc EXCEPT ![t] = "idle"]
    /\ snap' = [snap EXCEPT ![t] = {}]
    /\ touched' = [touched EXCEPT ![t] = Nothing]
    /\ alone' = [alone EXCEPT ![t] = FALSE]

\* The file a descriptor leads to keeps its identity under the new name, and
\* loses it when it is replaced.
Rename(t) ==
    /\ pc[t] = "rename" /\ tmpFile # None
    /\ storeFile' = tmpFile
    /\ tmpFile' = None
    /\ fd' = [s \in Thread |-> IF fd[s] = "tmp" THEN "store"
                               ELSE IF fd[s] = "store" THEN "gone" ELSE fd[s]]
    /\ owed' = [f \in Saved |-> IF alone[t] /\ touched[t][f] # "none" THEN touched[t][f]
                                ELSE owed[f]]
    /\ Return(t)
    /\ UNCHANGED <<up, data, held>>

\* The directory, the temporary file or the renaming fails, the last also if
\* another thread has renamed the file already; the memory stays changed.
SaveFails(t) ==
    /\ pc[t] \in {"open", "rename"}
    /\ Return(t)
    /\ UNCHANGED <<up, data, storeFile, tmpFile, fd, owed, held>>

\* No more than a part of it is written.
WriteFails(t) ==
    /\ pc[t] = "write"
    /\ \E content \in {File(t), Garbled} : Put(t, content)
    /\ Return(t)
    /\ UNCHANGED <<up, data, owed, held>>

-----------------------------------------------------------------------------
(* Crash and Load *)

Crash ==
    /\ up
    /\ up' = FALSE
    /\ data' = {}
    /\ pc' = [t \in Thread |-> "idle"]
    /\ snap' = [t \in Thread |-> {}]
    /\ fd' = [t \in Thread |-> "none"]
    /\ touched' = [t \in Thread |-> Nothing]
    /\ alone' = [t \in Thread |-> FALSE]
    /\ UNCHANGED <<storeFile, tmpFile, owed, held>>

\* A missing or empty file is an empty store; what cannot be decoded is an error.
Load ==
    /\ ~ up /\ storeFile # Garbled
    /\ up' = TRUE
    /\ data' = IF storeFile \in {None, Empty} THEN {} ELSE storeFile
    /\ UNCHANGED <<storeFile, tmpFile, pc, snap, fd, touched, alone, owed, held>>

Next ==
    \/ \E t \in Thread :
         \/ \E d \in SUBSET Fact : SetData(t, d)
         \/ \E f \in Fact :
              \/ CreateGrant(t, f) \/ DeleteGrantsForOwner(t, f.owner)
              \/ AssignRole(t, f) \/ UnassignRole(t, f)
              \/ AddRoleInheritance(t, f) \/ AddRoleInheritanceAgain(t, f)
         \/ Snapshot(t) \/ Open(t) \/ Write(t) \/ Rename(t) \/ SaveFails(t) \/ WriteFails(t)
    \/ Crash
    \/ Load

Spec == Init /\ [][Next]_vars

-----------------------------------------------------------------------------
\* What Load would find; none if it could not decode it.
Loadable == IF storeFile \in {None, Empty} THEN {} ELSE storeFile

(* A call that saved without error is not lost, whatever crashes, fails or  *)
(* is called afterwards, as long as no two calls of Save overlap: Load finds*)
(* what was put there and does not find what was removed.                   *)
SavedSurvives ==
    \A f \in Saved : owed[f] # "none" =>
        /\ storeFile # Garbled
        /\ (owed[f] = "in") <=> (f \in Loadable)

(* AddRoleInheritance "persists a parent->child direct edge and saves the   *)
(* store".  It does not if the edge is in memory already, even if the call  *)
(* that put it there could not save it, so no run checks this.              *)
AddedEdgesSurvive ==
    storeFile # Garbled => held \subseteq Loadable
=============================================================================
