--------------------------- MODULE StorageHistory ---------------------------
(***************************************************************************)
(* What a storage version migration promises: the history of a custom      *)
(* resource definition (CRD), its status.storedVersions, is pruned in one  *)
(* step, and only while every object is stored at the storage version.     *)
(* There are no attempts, requests, reads or conflicts here.  Module       *)
(* StorageMigration implements this specification.                         *)
(***************************************************************************)
CONSTANTS Objects, Versions

VARIABLES
    exists,     \* the CRD exists
    storage,    \* its storage version
    history,    \* its status.storedVersions
    at          \* the version each object is stored at, or "none"

vars == <<exists, storage, history, at>>

Nothing == [o \in Objects |-> "none"]

Init ==
    /\ exists = TRUE
    /\ storage \in Versions
    /\ history = {storage}
    /\ at = Nothing

\* An object is created or written.
Store(o) ==
    /\ exists
    /\ at' = [at EXCEPT ![o] = storage]
    /\ UNCHANGED <<exists, storage, history>>

Remove(o) ==
    /\ at' = [at EXCEPT ![o] = "none"]
    /\ UNCHANGED <<exists, storage, history>>

\* The storage version changes, forwards or backwards.
Switch(v) ==
    /\ exists
    /\ storage' = v
    /\ history' = history \cup {v}
    /\ UNCHANGED <<exists, at>>

\* The promise: nothing else ever takes a version out of the history.
Prune ==
    /\ exists
    /\ \A o \in Objects : at[o] \in {storage, "none"}
    /\ history' = {storage}
    /\ UNCHANGED <<exists, storage, at>>

\* The CRD is deleted with its objects, and may come back.
Drop ==
    /\ exists' = FALSE
    /\ at' = Nothing
    /\ UNCHANGED <<storage, history>>

Recreate(v) ==
    /\ ~exists
    /\ exists' = TRUE
    /\ storage' = v
    /\ history' = {v}
    /\ UNCHANGED at

Next ==
    \/ \E o \in Objects : Store(o) \/ Remove(o)
    \/ \E v \in Versions : Switch(v) \/ Recreate(v)
    \/ Prune
    \/ Drop

Spec == Init /\ [][Next]_vars
=============================================================================
