------------------------- MODULE MCStorageMigration -------------------------
(***************************************************************************)
(* Instances of StorageMigration: two operator processes, one or two       *)
(* objects, two versions and one or two groups of the migration API.       *)
(***************************************************************************)
EXTENDS StorageMigration, TLC

CONSTANTS p1, p2, cr1, cr2

Processes == {p1, p2}
TwoVersions == {"v1", "v2"}
OneAPI == <<"storagemigration">>
TwoAPIs == <<"storagemigration", "migration">>
Symmetry == Permutations({p1, p2}) \cup Permutations({cr1, cr2})
=============================================================================
