-------------------------- MODULE MCStorageRange --------------------------
(* Model-checking instance of StorageRange: four slots, two values.        *)
EXTENDS StorageRange
=============================================================================
