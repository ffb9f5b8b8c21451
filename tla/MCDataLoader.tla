--------------------------- MODULE MCDataLoader ---------------------------
(* Small instances of DataLoader: three Loads of one request compete for   *)
(* batches whose BulkGet takes one or more chunks.                         *)
EXTENDS DataLoader, TLC

LoadSymmetry == Permutations(Loads)
=============================================================================
