----------------------------- MODULE MCBulkLock -----------------------------
(***************************************************************************)
(* BulkLock for TLC.                                                       *)
(***************************************************************************)
EXTENDS BulkLock, TLC

Symmetry == Permutations(Procs) \cup Permutations(LockIds) \cup Permutations(FileIds)

=============================================================================
