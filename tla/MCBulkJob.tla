----------------------------- MODULE MCBulkJob -----------------------------
(***************************************************************************)
(* BulkJob for TLC.                                                        *)
(***************************************************************************)
EXTENDS BulkJob, TLC

Symmetry == Permutations(ScanIds)

=============================================================================
