---------------------------- MODULE MCBulkOutput ----------------------------
(***************************************************************************)
(* BulkOutput for TLC.                                                     *)
(***************************************************************************)
EXTENDS BulkOutput, TLC

Symmetry == Permutations(Ids)

=============================================================================
