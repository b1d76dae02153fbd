------------------------- MODULE MCBoundaryIngress -------------------------
(***************************************************************************)
(* Small instances of BoundaryIngress for TLC.                             *)
(***************************************************************************)
EXTENDS BoundaryIngress, TLC

MemberReceiptSymmetry == Permutations(Members) \cup Permutations(Receipts)
=============================================================================
