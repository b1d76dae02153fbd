--------------------------- MODULE MCCoreEvidence --------------------------
(* CoreEvidence with two bindings: the first has a fixtureless claim. *)
EXTENDS CoreEvidence

CONSTANTS f1, f2, g
MCFiles == <<{f1, f2}, {g}>>
MCClaims == <<1, 0>>
=============================================================================
