------------------------ MODULE MCRevisionBarrier --------------------------
(***************************************************************************)
(* Small instances of RevisionBarrier for TLC.                             *)
(***************************************************************************)
EXTENDS RevisionBarrier
=============================================================================
