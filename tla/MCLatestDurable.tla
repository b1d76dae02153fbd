-------------------------- MODULE MCLatestDurable --------------------------
(***************************************************************************)
(* Small instances of LatestDurable for TLC.                               *)
(***************************************************************************)
EXTENDS LatestDurable
=============================================================================
