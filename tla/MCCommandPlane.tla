-------------------------- MODULE MCCommandPlane ---------------------------
(***************************************************************************)
(* Small instances of CommandPlane and the recorded scenarios for TLC.     *)
(***************************************************************************)
EXTENDS CommandFixtures
=============================================================================
