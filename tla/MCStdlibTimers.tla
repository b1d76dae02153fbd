-------------------------- MODULE MCStdlibTimers ---------------------------
(***************************************************************************)
(* Small instances of StdlibTimers for TLC.                                *)
(***************************************************************************)
EXTENDS StdlibTimers
=============================================================================
