-------------------------- MODULE MCWicklessEngine --------------------------
(***************************************************************************)
(* Small instances of WicklessEngine.                                      *)
(***************************************************************************)
EXTENDS WicklessEngine
=============================================================================
