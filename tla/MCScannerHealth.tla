--------------------------- MODULE MCScannerHealth --------------------------
(***************************************************************************)
(* A small instance of ScannerHealth: one checkpoint, one tick after the   *)
(* clock starts.                                                           *)
(***************************************************************************)
EXTENDS ScannerHealth

OneCheckpoint == {1}
=============================================================================
