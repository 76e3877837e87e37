--------------------------- MODULE MCActionsScan ---------------------------
(***************************************************************************)
(* A small instance of ActionsScan.                                        *)
(***************************************************************************)
EXTENDS ActionsScan

ThreeRuns == {"run1", "run2", "run3"}
Scheduled == [r \in ThreeRuns |-> "schedule"]
TwoSignals == {"s1", "s2"}
=============================================================================
