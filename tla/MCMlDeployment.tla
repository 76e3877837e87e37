--------------------------- MODULE MCMlDeployment ---------------------------
(***************************************************************************)
(* Small instances of MlDeployment.                                        *)
(***************************************************************************)
EXTENDS MlDeployment

CONSTANTS m1, m2

TwoModels == {m1, m2}
=============================================================================
