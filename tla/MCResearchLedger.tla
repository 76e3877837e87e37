-------------------------- MODULE MCResearchLedger --------------------------
(* Three candidates of two categories, one of them of both.                *)
EXTENDS ResearchLedger, TLC

CONSTANTS c1, c2, c3, quality, trend

CategoriesOf == (c1 :> {quality}) @@ (c2 :> {trend}) @@ (c3 :> {quality, trend})
=============================================================================
