----------------------------- MODULE MCRouterSite -----------------------------
(***************************************************************************)
(* Instances of RouterSite for TLC.                                        *)
(***************************************************************************)
EXTENDS RouterSite, TLC

CONSTANTS w1, w2

TwoWorkers == {w1, w2}
Exchange   == Permutations(TwoWorkers)
BothScopes == {{"read", "report"}}
=============================================================================
