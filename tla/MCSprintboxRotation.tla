------------------------- MODULE MCSprintboxRotation -------------------------
(***************************************************************************)
(* Instances of SprintboxRotation for TLC.                                 *)
(***************************************************************************)
EXTENDS SprintboxRotation, TLC

CONSTANTS a1, a2, c1

OneAccount  == {a1}
TwoAccounts == {a1, a2}
OneClient   == {c1}
Exchange    == Permutations(TwoAccounts)
=============================================================================
