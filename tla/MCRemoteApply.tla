---------------------------- MODULE MCRemoteApply ----------------------------
(***************************************************************************)
(* Instances of RemoteApply for TLC.                                       *)
(***************************************************************************)
EXTENDS RemoteApply, TLC

CONSTANTS n1, n2

TwoNames  == {n1, n2}
FewPlans  == {[on |-> s, sni |-> n] : s \in {{"xray", "hysteria"},
                                             {"hysteria", "awg"}, {"xray"}},
                                      n \in TwoNames}
Exchange  == Permutations(TwoNames)
=============================================================================
