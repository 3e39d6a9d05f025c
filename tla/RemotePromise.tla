---------------------------- MODULE RemotePromise ----------------------------
(***************************************************************************)
(* What the transactional apply promises of the VPN server: it serves one  *)
(* configuration as a whole.  An apply that ends well serves its own; one  *)
(* that fails leaves what was served before.  Only a script that is killed *)
(* or a rollback that fails itself may leave parts of two.  An AmneziaWG   *)
(* interface that could not be taken down is not counted (RemoteApply).    *)
(***************************************************************************)
EXTENDS Naturals

CONSTANT Torn \* a server that serves parts of two configurations

VARIABLES
  asked,   \* the number of the last apply; 0 is a server that serves nothing
  serving, \* the apply whose configuration is served, or Torn
  last     \* how the last apply ended

vars == <<asked, serving, last>>

Init == asked = 0 /\ serving = 0 /\ last = "none"

Ask == asked' = asked + 1 /\ UNCHANGED <<serving, last>>

Succeed == last' = "ok" /\ serving' = asked /\ UNCHANGED asked

\* On a torn server the rollback restarts what it finds, which may mend it.
Fail ==
  /\ last' = "failed"
  /\ serving = Torn \/ UNCHANGED serving
  /\ UNCHANGED asked

Break ==
  /\ last' \in {"unrestored", "killed"}
  /\ serving = Torn \/ serving' \in {0, serving, asked, Torn}
  /\ UNCHANGED asked

Next == Ask \/ Succeed \/ Fail \/ Break

Spec == Init /\ [][Next]_vars
=============================================================================
