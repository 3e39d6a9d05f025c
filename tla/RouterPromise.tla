---------------------------- MODULE RouterPromise ----------------------------
(***************************************************************************)
(* What a router promises to the people behind it, without saying how.     *)
(* Clients are served by one configuration or by none.  The committed      *)
(* configuration is replaced only by a trial that serves them already; a   *)
(* trial that is given up serves nobody any more; and traffic is never     *)
(* moved from one configuration to another without being stopped first.    *)
(***************************************************************************)
EXTENDS Naturals

CONSTANTS Entry, Rev, None

VARIABLES committed, trial, serving

vars == <<committed, trial, serving>>

Init == committed = None /\ trial = None /\ serving = None

\* A later attempt at a revision that is not older.
Offer ==
  /\ trial' \in Entry
  /\ serving = None \/ serving = committed
  /\ committed # None => /\ trial'.attempt > committed.attempt
                         /\ Rev[trial'.etag] >= Rev[committed.etag]
  /\ UNCHANGED <<committed, serving>>

Serve ==
  /\ serving = None
  /\ serving' \in {committed, trial} \ {None}
  /\ UNCHANGED <<committed, trial>>

Close ==
  /\ serving' = None
  /\ UNCHANGED <<committed, trial>>

Commit ==
  /\ trial # None
  /\ serving = trial
  /\ committed' = trial /\ trial' = None
  /\ UNCHANGED serving

Abandon ==
  /\ serving = None \/ serving = committed
  /\ trial' = None
  /\ UNCHANGED <<committed, serving>>

Next == Offer \/ Serve \/ Close \/ Commit \/ Abandon

Spec == Init /\ [][Next]_vars
=============================================================================
