--------------------------- MODULE MCRouterUpdate ---------------------------
(***************************************************************************)
(* Instances of RouterUpdate for TLC: snapshot e1 is revision 1, and every *)
(* other snapshot is revision 2, so that two of those are one revision     *)
(* under two ETags (the client was renamed in between).                    *)
(***************************************************************************)
EXTENDS RouterUpdate

CONSTANT e1

MCRev == [e \in Etags |-> IF e = e1 THEN 1 ELSE 2]
=============================================================================
