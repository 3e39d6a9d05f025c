--------------------------- MODULE MCVpsOperations ---------------------------
(***************************************************************************)
(* Instances of VpsOperations for TLC.  Clients are interchangeable except *)
(* for which of them the panel has at first.                               *)
(***************************************************************************)
EXTENDS VpsOperations, TLC

CONSTANTS c1, c2

AllClients   == {c1, c2}
OneClient    == {c1}
FirstClients == {c1}
=============================================================================
