------------------------------ MODULE MCApplets ------------------------------
(***************************************************************************)
(* Instances of Applets for TLC.                                           *)
(***************************************************************************)
EXTENDS Applets
CONSTANTS c1, c2, l1

TwoClients == {c1, c2}
SecondBad == {c2}
OneLoad == {l1}
=============================================================================
