------------------------------- MODULE MCShell -------------------------------
(***************************************************************************)
(* Instances of Shell for TLC.                                             *)
(***************************************************************************)
EXTENDS Shell
CONSTANTS c1, c2, c3

ThreeClients == {c1, c2, c3}
ThirdBad == {c3}
=============================================================================
