------------------------------- MODULE MCFetch -------------------------------
(***************************************************************************)
(* Instances of Fetch for TLC.                                             *)
(***************************************************************************)
EXTENDS Fetch

CONSTANTS h1, h2, p1, g1, g2
=============================================================================
