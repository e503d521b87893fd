----------------------------- MODULE MCColdCrawl -----------------------------
(***************************************************************************)
(* Instances of ColdCrawl for TLC.                                         *)
(***************************************************************************)
EXTENDS ColdCrawl, TLC

CONSTANTS f1, f2, u1, u2, w1, r1, r2

(* Documents d1 announce a move to u2, the others announce nothing. *)
MCAnnounces == [d \in Docs |-> IF d = "d1" THEN u2 ELSE None]

(* One API process, or one per request. *)
MCOneApi == [r \in Requests |-> "api"]
MCManyApis == [r \in Requests |-> r]

RequestSymmetry == Permutations(Requests)
=============================================================================
