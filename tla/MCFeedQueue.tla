----------------------------- MODULE MCFeedQueue -----------------------------
(***************************************************************************)
(* Instances of FeedQueue for TLC: crawler processes only, Crawlers =      *)
(* Workers.                                                                *)
(***************************************************************************)
EXTENDS FeedQueue, TLC

CONSTANTS f1, f2, u1, u2, w1, w2

(* d1 announces a move to u2, d2 announces nothing. *)
MCAnnounces == [d \in Docs |-> IF d = "d1" THEN u2 ELSE None]

WorkerFeedSymmetry == Permutations(Workers) \cup Permutations(Feeds)
=============================================================================
