----------------------------- MODULE MCCatalogue -----------------------------
(***************************************************************************)
(* Instances of Catalogue for TLC.                                         *)
(***************************************************************************)
EXTENDS Catalogue

CONSTANTS f1, f2, u1, u2, p0, p1, p2, r1, r2, c1

Found(p, u) == [id |-> p, url |-> u, podcast |-> TRUE]

(* Two podcasts in either order, two that share a feed, one alone with and *)
(* without a feed URL, and an artist.                                      *)
MCAnswers == {<<Found(p1, u1), Found(p2, u2)>>,
              <<Found(p2, u2), Found(p1, u1)>>,
              <<Found(p1, u2), Found(p2, u2)>>,
              <<Found(p1, None)>>, <<Found(p1, u1)>>,
              <<[Found(NoId, None) EXCEPT !.podcast = FALSE]>>}
=============================================================================
