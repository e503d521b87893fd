--------------------------- MODULE MCEpisodeStore ---------------------------
(***************************************************************************)
(* Instances of EpisodeStore for TLC.                                      *)
(***************************************************************************)
EXTENDS EpisodeStore

CONSTANTS c1, c2

Item(g, a, t) == [guid |-> g, enclosure |-> a, content |-> t]

(* Two episodes with guids; the first with its audio hosted elsewhere; a   *)
(* second use of its guid; one with neither guid nor audio.                *)
X == Item("g1", "a1", "one")
Y == Item("g2", "a2", "two")
XRehosted == Item("g1", "b1", "one")
XAgain == Item("g1", "a3", "three")
Bare == Item("", "", "bare")

(* A feed as it grows, is truncated, goes empty, repeats a guid, repeats   *)
(* an item, and puts an item with nothing to know it by in front.          *)
MCPublished == {<<>>, <<X>>, <<Y, XRehosted>>, <<Bare, Y>>, <<XAgain, Y, X>>, <<X, Y, X>>}
MCTruncations == {<<>>, <<X>>, <<Y, X>>}

CrawlerSymmetry == Permutations(Crawlers)
=============================================================================
