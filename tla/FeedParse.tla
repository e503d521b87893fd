------------------------------ MODULE FeedParse ------------------------------
(***************************************************************************)
(* From a feed document to the identities of its episodes (crawl/parse.go: *)
(* ParseFeed, duplicatedGuids, episodeIdentity).                           *)
(*                                                                         *)
(* An item is [guid, enclosure, content]: its <guid>, the URL of its audio *)
(* and its title with its publication date, "" for text that is missing or *)
(* blank; texts that differ in surrounding space only are one text here.   *)
(* An identity is <<guid_source, position, text>>: the hash is taken for   *)
(* injective and for nothing a publisher would use as a guid.              *)
(***************************************************************************)
EXTENDS Naturals, FiniteSets, Sequences

Blank == ""

Copies(items, g) == {i \in DOMAIN items : items[i].guid = g}

(* Mistake: a repeated guid counts like any other. *)
DuplicatedGuidsNone(items) == {}

(* duplicatedGuids: the guids that cannot identify an episode. *)
DuplicatedGuids(items) ==
  {items[i].guid : i \in {j \in DOMAIN items :
                            /\ items[j].guid # Blank
                            /\ Cardinality(Copies(items, items[j].guid)) > 1}}

(* Mistake: the enclosure is preferred to the guid. *)
EpisodeIdentityByAudio(item, position, duplicated) ==
  IF item.enclosure # Blank THEN <<"enclosure_hash", 0, item.enclosure>>
  ELSE <<"guid", 0, item.guid>>

(* The guid if it is the item's own, else its audio, else what it says and *)
(* where.                                                                  *)
EpisodeIdentity(item, position, duplicated) ==
  IF item.guid # Blank /\ item.guid \notin duplicated
  THEN <<"guid", 0, item.guid>>
  ELSE IF item.enclosure # Blank
  THEN <<"enclosure_hash", 0, item.enclosure>>
  ELSE <<"derived", position, item.content>>

(* The episodes of a document, in its order; positions count from 0. *)
ParseFeed(items) ==
  [i \in DOMAIN items |->
     EpisodeIdentity(items[i], i - 1, DuplicatedGuids(items))]
=============================================================================
