---------------------------- MODULE EpisodeStore ----------------------------
(***************************************************************************)
(* The ApplyCrawl transaction and the readers of one feed's episodes       *)
(* (store/feeds.go: ApplyCrawl; store/episodes.go: upsertEpisodes,         *)
(* pruneEpisodes, EpisodesByFeed).                                         *)
(*                                                                         *)
(* Several crawlers may be writing the outcome of a crawl of the same feed *)
(* at once.  Updating the feed's row advances crawl_seq and takes the      *)
(* row's lock, which is held until the transaction ends; then the          *)
(* episodes are upserted one statement at a time, stamped with the new     *)
(* crawl_seq, and those not seen for longer than the grace are deleted.    *)
(* Until the commit all of that is visible to the transaction alone        *)
(* (READ COMMITTED), and an error, a cancelled context or a crash rolls    *)
(* all of it back.                                                         *)
(***************************************************************************)
EXTENDS SequencesExt, FeedParse, Ordering

CONSTANTS
  Published,   \* the documents a publisher may serve: sequences of items
  Crawlers,
  Grace,       \* CRAWLER_EPISODE_GRACE_CRAWLS, 0 to keep everything
  MaxParses,   \* bound: how many parsed documents are committed
  None

ASSUME PublishedAssumption ==
  Published \subseteq Seq([guid : STRING, enclosure : STRING, content : STRING])
ASSUME NoneAssumption == None \notin Published
ASSUME NumbersAssumption == Grace \in Nat /\ MaxParses \in Nat

(* What a crawl may have parsed, and the episodes (feed_id, guid) in it. *)
Documents == {ParseFeed(doc) : doc \in Published}
Episodes == UNION {ToSet(doc) : doc \in Documents}

VARIABLES
  crawlSeq,   \* feeds.crawl_seq, as committed
  rows,       \* the feed's episode rows, as committed
  tx,         \* tx[c]: c's transaction
  parsed      \* history: the documents whose episodes were committed

vars == <<crawlSeq, rows, tx, parsed>>

(* seen is last_crawl_seq, 0 for no row at all; pos is position; born, the *)
(* crawl_seq it was inserted under, stands for the row's own id.           *)
EpisodeRow == [seen : Nat, pos : Nat, born : Nat]
NoEpisode == [seen |-> 0, pos |-> 0, born |-> 0]

(* doc = None for a crawl that parsed nothing (Parsed = false); view is    *)
(* what the transaction sees of the rows, and next the item to upsert.     *)
Transaction == [phase : {"idle", "begun", "upsert", "prune", "commit"},
                doc   : Published \cup {None},
                seq   : Nat,
                view  : [Episodes -> EpisodeRow],
                next  : Nat]

NoTx == [phase |-> "idle", doc |-> None, seq |-> 0,
         view |-> [e \in Episodes |-> NoEpisode], next |-> 0]

TypeOK ==
  /\ crawlSeq \in Nat
  /\ rows \in [Episodes -> EpisodeRow]
  /\ tx \in [Crawlers -> Transaction]
  /\ parsed \in Seq(Published)

Init ==
  /\ crawlSeq = 0
  /\ rows = [e \in Episodes |-> NoEpisode]
  /\ tx = [c \in Crawlers |-> NoTx]
  /\ parsed = <<>>

-----------------------------------------------------------------------------
(* Who holds the lock on the feed's row. *)
Holders == {c \in Crawlers : tx[c].phase \in {"upsert", "prune", "commit"}}

InFlight == {c \in Crawlers : tx[c].doc # None}

Begin(c, doc) ==
  /\ tx[c].phase = "idle"
  /\ doc # None => Len(parsed) + Cardinality(InFlight) < MaxParses
  /\ tx' = [tx EXCEPT ![c] = [NoTx EXCEPT !.phase = "begun", !.doc = doc]]
  /\ UNCHANGED <<crawlSeq, rows, parsed>>

(* Mistake: the feed's row is updated outside the transaction. *)
UpdateFeedAtOnce(c) ==
  /\ tx[c].phase = "begun"
  /\ Holders = {}
  /\ LET doc == tx[c].doc
         seq == IF doc = None THEN crawlSeq ELSE crawlSeq + 1 IN
       /\ crawlSeq' = seq
       /\ tx' = [tx EXCEPT ![c].seq = seq, ![c].view = rows,
                           ![c].next = IF doc \in {None, <<>>} THEN 0 ELSE 1,
                           ![c].phase = IF doc \in {None, <<>>} THEN "commit"
                                                                 ELSE "upsert"]
  /\ UNCHANGED <<rows, parsed>>

(* UPDATE feeds ... crawl_seq = crawl_seq + 1 when parsed. *)
UpdateFeed(c) ==
  /\ tx[c].phase = "begun"
  /\ Holders = {}
  /\ LET doc == tx[c].doc IN
       tx' = [tx EXCEPT ![c].seq = IF doc = None THEN crawlSeq ELSE crawlSeq + 1,
                        ![c].view = rows,
                        ![c].next = IF doc \in {None, <<>>} THEN 0 ELSE 1,
                        ![c].phase = IF doc \in {None, <<>>} THEN "commit" ELSE "upsert"]
  /\ UNCHANGED <<crawlSeq, rows, parsed>>

(* The row after INSERT ... ON CONFLICT (feed_id, guid) DO UPDATE. *)
Upserted(row, seq, pos) ==
  [seen |-> seq, pos |-> pos, born |-> IF row.seen = 0 THEN seq ELSE row.born]

(* Mistake: positions start below zero. *)
UpsertEpisodeOffByOne(c) ==
  /\ tx[c].phase = "upsert"
  /\ LET t == tx[c] IN
       tx' = [tx EXCEPT
                ![c].view[ParseFeed(t.doc)[t.next]] = Upserted(@, t.seq, t.next - 2),
                ![c].next = IF t.next < Len(t.doc) THEN t.next + 1 ELSE 0,
                ![c].phase = IF t.next < Len(t.doc) THEN "upsert" ELSE "prune"]
  /\ UNCHANGED <<crawlSeq, rows, parsed>>

(* The statement for the next item of the batch. *)
UpsertEpisode(c) ==
  /\ tx[c].phase = "upsert"
  /\ LET t == tx[c] IN
       tx' = [tx EXCEPT
                ![c].view[ParseFeed(t.doc)[t.next]] = Upserted(@, t.seq, t.next - 1),
                ![c].next = IF t.next < Len(t.doc) THEN t.next + 1 ELSE 0,
                ![c].phase = IF t.next < Len(t.doc) THEN "upsert" ELSE "prune"]
  /\ UNCHANGED <<crawlSeq, rows, parsed>>

(* Mistakes: the cutoff itself goes too; the cutoff is one crawl late. *)
PrunedThroughCutoff(view, seq) ==
  [e \in Episodes |-> IF view[e].seen <= seq - Grace THEN NoEpisode ELSE view[e]]

PrunedLate(view, seq) ==
  [e \in Episodes |-> IF view[e].seen < seq - Grace - 1 THEN NoEpisode ELSE view[e]]

(* What pruning leaves of the rows. *)
Pruned(view, seq) ==
  LET cutoff == seq - Grace IN
    IF Grace <= 0 \/ cutoff <= 0 THEN view
    ELSE [e \in Episodes |-> IF view[e].seen < cutoff THEN NoEpisode ELSE view[e]]

PruneEpisodes(c) ==
  /\ tx[c].phase = "prune"
  /\ tx' = [tx EXCEPT ![c].view = Pruned(@, tx[c].seq), ![c].phase = "commit"]
  /\ UNCHANGED <<crawlSeq, rows, parsed>>

Commit(c) ==
  /\ tx[c].phase = "commit"
  /\ crawlSeq' = tx[c].seq
  /\ rows' = tx[c].view
  /\ parsed' = IF tx[c].doc = None THEN parsed ELSE Append(parsed, tx[c].doc)
  /\ tx' = [tx EXCEPT ![c] = NoTx]

(* An error, the end of the context, a crash. *)
Rollback(c) ==
  /\ tx[c].phase # "idle"
  /\ tx' = [tx EXCEPT ![c] = NoTx]
  /\ UNCHANGED <<crawlSeq, rows, parsed>>

Next ==
  \E c \in Crawlers :
    \/ \E doc \in Published \cup {None} : Begin(c, doc)
    \/ UpdateFeed(c) \/ UpsertEpisode(c) \/ PruneEpisodes(c)
    \/ Commit(c) \/ Rollback(c)

Spec == Init /\ [][Next]_vars

-----------------------------------------------------------------------------
(* EpisodesByFeed: one statement, so it reads one committed state, which   *)
(* it orders by position.                                                  *)
Served == {e \in Episodes : rows[e].seen = crawlSeq /\ crawlSeq > 0}
EpisodesByFeed == InOrder([e \in Served |-> rows[e].pos])

Stored == {e \in Episodes : rows[e].seen > 0}

(* Readers only ever see one whole document's list, in document order,     *)
(* whatever crawls of the feed are being written or rolled back meanwhile: *)
(* "crawl_seq and the episodes stamped with it can never disagree".        *)
Latest == IF parsed = <<>> THEN <<>> ELSE ParseFeed(Last(parsed))

Lists == INSTANCE EpisodeLists WITH latest <- Latest, list <- EpisodesByFeed
ReadersSeeWholeDocuments == Lists!Spec

(* The last n documents parsed, and the episodes they list. *)
LastParsed(n) == {i \in 1..Len(parsed) : i > Len(parsed) - n}
Listed(n) == UNION {ToSet(ParseFeed(parsed[i])) : i \in LastParsed(n)}

(* An episode listed by the latest parse or by one of the Grace before it  *)
(* still has its row; with no grace at all nothing is ever deleted.        *)
RecentSurvives ==
  Listed(IF Grace = 0 THEN Len(parsed) ELSE Grace + 1) \subseteq Stored

(* And nothing older stays: after a parse that listed episodes, no row is  *)
(* left that the last Grace + 1 parses did not list.                       *)
OldIsPruned ==
  Grace > 0 /\ parsed # <<>> /\ Last(parsed) # <<>> => Stored \subseteq Listed(Grace + 1)

(* The parses that list guid g as the guid of one item alone. *)
Lists1(g) == {k \in DOMAIN parsed : Cardinality(Copies(parsed[k], g)) = 1}

(* The parse since which no pruning has missed g: every later document     *)
(* with items has g in it or in one of the Grace documents before it.      *)
Unbroken(g, b) ==
  \A k \in b..Len(parsed) :
    Grace > 0 /\ parsed[k] # <<>> => \E j \in Lists1(g) : b <= j /\ j <= k /\ k - j <= Grace

(* An episode keeps its row, and so its id, from parse to parse, however   *)
(* its item moves about in the document and wherever its audio is hosted,  *)
(* across any absence the grace forgives: the row a reader is served for a *)
(* guid is as old as the publisher's unbroken listing of it.               *)
KeepsItsRow ==
  \A i \in IF parsed = <<>> THEN {} ELSE DOMAIN Last(parsed) :
    LET g == Last(parsed)[i].guid IN
      g # Blank /\ Len(parsed) \in Lists1(g) =>
        \E e \in Stored :
          /\ rows[e].seen = crawlSeq
          /\ rows[e].pos = i - 1
          /\ rows[e].born \in Lists1(g)
          /\ Unbroken(g, rows[e].born)
          /\ \A b \in Lists1(g) : Unbroken(g, b) => rows[e].born <= b

(* No item is swallowed by another: a document whose items all have audio  *)
(* of their own is served item by item, also when it repeats a guid.       *)
EveryItemServed ==
  parsed # <<>> =>
    LET doc == Last(parsed) IN
      (\A i, j \in DOMAIN doc :
         doc[i].enclosure # Blank /\ (doc[i].enclosure = doc[j].enclosure => i = j))
        => Len(EpisodesByFeed) = Len(doc)

(* The documents with items, since the last one that listed e. *)
AbsentFrom(e) ==
  {i \in DOMAIN parsed :
     parsed[i] # <<>> /\ \A k \in i..Len(parsed) : e \notin ToSet(ParseFeed(parsed[k]))}

(* "one truncated document cannot erase a feed's history": an episode that *)
(* is deleted was missing from more than one document that had items.      *)
TruncationForgiven ==
  [][\A e \in Stored \ Stored' : Cardinality(AbsentFrom(e)') > 1]_vars
=============================================================================
