------------------------------ MODULE Catalogue ------------------------------
(***************************************************************************)
(* The catalogue of podcasts and the transactions that fill it             *)
(* (service/podcast/routes.go: getPodcasts, getPodcast, resolveFeed,       *)
(* rememberPodcasts; store/podcasts.go).                                   *)
(*                                                                         *)
(* A search or a lookup asks iTunes and, best effort, stores what it heard *)
(* in one transaction: the feed of every distinct URL first, then podcast  *)
(* after podcast.  A request for episodes reads the catalogue and only     *)
(* asks iTunes, and stores its answer, when that knows no feed.            *)
(* Meanwhile crawls record their outcome, which may change a feed's URL.   *)
(*                                                                         *)
(* Rows are locked one by one, in the order of the batch, and stay locked  *)
(* until the transaction ends; inserting or changing a URL locks its key   *)
(* in the unique index just as updating the row that has it.  A lock is    *)
(* therefore named by the URL or the iTunes id.  What a statement reads    *)
(* from a locked row does not change before the commit, so the model       *)
(* writes at the commit.  Postgres ends one transaction of every cycle of  *)
(* waiting ones.                                                           *)
(***************************************************************************)
EXTENDS SequencesExt, Ordering

CONSTANTS
  Feeds,      \* feed ids, as many as there are URLs
  Urls,
  Ids,        \* iTunes collection ids
  Answers,    \* what iTunes may answer: sequences of results
  Requests,
  Crawlers,
  NoId,       \* collectionId 0, which non-podcasts come with
  None

ASSUME NamesAssumption ==
  /\ NoId \in Ids
  /\ None \notin Feeds \cup Urls \cup Ids
  /\ Requests \cap Crawlers = {}

Result == [id : Ids, url : Urls \cup {None}, podcast : BOOLEAN]

ASSUME AnswersAssumption == Answers \subseteq Seq(Result)

(* Ids are drawn from a sequence of 64 bits, which no catalogue exhausts. *)
ASSUME FeedsAssumption ==
  IsFiniteSet(Feeds) /\ IsFiniteSet(Urls) /\ Cardinality(Urls) <= Cardinality(Feeds)

VARIABLES
  feeds,      \* the feeds table: url, None for no row, and last_success_at
  podcasts,   \* the podcasts table: is there a row, and its feed_id
  req,        \* the requests
  tx          \* the open transactions

vars == <<feeds, podcasts, req, tx>>

Clients == Requests \cup Crawlers

Locks == ({"url"} \X Urls) \cup ({"podcast"} \X Ids)

Feed == [url : Urls \cup {None}, crawled : BOOLEAN]
Podcast == [known : BOOLEAN, feed : Feeds \cup {None}]

Request == [pc    : {"idle", "ask", "store", "done"},
            op    : {"search", "lookup", "episodes"},
            id    : Ids,
            reply : {"none", "ok", "not found", "error"}]

(* wants: the locks still to take, in order; to: the URL a crawl writes.   *)
Transaction == [open  : BOOLEAN,
                wants : Seq(Locks),
                held  : SUBSET Locks,
                batch : Seq(Result),
                feed  : Feeds \cup {None},
                to    : Urls \cup {None}]

NoFeed == [url |-> None, crawled |-> FALSE]
NoTx == [open |-> FALSE, wants |-> <<>>, held |-> {}, batch |-> <<>>,
         feed |-> None, to |-> None]

TypeOK ==
  /\ feeds \in [Feeds -> Feed]
  /\ podcasts \in [Ids -> Podcast]
  /\ req \in [Requests -> Request]
  /\ tx \in [Clients -> Transaction]

Idle == [pc |-> "idle", op |-> "search", id |-> NoId, reply |-> "none"]

Init ==
  /\ feeds = [f \in Feeds |-> NoFeed]
  /\ podcasts = [p \in Ids |-> [known |-> FALSE, feed |-> None]]
  /\ req = [r \in Requests |-> Idle]
  /\ tx = [c \in Clients |-> NoTx]

-----------------------------------------------------------------------------
Owners(u) == {f \in Feeds : feeds[f].url = u}

Replied(r, reply) ==
  [req EXCEPT ![r] = [Idle EXCEPT !.pc = "done", !.reply = reply]]

(* Mistake: whatever a lookup resolves to is taken for a podcast. *)
IsPodcastAny(result) == TRUE

IsPodcast(result) == result.id # NoId /\ (result.podcast \/ result.url # None)

(* rememberPodcasts: the podcasts among the results. *)
Podcasts(results) == Picked(results, {i \in DOMAIN results : IsPodcast(results[i])})

FeedUrls(batch) == {batch[i].url : i \in DOMAIN batch} \ {None}

FirstPlace(u, batch) == Min({i \in DOMAIN batch : batch[i].url = u})

(* Mistake: a podcast without a feed URL gets a feed with an empty one. *)
DistinctUrlsAndNone(batch) ==
  InOrder([u \in {batch[i].url : i \in DOMAIN batch} |-> FirstPlace(u, batch)])

(* upsertFeedURLs: every feed URL of a batch once, in its order. *)
DistinctUrls(batch) == InOrder([u \in FeedUrls(batch) |-> FirstPlace(u, batch)])

(* The transaction that upserts a batch: feeds before podcasts. *)
Upsert(batch) ==
  LET urls == DistinctUrls(batch) IN
    [NoTx EXCEPT !.open = TRUE, !.batch = batch,
                 !.wants = [i \in DOMAIN urls |-> <<"url", urls[i]>>]
                             \o [i \in DOMAIN batch |-> <<"podcast", batch[i].id>>]]

-----------------------------------------------------------------------------
(* Requests. *)

Search(r) ==
  /\ req[r].pc = "idle"
  /\ req' = [req EXCEPT ![r].pc = "ask", ![r].op = "search"]
  /\ UNCHANGED <<feeds, podcasts, tx>>

Lookup(r, p) ==
  /\ req[r].pc = "idle"
  /\ req' = [req EXCEPT ![r].pc = "ask", ![r].op = "lookup", ![r].id = p]
  /\ UNCHANGED <<feeds, podcasts, tx>>

(* resolveFeed: the catalogue answers, unless it has no feed for the       *)
(* podcast or cannot be read.                                              *)
ResolveFeed(r, p) ==
  /\ req[r].pc = "idle"
  /\ \/ podcasts[p].known /\ podcasts[p].feed # None /\ req' = Replied(r, "ok")
     \/ req' = [req EXCEPT ![r].pc = "ask", ![r].op = "episodes", ![r].id = p]
  /\ UNCHANGED <<feeds, podcasts, tx>>

(* iTunes fails, or finds no or several results where one was asked for.   *)
ItunesFails(r) ==
  /\ req[r].pc = "ask"
  /\ req' = Replied(r, IF req[r].op = "search" THEN "error" ELSE "not found")
  /\ UNCHANGED <<feeds, podcasts, tx>>

(* A search stores the podcasts among the results. *)
SearchAnswered(r, results) ==
  /\ req[r].pc = "ask" /\ req[r].op = "search"
  /\ LET batch == Podcasts(results) IN
       IF batch = <<>>
       THEN req' = Replied(r, "ok") /\ UNCHANGED tx
       ELSE /\ tx' = [tx EXCEPT ![r] = Upsert(batch)]
            /\ req' = [req EXCEPT ![r].pc = "store", ![r].id = NoId]
  /\ UNCHANGED <<feeds, podcasts>>

(* A lookup by id found its one result; only resolveFeed refuses what is   *)
(* no podcast.                                                             *)
LookupAnswered(r, result) ==
  /\ req[r].pc = "ask" /\ req[r].op # "search"
  /\ result.id \in {req[r].id, NoId}
  /\ IF IsPodcast(result)
     THEN /\ tx' = [tx EXCEPT ![r] = Upsert(<<result>>)]
          /\ req' = [req EXCEPT ![r].pc = "store", ![r].id = NoId]
     ELSE /\ req' = Replied(r, IF req[r].op = "lookup" THEN "ok" ELSE "error")
          /\ UNCHANGED tx
  /\ UNCHANGED <<feeds, podcasts>>

Finish(r) ==
  /\ req[r].pc = "done"
  /\ req' = [req EXCEPT ![r] = Idle]
  /\ UNCHANGED <<feeds, podcasts, tx>>

-----------------------------------------------------------------------------
(* Transactions. *)

Free(c, l) == \A d \in Clients \ {c} : l \notin tx[d].held

(* The next statement finds its row, or its key, unlocked. *)
Acquire(c) ==
  /\ tx[c].open /\ tx[c].wants # <<>>
  /\ Free(c, Head(tx[c].wants))
  /\ tx' = [tx EXCEPT ![c].held = @ \cup {Head(tx[c].wants)},
                      ![c].wants = Tail(@)]
  /\ UNCHANGED <<feeds, podcasts, req>>

(* The ids INSERT INTO feeds ... ON CONFLICT returns for the URLs: of the  *)
(* row that has it, or of a new one.                                       *)
FeedIds(urls) ==
  CHOOSE ids \in [urls -> Feeds] :
    /\ \A u \in urls : IF Owners(u) # {} THEN ids[u] \in Owners(u)
                                         ELSE ids[u] \in Owners(None)
    /\ \A u, v \in urls : ids[u] = ids[v] => u = v

(* Mistakes: a response without a feed URL unlinks the feed; every       *)
(* podcast is given the id read last.                                      *)
LinkedForgetful(p, batch, ids) ==
  LET i == Max({j \in DOMAIN batch : batch[j].id = p}) IN
    IF batch[i].url = None THEN None ELSE ids[batch[i].url]

LinkedToLast(p, batch, ids) ==
  LET urls == DistinctUrls(batch) IN
    IF urls = <<>> THEN podcasts[p].feed ELSE ids[Last(urls)]

(* COALESCE(EXCLUDED.feed_id, podcasts.feed_id), upsert after upsert. *)
Linked(p, batch, ids) ==
  LET given == {i \in DOMAIN batch : batch[i].id = p /\ batch[i].url # None} IN
    IF given = {} THEN podcasts[p].feed ELSE ids[batch[Max(given)].url]

(* What the request replies once its transaction has ended. *)
StoreEnded(r, committed) ==
  Replied(r, IF req[r].op # "episodes" THEN "ok"
             ELSE IF ~committed THEN "not found"
             ELSE IF tx[r].batch[1].url = None THEN "error" ELSE "ok")

CommitUpsert(r) ==
  /\ tx[r].open /\ tx[r].wants = <<>>
  /\ LET batch == tx[r].batch
         urls  == FeedUrls(batch)
         ids   == FeedIds(urls)
         new   == {u \in urls : Owners(u) = {}} IN
       /\ feeds' = [f \in Feeds |->
                      IF \E u \in new : ids[u] = f
                      THEN [NoFeed EXCEPT !.url = CHOOSE u \in new : ids[u] = f]
                      ELSE feeds[f]]
       /\ podcasts' = [p \in Ids |->
                         IF \E i \in DOMAIN batch : batch[i].id = p
                         THEN [known |-> TRUE, feed |-> Linked(p, batch, ids)]
                         ELSE podcasts[p]]
  /\ tx' = [tx EXCEPT ![r] = NoTx]
  /\ req' = StoreEnded(r, TRUE)

(* A crawl of f that parsed its document updates one row, and waits for    *)
(* nothing else once it has it.                                            *)
CrawlParsed(c, f) ==
  /\ ~tx[c].open
  /\ feeds[f].url # None
  /\ Free(c, <<"url", feeds[f].url>>)
  /\ feeds' = [feeds EXCEPT ![f].crawled = TRUE]
  /\ UNCHANGED <<podcasts, req, tx>>

(* A crawl of f is about to record a move to a URL that nobody had when it *)
(* asked (a move onto another row's URL changes no column kept here).  The *)
(* lease gives a feed to one crawler at a time.                            *)
CrawlMoved(c, f, u) ==
  /\ ~tx[c].open
  /\ feeds[f].url # None
  /\ Owners(u) = {}
  /\ \A d \in Crawlers : tx[d].feed # f
  /\ tx' = [tx EXCEPT ![c] =
              [NoTx EXCEPT !.open = TRUE, !.feed = f, !.to = u,
                           !.wants = <<<<"url", feeds[f].url>>, <<"url", u>>>>]]
  /\ UNCHANGED <<feeds, podcasts, req>>

(* The unique index has the last word on the URL. *)
CommitMove(c) ==
  /\ tx[c].open /\ tx[c].wants = <<>>
  /\ Owners(tx[c].to) = {}
  /\ feeds' = [feeds EXCEPT ![tx[c].feed].url = tx[c].to]
  /\ tx' = [tx EXCEPT ![c] = NoTx]
  /\ UNCHANGED <<podcasts, req>>

(* Mistake: the transaction of a failed upsert is left open. *)
RollbackNot(c) ==
  /\ IF c \in Requests THEN req' = StoreEnded(c, FALSE) ELSE UNCHANGED req
  /\ tx' = [tx EXCEPT ![c] = IF c \in Requests THEN [@ EXCEPT !.wants = <<>>] ELSE NoTx]
  /\ UNCHANGED <<feeds, podcasts>>

Rollback(c) ==
  /\ tx' = [tx EXCEPT ![c] = NoTx]
  /\ IF c \in Requests THEN req' = StoreEnded(c, FALSE) ELSE UNCHANGED req
  /\ UNCHANGED <<feeds, podcasts>>

(* An error, the client gone, the URL taken since the crawl looked. *)
Fail(c) == tx[c].open /\ Rollback(c)

WaitsFor(c, d) ==
  /\ tx[c].open /\ tx[c].wants # <<>> /\ c # d
  /\ Head(tx[c].wants) \in tx[d].held

(* Deadlocked transactions all wait for each other; Postgres ends one. *)
Deadlocked(c) ==
  \E cycle \in SUBSET Clients :
    /\ c \in cycle
    /\ \A d \in cycle : (\E e \in cycle : WaitsFor(d, e)) /\ (\E e \in cycle : WaitsFor(e, d))

DeadlockVictim(c) == Deadlocked(c) /\ Rollback(c)

-----------------------------------------------------------------------------
RequestStep(r) ==
  \/ ItunesFails(r)
  \/ \E results \in Answers : SearchAnswered(r, results)
  \/ \E results \in Answers : Len(results) = 1 /\ LookupAnswered(r, results[1])
  \/ CommitUpsert(r)
  \/ DeadlockVictim(r)
  \/ Finish(r)

CrawlStep(c) == CommitMove(c) \/ DeadlockVictim(c) \/ Fail(c)

Next ==
  \/ \E r \in Requests : Search(r)
  \/ \E r \in Requests, p \in Ids \ {NoId} : Lookup(r, p) \/ ResolveFeed(r, p)
  \/ \E r \in Requests : RequestStep(r) \/ Acquire(r) \/ Fail(r)
  \/ \E c \in Crawlers, f \in Feeds : CrawlParsed(c, f)
  \/ \E c \in Crawlers, f \in Feeds, u \in Urls : CrawlMoved(c, f, u)
  \/ \E c \in Crawlers : CrawlStep(c) \/ Acquire(c)

Spec == Init /\ [][Next]_vars

(* iTunes answers or times out, statements return, Postgres looks for      *)
(* deadlocks and queues those who wait for a lock, so that nobody is       *)
(* passed over for ever.                                                   *)
Fairness ==
  /\ \A r \in Requests : WF_vars(RequestStep(r))
  /\ \A c \in Crawlers : WF_vars(CrawlStep(c))
  /\ \A c \in Clients : SF_vars(Acquire(c))

FairSpec == Spec /\ Fairness

-----------------------------------------------------------------------------
(* Once a podcast's feed is known it stays known: an answer of iTunes that *)
(* leaves the feed URL out, or a concurrent batch that never saw it, does  *)
(* not take it away (COALESCE in both upserts).                            *)
FeedNeverForgotten ==
  [][\A p \in Ids : podcasts[p].feed # None => podcasts'[p].feed # None]_vars

(* A podcast is linked to the feed iTunes named for it: whenever its link  *)
(* changes, some result of the batch that was committed names both the     *)
(* podcast and the URL of its new feed, also when podcasts share a feed    *)
(* and when concurrent batches insert the same URLs (upsertFeedURLs).      *)
LinkedAsTold ==
  [][\A p \in Ids :
       podcasts'[p].feed # podcasts[p].feed =>
         \E r \in Requests : \E i \in DOMAIN tx[r].batch :
           /\ tx[r].batch[i].id = p
           /\ tx[r].batch[i].url = feeds'[podcasts'[p].feed].url]_vars

(* Nothing is ever stored under collectionId 0, where every artist and     *)
(* album a lookup resolves to would collide (isPodcast).                   *)
OnlyPodcastsKept == ~podcasts[NoId].known

(* However requests and crawls lock rows in different orders, every        *)
(* request is answered.                                                    *)
EveryRequestAnswered ==
  \A r \in Requests : req[r].pc \in {"ask", "store"} ~> req[r].pc = "done"

(* "Every request after that is a database read": a podcast whose feed has *)
(* been crawled never goes back to one nobody has crawled.                 *)
StaysCrawled ==
  [][\A p \in Ids :
       podcasts[p].feed # None /\ feeds[podcasts[p].feed].crawled
         => feeds'[podcasts'[p].feed].crawled]_vars
=============================================================================
