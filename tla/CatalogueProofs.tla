---------------------------- MODULE CatalogueProofs ----------------------------
(***************************************************************************)
(* Proofs about Catalogue: however searches, lookups and crawls overlap,   *)
(* a podcast is linked to the feed iTunes named for it and never loses it, *)
(* and nothing is stored under collectionId 0.                             *)
(***************************************************************************)
EXTENDS Catalogue, OrderingProofs

(* UNIQUE (url), which ON CONFLICT and the crawl's own check rest on. *)
OneRowPerUrl ==
  \A f, g \in Feeds : feeds[f].url # None /\ feeds[f].url = feeds[g].url => f = g

(* Only podcasts are about to be stored. *)
PodcastsOnly == \A c \in Clients : \A i \in DOMAIN tx[c].batch : tx[c].batch[i].id # NoId

CatalogueInv == TypeOK /\ OneRowPerUrl /\ PodcastsOnly /\ OnlyPodcastsKept

-----------------------------------------------------------------------------
(* Batches. *)

LEMMA PodcastsAreListed ==
  ASSUME NEW results \in Seq(Result)
  PROVE  /\ Podcasts(results) \in Seq(Result)
         /\ \A n \in DOMAIN Podcasts(results) : IsPodcast(Podcasts(results)[n])
<1> DEFINE places == {i \in DOMAIN results : IsPodcast(results[i])}
<1>1. places \in SUBSET DOMAIN results
  OBVIOUS
<1>2. \A i \in places : IsPodcast(results[i])
  OBVIOUS
<1> HIDE DEF places
<1>3. /\ Picked(results, places) \in Seq(Result)
      /\ \A n \in DOMAIN Picked(results, places) :
           \E i \in places : Picked(results, places)[n] = results[i]
  BY <1>1, PickedLists
<1>4. \A n \in DOMAIN Picked(results, places) : IsPodcast(Picked(results, places)[n])
  BY <1>2, <1>3
<1> QED BY <1>3, <1>4 DEF Podcasts, places

LEMMA UrlsOfBatch ==
  ASSUME NEW batch \in Seq(Result)
  PROVE  /\ FeedUrls(batch) \in SUBSET Urls /\ IsFiniteSet(FeedUrls(batch))
         /\ DistinctUrls(batch) \in Seq(FeedUrls(batch))
<1> DEFINE U == FeedUrls(batch)
           f == [u \in U |-> FirstPlace(u, batch)]
<1>1. /\ Len(batch) \in Nat /\ DOMAIN batch = 1..Len(batch)
      /\ \A i \in DOMAIN batch : batch[i].url \in Urls \cup {None}
  <2>1. \A i \in DOMAIN batch : batch[i] \in Result
    OBVIOUS
  <2>2. \A r \in Result : r.url \in Urls \cup {None}
    BY DEF Result
  <2> QED BY <2>1, <2>2
<1>2. U \in SUBSET Urls
  BY <1>1 DEF FeedUrls
<1>3. IsFiniteSet(U)
  BY <1>2, FeedsAssumption, PartOfFinite
<1>4. f \in [U -> Int]
  <2>1. ASSUME NEW u \in U PROVE FirstPlace(u, batch) \in Int
    <3> DEFINE T == {i \in DOMAIN batch : batch[i].url = u}
    <3>1. T \in SUBSET Nat /\ T # {}
      BY <1>1 DEF FeedUrls
    <3> HIDE DEF T
    <3>2. \E n \in T : \A m \in T : n <= m
      BY <3>1, LeastNat
    <3>3. Min(T) \in T
      BY <3>2 DEF Min
    <3> QED BY <3>1, <3>3 DEF FirstPlace, T
  <2> QED BY <2>1
<1> HIDE DEF f
<1>5. InOrder(f) \in Seq(U)
  BY <1>3, <1>4, InOrderLists
<1> QED BY <1>2, <1>3, <1>5 DEF DistinctUrls, f

LEMMA UpsertTyped ==
  ASSUME NEW batch \in Seq(Result), \A i \in DOMAIN batch : batch[i].id # NoId
  PROVE  /\ Upsert(batch) \in Transaction
         /\ Upsert(batch).batch = batch
<1> DEFINE urls == DistinctUrls(batch)
           a == [i \in DOMAIN urls |-> <<"url", urls[i]>>]
           b == [i \in DOMAIN batch |-> <<"podcast", batch[i].id>>]
<1>1. urls \in Seq(FeedUrls(batch)) /\ FeedUrls(batch) \in SUBSET Urls
  BY UrlsOfBatch
<1>2. a \in Seq(Locks)
  <2> HIDE DEF urls
  <2>1. /\ Len(urls) \in Nat /\ DOMAIN urls = 1..Len(urls)
        /\ \A i \in 1..Len(urls) : urls[i] \in Urls
    BY <1>1
  <2>2. \A i \in 1..Len(urls) : <<"url", urls[i]>> \in Locks
    BY <2>1 DEF Locks
  <2>3. a \in [1..Len(urls) -> Locks]
    BY <2>1, <2>2
  <2> QED BY <2>1, <2>3
<1>3. b \in Seq(Locks)
  <2>1. /\ Len(batch) \in Nat /\ DOMAIN batch = 1..Len(batch)
        /\ \A i \in 1..Len(batch) : batch[i].id \in Ids
    <3>1. \A i \in DOMAIN batch : batch[i] \in Result
      OBVIOUS
    <3>2. \A r \in Result : r.id \in Ids
      BY DEF Result
    <3> QED BY <3>1, <3>2
  <2>2. \A i \in 1..Len(batch) : <<"podcast", batch[i].id>> \in Locks
    BY <2>1 DEF Locks
  <2>3. b \in [1..Len(batch) -> Locks]
    BY <2>1, <2>2
  <2> QED BY <2>1, <2>3
<1>4. a \o b \in Seq(Locks)
  <2> HIDE DEF a, b
  <2> QED BY <1>2, <1>3
<1>5. Upsert(batch) = [NoTx EXCEPT !.open = TRUE, !.batch = batch, !.wants = a \o b]
  BY DEF Upsert
<1> HIDE DEF a, b
<1> QED BY <1>4, <1>5 DEF NoTx, Transaction

-----------------------------------------------------------------------------
(* There is an id for every URL of a batch, and no two get the same one:   *)
(* rows and URLs that are taken come in pairs, so that there are at least  *)
(* as many free ids as new URLs.                                           *)
LEMMA InjectionExists ==
  ASSUME NEW S, IsFiniteSet(S), NEW T, IsFiniteSet(T), Cardinality(S) <= Cardinality(T)
  PROVE  \E f \in [S -> T] : \A x, y \in S : f[x] = f[y] => x = y
<1>1. /\ Cardinality(S) \in Nat /\ ExistsBijection(1..Cardinality(S), S)
      /\ Cardinality(T) \in Nat /\ ExistsBijection(1..Cardinality(T), T)
  BY FS_CardinalityType
<1>2. PICK s \in Bijection(1..Cardinality(S), S) : TRUE
  BY <1>1 DEF ExistsBijection
<1>3. PICK t \in Bijection(1..Cardinality(T), T) : TRUE
  BY <1>1 DEF ExistsBijection
<1>4. /\ s \in [1..Cardinality(S) -> S]
      /\ \A x \in S : \E n \in 1..Cardinality(S) : s[n] = x
  BY <1>2 DEF Bijection, Surjection, Injection
<1>5. /\ t \in [1..Cardinality(T) -> T]
      /\ \A m, n \in 1..Cardinality(T) : t[m] = t[n] => m = n
  BY <1>3 DEF Bijection, Injection, IsInjective
<1> DEFINE p(x) == CHOOSE n \in 1..Cardinality(S) : s[n] = x
           f == [x \in S |-> t[p(x)]]
<1>6. \A x \in S : p(x) \in 1..Cardinality(S) /\ s[p(x)] = x
  BY <1>4
<1>7. \A x \in S : p(x) \in 1..Cardinality(T)
  BY <1>1, <1>6
<1> HIDE DEF p
<1>8. f \in [S -> T]
  BY <1>5, <1>7
<1>9. \A x, y \in S : f[x] = f[y] => x = y
  BY <1>5, <1>6, <1>7
<1> QED BY <1>8, <1>9

LEMMA IdsAreGiven ==
  ASSUME TypeOK, OneRowPerUrl, NEW urls \in SUBSET Urls
  PROVE  /\ FeedIds(urls) \in [urls -> Feeds]
         /\ \A u \in urls : IF Owners(u) # {} THEN FeedIds(urls)[u] \in Owners(u)
                                              ELSE FeedIds(urls)[u] \in Owners(None)
         /\ \A u, v \in urls : FeedIds(urls)[u] = FeedIds(urls)[v] => u = v
<1> DEFINE taken == {f \in Feeds : feeds[f].url # None}
           owned == {u \in Urls : Owners(u) # {}}
           new   == {u \in urls : Owners(u) = {}}
<1>1. /\ taken \in SUBSET Feeds /\ owned \in SUBSET Urls
      /\ new \in SUBSET Urls \ owned /\ Owners(None) = Feeds \ taken
  BY DEF Owners
<1>2. IsFiniteSet(taken) /\ IsFiniteSet(owned) /\ Cardinality(owned) = Cardinality(taken)
  <2> DEFINE h == [f \in taken |-> feeds[f].url]
  <2>1. IsFiniteSet(taken)
    BY <1>1, FeedsAssumption, PartOfFinite
  <2>2. \A f, g \in taken : h[f] = h[g] => f = g
    BY DEF OneRowPerUrl
  <2>3. \A f \in Feeds : feeds[f].url \in Urls \cup {None}
    BY DEF TypeOK, Feed
  <2>4. \A u : u \in owned <=> \E f \in taken : u = h[f]
    BY <2>3, NamesAssumption DEF Owners
  <2> HIDE DEF h, taken, owned
  <2> QED BY <2>1, <2>2, <2>4, SameCount
<1> HIDE DEF taken, owned
<1>3. /\ IsFiniteSet(Owners(None))
      /\ Cardinality(Owners(None)) = Cardinality(Feeds) - Cardinality(taken)
  <2>1. taken = Feeds \cap taken
    BY <1>1
  <2> QED BY <1>1, <2>1, FeedsAssumption, FS_Difference
<1>4. /\ IsFiniteSet(Urls \ owned)
      /\ Cardinality(Urls \ owned) = Cardinality(Urls) - Cardinality(owned)
  <2>1. owned = Urls \cap owned
    BY <1>1
  <2> QED BY <2>1, FeedsAssumption, FS_Difference
<1>5. IsFiniteSet(new) /\ Cardinality(new) <= Cardinality(Owners(None))
  <2> HIDE DEF new
  <2>1. /\ IsFiniteSet(new) /\ Cardinality(new) <= Cardinality(Urls \ owned)
        /\ Cardinality(new) \in Nat
    BY <1>1, <1>4, PartOfFinite
  <2>2. /\ Cardinality(Feeds) \in Nat /\ Cardinality(Urls) \in Nat
        /\ Cardinality(taken) \in Nat /\ Cardinality(Urls) <= Cardinality(Feeds)
    BY <1>2, FeedsAssumption, FS_CardinalityType
  <2> QED BY <1>2, <1>3, <1>4, <2>1, <2>2
<1>6. PICK free \in [new -> Owners(None)] : \A u, v \in new : free[u] = free[v] => u = v
  <2> HIDE DEF new
  <2> QED BY <1>3, <1>5, InjectionExists
<1> DEFINE ids == [u \in urls |-> IF u \in new THEN free[u]
                                  ELSE CHOOSE f \in Feeds : f \in Owners(u)]
<1>7. \A u \in urls : IF Owners(u) # {} THEN ids[u] \in Owners(u)
                                        ELSE ids[u] \in Owners(None)
  <2> TAKE u \in urls
  <2>1. CASE Owners(u) = {}
    BY <1>6, <2>1
  <2>2. CASE Owners(u) # {}
    <3>1. \E f \in Feeds : f \in Owners(u)
      BY <2>2 DEF Owners
    <3> QED BY <2>2, <3>1
  <2> QED BY <2>1, <2>2
<1>8. \A u \in urls : Owners(u) \subseteq Feeds /\ Owners(None) \subseteq Feeds
  BY DEF Owners
<1>9. ids \in [urls -> Feeds]
  BY <1>7, <1>8
<1>10. \A u, v \in urls : ids[u] = ids[v] => u = v
  <2> SUFFICES ASSUME NEW u \in urls, NEW v \in urls, ids[u] = ids[v]
               PROVE  u = v
    OBVIOUS
  <2>1. u # None /\ v # None
    BY NamesAssumption
  <2>2. /\ feeds[ids[u]].url = IF u \in new THEN None ELSE u
        /\ feeds[ids[v]].url = IF v \in new THEN None ELSE v
    <3> HIDE DEF ids
    <3> QED BY <1>7 DEF Owners
  <2>3. u \in new <=> v \in new
    BY <2>1, <2>2
  <2>4. CASE u \in new
    BY <1>6, <2>3, <2>4
  <2>5. CASE u \notin new
    <3> HIDE DEF ids, new
    <3> QED BY <2>2, <2>3, <2>5
  <2> QED BY <2>4, <2>5
<1> HIDE DEF ids
<1> DEFINE Good(x) == /\ \A u \in urls : IF Owners(u) # {} THEN x[u] \in Owners(u)
                                                         ELSE x[u] \in Owners(None)
                      /\ \A u, v \in urls : x[u] = x[v] => u = v
<1>11. Good(ids)
  BY <1>7, <1>10
<1>12. FeedIds(urls) = CHOOSE x \in [urls -> Feeds] : Good(x)
  BY DEF FeedIds
<1>13. FeedIds(urls) \in [urls -> Feeds] /\ Good(FeedIds(urls))
  <2> HIDE DEF Good
  <2> QED BY <1>9, <1>11, <1>12
<1> QED BY <1>13

-----------------------------------------------------------------------------
(* What a commit does. *)

Committed(r) ==
  /\ FeedUrls(tx[r].batch) \in SUBSET Urls
  /\ FeedIds(FeedUrls(tx[r].batch)) \in [FeedUrls(tx[r].batch) -> Feeds]
  /\ \A u \in FeedUrls(tx[r].batch) : feeds'[FeedIds(FeedUrls(tx[r].batch))[u]].url = u
  /\ \A f \in Feeds : feeds[f].url # None => feeds'[f] = feeds[f]
  /\ \A f \in Feeds : /\ feeds'[f] \in Feed
                      /\ feeds[f].url = None /\ feeds'[f].url # None =>
                           /\ Owners(feeds'[f].url) = {}
                           /\ feeds'[f].url \in FeedUrls(tx[r].batch)
                           /\ FeedIds(FeedUrls(tx[r].batch))[feeds'[f].url] = f

LEMMA CommitOfFeeds ==
  ASSUME CatalogueInv, NEW r \in Requests, CommitUpsert(r)
  PROVE  Committed(r)
<1> DEFINE batch == tx[r].batch
           urls == FeedUrls(batch)
           ids == FeedIds(urls)
           new == {u \in urls : Owners(u) = {}}
<1>1. batch \in Seq(Result)
  BY DEF CatalogueInv, TypeOK, Transaction, Clients
<1>2. urls \in SUBSET Urls
  BY <1>1, UrlsOfBatch
<1>3. /\ ids \in [urls -> Feeds]
      /\ \A u \in urls : IF Owners(u) # {} THEN ids[u] \in Owners(u)
                                           ELSE ids[u] \in Owners(None)
      /\ \A u, v \in urls : ids[u] = ids[v] => u = v
  <2> HIDE DEF urls
  <2> QED BY <1>2, IdsAreGiven DEF CatalogueInv
<1>4. feeds' = [f \in Feeds |-> IF \E u \in new : ids[u] = f
                               THEN [NoFeed EXCEPT !.url = CHOOSE u \in new : ids[u] = f]
                               ELSE feeds[f]]
  BY DEF CommitUpsert
<1>5. feeds \in [Feeds -> Feed] /\ None \notin Urls
  BY NamesAssumption DEF CatalogueInv, TypeOK
<1>6. \A u \in urls : u \in new <=> Owners(u) = {}
  OBVIOUS
<1>7. new \subseteq urls
  OBVIOUS
<1> HIDE DEF batch, urls, ids, new
<1>8. \A u \in new : feeds'[ids[u]] = [NoFeed EXCEPT !.url = u] /\ feeds[ids[u]].url = None
  <2> TAKE u \in new
  <2>1. (CHOOSE v \in new : ids[v] = ids[u]) = u
    BY <1>3, <1>7
  <2>2. ids[u] \in Feeds /\ feeds[ids[u]].url = None
    BY <1>3, <1>6, <1>7 DEF Owners
  <2> QED BY <1>4, <2>1, <2>2
<1>9. \A f \in Feeds : feeds'[f] = feeds[f] \/ \E u \in new : ids[u] = f
  BY <1>4
<1>10. \A u \in urls : feeds'[ids[u]].url = u
  <2> TAKE u \in urls
  <2>1. CASE u \in new
    BY <1>8, <2>1 DEF NoFeed
  <2>2. CASE u \notin new
    <3>1. ids[u] \in Feeds /\ feeds[ids[u]].url = u
      BY <1>3, <1>6, <2>2 DEF Owners
    <3>2. ~ \E v \in new : ids[v] = ids[u]
      BY <1>3, <1>7, <2>2
    <3> QED BY <1>9, <3>1, <3>2
  <2> QED BY <2>1, <2>2
<1>11. \A f \in Feeds : feeds[f].url # None => feeds'[f] = feeds[f]
  BY <1>8, <1>9
<1>12. ASSUME NEW f \in Feeds
       PROVE  /\ feeds'[f] \in Feed
              /\ feeds[f].url = None /\ feeds'[f].url # None =>
                   /\ Owners(feeds'[f].url) = {}
                   /\ feeds'[f].url \in urls
                   /\ ids[feeds'[f].url] = f
  <2>1. CASE feeds'[f] = feeds[f]
    BY <1>5, <2>1
  <2>2. CASE \E u \in new : ids[u] = f
    <3>1. PICK u \in new : ids[u] = f
      BY <2>2
    <3>2. feeds'[f] = [url |-> u, crawled |-> FALSE]
      BY <1>8, <3>1 DEF NoFeed
    <3>3. u \in urls /\ u \in Urls /\ Owners(u) = {}
      BY <1>2, <1>6, <1>7
    <3>4. [url |-> u, crawled |-> FALSE] \in Feed
      BY <3>3 DEF Feed
    <3> QED BY <3>1, <3>2, <3>3, <3>4
  <2> QED BY <1>9, <2>1, <2>2
<1> QED
  BY <1>2, <1>3, <1>10, <1>11, <1>12 DEF Committed, batch, urls, ids

(* The last of the batch's results that names a feed for p decides.        *)
LEMMA LinkOfPodcast ==
  ASSUME CatalogueInv, NEW r \in Requests, CommitUpsert(r), NEW p \in Ids,
         podcasts'[p] # podcasts[p]
  PROVE  /\ podcasts'[p] = [known |-> TRUE, feed |-> podcasts'[p].feed]
         /\ \E i \in DOMAIN tx[r].batch : tx[r].batch[i].id = p
         /\ \/ podcasts'[p].feed = podcasts[p].feed
            \/ \E i \in DOMAIN tx[r].batch :
                 /\ tx[r].batch[i].id = p
                 /\ tx[r].batch[i].url \in FeedUrls(tx[r].batch)
                 /\ podcasts'[p].feed = FeedIds(FeedUrls(tx[r].batch))[tx[r].batch[i].url]
<1> DEFINE batch == tx[r].batch
           ids == FeedIds(FeedUrls(batch))
           given == {i \in DOMAIN batch : batch[i].id = p /\ batch[i].url # None}
<1>1. podcasts' = [q \in Ids |-> IF \E i \in DOMAIN batch : batch[i].id = q
                                THEN [known |-> TRUE, feed |-> Linked(q, batch, ids)]
                                ELSE podcasts[q]]
  BY DEF CommitUpsert
<1>2. /\ \E i \in DOMAIN batch : batch[i].id = p
      /\ podcasts'[p] = [known |-> TRUE, feed |-> Linked(p, batch, ids)]
  BY <1>1
<1>3. Linked(p, batch, ids) = IF given = {} THEN podcasts[p].feed ELSE ids[batch[Max(given)].url]
  BY DEF Linked
<1>4. CASE given = {}
  <2> HIDE DEF given, ids, batch
  <2>1. podcasts'[p].feed = podcasts[p].feed
    BY <1>2, <1>3, <1>4
  <2> QED BY <1>2, <2>1 DEF batch
<1>5. CASE given # {}
  <2>1. Max(given) \in given
    <3>1. batch \in Seq(Result)
      BY DEF CatalogueInv, TypeOK, Transaction, Clients
    <3>2. Len(batch) \in Nat /\ DOMAIN batch = 1..Len(batch)
      BY <3>1
    <3> HIDE DEF batch
    <3>3. IsFiniteSet(given)
      <4>1. IsFiniteSet(1..Len(batch))
        BY <3>2, FS_Interval
      <4>2. given \in SUBSET (1..Len(batch))
        BY <3>2
      <4> HIDE DEF given
      <4> QED BY <4>1, <4>2, PartOfFinite
    <3> DEFINE f == [i \in given |-> i]
    <3>4. f \in [given -> Int] /\ \A i \in given : f[i] = i
      BY <3>2
    <3> HIDE DEF given, f
    <3>5. \E i \in given : \A j \in given : f[j] <= f[i]
      BY <1>5, <3>3, <3>4, Largest
    <3>6. \E i \in given : \A j \in given : j <= i
      BY <3>4, <3>5
    <3> QED BY <3>6 DEF Max
  <2>2. /\ Max(given) \in DOMAIN batch /\ batch[Max(given)].id = p
        /\ batch[Max(given)].url # None
    BY <2>1
  <2>3. batch[Max(given)].url \in FeedUrls(batch)
    BY <2>2 DEF FeedUrls
  <2> HIDE DEF given, ids, batch
  <2>4. podcasts'[p].feed = ids[batch[Max(given)].url]
    BY <1>2, <1>3, <1>5
  <2> QED BY <1>2, <2>2, <2>3, <2>4 DEF batch, ids
<1> QED BY <1>4, <1>5


-----------------------------------------------------------------------------
(* The inductive invariant. *)

LEMMA Replies ==
  ASSUME TypeOK, NEW r \in Requests, NEW reply \in {"none", "ok", "not found", "error"}
  PROVE  Replied(r, reply) \in [Requests -> Request]
<1>1. [Idle EXCEPT !.pc = "done", !.reply = reply] \in Request
  BY NamesAssumption DEF Idle, Request
<1> QED BY <1>1 DEF Replied, TypeOK

LEMMA Ended ==
  ASSUME TypeOK, NEW r \in Requests, NEW committed \in BOOLEAN
  PROVE  StoreEnded(r, committed) \in [Requests -> Request]
BY Replies DEF StoreEnded

LEMMA ClosedTyped == NoTx \in Transaction /\ NoTx.batch = <<>>
<1>1. <<>> \in Seq(Locks) /\ <<>> \in Seq(Result)
  OBVIOUS
<1> QED BY <1>1 DEF NoTx, Transaction

LEMMA InitCatalogue == Init => CatalogueInv
<1> SUFFICES ASSUME Init PROVE CatalogueInv
  OBVIOUS
<1>1. NoFeed \in Feed /\ [known |-> FALSE, feed |-> None] \in Podcast /\ Idle \in Request
  BY NamesAssumption DEF NoFeed, Feed, Podcast, Idle, Request
<1>2. TypeOK
  BY <1>1, ClosedTyped DEF Init, TypeOK
<1>3. OneRowPerUrl
  BY DEF Init, OneRowPerUrl, NoFeed
<1>4. PodcastsOnly
  <2>1. DOMAIN <<>> = {}
    OBVIOUS
  <2> QED BY <2>1, ClosedTyped DEF Init, PodcastsOnly
<1>5. OnlyPodcastsKept
  BY NamesAssumption DEF Init, OnlyPodcastsKept
<1> QED BY <1>2, <1>3, <1>4, <1>5 DEF CatalogueInv

(* A transaction that opens, goes on or ends leaves the tables alone.      *)
LEMMA TransactionStep ==
  ASSUME CatalogueInv, NEW c \in Clients, NEW t \in Transaction,
         \A i \in DOMAIN t.batch : t.batch[i].id # NoId,
         tx' = [tx EXCEPT ![c] = t],
         req' \in [Requests -> Request], UNCHANGED <<feeds, podcasts>>
  PROVE  CatalogueInv'
<1>1. TypeOK'
  BY DEF CatalogueInv, TypeOK
<1>2. PodcastsOnly'
  BY DEF CatalogueInv, PodcastsOnly, TypeOK
<1>3. OneRowPerUrl' /\ OnlyPodcastsKept'
  BY DEF CatalogueInv, OneRowPerUrl, OnlyPodcastsKept
<1> QED BY <1>1, <1>2, <1>3 DEF CatalogueInv

LEMMA RequestOnlyStep ==
  ASSUME CatalogueInv, req' \in [Requests -> Request], UNCHANGED <<feeds, podcasts, tx>>
  PROVE  CatalogueInv'
BY DEF CatalogueInv, TypeOK, OneRowPerUrl, PodcastsOnly, OnlyPodcastsKept

LEMMA CommitStep ==
  ASSUME CatalogueInv, NEW r \in Requests, CommitUpsert(r)
  PROVE  CatalogueInv'
<1>1. Committed(r)
  BY CommitOfFeeds
<1>2. DOMAIN feeds' = Feeds /\ feeds' = [f \in Feeds |-> feeds'[f]]
  BY DEF CommitUpsert
<1>3. feeds' \in [Feeds -> Feed]
  BY <1>1, <1>2 DEF Committed
<1>4. podcasts' \in [Ids -> Podcast]
  <2>1. podcasts' = [p \in Ids |-> podcasts'[p]]
    BY DEF CommitUpsert
  <2>2. ASSUME NEW p \in Ids PROVE podcasts'[p] \in Podcast
    <3>1. podcasts[p] \in Podcast
      BY DEF CatalogueInv, TypeOK
    <3>2. CASE podcasts'[p] # podcasts[p]
      <4> DEFINE ids == FeedIds(FeedUrls(tx[r].batch))
      <4>a. /\ podcasts[p].feed \in Feeds \cup {None}
            /\ ids \in [FeedUrls(tx[r].batch) -> Feeds]
        BY <1>1, <3>1 DEF Committed, Podcast
      <4>b. \/ podcasts'[p].feed = podcasts[p].feed
            \/ \E u \in FeedUrls(tx[r].batch) : podcasts'[p].feed = ids[u]
        BY <3>2, LinkOfPodcast
      <4> HIDE DEF ids
      <4>1. podcasts'[p].feed \in Feeds \cup {None}
        BY <4>a, <4>b
      <4>2. podcasts'[p] = [known |-> TRUE, feed |-> podcasts'[p].feed]
        BY <3>2, LinkOfPodcast
      <4>3. \A x \in Feeds \cup {None} : [known |-> TRUE, feed |-> x] \in Podcast
        BY DEF Podcast
      <4> QED BY <4>1, <4>2, <4>3
    <3> QED BY <3>1, <3>2
  <2> QED BY <2>1, <2>2
<1>5. tx' \in [Clients -> Transaction] /\ req' \in [Requests -> Request]
  BY ClosedTyped, Ended DEF CommitUpsert, CatalogueInv, TypeOK
<1>6. OneRowPerUrl'
  <2> SUFFICES ASSUME NEW f \in Feeds, NEW g \in Feeds,
                      feeds'[f].url # None, feeds'[f].url = feeds'[g].url
               PROVE  f = g
    BY DEF OneRowPerUrl
  <2>1. CASE feeds[f].url # None /\ feeds[g].url # None
    BY <1>1, <2>1 DEF Committed, CatalogueInv, OneRowPerUrl
  <2>2. CASE feeds[f].url = None /\ feeds[g].url = None
    BY <1>1, <2>2 DEF Committed
  <2>3. CASE feeds[f].url = None /\ feeds[g].url # None
    BY <1>1, <2>3 DEF Committed, Owners
  <2>4. CASE feeds[f].url # None /\ feeds[g].url = None
    BY <1>1, <2>4 DEF Committed, Owners
  <2> QED BY <2>1, <2>2, <2>3, <2>4
<1>7. PodcastsOnly'
  <2>1. DOMAIN <<>> = {}
    OBVIOUS
  <2> QED BY <2>1, ClosedTyped DEF CommitUpsert, CatalogueInv, PodcastsOnly, TypeOK
<1>8. OnlyPodcastsKept'
  <2>1. podcasts'[NoId] = podcasts[NoId]
    <3>1. NoId \in Ids /\ \A i \in DOMAIN tx[r].batch : tx[r].batch[i].id # NoId
      BY NamesAssumption DEF CatalogueInv, PodcastsOnly, Clients
    <3> QED BY <3>1, LinkOfPodcast
  <2> QED BY <2>1 DEF CatalogueInv, OnlyPodcastsKept
<1> QED BY <1>3, <1>4, <1>5, <1>6, <1>7, <1>8 DEF CatalogueInv, TypeOK


LEMMA CatalogueStep ==
  ASSUME CatalogueInv, [Next]_vars
  PROVE  CatalogueInv'
<1>a. /\ feeds \in [Feeds -> Feed] /\ podcasts \in [Ids -> Podcast]
      /\ req \in [Requests -> Request] /\ tx \in [Clients -> Transaction]
      /\ \A c \in Clients : tx[c] \in Transaction
      /\ \A c \in Clients : \A i \in DOMAIN tx[c].batch : tx[c].batch[i].id # NoId
      /\ Requests \subseteq Clients /\ Crawlers \subseteq Clients
  BY DEF CatalogueInv, TypeOK, PodcastsOnly, Clients
<1>b. TypeOK /\ DOMAIN <<>> = {}
  BY DEF CatalogueInv
<1>1. ASSUME NEW r \in Requests, Search(r) PROVE CatalogueInv'
  <2>1. req' \in [Requests -> Request]
    BY <1>a, <1>1 DEF Search, Request
  <2> QED BY <1>1, <2>1, RequestOnlyStep DEF Search
<1>2. ASSUME NEW r \in Requests, NEW p \in Ids, Lookup(r, p) PROVE CatalogueInv'
  <2>1. [req EXCEPT ![r].pc = "ask", ![r].op = "lookup", ![r].id = p]
          \in [Requests -> Request]
    BY <1>a DEF Request
  <2>2. req' \in [Requests -> Request]
    BY <1>2, <2>1 DEF Lookup
  <2> QED BY <1>2, <2>2, RequestOnlyStep DEF Lookup
<1>3. ASSUME NEW r \in Requests, NEW p \in Ids, ResolveFeed(r, p) PROVE CatalogueInv'
  <2>1. [req EXCEPT ![r].pc = "ask", ![r].op = "episodes", ![r].id = p]
          \in [Requests -> Request]
    BY <1>a DEF Request
  <2>2. req' \in [Requests -> Request]
    BY <1>3, <1>b, <2>1, Replies DEF ResolveFeed
  <2> QED BY <1>3, <2>2, RequestOnlyStep DEF ResolveFeed
<1>4. ASSUME NEW r \in Requests, ItunesFails(r) PROVE CatalogueInv'
  <2>1. req' \in [Requests -> Request]
    BY <1>4, <1>b, Replies DEF ItunesFails
  <2> QED BY <1>4, <2>1, RequestOnlyStep DEF ItunesFails
<1>5. ASSUME NEW r \in Requests, Finish(r) PROVE CatalogueInv'
  <2>1. Idle \in Request
    BY NamesAssumption DEF Idle, Request
  <2>2. req' \in [Requests -> Request]
    BY <1>a, <1>5, <2>1 DEF Finish
  <2> QED BY <1>5, <2>2, RequestOnlyStep DEF Finish
<1>c. ASSUME NEW r \in Requests
      PROVE  [req EXCEPT ![r].pc = "store", ![r].id = NoId] \in [Requests -> Request]
  BY <1>a, NamesAssumption DEF Request
<1>6. ASSUME NEW r \in Requests, NEW results \in Answers, SearchAnswered(r, results)
      PROVE  CatalogueInv'
  <2> DEFINE batch == Podcasts(results)
  <2>1. batch \in Seq(Result) /\ \A i \in DOMAIN batch : batch[i].id # NoId
    BY AnswersAssumption, PodcastsAreListed DEF IsPodcast
  <2>2. CASE batch = <<>>
    <3>1. req' \in [Requests -> Request]
      BY <1>6, <1>b, <2>2, Replies DEF SearchAnswered
    <3> QED BY <1>6, <2>2, <3>1, RequestOnlyStep DEF SearchAnswered
  <2>3. CASE batch # <<>>
    <3>1. /\ tx' = [tx EXCEPT ![r] = Upsert(batch)]
          /\ req' \in [Requests -> Request] /\ UNCHANGED <<feeds, podcasts>>
      BY <1>6, <1>c, <2>3 DEF SearchAnswered
    <3> HIDE DEF batch
    <3>2. /\ Upsert(batch) \in Transaction
          /\ \A i \in DOMAIN Upsert(batch).batch : Upsert(batch).batch[i].id # NoId
      BY <2>1, UpsertTyped
    <3> QED BY <1>a, <3>1, <3>2, TransactionStep
  <2> QED BY <2>2, <2>3
<1>7. ASSUME NEW r \in Requests, NEW results \in Answers, Len(results) = 1,
             LookupAnswered(r, results[1])
      PROVE  CatalogueInv'
  <2> DEFINE batch == <<results[1]>>
  <2>1. results[1] \in Result
    BY <1>7, AnswersAssumption
  <2>2. CASE ~IsPodcast(results[1])
    <3>1. req' \in [Requests -> Request]
      BY <1>7, <1>b, <2>2, Replies DEF LookupAnswered
    <3> QED BY <1>7, <2>2, <3>1, RequestOnlyStep DEF LookupAnswered
  <2>3. CASE IsPodcast(results[1])
    <3>1. batch \in Seq(Result) /\ \A i \in DOMAIN batch : batch[i].id # NoId
      BY <2>1, <2>3 DEF IsPodcast
    <3>2. /\ tx' = [tx EXCEPT ![r] = Upsert(batch)]
          /\ req' \in [Requests -> Request] /\ UNCHANGED <<feeds, podcasts>>
      BY <1>7, <1>c, <2>3 DEF LookupAnswered
    <3> HIDE DEF batch
    <3>3. /\ Upsert(batch) \in Transaction
          /\ \A i \in DOMAIN Upsert(batch).batch : Upsert(batch).batch[i].id # NoId
      BY <3>1, UpsertTyped
    <3> QED BY <1>a, <3>2, <3>3, TransactionStep
  <2> QED BY <2>2, <2>3
<1>8. ASSUME NEW r \in Requests, CommitUpsert(r) PROVE CatalogueInv'
  BY <1>8, CommitStep
<1>9. ASSUME NEW c \in Clients, Acquire(c) PROVE CatalogueInv'
  <2> DEFINE t == [tx[c] EXCEPT !.held = @ \cup {Head(tx[c].wants)}, !.wants = Tail(@)]
  <2>1. tx[c].wants \in Seq(Locks) /\ tx[c].wants # <<>> /\ tx[c].held \in SUBSET Locks
    BY <1>a, <1>9 DEF Acquire, Transaction
  <2>2. Head(tx[c].wants) \in Locks /\ Tail(tx[c].wants) \in Seq(Locks)
    BY <2>1
  <2>3. t \in Transaction /\ t.batch = tx[c].batch
    BY <1>a, <2>1, <2>2 DEF Transaction
  <2>4. tx' = [tx EXCEPT ![c] = t] /\ UNCHANGED <<feeds, podcasts, req>>
    BY <1>a, <1>9 DEF Acquire, Transaction
  <2> HIDE DEF t
  <2>5. \A i \in DOMAIN t.batch : t.batch[i].id # NoId
    BY <1>a, <2>3
  <2> QED BY <1>a, <2>3, <2>4, <2>5, TransactionStep
<1>10. ASSUME NEW c \in Clients, Rollback(c) PROVE CatalogueInv'
  <2>1. req' \in [Requests -> Request]
    BY <1>a, <1>b, <1>10, Ended DEF Rollback
  <2>2. tx' = [tx EXCEPT ![c] = NoTx] /\ UNCHANGED <<feeds, podcasts>>
    BY <1>10 DEF Rollback
  <2>3. NoTx \in Transaction /\ \A i \in DOMAIN NoTx.batch : NoTx.batch[i].id # NoId
    BY <1>b, ClosedTyped
  <2> QED BY <2>1, <2>2, <2>3, TransactionStep
<1>11. ASSUME NEW c \in Crawlers, NEW f \in Feeds, CrawlParsed(c, f) PROVE CatalogueInv'
  <2>1. feeds' = [feeds EXCEPT ![f].crawled = TRUE] /\ UNCHANGED <<podcasts, req, tx>>
    BY <1>11 DEF CrawlParsed
  <2>2. /\ feeds' \in [Feeds -> Feed]
        /\ \A g \in Feeds : feeds'[g].url = feeds[g].url
    BY <1>a, <2>1 DEF Feed
  <2> QED
    BY <2>1, <2>2 DEF CatalogueInv, TypeOK, OneRowPerUrl, PodcastsOnly, OnlyPodcastsKept
<1>12. ASSUME NEW c \in Crawlers, NEW f \in Feeds, NEW u \in Urls, CrawlMoved(c, f, u)
       PROVE  CatalogueInv'
  <2> DEFINE w == <<<<"url", feeds[f].url>>, <<"url", u>>>>
             t == [NoTx EXCEPT !.open = TRUE, !.feed = f, !.to = u, !.wants = w]
  <2>1. tx' = [tx EXCEPT ![c] = t] /\ UNCHANGED <<feeds, podcasts, req>>
    BY <1>12 DEF CrawlMoved
  <2>2. <<"url", feeds[f].url>> \in Locks /\ <<"url", u>> \in Locks
    BY <1>a, <1>12 DEF CrawlMoved, Locks, Feed
  <2>3. w \in Seq(Locks)
    BY <2>2
  <2> HIDE DEF w
  <2>4. t \in Transaction /\ t.batch = <<>>
    BY <2>3, ClosedTyped DEF NoTx, Transaction
  <2> HIDE DEF t
  <2>5. \A i \in DOMAIN t.batch : t.batch[i].id # NoId
    BY <1>b, <2>4
  <2> QED BY <1>a, <2>1, <2>4, <2>5, TransactionStep
<1>13. ASSUME NEW c \in Crawlers, CommitMove(c) PROVE CatalogueInv'
  <2> DEFINE f == tx[c].feed
             u == tx[c].to
  <2>1. /\ feeds' = [feeds EXCEPT ![f].url = u] /\ tx' = [tx EXCEPT ![c] = NoTx]
        /\ Owners(u) = {} /\ UNCHANGED <<podcasts, req>>
    BY <1>13 DEF CommitMove
  <2>2. u \in Urls \cup {None}
    BY <1>a DEF Transaction
  <2> HIDE DEF f, u
  <2>3. feeds' \in [Feeds -> Feed]
    BY <1>a, <2>1, <2>2 DEF Feed
  <2>4. tx' \in [Clients -> Transaction] /\ PodcastsOnly'
    BY <1>a, <1>b, <2>1, ClosedTyped DEF PodcastsOnly
  <2>5. OneRowPerUrl'
    BY <1>a, <2>1 DEF CatalogueInv, OneRowPerUrl, Owners, Feed
  <2>6. TypeOK' /\ OnlyPodcastsKept'
    BY <1>a, <2>1, <2>3, <2>4 DEF TypeOK, CatalogueInv, OnlyPodcastsKept
  <2> QED BY <2>4, <2>5, <2>6 DEF CatalogueInv
<1>14. CASE UNCHANGED vars
  BY <1>14 DEF vars, CatalogueInv, TypeOK, OneRowPerUrl, PodcastsOnly, OnlyPodcastsKept
<1> QED
  BY <1>a, <1>1, <1>2, <1>3, <1>4, <1>5, <1>6, <1>7, <1>8, <1>9, <1>10, <1>11, <1>12, <1>13, <1>14
  DEF Next, RequestStep, CrawlStep, DeadlockVictim, Fail

(* Crawls and everything else a request does leave the podcasts alone.     *)
LEMMA OnlyCommitsLink ==
  ASSUME Next, ~ \E r \in Requests : CommitUpsert(r)
  PROVE  podcasts' = podcasts
BY DEF Next, RequestStep, CrawlStep, Search, Lookup, ResolveFeed, ItunesFails, SearchAnswered,
       LookupAnswered, Finish, Acquire, CrawlParsed, CrawlMoved, CommitMove, Rollback, Fail,
       DeadlockVictim

LEMMA CatalogueInvariant == Spec => []CatalogueInv
BY InitCatalogue, CatalogueStep, PTL DEF Spec

(* Tables, requests and transactions keep their types (store/podcasts.go,  *)
(* service/podcast/routes.go).                                             *)
THEOREM CatalogueTypeCorrect == Spec => []TypeOK
<1>1. CatalogueInv => TypeOK
  BY DEF CatalogueInv
<1> QED BY <1>1, CatalogueInvariant, PTL

(* isPodcast keeps artists and albums out: nothing is stored under the     *)
(* collectionId they share.                                                *)
THEOREM NothingUnderNoId == Spec => []OnlyPodcastsKept
<1>1. CatalogueInv => OnlyPodcastsKept
  BY DEF CatalogueInv
<1> QED BY <1>1, CatalogueInvariant, PTL

(* COALESCE in the upserts: the feed of a podcast is not forgotten,        *)
(* whatever iTunes leaves out and whichever batches overlap.               *)
THEOREM FeedsAreRemembered == Spec => FeedNeverForgotten
<1>1. CatalogueInv /\ [Next]_vars
        => [\A p \in Ids : podcasts[p].feed # None => podcasts'[p].feed # None]_vars
  <2> SUFFICES ASSUME CatalogueInv, Next, NEW p \in Ids, podcasts[p].feed # None
               PROVE  podcasts'[p].feed # None
    OBVIOUS
  <2>1. CASE \E r \in Requests : CommitUpsert(r)
    <3>1. PICK r \in Requests : CommitUpsert(r)
      BY <2>1
    <3>2. CASE podcasts'[p] = podcasts[p]
      BY <3>2
    <3>3. CASE podcasts'[p] # podcasts[p]
      <4> DEFINE ids == FeedIds(FeedUrls(tx[r].batch))
      <4>1. ids \in [FeedUrls(tx[r].batch) -> Feeds]
        BY <3>1, CommitOfFeeds DEF Committed
      <4>2. \/ podcasts'[p].feed = podcasts[p].feed
            \/ \E u \in FeedUrls(tx[r].batch) : podcasts'[p].feed = ids[u]
        BY <3>1, <3>3, LinkOfPodcast
      <4> HIDE DEF ids
      <4> QED BY <4>1, <4>2, NamesAssumption
    <3> QED BY <3>2, <3>3
  <2>2. CASE ~ \E r \in Requests : CommitUpsert(r)
    BY <2>2, OnlyCommitsLink
  <2> QED BY <2>1, <2>2
<1> QED BY <1>1, CatalogueInvariant, PTL DEF Spec, FeedNeverForgotten

(* A link that changes is one the committed batch names, between the       *)
(* podcast and the URL of the feed it then has (UpsertPodcasts,            *)
(* upsertFeedURLs).                                                        *)
THEOREM LinksAreAsTold == Spec => LinkedAsTold
<1> DEFINE Told(p) == \E r \in Requests : \E i \in DOMAIN tx[r].batch :
                        /\ tx[r].batch[i].id = p
                        /\ tx[r].batch[i].url = feeds'[podcasts'[p].feed].url
<1>1. CatalogueInv /\ [Next]_vars
        => [\A p \in Ids : podcasts'[p].feed # podcasts[p].feed => Told(p)]_vars
  <2> SUFFICES ASSUME CatalogueInv, Next, NEW p \in Ids,
                      podcasts'[p].feed # podcasts[p].feed
               PROVE  Told(p)
    OBVIOUS
  <2>1. PICK r \in Requests : CommitUpsert(r)
    BY OnlyCommitsLink
  <2>2. PICK i \in DOMAIN tx[r].batch :
          /\ tx[r].batch[i].id = p
          /\ tx[r].batch[i].url \in FeedUrls(tx[r].batch)
          /\ podcasts'[p].feed = FeedIds(FeedUrls(tx[r].batch))[tx[r].batch[i].url]
    BY <2>1, LinkOfPodcast
  <2>3. tx[r].batch[i].url = feeds'[podcasts'[p].feed].url
    BY <2>1, <2>2, CommitOfFeeds DEF Committed
  <2> QED BY <2>2, <2>3
<1> QED BY <1>1, CatalogueInvariant, PTL DEF Spec, LinkedAsTold

=============================================================================
