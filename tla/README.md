# A verification project for starhane-fm-server

starhane-fm-server is a podcast API over a catalogue of feeds in Postgres, and a
crawler that keeps the catalogue fresh. This directory models the parts where
the system can go wrong in ways a test hardly reaches: the feeds table used as a
work queue, crawls that run concurrently from stale snapshots of a row, the life
of a crawler process, the API's own crawls beside the crawler's, the transaction
that publishes a feed's episodes, the transactions that fill the catalogue, the
fetch with its rate limit and redirects, and how often all of it is done under
which settings.

Paths below are relative to the repository's root, `src/` being left out.

## 1. Inventory

| Component | State | Operations | Where |
|---|---|---|---|
| feed lifecycle | a feeds row: url, validators (etag, last_modified, body_hash), status, redirect, failures, next check | `apply`, `applyMove`, `applyFailure` | `crawl/crawler.go`, `store/store.go` |
| crawl queue | `next_check_at` of every row | `UpsertFeed`, `MarkFeedRequested`, `ClaimDueFeeds`, `ApplyCrawl` | `store/feeds.go` |
| crawler process | the batch being crawled, its goroutines, the ticker, the signal context | `Worker.Run`, `runBatch`, `CrawlFeed`, `run` | `crawl/worker.go`, `cmd/crawler/main.go` |
| episodes endpoint | requests in progress, the single flight per feed | `getEpisodes`, `activateFeed`, `crawlColdFeed` | `service/podcast/routes.go` |
| episode store | `crawl_seq`, episode rows with `last_crawl_seq` and `position` | `ApplyCrawl`, `upsertEpisodes`, `pruneEpisodes`, `EpisodesByFeed` | `store/feeds.go`, `store/episodes.go` |
| feed parser | none (pure) | documents to episodes and their identities | `crawl/parse.go` |
| podcast catalogue | podcasts linked to feeds | `getPodcasts`, `getPodcast`, `resolveFeed`, the two upsert transactions | `service/podcast/routes.go`, `store/podcasts.go` |
| schedule | the interval and the failures a row carries | intervals, backoff, jitter, clamping, `IsDead`, `Retry-After` | `crawl/schedule.go`, `crawl/crawler.go` |
| fetcher | per call: where a chain of redirects has come to, deadlines | `Fetch`, `CheckRedirect`, `readCapped` | `crawl/fetch.go` |
| host limiter | a token bucket per host | `Wait` | `crawl/ratelimit.go` |
| configuration | what a process was started with | `Load` | `config/config.go` |
| database pool | connections | `NewPool` | `db/db.go` |
| API process | signal context, grace period | start, `Shutdown` | `server/server.go`, `cmd/api/main.go` |
| migrations | schema version | up, down | `db/migrate.go`, `db/migrations/` |
| logging, mappers, response types | none that is read back | | `logging/`, `utils/`, `types/` |

**Interaction.** There is no message passing: API processes and crawler
processes meet in the database. A search creates podcasts and dormant feeds. A
request for a podcast's episodes wakes its feed; if nobody crawled it yet, the
request crawls it itself, within a budget, and requests of one process for the
same feed share that crawl. Crawler processes claim due rows (`FOR UPDATE SKIP
LOCKED`, next check pushed forward by a lease), crawl the batch concurrently and
write every outcome back with `ApplyCrawl`. Goroutines of one process share a
host limiter.

**What is hard.**

* A crawl takes a *snapshot* of the row (from the claim, or from the API's
  read), talks to the network for up to half a minute, and then writes *every*
  column back. There is no version check. The only thing that keeps two crawler
  processes from overwriting each other is the lease; nothing keeps the API's
  crawl from overlapping with a crawler's.
* Moves: a publisher may announce a new URL that another row owns, or that
  another row is just moving to; ownership is asked first and written later.
  Meanwhile iTunes may go on naming the old one.
* Processes are signalled or die between the claim and the write; a crawl whose
  context has ended can record neither its outcome nor its failure, unless the
  call that does so was already on its way.
* Two URLs that redirect to each other make a feed due at once over and over.
* Readers read episodes while a crawl's transaction is adding, restamping and
  deleting them, and that transaction may fail at any statement.
* Publishers reorder items, repeat guids, leave them out, truncate documents.
* Searches lock rows in the order of their results, and other searches and
  crawls in theirs.
* Requests wait on a leader that may give up; fetches wait on a bucket that
  others run into debt, and give up in front of others.
* Intervals feed on the interval before, across jitter, clamps, failures and new
  settings.

**What makes each component correct.** Queue: no feed is lost, none is crawled
twice at once, none is passed over for ever. Verdicts: what is written is what
one undisturbed crawl would have written; validators describe what is served.
Process: it does to the table only what the queue allows, and a crawl lost with
it costs one lease. Endpoint: every request is answered, and a feed that counts
as crawled has a document. Episode store: readers see one whole document; rows
are kept for as long as the grace says and no longer; an episode keeps its row.
Catalogue: links are what iTunes said, and no transaction waits for ever.
Fetcher: fetches begin at the configured rate, every fetch ends, half a body is
never a feed. Schedule: clamps, budget and throttles are kept over a feed's life.
Configuration: everything wrong is reported, what is accepted is usable.

## 2. Modules

| Module | Models | State in the model ↔ in the code |
|---|---|---|
| `CrawlOutcome` | the verdicts of `crawl/crawler.go` as functions of the row a crawl was handed | `Row` ↔ `store.Feed`, `Task` ↔ the locals of `CrawlFeed` |
| `AtomicCrawl` | the promise: a crawl is one indivisible step | `feeds`, `shown` |
| `FeedQueue` | the feeds table as queue, and crawler processes | `feeds`, `dueIn` ↔ the table; `task[c][f]` ↔ goroutines of `runBatch`; `shown[f]` ↔ the document stamped with `crawl_seq` |
| `WorkerLoop` | `Worker.Run` and `run`; extends `FeedQueue` | `line` ↔ `ORDER BY next_check_at`; `loop[w]` ↔ where `Run` is, its ticker's channel, the signal context, the grace timer; `running[w]` ↔ the errgroup's goroutines |
| `ColdCrawl` | `getEpisodes` with its cold crawls; extends `FeedQueue` | `req[r]` ↔ the locals of a handler; leaders among them ↔ `coldCrawls` |
| `EpisodeLists` | the promise to readers of one feed | `latest`, `list`: the document recorded last, the list its readers see |
| `FeedParse` | identities of a document's items | an item ↔ `feeds.Episode`; an identity ↔ `Guid`, `GuidSource` |
| `EpisodeStore` | `ApplyCrawl`'s transaction statement by statement, and the readers; extends `FeedParse` | `crawlSeq`, `rows` ↔ committed tables, `tx[c]` ↔ an open transaction, `born` ↔ the row's id |
| `Catalogue` | searches, lookups, `resolveFeed`, the upsert transactions and a crawl's move, with the rows they lock | `podcasts`, `feeds` ↔ committed tables, `tx[c]` ↔ an open transaction, `held` ↔ its row locks |
| `HostLimiter` | a token bucket per host | `tokens[h]` ↔ a `rate.Limiter` |
| `Fetch` | `Fetcher.Fetch` by goroutines that share the limiter; extends `HostLimiter` | `fetch[g]` ↔ the locals of a call and of the HTTP client |
| `Schedule` | `crawl/schedule.go`, `recentDates`, `parseRetryAfter` | none |
| `Config` | `config.Load` | none |
| `Pacing` | one feed crawled under one process after another; extends `Config`, `Schedule` | `config` ↔ `config.Config`, `feed` ↔ `check_interval`, `consecutive_failures` and whether it is dead |
| `Ordering` | what `slices.Sort`, a filter over a slice and a `map` used to drop repeats leave, by rank: `InOrder`, `Picked` | none |
| `OrderingProofs` | lemmas about them: nothing is lost, added or repeated, and order decides | |
| `FeedQueueProofs` | theorems about `FeedQueue` | |
| `ColdCrawlProofs` | theorems about `ColdCrawl`, on top of the lemmas about the queue's steps | |
| `WorkerLoopProofs`, `EpisodeStoreProofs`, `CatalogueProofs`, `FetchProofs`, `PacingProofs` | theorems about those modules | |
| `MC...` | instances for TLC | |

Three refinements tie them together: `FeedQueue` implements `AtomicCrawl`
(`CrawlsAreAtomic`), `WorkerLoop` implements `FeedQueue` (`QueueKept`), and
`EpisodeStore` implements `EpisodeLists` (`ReadersSeeWholeDocuments`).

Definitions under a comment that begins with *Mistake* are not part of the
model: each is a mapped definition as a plausible bug would have it, and
PROJECT.json says which property that bug breaks.

### How the code maps to actions

* `UpsertFeed`: only the creation of a row is a step; for a known URL the upsert
  touches `updated_at`, which nothing reads.
* `MarkFeedRequested`: a step only for a dormant feed. `last_requested_at` and
  `activated_at` have no reader that changes a crawl and are left out, and with
  them the throttle.
* `ClaimDueFeeds`: any due feeds that fit the batch. A row may be passed over
  because an `ApplyCrawl`, a `MarkFeedRequested` or an upsert of podcasts has it
  locked (SKIP LOCKED), or because of the order and the limit. `WorkerLoop`
  keeps these apart: `ClaimSkipping(w, skipped)` takes the first of the line
  (`ORDER BY next_check_at`) that are not skipped.
* `Fetch` (of the queue): the publisher answers and `apply` decides. A publisher
  may serve any document at any time, move, disappear, throttle or fail. It
  answers conditional requests honestly: "not modified" (or the same hash)
  exactly when the validators describe the document it serves.
* `CheckTarget`: `FeedByURL` in `applyMove`, which may also fail, in which case
  the move is not made.
* `Record`, `Abandon`: `ApplyCrawl` commits, or does not. The UNIQUE constraint
  on `url` and the CHECK on `redirected_to_feed_id` are guards of `Record`; a
  crawl they refuse can only be abandoned.
* `Crash`: a crawler process dies or is stopped.
* `WorkerLoop!Start` ... `Drain`, `Wake`: `Run`'s loop. A claim that finds
  nothing, or fails, waits for a tick; a batch is followed by the next claim.
  `Go` hands a claimed feed to a goroutine while `SetLimit` allows. `Signal`
  ends the context. A crawl that had a call on its way then (`calls`) may still
  have its answer, or its commit; every later call is `CutShort`: the request,
  the ownership check or the transaction fails. `Leave`: `Run` sees the context
  is over. `GraceOver`: `main` returns with crawls in flight. `Kill`: the
  process goes without a word.
* `Resolve`, `Mark`, `Lead`/`Join`,
  `LeaderFetch`/`LeaderRecord`/`LeaderGivesUp`, `Read`: `getEpisodes` in order.
  Activation is best effort. A leader may give up anywhere (its budget, its
  client, a database error). `Read` is `EpisodesByFeed` or its error, which is
  answered with a 500. A 200 lists a document, which may list nothing, or, as
  the reply `unfilled`, nothing because no document was ever parsed.
* `EpisodeStore!Begin` ... `Commit`/`Rollback`: each SQL statement of
  `ApplyCrawl` is a step. The `UPDATE feeds` takes the row lock that the
  transaction keeps to its end; before the commit nothing is visible outside.
* `Catalogue!Search`, `Lookup`, `ResolveFeed`: the three handlers up to the
  answer of iTunes. `SearchAnswered`, `LookupAnswered`: the answer, of which
  what `isPodcast` accepts is stored. `Acquire`: a statement of the transaction
  gets its row, or its key in the unique index, or waits. `CommitUpsert`,
  `Rollback`, `DeadlockVictim`: how it ends. `CrawlMoved`, `CommitMove`: the
  crawl that changes a feed's URL, the other writer of those rows.
* `Fetch!Wait`: the limiter refuses a context that has ended (a deadline of 0),
  whatever tokens there are, and a wait the context would not outlast; else it
  reserves. `Cancelled`: the context ends in the wait, which gives the token
  back only if nobody reserved after it. `Send`, `Follow`, `Moved`, `Answered`,
  `Body`, `Expire`: the request, a temporary and a permanent redirect, the other
  statuses, a body of a size, and the timeout. `sent` is the history of the
  fetches the limiter let through; the further requests of a redirect chain pass
  no limiter and are not in it.
* `Pacing!Start`: a process is started, by an environment that is refused or
  accepted. `Changed`, `NotModified`, `Moved`, `Gone`, `RateLimited`, `Failed`:
  what one crawl makes of the interval, the failures and the next check.
  `Unmoved`: a move that is not made, as it names the same URL or the ownership
  check fails, leaves all three as they were.

### Abstractions

* **Time** is kept as time *left* (`dueIn`, `left`, `wait`, `grace`), brought
  down by `Tick` and kept at 0 once it has passed. How long a feed has been
  overdue is therefore not known; `WorkerLoop` keeps the order in which feeds
  came due instead. In `Fetch` the unit is what one token takes.
* **Validators** are one value, `<<url, document>>`: every path of `apply` sets
  or clears etag, last_modified and body_hash together.
* **Intervals**: in the queue `Schedule` yields any delay of the set
  `Intervals`, a `Retry-After` any of `RetryAfters`; `Pacing` computes them.
  Jitter is one of its two extremes or none.
* **failures** counts without end in the code. In the queue `MaxFailures`, the
  only value it is compared with there, stands for itself and all above it.
* **Episodes** in `FeedQueue` and `ColdCrawl` are the document they came from,
  whatever whatever it lists. Their rows are `EpisodeStore`'s
  subject, where documents may be empty and may repeat an identity.
* **Items** are a guid, an enclosure URL and the rest; a hash is injective and
  never what a publisher would use as a guid.
* **Catalogue** writes at the commit: what a statement read from a row it locked
  does not change before. Postgres queues waiters and ends one transaction of
  every cycle of waiting ones.
* **Settings** are numbers in the unit of their default; an environment has at
  most two of its own in the runs, any number in the proofs.
* `BatchTime` and `RequestTime` bound how long a batch and a synchronous crawl
  take. The code does not enforce either against the lease: with the defaults a
  batch of 20 on 8 workers takes three rounds of a 30 s timeout against a lease
  of 15 min, and a synchronous crawl at most 20 s, but all of these are separate
  environment variables, and the wait for the host limiter comes on top.

## 3. What is checked

| Run | Instance | Shows |
|---|---|---|
| `workers_moves` | 2 processes, 2 feeds, 2 URLs, 2 documents of which one announces a move, batch of 2, lease 2 > batch time 1 | no double crawl, crawls are atomic, validators describe what is shown, stubs point at another, existing feed, a feed that shows something counts as crawled, a feed whose crawl is lost is due again within a lease |
| `worker_loop` | 1 process, 2 feeds, 3 URLs that redirect onto each other, batch of 1, one slot, one stop or kill | the processes implement the queue; a feed in the rotation is crawled again and again |
| `cold_crawl` | 2 requests of one API process and a crawler on 1 feed, no lease margin | a feed that counts as crawled has a document; nobody puts a woken feed to sleep; every request is answered, also behind a leader that fails |
| `cold_prompt` | 2 requests of 2 API processes and a crawler, lease 2 > batch 1, interval 3 > twice a batch of 1 and twice a request of 1 | validators describe what is shown although cold crawls take no lease |
| `episodes` | 2 crawlers writing one feed, 6 documents (empty, growing, rehosted, with an item nothing identifies, repeating a guid, repeating an item), 4 parses, grace 1 | readers see whole documents; exactly the rows of the last Grace + 1 parses are kept; an episode keeps its row; no item of a document is lost |
| `fetch` | 2 fetches, 2 hosts, burst 1, a context that has ended, a deadline of 1 or none, chains of up to 3 requests, bodies at and over the cap | no host has more fetches begun than its bucket gives out, half a body is never a feed, every fetch ends |
| `schedule` | every environment with at most 2 of 8 settings set, to values that matter; documents of up to 3 items dated in any order and some of 4 and 5; streaks of 3 failures | intervals keep within the clamps, throttles are honoured, the cadence is the median, a feed dies when, and only when, failures in a row have used up its budget; everything wrong with an environment is reported and what is accepted is usable |
| `catalogue` | 2 requests and a crawl that moves a feed, 2 feeds, 2 URLs, 3 ids of which one is 0, 6 answers of iTunes | every request is answered whatever rows it locks in whatever order; links are what iTunes said and are not forgotten; no artist is stored |
| `cold_forgets`, `episodes_truncated`, `fetch_moves`, `catalogue_relinked` | the same modules | what the code does not keep (section 5) |

**Bounds.** Two of everything is what the hazards need: an overwrite takes two
crawls of one feed, a move a feed to move and a feed in its way, a cycle of
waits two transactions, starvation a feed that is always due and one that waits.
The delays are the smallest that separate the orders that matter: a lease longer
than, or as short as, a batch; intervals shorter or longer than two crawls.

* `worker_loop` needs a third URL, so that a feed can move on and on, and a
  batch of *one*, since only then can a feed that is always due keep another
  from its turn. One slot for a batch of one shows that a slot is given back,
  and nothing more about the limit. `MaxStops` bounds the stops so that liveness
  is not met by restarting. That two processes keep apart is `workers_moves` and
  the theorem `ProcessesKeepApart`.
* `MaxParses` = 4 lets a whole grace go by, and a row be pruned, reborn and
  pruned again. The five documents with items make an identity change from guid
  to enclosure and back.
* `Window` = 2 and `MaxDebt` = 2 let a bucket run into a debt that two fetches
  share, and a wait be given up in front of another. The code follows chains of
  up to 5 requests, the instance of 3: the count is compared with the bound and
  nothing else.
* `schedule` has `Int32` = `Int64` = 128 and `Second` = 3, so that both the
  narrowing of a setting and a `Retry-After` overflow; `CadenceSample` is 4 (6
  in the code) so that documents are both shorter and longer than the sample.
  The 8 settings tried are those that are narrowed, compared with another or
  used by the schedule, and one of each kind of the rest; two at a time are what
  a comparison needs.
* `MaxFailures` is 1 in the queue, or 0 (never dead). Workers, feeds, crawlers
  and requests that an instance does not tell apart are declared symmetric in
  the runs without liveness properties.

**Fairness.** Each is a promise of the code or of Postgres.

* `LoopFairSpec`: time passes; a process takes its next step (`Run` polls for
  ever and is restarted when it is down); a goroutine is started when there is a
  slot; a crawl ends (a fetch has a timeout, and `ApplyCrawl` returns); and a
  claim, which may fail or find rows locked, does not do so for ever (strong
  fairness of `ClaimSkipping(w, {})`; a row is locked for a moment only).
* `ColdFairSpec`: a request takes its steps. A leader's flight ends because the
  leader does. Crawlers owe the requests nothing.
* `Fetch!FairSpec`: clocks run, timers fire, and a goroutine whose wait is over
  sends. No publisher is obliged to answer. `Timeout` is positive: `Load` also
  accepts a `CRAWLER_HTTP_TIMEOUT` of 0, which means none, and then a fetch
  without a deadline may not end.
* `Catalogue!FairSpec`: iTunes answers or times out, a statement that has its
  lock returns, and Postgres queues those who wait for a row (strong fairness of
  `Acquire`) and ends one transaction of a cycle.

Nobody is obliged to search, to ask, to publish, to signal or to crash.

**What is not about time.** `cold_crawl` has a lease no longer than a batch, so
that also two crawler snapshots of one row may overlap: what it shows needs no
assumption on how prompt anybody is. `workers_moves` and
`cold_prompt` do assume that a batch ends within its lease; a batch that does
not is not in them.

## 4. What is proved

For all feeds, URLs, documents, crawlers, delays and batch sizes, of the
**queue** (`FeedQueueProofs`):

* `TypeCorrect`: `Spec => []TypeOK`. `TypeOK` is not inductive; `TypeInv` adds
  that only stored rows, which have a URL, are crawled, and that a crawl checking
  a move knows where to.
* `LeaseKeepsOthersAway` and `LossesAreBounded`: if `BatchTime < Lease`, `Spec =>
  []NoDoubleCrawl` and `Spec => []LostCrawlsCostALease`. The
  invariant, `LeaseInv`, ties the two clocks together: while `c` crawls `f`, `f`
  is in the rotation (so that neither `UpsertFeed` nor `MarkFeedRequested` can
  make it due) and `dueIn[f] > left[c]`. A tick is only possible while
  `left[c] > 0`, so both go down and the order is kept; a claim only takes feeds with
  `dueIn = 0`, so never one that is being crawled.
* `CrawlsActAtomically`: on the same condition `Spec => CrawlsAreAtomic`. The
  invariant, `ReadingInv`, says that every crawl in progress is as far as an
  atomic crawl of the row *as it is stored now* could have come: with the row in
  hand, with a verdict that waits for its move, or with a final verdict. Only a
  feed's crawler writes its row (`LeaseInv`), and it ends by doing so. Every
  `Record` is then `AtomicCrawl`'s `Crawl`, every other step a stutter, `Seed`
  or `Wake`.
* `ValidatorsStayTrue` and `CrawledStaysCrawled`: on the same condition `Spec =>
  []ValidatorsDescribeShown` and `Spec => []ShownIsCrawled`, from what a single
  verdict does to a row (`VerdictSound`).

Of the **crawler processes** (`WorkerLoopProofs`), for any number of them, any
worker limit, grace period and number of stops:

* `LoopImplementsQueue`: `LoopSpec => QueueKept`. Every step of a process is a
  step of the queue or leaves its tables alone; a batch that has drained, a
  signal and a poll that finds nothing are such stutters, a kill and the end of
  the grace are the queue's `Crash`, a crawl that is cut short its failed
  `Fetch`, its move not made or its `Abandon`.
* `ProcessesKeepApart`: hence, if `BatchTime < Lease`, `LoopSpec =>
  []NoDoubleCrawl`, by the theorem about the queue.
* `LoopTypeCorrect`: `LoopSpec => []LoopTypeOK`. That the line holds the due
  feeds, each once (`LineInv`), is shown of `LineUp`, the one action that
  rewrites it: who stays keeps its place, who is new is appended, and nobody is
  both. `PoolInv` says that a process has a slot only for crawls that go on, and
  never more than `Slots`; a crawl gives its slot back in the step that ends it.

Of the **episodes endpoint** (`ColdCrawlProofs`):

* `ColdTypeCorrect`: `ColdSpec => []ColdTypeOK`, from `ColdTypeInv`, which adds
  that a request about to crawl has a stored row in hand.
* `MatchingValidators`, `StubsAreSound` and `StaysAwake`: `ValidatorsMatchUrl`,
  `StubsPointElsewhere` and `NeverAsleepAgain` of `ColdSpec`, with no condition
  on time at all. Crawls overlap here and write stale rows back, so nothing can
  be said of a row by comparing it with the table. The invariant, `RowsInv`,
  calls a row good if its validators come with its URL and its redirect leads to
  a feed that is there, and says that *every* row is good: those of the table,
  those in the hands of crawls and those requests hold. Verdicts make good rows
  of good ones, a crawl past its fetch has an awake row, and `Onward` (feeds
  never go away nor back to sleep) keeps rows good as they age.
* `CrawledFeedsAreFilled`: `ColdSpec => []CrawledIsNotUnfilled`, again with no
  condition on time. `WarmInv` calls a row warm if it tells of a parsed document,
  by its last success or by its validators, and says that where a warm row is (in
  the table, in a crawl, with a request) there is a document, or the crawl that
  holds it is about to record one. Validators count because a "not modified"
  turns them into a success. Documents are replaced and never taken away
  (`ShownStays`); one that lists nothing is a document too.
* `PromptnessSuffices`: if `BatchTime < Lease` and every interval is longer than
  `2 * BatchTime` and `2 * RequestTime` (`Unhurried`), `ColdSpec =>
  []ValidatorsDescribeShown`. `PromptInv` says that a row with validators comes
  due only after everybody who has begun with its feed is done, so that it is
  handed out to one crawler alone, whose row then *is* the table's. What makes it
  inductive: a request only crawls with a row without validators; whoever writes
  validators has decided the next check at most one crawl ago, and nobody who
  has begun by then takes longer than another one. TLC finds a violation at an
  interval of exactly `2 * BatchTime`, so the bound is the right one.

Of the **episode store** (`EpisodeStoreProofs`), for any documents, grace,
number of crawlers and rollbacks:

* `EpisodeTypeCorrect`, `GraceIsKept` and `NothingOutstaysGrace`: `TypeOK`,
  `RecentSurvives` and `OldIsPruned`. `RecentSurvives` is about committed rows,
  but what a commit publishes was written statements before, against tables that
  must not have changed since. The invariant, `SeenInv`, says of an open
  transaction that it is alone past its `UPDATE feeds` (the row lock), that its
  view is the committed state with what its statements have done so far, and
  relates each row's `last_crawl_seq` to the parse that last listed it.
* `RowsAreKept` and `ReadersAreServedWhole`: `KeepsItsRow` and the refinement
  `ReadersSeeWholeDocuments`; `NothingIsSwallowed`: `EveryItemServed`.
  `HistoryInv` says that the committed rows of the latest parse are, by position,
  that parse's items with repeats of an identity left out, and that an open
  transaction's are as far as its statements have come; a commit is then
  `EpisodeLists`' only step, everything else a stutter. It rests on
  `OrderingProofs`: reading rows by `position` gives the list back.

Of the **catalogue** (`CatalogueProofs`), for any requests, ids, URLs and answers
of iTunes:

* `CatalogueTypeCorrect`, `NothingUnderNoId`: `TypeOK` and `OnlyPodcastsKept`.
  That an id is left for every URL of a batch is a counting argument (one row per
  URL, no more URLs than ids). `CatalogueInv` adds that no two rows share a URL
  and that nothing but podcasts is about to be stored.
* `FeedsAreRemembered` and `LinksAreAsTold`: `FeedNeverForgotten` and
  `LinkedAsTold`. Only a commit links; the feeds it links to are the rows of the
  URLs its batch names, those that were there and those it makes, and a URL
  decides its row by `OneRowPerUrl`.

Of the **fetcher** (`FetchProofs`), for any hosts, goroutines, caps and
deadlines:

* `FetchTypeCorrect` and `NeverHalfAFeed`: `TypeOK` and `WholeBodyOrFailure`.
  `FetchInv` adds to these that an idle call is blank and that a busy one has a
  URL.
* `RateIsKept`: `LimitKept`, which is about the fetches the limiter lets through
  and not about the requests of their redirects. `RateInv` has two parts, for each host. The waits
  still to come are different and none is longer than the bucket's debt, so a
  token goes back only for the last reservation and no two requests come due at
  once because of a debt. And for every window of `a` units, what was sent in
  it, what is due and what could be had at once are together at most `Burst +
  a`. A tick adds at most one: either a token (there was no debt) or one wait
  that ends (there was).

Of the **settings and the schedule** (`PacingProofs`), for any environments,
including any number of settings of their own, documents and widths of the
integers:

* `ReportIsComplete`, `SettingsAreUsable`, `FailureBudget`:
  `NothingLeftToReport`, `RunsWithUsableSettings` and `DiesOfItsFailures`.
  `PaceInv` is that what is reported is complete, what runs is usable, and that
  the row's failures are the crawls that failed since the last one that found the
  feed, here or moved. `DiesOfItsFailures` goes both ways: of a crawl that
  fails, is throttled or whose move is not made, a feed dies if, and only if, it
  was a real failure and the budget is used up.
* `PacingTypeCorrect`, `IntervalsStayInBounds`, `ThrottlingIsHonoured`: `TypeOK`,
  `PacedWithinBounds` and `ThrottleHonoured`. `PacedInv` is these three on top of
  `PaceInv`, with the dates a crawl has seen. A process with usable settings
  makes an interval inside its clamps of any interval, whichever process left
  it; only the jitter leads out of them, and not far.
* `CadenceMeasured`: `CadenceIsMedian`, for samples of any length: at most half
  of the gaps are shorter than the cadence and at most half longer, and one far
  gap does not set it once three dates are recent. The sample
  and its gaps are sorted by rank (`InOrder`), which `OrderingProofs` shows to
  be a permutation in order.

The assumptions used are the named `ASSUME`s of the modules and, where said,
`BatchTime < Lease` and `Unhurried`. Few of the `ASSUME`s are more than a
typing: the feeds of the table are finite (`TableAssumption`, without which the
line would not be one), and there is an id for every URL (`FeedsAssumption`; ids
are 64 bits wide).

**Only proved.** `ValidatorsMatchUrl` of `ColdSpec` (`MatchingValidators`) is in
no run. Without the lease it takes moves between two URLs beside overlapping
crawls to be of interest, which together with the liveness `cold_crawl` checks
is too large for TLC; under the lease `ValidatorsDescribeShown` implies it.

**Only model-checked.** Every invariant and every action property that a passing
run checks is proved, and the three refinements are. What is left to TLC is
liveness under fairness, which is out of the provers' reach: `NobodyStranded`,
`EveryRequestAnswered` of `ColdCrawl` and of `Catalogue`, and `EveryFetchEnds`.
That a code path sorts, filters or drops repeats the way `Ordering` says is a
matter of definition: it says of every element where it ends up, instead of
going through the slice as the code does, since what a recursive definition
computes for every input could not be proved. The properties of section 5 do not
hold; TLC shows how.

## 5. What the code does not keep

Each of the first four has a run.

* `cold_forgets`: the API fills a feed while a crawler, which claimed it the
  moment it was woken, is fetching it too. If the crawler's fetch fails, it
  writes its snapshot, the never-crawled row, over the success. The feed counts
  as never crawled and the next reader goes upstream. `routes.go:63` calls
  duplicate crawls harmless.
* `episodes_truncated`: parses without items advance `crawl_seq` without
  pruning, so they use up the grace of everything and one truncated document
  after them deletes the rest.
* `fetch_moves`: a permanent redirect that is reached through a temporary one,
  and whose `Location` is relative, is resolved against the feed's URL instead
  of the URL that redirected: the feed is moved to an address nobody announced.
* `catalogue_relinked`: once a feed has moved, iTunes still names its old URL,
  which no row owns any more. The next answer makes a new, dormant feed of it
  and links the podcast to that, so its readers start from nothing.

Met while modelling, and not the subject of a run:

* The signal ends the context of every crawl in flight (worker.go:84), so that a
  crawl fails at its next call, its `ApplyCrawl` at the latest, however much of
  the grace is left; main.go:23 calls the grace "how long in-flight crawls get to
  finish after a signal". Only a call that is already on its way can still
  succeed (`Interrupted`). What is lost is one lease.
* Only the first request of a fetch waits for the limiter (fetch.go:98-111). A
  host that is redirected to, be it the same one, has more requests than
  README.md:153 says ("Requests per second per host").
* Whether to crawl is decided on the row read at the start of a request, and
  single flight only joins crawls that are running: a request that read the
  never-crawled row and arrives after another's crawl has landed crawls the feed
  again, with the old row. routes.go:201 says a feed is filled in "once".
* A 429 sets the feed's next check but does not count as a crawl, and the API
  does not look at the next check: a never-crawled feed that was throttled is
  fetched again by the next request (routes.go:203).
* With an interval no longer than two crawls, one of which may be a batch that
  lasts almost its lease, overlapping crawls leave the hash of one document
  beside the episodes of another, and the publisher's later "not modified" keeps
  the wrong list up. With longer ones that cannot happen (`PromptnessSuffices`),
  and the defaults are longer (1 h against 15 min and 20 s), but nothing relates
  these settings.
* A first crawl that ends in a move answers 200 with no episodes.
* A podcast whose feed has become a redirect stub is served from the stub, which
  nobody crawls any more; `redirected_to_feed_id` is never followed.
* An episode is deleted by the (Grace + 1)th crawl that misses it; README.md:213
  says the Grace-th.
* The median of *two* gaps is their mean, which one ancient entry does skew
  (README.md:219).
* `Load` checks the sign of no duration (a poll interval of 0 panics the
  ticker), lets NaN pass as a rate and narrows the pool's size to 32 bits after
  comparing it.
* A `Retry-After` of more seconds than a `Duration` holds wraps; one that fits
  parks the feed for as long as it says, no clamp applies.
* The wait for the limiter is not part of the HTTP timeout, so a batch of feeds
  of one slow host may outlast its lease.
* A body cap of the largest int64 makes `limit+1` wrap.

## 6. Not modelled

* **API server lifecycle**: routing, request ids and `http.Server.Shutdown`.
  What requests share is in `ColdCrawl` (the single flights) and `Fetch` (the
  limiter); an API process that dies is a leader that gives up and requests that
  go away.
* **Migrations**: a wrapper around golang-migrate that is run by hand. The
  schema it leaves, its UNIQUE and CHECK constraints included, is where
  `FeedQueue`, `EpisodeStore` and `Catalogue` start from.
* **Database pool**: pgx's; only that a pool with no connection cannot be had is
  in `Pacing!Start`.
* **Decoding** of XML, dates, numbers and durations in the parser: a document
  that cannot be parsed is a failed crawl, and of an item only what makes its
  identity and its date is kept.
* **Logging, mappers, response types**: stateless, and nothing reads them back.
* **The HTTP client, `x/time/rate`, singleflight, errgroup and Postgres**: taken
  at their documented word, and modelled as far as the code uses them.

Worth adding next: a larger `worker_loop` (two slots, a batch of two); what an
up, down, up round trip of the migrations does to statuses; and the settings
that relate interval, lease and timeouts, as a composition of `Pacing` with the
queue.
