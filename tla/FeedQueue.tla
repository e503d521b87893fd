------------------------------ MODULE FeedQueue ------------------------------
(***************************************************************************)
(* The feeds table as the crawl queue, and the crawler processes that work *)
(* it off (store/feeds.go, crawl/worker.go, crawl/crawler.go).             *)
(*                                                                         *)
(* A worker process claims a batch of due feeds, which pushes their next   *)
(* check forward by the lease, and crawls them concurrently, each from the *)
(* snapshot of the row the claim returned.  A crawl is three steps that    *)
(* the other processes interleave with: the publisher's answer (Fetch),    *)
(* for a move the FeedByURL query (CheckTarget), and the ApplyCrawl        *)
(* transaction that writes the WHOLE row back (Record), or fails to        *)
(* (Abandon).  A process that dies loses its tasks and nothing else.       *)
(*                                                                         *)
(* Time is kept as time left: Tick brings every deadline one unit closer,  *)
(* and a deadline that has passed stays at 0.  BatchTime bounds how long a *)
(* process may hold a batch: the code sets no such bound itself, it        *)
(* follows from the HTTP timeout, the batch size and the worker count, and *)
(* the lease only does its job when it is longer.                          *)
(***************************************************************************)
EXTENDS CrawlOutcome, FiniteSets

CONSTANTS
  Crawlers,     \* everybody who runs crawls
  Workers,      \* the crawler processes among them
  BatchSize,    \* CRAWLER_BATCH_SIZE
  Lease,        \* CRAWLER_LEASE_DURATION
  BatchTime     \* the longest a crawler stays with what it has begun

ASSUME WorkersAssumption == Workers \subseteq Crawlers
ASSUME TimesAssumption ==
  BatchSize \in Nat \ {0} /\ Lease \in Nat \ {0} /\ BatchTime \in Nat \ {0}

VARIABLES
  feeds,      \* the feeds table: a row per feed id
  dueIn,      \* time left until next_check_at
  shown,      \* the document whose episodes carry the feed's crawl_seq
  task,       \* task[c][f]: c's crawl of f
  left        \* left[c]: time c has left for what it has begun

queueVars == <<feeds, dueIn, shown, task, left>>

TypeOK ==
  /\ feeds \in [Feeds -> Row]
  /\ \A f \in Feeds : feeds[f].status # "absent" => feeds[f].url \in Urls
  /\ dueIn \in [Feeds -> Nat]
  /\ shown \in [Feeds -> Docs \cup {None}]
  /\ task \in [Crawlers -> [Feeds -> Task]]
  /\ left \in [Crawlers -> Nat]

Init ==
  /\ feeds = [f \in Feeds |-> NoRow]
  /\ dueIn = [f \in Feeds |-> 0]
  /\ shown = [f \in Feeds |-> None]
  /\ task = [c \in Crawlers |-> [f \in Feeds |-> NoTask]]
  /\ left = [c \in Crawlers |-> 0]

-----------------------------------------------------------------------------
Exists(f) == feeds[f].status # "absent"

(* The feeds that own a URL; UNIQUE (url) keeps this to one at most. *)
Owners(u) == {f \in Feeds : Exists(f) /\ feeds[f].url = u}

Crawling(c, f) == task[c][f].phase # "idle"

Busy(c) == \E f \in Feeds : Crawling(c, f)

InRotation(f) == feeds[f].status \in {"active", "dead"}

(* Mistake: a feed is claimed whatever its status. *)
DueAnyStatus == {f \in Feeds : Exists(f) /\ dueIn[f] = 0}

Due == {f \in Feeds : InRotation(f) /\ dueIn[f] = 0}

-----------------------------------------------------------------------------
(* A search or a lookup stores a podcast whose feed URL is new: a dormant  *)
(* row.  For a URL already stored only updated_at changes.                 *)
UpsertFeed(f, u) ==
  /\ ~Exists(f)
  /\ Owners(u) = {}
  /\ feeds' = [feeds EXCEPT ![f] = NewRow(u)]
  /\ dueIn' = [dueIn EXCEPT ![f] = 0]
  /\ UNCHANGED <<shown, task, left>>

(* Mistake: every request makes the feed due. *)
MarkAlwaysDue(f) ==
  /\ Exists(f)
  /\ feeds' = [feeds EXCEPT ![f].status = IF @ = "dormant" THEN "active" ELSE @]
  /\ dueIn' = [dueIn EXCEPT ![f] = 0]
  /\ UNCHANGED <<shown, task, left>>

(* Somebody asked for the feed's episodes, which wakes it.  For a feed     *)
(* that is awake only the request time changes, which nothing reads back.  *)
MarkFeedRequested(f) ==
  /\ feeds[f].status = "dormant"
  /\ feeds' = [feeds EXCEPT ![f].status = "active"]
  /\ dueIn' = [dueIn EXCEPT ![f] = 0]
  /\ UNCHANGED <<shown, task, left>>

(* Mistake: the claim leaves next_check_at alone. *)
ClaimWithoutLease(w) ==
  /\ ~Busy(w)
  /\ Due # {}
  /\ task' = [task EXCEPT ![w] =
                [f \in Feeds |-> IF f \in Due THEN Begin(feeds[f], dueIn[f])
                                              ELSE task[w][f]]]
  /\ left' = [left EXCEPT ![w] = BatchTime]
  /\ UNCHANGED <<feeds, dueIn, shown>>

(* The claim: due feeds, BatchSize at most.  Rows that some transaction    *)
(* has locked are skipped (ApplyCrawl, MarkFeedRequested and the upsert of *)
(* a search all lock theirs, for a moment), and how long a feed has been   *)
(* overdue is not kept, so any due feed may be passed over.                *)
ClaimDueFeeds(w) ==
  /\ ~Busy(w)
  /\ \E batch \in SUBSET Due :
       /\ batch # {} /\ Cardinality(batch) <= BatchSize
       /\ dueIn' = [f \in Feeds |-> IF f \in batch THEN Lease ELSE dueIn[f]]
       /\ task' = [task EXCEPT ![w] =
                     [f \in Feeds |-> IF f \in batch THEN Begin(feeds[f], Lease)
                                                     ELSE task[w][f]]]
  /\ left' = [left EXCEPT ![w] = BatchTime]
  /\ UNCHANGED <<feeds, shown>>

(* The publisher answers and apply decides, up to a move's ownership check. *)
Fetch(c, f) ==
  /\ task[c][f].phase = "fetch"
  /\ \E t \in Fetched(task[c][f].row, task[c][f].dueIn) :
       task' = [task EXCEPT ![c][f] = t]
  /\ UNCHANGED <<feeds, dueIn, shown, left>>

(* applyMove asks FeedByURL who owns the target, or fails to ask. *)
CheckTarget(c, f) ==
  /\ task[c][f].phase = "check"
  /\ \/ \E g \in Owners(task[c][f].to) :
          task' = [task EXCEPT ![c][f] = MoveMade(f, task[c][f], g)]
     \/ /\ Owners(task[c][f].to) = {}
        /\ task' = [task EXCEPT ![c][f] = MoveMade(f, task[c][f], None)]
     \/ \E t \in MoveNotMade(task[c][f]) : task' = [task EXCEPT ![c][f] = t]
  /\ UNCHANGED <<feeds, dueIn, shown, left>>

(* c's crawl of f is over, and with the last one its time. *)
End(c, f) ==
  /\ task' = [task EXCEPT ![c][f] = NoTask]
  /\ left' = [left EXCEPT ![c] = IF \E g \in Feeds \ {f} : Crawling(c, g)
                                 THEN @ ELSE 0]

(* Mistake: the shown episodes are replaced also when nothing was parsed. *)
RecordOverEpisodes(c, f) ==
  LET t == task[c][f] IN
    /\ t.phase = "record"
    /\ Owners(t.row.url) \subseteq {f}
    /\ t.row.redirectedTo # f
    /\ feeds' = [feeds EXCEPT ![f] = t.row]
    /\ dueIn' = [dueIn EXCEPT ![f] = t.dueIn]
    /\ shown' = [shown EXCEPT ![f] = t.doc]
    /\ End(c, f)

(* ApplyCrawl commits: every column of the row, and the parsed episodes.   *)
(* The table refuses a URL another row has (UNIQUE) and a row redirected   *)
(* to itself (CHECK).                                                      *)
Record(c, f) ==
  LET t == task[c][f] IN
    /\ t.phase = "record"
    /\ Owners(t.row.url) \subseteq {f}
    /\ t.row.redirectedTo # f
    /\ feeds' = [feeds EXCEPT ![f] = t.row]
    /\ dueIn' = [dueIn EXCEPT ![f] = t.dueIn]
    /\ shown' = [shown EXCEPT ![f] = IF t.doc = None THEN @ ELSE t.doc]
    /\ End(c, f)

(* ApplyCrawl fails (URL taken meanwhile, context over, database away):    *)
(* nothing is written and the crawl is over.                               *)
Abandon(c, f) ==
  /\ task[c][f].phase = "record"
  /\ End(c, f)
  /\ UNCHANGED <<feeds, dueIn, shown>>

(* The process dies, or is stopped: its context ends every crawl at once.  *)
Crash(c) ==
  /\ Busy(c)
  /\ task' = [task EXCEPT ![c] = [f \in Feeds |-> NoTask]]
  /\ left' = [left EXCEPT ![c] = 0]
  /\ UNCHANGED <<feeds, dueIn, shown>>

Less(n) == IF n > 0 THEN n - 1 ELSE 0

(* Time passes, for everybody; nobody outstays BatchTime. *)
Tick ==
  /\ \A c \in Crawlers : Busy(c) => left[c] > 0
  /\ dueIn' = [f \in Feeds |-> Less(dueIn[f])]
  /\ left' = [c \in Crawlers |-> Less(left[c])]
  /\ task' = [c \in Crawlers |-> [f \in Feeds |->
                [task[c][f] EXCEPT !.dueIn = Less(@)]]]
  /\ UNCHANGED <<feeds, shown>>

-----------------------------------------------------------------------------
Catalogue == \/ \E f \in Feeds, u \in Urls : UpsertFeed(f, u)
             \/ \E f \in Feeds : MarkFeedRequested(f)

CrawlStep(c, f) == Fetch(c, f) \/ CheckTarget(c, f) \/ Record(c, f) \/ Abandon(c, f)

Next ==
  \/ Catalogue
  \/ \E w \in Workers : ClaimDueFeeds(w) \/ Crash(w)
  \/ \E w \in Workers, f \in Feeds : CrawlStep(w, f)
  \/ Tick

Spec == Init /\ [][Next]_queueVars

-----------------------------------------------------------------------------
(* Two crawler processes never crawl one feed at the same time: while a    *)
(* claimed batch drains (runBatch), the lease ClaimDueFeeds wrote keeps    *)
(* its feeds from being due.                                               *)
NoDoubleCrawl ==
  \A f \in Feeds : \A c, d \in Crawlers :
    Crawling(c, f) /\ Crawling(d, f) => c = d

(* Whoever loses a crawl, by dying or because nothing could be recorded,   *)
(* costs the feed one lease and no more: while a crawler has it, whatever  *)
(* the others find and write, the feed stays in the rotation and its next  *)
(* check is never further off than the lease (ClaimDueFeeds).              *)
LostCrawlsCostALease ==
  \A c \in Workers, f \in Feeds :
    Crawling(c, f) => InRotation(f) /\ dueIn[f] <= Lease

(* The stored etag and body_hash describe the very document whose episodes *)
(* are being served.  Were they to describe another one, the publisher     *)
(* would answer "not modified" (or hash alike) forever and the listeners   *)
(* would be left with the wrong list (Fetch, ApplyCrawl).                  *)
ValidatorsDescribeShown ==
  \A f \in Feeds :
    feeds[f].validators # None => feeds[f].validators = <<feeds[f].url, shown[f]>>

(* A feed with a parsed document on record is never taken for one nobody   *)
(* has crawled (Feed.NeverCrawled): that would send its next reader back   *)
(* upstream for a synchronous crawl.                                       *)
ShownIsCrawled ==
  \A f \in Feeds : shown[f] # None => ~NeverCrawled(feeds[f])

(* Validators are only ever sent to the URL they came from: a move drops   *)
(* them, and no late write pairs one crawl's URL with another's etag.      *)
ValidatorsMatchUrl ==
  \A f \in Feeds :
    feeds[f].validators # None => feeds[f].validators[1] = feeds[f].url

(* A redirect stub points at another feed, which is there, never at itself *)
(* (applyMove, even when the row moved under the crawl).                   *)
StubsPointElsewhere ==
  \A f \in Feeds :
    feeds[f].status = "redirected" =>
      \E g \in Feeds \ {f} : feeds[f].redirectedTo = g /\ Exists(g)

(* Every crawl acts as if it were one indivisible step on its row: no      *)
(* write of ApplyCrawl undoes what another crawl recorded since the        *)
(* snapshot was taken.                                                     *)
Atomic == INSTANCE AtomicCrawl
CrawlsAreAtomic == Atomic!Spec
=============================================================================
