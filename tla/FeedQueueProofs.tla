--------------------------- MODULE FeedQueueProofs ---------------------------
(***************************************************************************)
(* Proofs about FeedQueue: its types, and that a lease longer than a batch *)
(* keeps two crawler processes off one feed, whatever the feeds, workers,  *)
(* batch sizes and delays are.                                             *)
(***************************************************************************)
EXTENDS FeedQueue, TLAPS

(* A row that is in the table, as opposed to the placeholder for none. *)
StoredRow == {row \in Row : row.status # "absent" /\ row.url \in Urls}

TableRow == {row \in Row : row.status # "absent" => row \in StoredRow}

(* The tasks of FeedQueue: a crawl under way always has a stored row in    *)
(* hand, and one that checks a move knows where to.                        *)
CrawlTask == {t \in Task : /\ t.phase # "idle" => t.row \in StoredRow
                           /\ t.phase = "check" => t.to \in Urls}

LiveTask == {t \in CrawlTask : t.phase # "idle"}

(* TypeOK is not inductive by itself: the verdict on a row in hand without *)
(* a URL would be no row.                                                  *)
TypeInv ==
  /\ feeds \in [Feeds -> TableRow]
  /\ dueIn \in [Feeds -> Nat]
  /\ shown \in [Feeds -> Docs \cup {None}]
  /\ task \in [Crawlers -> [Feeds -> CrawlTask]]
  /\ left \in [Crawlers -> Nat]

-----------------------------------------------------------------------------
(* The verdicts of a crawl are well-formed (apply, applyFailure and        *)
(* applyMove): a stored row goes in, a stored row comes out.               *)
LEMMA OneMoreBounded ==
  ASSUME NEW n \in 0..MaxFailures
  PROVE  OneMore(n) \in 0..MaxFailures
  BY MaxFailuresAssumption DEF OneMore

LEMMA VerdictRows ==
  ASSUME NEW row \in StoredRow
  PROVE  /\ Awake(row) \in StoredRow
         /\ \A d \in Docs : Parsed(row, d) \in StoredRow
         /\ NotModified(row) \in StoredRow
         /\ Gone(row) \in StoredRow
         /\ Failed(row) \in StoredRow
         /\ \A u \in Urls : MovedTo(row, u) \in StoredRow
         /\ \A g \in Feeds : StubOf(row, g) \in StoredRow
<1>1. /\ 0 \in 0..MaxFailures
      /\ OneMore(row.failures) \in 0..MaxFailures
  BY MaxFailuresAssumption, OneMoreBounded DEF StoredRow, Row
<1>2. Awake(row) \in StoredRow
  BY DEF StoredRow, Row, Statuses, Awake
<1>3. \A d \in Docs : Parsed(row, d) \in StoredRow
  BY <1>1 DEF StoredRow, Row, Statuses, Parsed
<1>4. NotModified(row) \in StoredRow
  BY <1>1 DEF StoredRow, Row, Statuses, NotModified
<1>5. Gone(row) \in StoredRow
  BY <1>1 DEF StoredRow, Row, Statuses, Gone
<1>6. Failed(row) \in StoredRow
  BY <1>1 DEF StoredRow, Row, Statuses, Failed
<1>7. \A u \in Urls : MovedTo(row, u) \in StoredRow
  BY <1>1 DEF StoredRow, Row, Statuses, MovedTo
<1>8. \A g \in Feeds : StubOf(row, g) \in StoredRow
  BY DEF StoredRow, Row, Statuses, StubOf
<1> QED
  BY <1>2, <1>3, <1>4, <1>5, <1>6, <1>7, <1>8

-----------------------------------------------------------------------------
(* Every way a fetch can end, and every outcome of a move's ownership      *)
(* check, leaves a crawl that is still under way.                          *)
LEMMA ToRecordLive ==
  ASSUME NEW row \in StoredRow, NEW due \in Nat, NEW doc \in Docs \cup {None},
         NEW err \in BOOLEAN
  PROVE  ToRecord(row, due, doc, err) \in LiveTask
  BY DEF ToRecord, LiveTask, CrawlTask, Task, Phases, StoredRow

LEMMA ToCheckLive ==
  ASSUME NEW row \in StoredRow, NEW due \in Nat, NEW u \in Urls,
         NEW doc \in Docs \cup {None}
  PROVE  ToCheck(row, due, u, doc) \in LiveTask
  BY DEF ToCheck, LiveTask, CrawlTask, Task, Phases, StoredRow

LEMMA BeginLive ==
  ASSUME NEW row \in StoredRow, NEW due \in Nat
  PROVE  Begin(row, due) \in LiveTask
  BY DEF Begin, NoTask, LiveTask, CrawlTask, Task, Phases, StoredRow

LEMMA FetchedCases ==
  ASSUME NEW handed, NEW due, NEW t
  PROVE  t \in Fetched(handed, due) <=>
           \/ \E d \in Docs : t \in AnswerDocument(Awake(handed), due, d)
           \/ \E u \in Urls : t \in AnswerMoved(Awake(handed), due, u)
           \/ t \in AnswerGone(Awake(handed))
           \/ t \in AnswerRateLimited(Awake(handed))
           \/ t \in AnswerFailed(Awake(handed))
  BY Zenon DEF Fetched

LEMMA FetchedLive ==
  ASSUME NEW handed \in StoredRow, NEW due \in Nat, NEW t \in Fetched(handed, due)
  PROVE  t \in LiveTask
<1> DEFINE row == Awake(handed)
<1>1. row \in StoredRow
  BY VerdictRows
<1>2. /\ Intervals \cup RetryAfters \cup {DeadRecheck} \subseteq Nat
      /\ None \notin Urls
  BY DelaysAssumption, NoneAssumption
<1> HIDE DEF row
<1>3. ASSUME NEW d \in Docs, t \in AnswerDocument(row, due, d)
      PROVE  t \in LiveTask
  <2>1. Announces[d] \in Urls \cup {None}
    BY AnnouncesAssumption
  <2>2. CASE row.validators = <<row.url, d>>
    BY <1>1, <1>2, <1>3, <2>2, VerdictRows, ToRecordLive DEF AnswerDocument
  <2>3. CASE row.validators # <<row.url, d>> /\ RealMove(row, Announces[d])
    BY <1>1, <1>2, <1>3, <2>1, <2>3, ToCheckLive DEF AnswerDocument, RealMove
  <2>4. CASE row.validators # <<row.url, d>> /\ ~RealMove(row, Announces[d])
    BY <1>1, <1>2, <1>3, <2>4, VerdictRows, ToRecordLive DEF AnswerDocument
  <2> QED
    BY <2>2, <2>3, <2>4
<1>4. ASSUME NEW u \in Urls, t \in AnswerMoved(row, due, u)
      PROVE  t \in LiveTask
  BY <1>1, <1>4, ToCheckLive, ToRecordLive DEF AnswerMoved
<1>5. ASSUME t \in AnswerGone(row)
      PROVE  t \in LiveTask
  BY <1>1, <1>2, <1>5, VerdictRows, ToRecordLive DEF AnswerGone
<1>6. ASSUME t \in AnswerRateLimited(row)
      PROVE  t \in LiveTask
  BY <1>1, <1>2, <1>6, ToRecordLive DEF AnswerRateLimited
<1>7. ASSUME t \in AnswerFailed(row)
      PROVE  t \in LiveTask
  BY <1>1, <1>2, <1>7, VerdictRows, ToRecordLive DEF AnswerFailed
<1> QED
  BY <1>3, <1>4, <1>5, <1>6, <1>7, FetchedCases DEF row

LEMMA MoveMadeLive ==
  ASSUME NEW f \in Feeds, NEW t \in CrawlTask, t.phase = "check", NEW g
  PROVE  MoveMade(f, t, g) \in LiveTask
<1>1. t.row \in StoredRow /\ t.to \in Urls
  BY DEF CrawlTask
<1>2. DeadRecheck \in Nat
  BY DelaysAssumption
<1> QED
  BY <1>1, <1>2, VerdictRows, ToRecordLive DEF MoveMade

LEMMA MoveNotMadeLive ==
  ASSUME NEW t \in CrawlTask, t.phase = "check", NEW m \in MoveNotMade(t)
  PROVE  m \in LiveTask
<1>1. t.row \in StoredRow
  BY DEF CrawlTask
<1>2. t.dueIn \in Nat /\ t.doc \in Docs \cup {None}
  BY DEF CrawlTask, Task
<1>3. Intervals \subseteq Nat
  BY DelaysAssumption
<1> QED
  BY <1>1, <1>2, <1>3, VerdictRows, ToRecordLive DEF MoveNotMade

-----------------------------------------------------------------------------
(* The actions keep TypeInv, one lemma each.  They are stated for anybody  *)
(* who crawls, so that they also serve the crawls of the API.              *)
LEMMA TableRowFacts ==
  /\ NoRow \in TableRow
  /\ \A u \in Urls : NewRow(u) \in TableRow
  /\ NoTask \in CrawlTask
  /\ StoredRow \subseteq TableRow
  /\ LiveTask \subseteq CrawlTask
<1>1. NoRow \in Row /\ NoRow.status = "absent"
  BY MaxFailuresAssumption DEF NoRow, Row, Statuses
<1>2. \A u \in Urls : NewRow(u) \in StoredRow
  BY <1>1 DEF NewRow, NoRow, StoredRow, Row, Statuses
<1>3. NoTask \in CrawlTask
  BY <1>1 DEF NoTask, CrawlTask, Task, Phases
<1> QED
  BY <1>1, <1>2, <1>3 DEF TableRow, StoredRow, LiveTask

LEMMA InitTyped == Init => TypeInv
  BY TableRowFacts DEF Init, TypeInv

LEMMA UpsertFeedTyped ==
  ASSUME TypeInv, NEW f \in Feeds, NEW u \in Urls, UpsertFeed(f, u)
  PROVE  TypeInv'
  BY TableRowFacts DEF TypeInv, UpsertFeed

LEMMA MarkFeedRequestedTyped ==
  ASSUME TypeInv, NEW f \in Feeds, MarkFeedRequested(f)
  PROVE  TypeInv'
<1>1. [feeds[f] EXCEPT !.status = "active"] \in TableRow
  BY DEF TypeInv, MarkFeedRequested, TableRow, StoredRow, Row, Statuses
<1> QED
  BY <1>1 DEF TypeInv, MarkFeedRequested

LEMMA ClaimDueFeedsTyped ==
  ASSUME TypeInv, NEW w \in Crawlers, ClaimDueFeeds(w)
  PROVE  TypeInv'
<1>1. Lease \in Nat /\ BatchTime \in Nat
  BY TimesAssumption
<1>2. PICK batch \in SUBSET Due :
        /\ dueIn' = [f \in Feeds |-> IF f \in batch THEN Lease ELSE dueIn[f]]
        /\ task' = [task EXCEPT ![w] =
                      [f \in Feeds |-> IF f \in batch THEN Begin(feeds[f], Lease)
                                                      ELSE task[w][f]]]
  BY DEF ClaimDueFeeds
<1>3. \A f \in batch : Begin(feeds[f], Lease) \in CrawlTask
  BY <1>1, BeginLive, TableRowFacts DEF Due, InRotation, TypeInv, TableRow
<1>4. task' \in [Crawlers -> [Feeds -> CrawlTask]]
  BY <1>2, <1>3 DEF TypeInv
<1>5. dueIn' \in [Feeds -> Nat]
  BY <1>1, <1>2 DEF TypeInv
<1> QED
  BY <1>1, <1>4, <1>5 DEF TypeInv, ClaimDueFeeds

LEMMA FetchTyped ==
  ASSUME TypeInv, NEW c \in Crawlers, NEW f \in Feeds, Fetch(c, f)
  PROVE  TypeInv'
<1>1. /\ task[c][f].row \in StoredRow
      /\ task[c][f].dueIn \in Nat
  BY DEF TypeInv, Fetch, CrawlTask, Task
<1>2. PICK t \in LiveTask : task' = [task EXCEPT ![c][f] = t]
  BY <1>1, FetchedLive DEF Fetch
<1> QED
  BY <1>2, TableRowFacts DEF TypeInv, Fetch

LEMMA CheckTargetTyped ==
  ASSUME TypeInv, NEW c \in Crawlers, NEW f \in Feeds, CheckTarget(c, f)
  PROVE  TypeInv'
<1>1. task[c][f] \in CrawlTask /\ task[c][f].phase = "check"
  BY DEF TypeInv, CheckTarget
<1>2. PICK t \in LiveTask : task' = [task EXCEPT ![c][f] = t]
  BY <1>1, MoveMadeLive, MoveNotMadeLive DEF CheckTarget
<1> QED
  BY <1>2, TableRowFacts DEF TypeInv, CheckTarget

LEMMA EndTyped ==
  ASSUME TypeInv, NEW c \in Crawlers, NEW f \in Feeds, End(c, f)
  PROVE  /\ task' \in [Crawlers -> [Feeds -> CrawlTask]]
         /\ left' \in [Crawlers -> Nat]
  BY TableRowFacts DEF TypeInv, End

LEMMA RecordTyped ==
  ASSUME TypeInv, NEW c \in Crawlers, NEW f \in Feeds, Record(c, f)
  PROVE  TypeInv'
<1>1. /\ task[c][f].row \in TableRow
      /\ task[c][f].dueIn \in Nat
      /\ task[c][f].doc \in Docs \cup {None}
  BY TableRowFacts DEF TypeInv, Record, CrawlTask, Task
<1>2. /\ feeds' \in [Feeds -> TableRow]
      /\ dueIn' \in [Feeds -> Nat]
      /\ shown' \in [Feeds -> Docs \cup {None}]
  BY <1>1 DEF TypeInv, Record
<1> QED
  BY <1>2, EndTyped DEF TypeInv, Record

LEMMA AbandonTyped ==
  ASSUME TypeInv, NEW c \in Crawlers, NEW f \in Feeds, Abandon(c, f)
  PROVE  TypeInv'
  BY EndTyped DEF TypeInv, Abandon

LEMMA CrashTyped ==
  ASSUME TypeInv, NEW c \in Crawlers, Crash(c)
  PROVE  TypeInv'
  BY TableRowFacts DEF TypeInv, Crash

LEMMA TickTyped ==
  ASSUME TypeInv, Tick
  PROVE  TypeInv'
<1>1. \A n \in Nat : Less(n) \in Nat
  BY DEF Less
<1>2. \A t \in CrawlTask : [t EXCEPT !.dueIn = Less(@)] \in CrawlTask
  BY <1>1 DEF CrawlTask, Task
<1> QED
  BY <1>1, <1>2 DEF TypeInv, Tick

LEMMA TypeInvImplies == TypeInv => TypeOK
  BY DEF TypeInv, TypeOK, TableRow, StoredRow, CrawlTask

(* The tables, the clocks and the tasks keep their types.  The invariant   *)
(* that carries the proof, TypeInv, adds that every stored row has a URL   *)
(* and that only stored rows are crawled.                                  *)
LEMMA TypeInvariant == Spec => []TypeInv
<1>1. Init => TypeInv
  BY InitTyped
<1>2. TypeInv /\ [Next]_queueVars => TypeInv'
  <2> SUFFICES ASSUME TypeInv, [Next]_queueVars
               PROVE  TypeInv'
    OBVIOUS
  <2>1. CASE Catalogue
    BY <2>1, UpsertFeedTyped, MarkFeedRequestedTyped DEF Catalogue
  <2>2. ASSUME NEW w \in Workers, ClaimDueFeeds(w) \/ Crash(w)
        PROVE  TypeInv'
    BY <2>2, WorkersAssumption, ClaimDueFeedsTyped, CrashTyped
  <2>3. ASSUME NEW w \in Workers, NEW f \in Feeds, CrawlStep(w, f)
        PROVE  TypeInv'
    BY <2>3, WorkersAssumption, FetchTyped, CheckTargetTyped, RecordTyped,
       AbandonTyped DEF CrawlStep
  <2>4. CASE Tick
    BY <2>4, TickTyped
  <2>5. CASE UNCHANGED queueVars
    BY <2>5 DEF queueVars, TypeInv
  <2> QED
    BY <2>1, <2>2, <2>3, <2>4, <2>5 DEF Next
<1> QED
  BY <1>1, <1>2, PTL DEF Spec

(* Type correctness of the crawl queue, for every set of feeds, URLs,      *)
(* documents and crawlers and every choice of delays.                      *)
THEOREM TypeCorrect == Spec => []TypeOK
  BY TypeInvariant, TypeInvImplies, PTL

-----------------------------------------------------------------------------
(***************************************************************************)
(* The lease at work.  NoDoubleCrawl is not inductive: a second claim is   *)
(* only kept away by the next check that the first one pushed forward.  So *)
(* the invariant relates the two clocks: a feed that is being crawled is   *)
(* in the rotation, where neither UpsertFeed nor MarkFeedRequested can     *)
(* touch its next check, and becomes due strictly later than its crawler's *)
(* time is up, though no later than a lease from now.                      *)
(***************************************************************************)
LeaseOutlasts(c, f) == InRotation(f) /\ dueIn[f] > left[c] /\ dueIn[f] <= Lease

LeaseInv ==
  /\ \A c \in Crawlers, f \in Feeds : Crawling(c, f) => LeaseOutlasts(c, f)
  /\ NoDoubleCrawl

LEMMA InitLeased == Init => LeaseInv
  BY DEF Init, LeaseInv, NoDoubleCrawl, Crawling, NoTask

LEMMA UpsertFeedLeased ==
  ASSUME TypeInv, LeaseInv, NEW f \in Feeds, NEW u \in Urls, UpsertFeed(f, u)
  PROVE  LeaseInv'
  BY DEF TypeInv, LeaseInv, LeaseOutlasts, NoDoubleCrawl, Crawling, InRotation,
         UpsertFeed, Exists

LEMMA MarkFeedRequestedLeased ==
  ASSUME TypeInv, LeaseInv, NEW f \in Feeds, MarkFeedRequested(f)
  PROVE  LeaseInv'
  BY DEF TypeInv, LeaseInv, LeaseOutlasts, NoDoubleCrawl, Crawling, InRotation,
         MarkFeedRequested

LEMMA ClaimDueFeedsLeased ==
  ASSUME BatchTime < Lease, TypeInv, LeaseInv, NEW w \in Crawlers, ClaimDueFeeds(w)
  PROVE  LeaseInv'
<1>1. PICK batch \in SUBSET Due :
        /\ dueIn' = [f \in Feeds |-> IF f \in batch THEN Lease ELSE dueIn[f]]
        /\ task' = [task EXCEPT ![w] =
                      [f \in Feeds |-> IF f \in batch THEN Begin(feeds[f], Lease)
                                                      ELSE task[w][f]]]
  BY DEF ClaimDueFeeds
<1>2. /\ left' = [left EXCEPT ![w] = BatchTime]
      /\ feeds' = feeds
      /\ \A f \in Feeds : ~Crawling(w, f)
  BY DEF ClaimDueFeeds, Busy
<1>3. ASSUME NEW f \in batch, NEW c \in Crawlers
      PROVE  ~Crawling(c, f)
  BY <1>3 DEF TypeInv, LeaseInv, LeaseOutlasts, Due
<1>4. ASSUME NEW c \in Crawlers, NEW f \in Feeds, Crawling(c, f)'
      PROVE  \/ c # w /\ f \notin batch /\ Crawling(c, f)
             \/ c = w /\ f \in batch
  BY <1>1, <1>2, <1>3, <1>4 DEF TypeInv, Crawling
<1>5. ASSUME NEW c \in Crawlers, NEW f \in Feeds, Crawling(c, f)'
      PROVE  LeaseOutlasts(c, f)'
  <2>1. CASE c # w /\ f \notin batch /\ Crawling(c, f)
    BY <1>1, <1>2, <2>1 DEF TypeInv, LeaseInv, LeaseOutlasts, InRotation
  <2>2. CASE c = w /\ f \in batch
    BY <1>1, <1>2, <2>2, TimesAssumption
    DEF TypeInv, LeaseOutlasts, InRotation, Due
  <2> QED
    BY <1>4, <1>5, <2>1, <2>2
<1>6. NoDoubleCrawl'
  BY <1>4 DEF LeaseInv, NoDoubleCrawl
<1> QED
  BY <1>5, <1>6 DEF LeaseInv

(* A step that only carries on with c's crawl of f changes nothing here.   *)
LEMMA OngoingLeased ==
  ASSUME TypeInv, LeaseInv, NEW c \in Crawlers, NEW f \in Feeds, Crawling(c, f),
         NEW t, task' = [task EXCEPT ![c][f] = t],
         UNCHANGED <<feeds, dueIn, left>>
  PROVE  LeaseInv'
<1>1. \A d \in Crawlers, g \in Feeds : Crawling(d, g)' => Crawling(d, g)
  BY DEF TypeInv, Crawling
<1> QED
  BY <1>1 DEF LeaseInv, LeaseOutlasts, NoDoubleCrawl, InRotation

LEMMA FetchLeased ==
  ASSUME TypeInv, LeaseInv, NEW c \in Crawlers, NEW f \in Feeds, Fetch(c, f)
  PROVE  LeaseInv'
  BY OngoingLeased DEF Fetch, Crawling

LEMMA CheckTargetLeased ==
  ASSUME TypeInv, LeaseInv, NEW c \in Crawlers, NEW f \in Feeds, CheckTarget(c, f)
  PROVE  LeaseInv'
  BY OngoingLeased DEF CheckTarget, Crawling

(* When c's crawl of f ends, the crawls that go on are the others.         *)
LEMMA EndOthers ==
  ASSUME TypeInv, NEW c \in Crawlers, NEW f \in Feeds, End(c, f),
         NEW d \in Crawlers, NEW g \in Feeds, Crawling(d, g)'
  PROVE  /\ Crawling(d, g)
         /\ <<d, g>> # <<c, f>>
         /\ left'[d] = left[d]
<1>1. Crawling(d, g) /\ <<d, g>> # <<c, f>>
  BY DEF TypeInv, End, Crawling, NoTask
<1>2. d = c => g \in Feeds \ {f}
  BY <1>1
<1> QED
  BY <1>1, <1>2 DEF TypeInv, End

LEMMA RecordLeased ==
  ASSUME TypeInv, LeaseInv, NEW c \in Crawlers, NEW f \in Feeds, Record(c, f)
  PROVE  LeaseInv'
<1>1. End(c, f) /\ Crawling(c, f)
  BY DEF Record, Crawling
<1>2. ASSUME NEW d \in Crawlers, NEW g \in Feeds, Crawling(d, g)'
      PROVE  Crawling(d, g) /\ g # f /\ left'[d] = left[d]
  BY <1>1, <1>2, EndOthers DEF LeaseInv, NoDoubleCrawl
<1>3. \A g \in Feeds : g # f => feeds'[g] = feeds[g] /\ dueIn'[g] = dueIn[g]
  BY DEF TypeInv, Record
<1> QED
  BY <1>2, <1>3 DEF LeaseInv, LeaseOutlasts, NoDoubleCrawl, InRotation

LEMMA AbandonLeased ==
  ASSUME TypeInv, LeaseInv, NEW c \in Crawlers, NEW f \in Feeds, Abandon(c, f)
  PROVE  LeaseInv'
<1>1. ASSUME NEW d \in Crawlers, NEW g \in Feeds, Crawling(d, g)'
      PROVE  Crawling(d, g) /\ left'[d] = left[d]
  BY <1>1, EndOthers DEF Abandon
<1> QED
  BY <1>1 DEF Abandon, LeaseInv, LeaseOutlasts, NoDoubleCrawl, InRotation

LEMMA CrashLeased ==
  ASSUME TypeInv, LeaseInv, NEW c \in Crawlers, Crash(c)
  PROVE  LeaseInv'
<1>1. ASSUME NEW d \in Crawlers, NEW g \in Feeds, Crawling(d, g)'
      PROVE  Crawling(d, g) /\ left'[d] = left[d]
  BY <1>1 DEF TypeInv, Crash, Crawling, NoTask
<1> QED
  BY <1>1 DEF Crash, LeaseInv, LeaseOutlasts, NoDoubleCrawl, InRotation

(* Both clocks of a crawl under way are above 0, so a tick brings both     *)
(* down by one.                                                            *)
LEMMA TickLeased ==
  ASSUME TypeInv, LeaseInv, Tick
  PROVE  LeaseInv'
<1>1. ASSUME NEW d \in Crawlers, NEW g \in Feeds, Crawling(d, g)'
      PROVE  Crawling(d, g)
  <2>1. task'[d][g] = [task[d][g] EXCEPT !.dueIn = Less(@)]
    BY DEF Tick
  <2>2. task[d][g] \in Task
    BY DEF TypeInv, CrawlTask
  <2>3. task'[d][g].phase = task[d][g].phase
    BY <2>1, <2>2 DEF Task
  <2> QED
    BY <1>1, <2>3 DEF Crawling
<1>2. ASSUME NEW d \in Crawlers, NEW g \in Feeds, Crawling(d, g),
             dueIn[g] > left[d], dueIn[g] <= Lease
      PROVE  dueIn'[g] > left'[d] /\ dueIn'[g] <= Lease
  <2>1. left[d] > 0
    BY <1>2 DEF Tick, Busy
  <2> QED
    BY <1>2, <2>1, TimesAssumption DEF TypeInv, Tick, Less
<1> QED
  BY <1>1, <1>2 DEF Tick, LeaseInv, LeaseOutlasts, NoDoubleCrawl, InRotation

LEMMA LeaseInvariant ==
  ASSUME BatchTime < Lease
  PROVE  Spec => []LeaseInv
<1>1. Init => LeaseInv
  BY InitLeased
<1>2. TypeInv /\ LeaseInv /\ [Next]_queueVars => LeaseInv'
  <2> SUFFICES ASSUME TypeInv, LeaseInv, [Next]_queueVars
               PROVE  LeaseInv'
    OBVIOUS
  <2>1. CASE Catalogue
    BY <2>1, UpsertFeedLeased, MarkFeedRequestedLeased DEF Catalogue
  <2>2. ASSUME NEW w \in Workers, ClaimDueFeeds(w) \/ Crash(w)
        PROVE  LeaseInv'
    BY <2>2, WorkersAssumption, ClaimDueFeedsLeased, CrashLeased
  <2>3. ASSUME NEW w \in Workers, NEW f \in Feeds, CrawlStep(w, f)
        PROVE  LeaseInv'
    BY <2>3, WorkersAssumption, FetchLeased, CheckTargetLeased, RecordLeased,
       AbandonLeased DEF CrawlStep
  <2>4. CASE Tick
    BY <2>4, TickLeased
  <2>5. CASE UNCHANGED queueVars
    BY <2>5 DEF queueVars, LeaseInv, LeaseOutlasts, NoDoubleCrawl, Crawling,
                InRotation
  <2> QED
    BY <2>1, <2>2, <2>3, <2>4, <2>5 DEF Next
<1> QED
  BY <1>1, <1>2, TypeInvariant, PTL DEF Spec

(* A lease longer than any batch takes keeps crawler processes off each    *)
(* other's feeds (ClaimDueFeeds against runBatch), with any number of them *)
(* and whatever they crash on.                                             *)
THEOREM LeaseKeepsOthersAway ==
  ASSUME BatchTime < Lease
  PROVE  Spec => []NoDoubleCrawl
<1>1. LeaseInv => NoDoubleCrawl
  BY DEF LeaseInv
<1> QED
  BY <1>1, LeaseInvariant, PTL

(* What a crawler process had when it died, or could not record, is due    *)
(* again within a lease (ClaimDueFeeds, ApplyCrawl): on the same condition *)
(* no other process's verdict takes a feed that is being crawled out of    *)
(* the rotation or puts its next check off.                                *)
THEOREM LossesAreBounded ==
  ASSUME BatchTime < Lease
  PROVE  Spec => []LostCrawlsCostALease
<1>1. LeaseInv => LostCrawlsCostALease
  BY WorkersAssumption DEF LeaseInv, LeaseOutlasts, LostCrawlsCostALease
<1> QED
  BY <1>1, LeaseInvariant, PTL

-----------------------------------------------------------------------------
(***************************************************************************)
(* With a lease longer than a batch, the crawler processes of FeedQueue    *)
(* implement AtomicCrawl: every write of ApplyCrawl is what one            *)
(* indivisible crawl of the row as it stands could have written.  That the *)
(* stored validators describe the episodes shown, and that a feed showing  *)
(* a document counts as crawled, then follow from what a single crawl      *)
(* does.                                                                   *)
(***************************************************************************)

(* Two tasks that differ in their clocks, or their reports, only. *)
Like(t, u) == t.phase = u.phase /\ t.row = u.row /\ t.to = u.to /\ t.doc = u.doc

(* t is as far as a crawl of f that was handed this row can have come.     *)
Reading(f, t, row) ==
  /\ t.phase = "fetch" => t.row = row
  /\ t.phase = "check" => \E m \in Fetched(row, 0) : Like(t, m)
  /\ t.phase = "record" =>
       \E v \in Atomic!Verdicts(f, row) : v.row = t.row /\ v.doc = t.doc

(* Every crawl under way is of the row as it is stored right now.          *)
ReadingInv ==
  \A c \in Crawlers, f \in Feeds :
    Crawling(c, f) => Reading(f, task[c][f], feeds[f])

-----------------------------------------------------------------------------
(* AtomicCrawl and FeedQueue use the verdicts of the same CrawlOutcome.    *)
LEMMA SameFetched ==
  ASSUME NEW row, NEW due
  PROVE  Atomic!Fetched(row, due) = Fetched(row, due)
  BY DEF Atomic!Fetched, Fetched, Atomic!Awake, Awake,
         Atomic!AnswerDocument, AnswerDocument, Atomic!AnswerMoved, AnswerMoved,
         Atomic!AnswerGone, AnswerGone, Atomic!AnswerFailed, AnswerFailed,
         Atomic!AnswerRateLimited, AnswerRateLimited,
         Atomic!ToRecord, ToRecord, Atomic!ToCheck, ToCheck,
         Atomic!NotModified, NotModified, Atomic!Parsed, Parsed,
         Atomic!Gone, Gone, Atomic!Failed, Failed, Atomic!RealMove, RealMove,
         Atomic!OneMore, OneMore, Atomic!IsDead, IsDead

LEMMA SameMoves ==
  ASSUME NEW f, NEW t, NEW g
  PROVE  /\ Atomic!MoveMade(f, t, g) = MoveMade(f, t, g)
         /\ Atomic!MoveNotMade(t) = MoveNotMade(t)
  BY DEF Atomic!MoveMade, MoveMade, Atomic!MoveNotMade, MoveNotMade,
         Atomic!ToRecord, ToRecord, Atomic!StubOf, StubOf,
         Atomic!MovedTo, MovedTo, Atomic!Parsed, Parsed

LEMMA VerdictCases ==
  ASSUME NEW f, NEW row, NEW v
  PROVE  v \in Atomic!Verdicts(f, row) <=>
           \/ v \in Fetched(row, 0) /\ v.phase = "record"
           \/ \E m \in Fetched(row, 0) :
                /\ m.phase = "check"
                /\ \/ v \in MoveNotMade(m)
                   \/ \E g \in Feeds \cup {None} : v = MoveMade(f, m, g)
  BY SameFetched, SameMoves DEF Atomic!Verdicts

(* The deadline a crawl was handed does not show in what it decides.       *)
LEMMA DelayBlind ==
  ASSUME NEW handed \in StoredRow, NEW due \in Nat, NEW t \in Fetched(handed, due)
  PROVE  /\ t.phase \in {"check", "record"}
         /\ \E u \in Fetched(handed, 0) : Like(t, u)
<1> DEFINE row == Awake(handed)
<1> DEFINE Goal == /\ t.phase \in {"check", "record"}
                   /\ \E u \in Fetched(handed, 0) : Like(t, u)
<1>1. \A d \in Docs : AnswerDocument(row, 0, d) \subseteq Fetched(handed, 0)
  BY FetchedCases
<1>2. \A u \in Urls : AnswerMoved(row, 0, u) \subseteq Fetched(handed, 0)
  BY FetchedCases
<1>3. /\ AnswerGone(row) \subseteq Fetched(handed, 0)
      /\ AnswerRateLimited(row) \subseteq Fetched(handed, 0)
      /\ AnswerFailed(row) \subseteq Fetched(handed, 0)
  BY FetchedCases
<1>4. ASSUME NEW d \in Docs, t \in AnswerDocument(row, due, d)
      PROVE  Goal
  <2> SUFFICES /\ t.phase \in {"check", "record"}
               /\ \E u \in AnswerDocument(row, 0, d) : Like(t, u)
    BY <1>1
  <2>1. CASE RealMove(row, Announces[d]) /\ row.validators # <<row.url, d>>
    <3>1. t = ToCheck(row, due, Announces[d], d)
      BY <1>4, <2>1 DEF AnswerDocument
    <3>2. ToCheck(row, 0, Announces[d], d) \in AnswerDocument(row, 0, d)
      BY <2>1 DEF AnswerDocument
    <3> QED
      BY <3>1, <3>2 DEF ToCheck, Like
  <2>2. CASE ~RealMove(row, Announces[d]) \/ row.validators = <<row.url, d>>
    BY <1>4, <2>2 DEF AnswerDocument, ToRecord, Like
  <2> QED
    BY <2>1, <2>2
<1>5. ASSUME NEW u \in Urls, t \in AnswerMoved(row, due, u)
      PROVE  Goal
  <2> SUFFICES /\ t.phase \in {"check", "record"}
               /\ \E v \in AnswerMoved(row, 0, u) : Like(t, v)
    BY <1>2
  <2>1. CASE RealMove(row, u)
    <3>1. /\ t = ToCheck(row, due, u, None)
          /\ ToCheck(row, 0, u, None) \in AnswerMoved(row, 0, u)
      BY <1>5, <2>1 DEF AnswerMoved
    <3> QED
      BY <3>1 DEF ToCheck, Like
  <2>2. CASE ~RealMove(row, u)
    <3>1. /\ t = ToRecord(row, due, None, FALSE)
          /\ ToRecord(row, 0, None, FALSE) \in AnswerMoved(row, 0, u)
      BY <1>5, <2>2 DEF AnswerMoved
    <3> QED
      BY <3>1 DEF ToRecord, Like
  <2> QED
    BY <2>1, <2>2
<1>6. ASSUME t \in AnswerGone(row) \cup AnswerRateLimited(row) \cup AnswerFailed(row)
      PROVE  Goal
  <2>1. t.phase = "record"
    BY <1>6 DEF AnswerGone, AnswerRateLimited, AnswerFailed, ToRecord
  <2> QED
    BY <1>3, <1>6, <2>1 DEF Like
<1> QED
  BY <1>4, <1>5, <1>6, FetchedCases

LEMMA FetchedReading ==
  ASSUME NEW f \in Feeds, NEW row \in StoredRow, NEW due \in Nat,
         NEW t \in Fetched(row, due)
  PROVE  Reading(f, t, row)
<1>1. PICK u \in Fetched(row, 0) : Like(t, u)
  BY DelayBlind
<1>2. t.phase \in {"check", "record"}
  BY DelayBlind
<1>3. t.phase = "record" => u \in Atomic!Verdicts(f, row)
  BY <1>1, VerdictCases DEF Like
<1> QED
  BY <1>1, <1>2, <1>3 DEF Reading, Like

LEMMA MoveReading ==
  ASSUME NEW f \in Feeds, NEW row \in StoredRow, NEW t, t.phase = "check",
         Reading(f, t, row), NEW n,
         \/ n \in MoveNotMade(t)
         \/ \E g \in Feeds \cup {None} : n = MoveMade(f, t, g)
  PROVE  Reading(f, n, row)
<1>1. PICK m \in Fetched(row, 0) : Like(t, m)
  BY DEF Reading
<1>2. m.phase = "check"
  BY <1>1 DEF Like
<1>3. CASE n \in MoveNotMade(t)
  <2>1. PICK v \in MoveNotMade(m) : v.row = n.row /\ v.doc = n.doc
    <3>1. CASE t.doc = None
      <4>1. n = ToRecord(t.row, t.dueIn, None, FALSE)
        BY <1>3, <3>1 DEF MoveNotMade
      <4>2. ToRecord(m.row, m.dueIn, None, FALSE) \in MoveNotMade(m)
        BY <1>1, <3>1 DEF MoveNotMade, Like
      <4> QED
        BY <1>1, <4>1, <4>2 DEF ToRecord, Like
    <3>2. CASE t.doc # None
      <4>1. n \in MoveNotMade(m)
        BY <1>1, <1>3, <3>2 DEF MoveNotMade, Like
      <4> QED
        BY <4>1
    <3> QED
      BY <3>1, <3>2
  <2>2. n.phase = "record"
    BY <1>3 DEF MoveNotMade, ToRecord
  <2>3. v \in Atomic!Verdicts(f, row)
    BY <1>2, <2>1, VerdictCases
  <2> QED
    BY <2>1, <2>2, <2>3 DEF Reading
<1>4. ASSUME NEW g \in Feeds \cup {None}, n = MoveMade(f, t, g)
      PROVE  Reading(f, n, row)
  <2>1. n.row = MoveMade(f, m, g).row /\ n.doc = MoveMade(f, m, g).doc
    BY <1>1, <1>4 DEF MoveMade, ToRecord, Like, StubOf, MovedTo
  <2>2. n.phase = "record"
    BY <1>4 DEF MoveMade, ToRecord
  <2>3. MoveMade(f, m, g) \in Atomic!Verdicts(f, row)
    BY <1>2, VerdictCases
  <2> QED
    BY <2>1, <2>2, <2>3 DEF Reading
<1> QED
  BY <1>3, <1>4

-----------------------------------------------------------------------------
(* ReadingInv is kept: only the one crawler of a feed writes its row, and  *)
(* its crawl is over when it does.                                         *)
LEMMA StoredWhileCrawled ==
  ASSUME TypeInv, LeaseInv, NEW c \in Crawlers, NEW f \in Feeds, Crawling(c, f)
  PROVE  feeds[f] \in StoredRow
  BY DEF TypeInv, LeaseInv, LeaseOutlasts, InRotation, TableRow

(* Steps that start, change or end no crawl, and write no row of one.      *)
LEMMA QuietReading ==
  ASSUME ReadingInv,
         \A c \in Crawlers, f \in Feeds :
           Crawling(c, f)' => /\ Crawling(c, f)
                              /\ Like(task'[c][f], task[c][f])
                              /\ feeds'[f] = feeds[f]
  PROVE  ReadingInv'
<1> SUFFICES ASSUME NEW c \in Crawlers, NEW f \in Feeds, Crawling(c, f)'
             PROVE  Reading(f, task[c][f], feeds[f])'
  BY DEF ReadingInv
<1>1. /\ Reading(f, task[c][f], feeds[f])
      /\ Like(task'[c][f], task[c][f])
      /\ feeds'[f] = feeds[f]
  BY DEF ReadingInv
<1>2. Reading(f, task'[c][f], feeds[f])
  BY <1>1 DEF Reading, Like
<1> QED
  BY <1>1, <1>2

LEMMA CatalogueReading ==
  ASSUME TypeInv, LeaseInv, ReadingInv, Catalogue
  PROVE  ReadingInv'
<1>1. ASSUME NEW c \in Crawlers, NEW g \in Feeds, Crawling(c, g)'
      PROVE  Crawling(c, g) /\ task'[c][g] = task[c][g]
  BY <1>1 DEF Catalogue, UpsertFeed, MarkFeedRequested, Crawling
<1>2. ASSUME NEW c \in Crawlers, NEW g \in Feeds, Crawling(c, g)
      PROVE  feeds'[g] = feeds[g]
  BY <1>2 DEF Catalogue, UpsertFeed, MarkFeedRequested, TypeInv, LeaseInv,
              LeaseOutlasts, InRotation, Exists
<1> QED
  BY <1>1, <1>2, QuietReading DEF Like

LEMMA ClaimDueFeedsReading ==
  ASSUME TypeInv, ReadingInv, NEW w \in Crawlers, ClaimDueFeeds(w)
  PROVE  ReadingInv'
<1>1. PICK batch \in SUBSET Due :
        task' = [task EXCEPT ![w] =
                   [f \in Feeds |-> IF f \in batch THEN Begin(feeds[f], Lease)
                                                   ELSE task[w][f]]]
  BY DEF ClaimDueFeeds
<1>2. feeds' = feeds
  BY DEF ClaimDueFeeds
<1> SUFFICES ASSUME NEW c \in Crawlers, NEW f \in Feeds, Crawling(c, f)'
             PROVE  Reading(f, task'[c][f], feeds[f])
  BY <1>2 DEF ReadingInv
<1>3. CASE c = w /\ f \in batch
  <2>1. task'[c][f] = Begin(feeds[f], Lease)
    BY <1>1, <1>3 DEF TypeInv
  <2> QED
    BY <2>1 DEF Reading, Begin, NoTask
<1>4. CASE ~(c = w /\ f \in batch)
  <2>1. task'[c][f] = task[c][f]
    BY <1>1, <1>4 DEF TypeInv
  <2> QED
    BY <2>1 DEF ReadingInv, Crawling
<1> QED
  BY <1>3, <1>4

(* c's crawl of f goes on with t. *)
LEMMA OngoingReading ==
  ASSUME TypeInv, ReadingInv, NEW c \in Crawlers, NEW f \in Feeds, NEW t,
         task' = [task EXCEPT ![c][f] = t], UNCHANGED feeds,
         Reading(f, t, feeds[f])
  PROVE  ReadingInv'
<1> SUFFICES ASSUME NEW d \in Crawlers, NEW g \in Feeds, Crawling(d, g)'
             PROVE  Reading(g, task'[d][g], feeds[g])
  BY DEF ReadingInv
<1>1. CASE d = c /\ g = f
  BY <1>1 DEF TypeInv
<1>2. CASE ~(d = c /\ g = f)
  <2>1. task'[d][g] = task[d][g]
    BY <1>2 DEF TypeInv
  <2> QED
    BY <2>1 DEF ReadingInv, Crawling
<1> QED
  BY <1>1, <1>2

LEMMA FetchReading ==
  ASSUME TypeInv, LeaseInv, ReadingInv, NEW c \in Crawlers, NEW f \in Feeds,
         Fetch(c, f)
  PROVE  ReadingInv'
<1>1. Crawling(c, f) /\ task[c][f].phase = "fetch"
  BY DEF Fetch, Crawling
<1>2. task[c][f].row = feeds[f]
  BY <1>1 DEF ReadingInv, Reading
<1>3. feeds[f] \in StoredRow /\ task[c][f].dueIn \in Nat
  BY <1>1, StoredWhileCrawled DEF TypeInv, CrawlTask, Task
<1>4. PICK t \in Fetched(feeds[f], task[c][f].dueIn) :
        task' = [task EXCEPT ![c][f] = t]
  BY <1>2 DEF Fetch
<1>5. Reading(f, t, feeds[f])
  BY <1>3, FetchedReading
<1> QED
  BY <1>4, <1>5, OngoingReading DEF Fetch

LEMMA CheckTargetReading ==
  ASSUME TypeInv, LeaseInv, ReadingInv, NEW c \in Crawlers, NEW f \in Feeds,
         CheckTarget(c, f)
  PROVE  ReadingInv'
<1>1. Crawling(c, f) /\ task[c][f].phase = "check"
  BY DEF CheckTarget, Crawling
<1>2. Reading(f, task[c][f], feeds[f]) /\ feeds[f] \in StoredRow
  BY <1>1, StoredWhileCrawled DEF ReadingInv
<1>3. PICK n : /\ task' = [task EXCEPT ![c][f] = n]
               /\ \/ n \in MoveNotMade(task[c][f])
                  \/ \E g \in Feeds \cup {None} : n = MoveMade(f, task[c][f], g)
  BY DEF CheckTarget, Owners
<1>4. Reading(f, n, feeds[f])
  BY <1>1, <1>2, <1>3, MoveReading
<1> QED
  BY <1>3, <1>4, OngoingReading DEF CheckTarget

LEMMA RecordReading ==
  ASSUME TypeInv, LeaseInv, ReadingInv, NEW c \in Crawlers, NEW f \in Feeds,
         Record(c, f)
  PROVE  ReadingInv'
<1>1. End(c, f) /\ Crawling(c, f)
  BY DEF Record, Crawling
<1>2. ASSUME NEW d \in Crawlers, NEW g \in Feeds, Crawling(d, g)'
      PROVE  /\ Crawling(d, g)
             /\ g # f
             /\ task'[d][g] = task[d][g]
  <2>1. Crawling(d, g) /\ g # f
    BY <1>1, <1>2, EndOthers DEF LeaseInv, NoDoubleCrawl
  <2> QED
    BY <1>1, <2>1 DEF TypeInv, End
<1>3. \A g \in Feeds : g # f => feeds'[g] = feeds[g]
  BY DEF TypeInv, Record
<1> QED
  BY <1>2, <1>3, QuietReading DEF Like

LEMMA AbandonReading ==
  ASSUME TypeInv, ReadingInv, NEW c \in Crawlers, NEW f \in Feeds, Abandon(c, f)
  PROVE  ReadingInv'
<1>1. ASSUME NEW d \in Crawlers, NEW g \in Feeds, Crawling(d, g)'
      PROVE  Crawling(d, g) /\ task'[d][g] = task[d][g]
  <2>1. Crawling(d, g) /\ <<d, g>> # <<c, f>>
    BY <1>1, EndOthers DEF Abandon
  <2> QED
    BY <2>1 DEF TypeInv, Abandon, End
<1> QED
  BY <1>1, QuietReading DEF Like, Abandon

LEMMA CrashReading ==
  ASSUME TypeInv, ReadingInv, NEW c \in Crawlers, Crash(c)
  PROVE  ReadingInv'
<1>1. ASSUME NEW d \in Crawlers, NEW g \in Feeds, Crawling(d, g)'
      PROVE  Crawling(d, g) /\ task'[d][g] = task[d][g]
  BY <1>1 DEF TypeInv, Crash, Crawling, NoTask
<1> QED
  BY <1>1, QuietReading DEF Like, Crash

LEMMA TickReading ==
  ASSUME TypeInv, ReadingInv, Tick
  PROVE  ReadingInv'
<1>1. ASSUME NEW d \in Crawlers, NEW g \in Feeds
      PROVE  Like(task'[d][g], task[d][g])
  <2>1. task'[d][g] = [task[d][g] EXCEPT !.dueIn = Less(@)]
    BY DEF Tick
  <2>2. task[d][g] \in Task
    BY DEF TypeInv, CrawlTask
  <2> QED
    BY <2>1, <2>2 DEF Task, Like
<1>2. \A d \in Crawlers, g \in Feeds : Crawling(d, g)' => Crawling(d, g)
  BY <1>1 DEF Like, Crawling
<1> QED
  BY <1>1, <1>2, QuietReading DEF Tick

LEMMA ReadingInvariant ==
  ASSUME BatchTime < Lease
  PROVE  Spec => []ReadingInv
<1>1. Init => ReadingInv
  BY DEF Init, ReadingInv, Crawling, NoTask
<1>2. TypeInv /\ LeaseInv /\ ReadingInv /\ [Next]_queueVars => ReadingInv'
  <2> SUFFICES ASSUME TypeInv, LeaseInv, ReadingInv, [Next]_queueVars
               PROVE  ReadingInv'
    OBVIOUS
  <2>1. CASE Catalogue
    BY <2>1, CatalogueReading
  <2>2. ASSUME NEW w \in Workers, ClaimDueFeeds(w) \/ Crash(w)
        PROVE  ReadingInv'
    BY <2>2, WorkersAssumption, ClaimDueFeedsReading, CrashReading
  <2>3. ASSUME NEW w \in Workers, NEW f \in Feeds, CrawlStep(w, f)
        PROVE  ReadingInv'
    BY <2>3, WorkersAssumption, FetchReading, CheckTargetReading, RecordReading,
       AbandonReading DEF CrawlStep
  <2>4. CASE Tick
    BY <2>4, TickReading
  <2>5. CASE UNCHANGED queueVars
    BY <2>5, QuietReading DEF queueVars, Like, Crawling
  <2> QED
    BY <2>1, <2>2, <2>3, <2>4, <2>5 DEF Next
<1> QED
  BY <1>1, <1>2, TypeInvariant, LeaseInvariant, PTL DEF Spec

-----------------------------------------------------------------------------
LEMMA RecordIsCrawl ==
  ASSUME TypeInv, LeaseInv, ReadingInv, NEW c \in Crawlers, NEW f \in Feeds,
         Record(c, f)
  PROVE  Atomic!Crawl(f)
<1>1. Crawling(c, f) /\ task[c][f].phase = "record"
  BY DEF Record, Crawling
<1>2. PICK v \in Atomic!Verdicts(f, feeds[f]) :
        v.row = task[c][f].row /\ v.doc = task[c][f].doc
  BY <1>1 DEF ReadingInv, Reading
<1>3. feeds[f].status \in {"active", "dead"}
  BY <1>1 DEF LeaseInv, LeaseOutlasts, InRotation
<1>4. /\ feeds' = [feeds EXCEPT ![f] = v.row]
      /\ shown' = [shown EXCEPT ![f] = IF v.doc = None THEN @ ELSE v.doc]
  BY <1>2 DEF Record
<1> QED
  BY <1>2, <1>3, <1>4 DEF Atomic!Crawl

(* The crawler processes crawl as AtomicCrawl promises, for every number   *)
(* of feeds, processes and documents, provided a batch drains within its   *)
(* lease: no ApplyCrawl undoes what another crawl recorded.                *)
THEOREM CrawlsActAtomically ==
  ASSUME BatchTime < Lease
  PROVE  Spec => CrawlsAreAtomic
<1>1. Init => Atomic!Init
  BY DEF Init, Atomic!Init, NoRow, Atomic!NoRow
<1>2. TypeInv /\ LeaseInv /\ ReadingInv /\ [Next]_queueVars
        => [Atomic!Next]_(Atomic!vars)
  <2> SUFFICES ASSUME TypeInv, LeaseInv, ReadingInv, [Next]_queueVars
               PROVE  Atomic!Next \/ UNCHANGED <<feeds, shown>>
    BY DEF Atomic!vars
  <2>1. ASSUME NEW f \in Feeds, NEW u \in Urls, UpsertFeed(f, u)
        PROVE  Atomic!Next
    BY <2>1 DEF UpsertFeed, Exists, NewRow, NoRow, Atomic!NewRow, Atomic!NoRow,
                Atomic!Seed, Atomic!Next
  <2>2. ASSUME NEW f \in Feeds, MarkFeedRequested(f)
        PROVE  Atomic!Next
    BY <2>2 DEF MarkFeedRequested, Atomic!Wake, Atomic!Next
  <2>3. ASSUME NEW w \in Workers, ClaimDueFeeds(w) \/ Crash(w)
        PROVE  UNCHANGED <<feeds, shown>>
    BY <2>3 DEF ClaimDueFeeds, Crash
  <2>4. ASSUME NEW w \in Workers, NEW f \in Feeds, Record(w, f)
        PROVE  Atomic!Next
    BY <2>4, WorkersAssumption, RecordIsCrawl DEF Atomic!Next
  <2>5. ASSUME NEW w \in Workers, NEW f \in Feeds,
               Fetch(w, f) \/ CheckTarget(w, f) \/ Abandon(w, f)
        PROVE  UNCHANGED <<feeds, shown>>
    BY <2>5 DEF Fetch, CheckTarget, Abandon
  <2>6. CASE Tick \/ UNCHANGED queueVars
    BY <2>6 DEF Tick, queueVars
  <2> QED
    BY <2>1, <2>2, <2>3, <2>4, <2>5, <2>6 DEF Next, Catalogue, CrawlStep
<1> QED
  BY <1>1, <1>2, TypeInvariant, LeaseInvariant, ReadingInvariant, PTL
  DEF Spec, CrawlsAreAtomic, Atomic!Spec

-----------------------------------------------------------------------------
(***************************************************************************)
(* What one crawl does to a row and the document shown for it.  Since the  *)
(* crawls are atomic, it carries over to the table.                        *)
(***************************************************************************)
SoundRow(row, doc) ==
  /\ row.validators # None => row.validators = <<row.url, doc>>
  /\ doc # None => row.succeeded

ShownAfter(t, doc) == IF t.doc = None THEN doc ELSE t.doc

LEMMA RowVerdictsSound ==
  ASSUME NEW row \in StoredRow, NEW doc, SoundRow(row, doc)
  PROVE  /\ SoundRow(Awake(row), doc)
         /\ \A d : SoundRow(Parsed(row, d), d)
         /\ SoundRow(NotModified(row), doc)
         /\ SoundRow(Gone(row), doc)
         /\ SoundRow(Failed(row), doc)
         /\ \A u : SoundRow(MovedTo(row, u), doc)
         /\ \A g : SoundRow(StubOf(row, g), doc)
<1>1. SoundRow(Awake(row), doc)
  BY DEF StoredRow, Row, SoundRow, Awake
<1>2. \A d : SoundRow(Parsed(row, d), d)
  BY DEF StoredRow, Row, SoundRow, Parsed
<1>3. SoundRow(NotModified(row), doc)
  BY DEF StoredRow, Row, SoundRow, NotModified
<1>4. SoundRow(Gone(row), doc) /\ SoundRow(Failed(row), doc)
  BY DEF StoredRow, Row, SoundRow, Gone, Failed
<1>5. \A u : SoundRow(MovedTo(row, u), doc)
  BY DEF StoredRow, Row, SoundRow, MovedTo
<1>6. \A g : SoundRow(StubOf(row, g), doc)
  BY DEF StoredRow, Row, SoundRow, StubOf
<1> QED
  BY <1>1, <1>2, <1>3, <1>4, <1>5, <1>6

LEMMA FetchedSound ==
  ASSUME NEW handed \in StoredRow, NEW doc, SoundRow(handed, doc),
         NEW due \in Nat, NEW t \in Fetched(handed, due)
  PROVE  /\ t.phase = "record" => SoundRow(t.row, ShownAfter(t, doc))
         /\ t.phase = "check" => t.row = Awake(handed) /\ t.doc \in Docs \cup {None}
<1> DEFINE row == Awake(handed)
<1> DEFINE Goal ==
      /\ t.phase = "record" => SoundRow(t.row, ShownAfter(t, doc))
      /\ t.phase = "check" => t.row = row /\ t.doc \in Docs \cup {None}
<1>1. row \in StoredRow /\ SoundRow(row, doc) /\ None \notin Docs
  BY VerdictRows, RowVerdictsSound, NoneAssumption
<1> SUFFICES Goal
  OBVIOUS
<1> HIDE DEF row
<1>2. ASSUME NEW d \in Docs, t \in AnswerDocument(row, due, d)
      PROVE  Goal
  <2>1. CASE row.validators = <<row.url, d>>
    BY <1>1, <1>2, <2>1, RowVerdictsSound DEF AnswerDocument, ToRecord, ShownAfter
  <2>2. CASE row.validators # <<row.url, d>> /\ RealMove(row, Announces[d])
    <3>1. t = ToCheck(row, due, Announces[d], d)
      BY <1>2, <2>2 DEF AnswerDocument
    <3> QED
      BY <3>1 DEF ToCheck
  <2>3. CASE row.validators # <<row.url, d>> /\ ~RealMove(row, Announces[d])
    BY <1>1, <1>2, <2>3, RowVerdictsSound DEF AnswerDocument, ToRecord, ShownAfter
  <2> QED
    BY <2>1, <2>2, <2>3
<1>3. ASSUME NEW u \in Urls, t \in AnswerMoved(row, due, u)
      PROVE  Goal
  <2>1. CASE RealMove(row, u)
    BY <1>3, <2>1 DEF AnswerMoved, ToCheck
  <2>2. CASE ~RealMove(row, u)
    BY <1>1, <1>3, <2>2 DEF AnswerMoved, ToRecord, ShownAfter
  <2> QED
    BY <2>1, <2>2
<1>4. ASSUME t \in AnswerGone(row)
      PROVE  Goal
  BY <1>1, <1>4, RowVerdictsSound DEF AnswerGone, ToRecord, ShownAfter
<1>5. ASSUME t \in AnswerRateLimited(row)
      PROVE  Goal
  BY <1>1, <1>5 DEF AnswerRateLimited, ToRecord, ShownAfter
<1>6. ASSUME t \in AnswerFailed(row)
      PROVE  Goal
  BY <1>1, <1>6, RowVerdictsSound DEF AnswerFailed, ToRecord, ShownAfter
<1> QED
  BY <1>2, <1>3, <1>4, <1>5, <1>6, FetchedCases DEF row

LEMMA VerdictSound ==
  ASSUME NEW f \in Feeds, NEW handed \in StoredRow, NEW doc, SoundRow(handed, doc),
         NEW v \in Atomic!Verdicts(f, handed)
  PROVE  SoundRow(v.row, ShownAfter(v, doc))
<1>1. CASE v \in Fetched(handed, 0) /\ v.phase = "record"
  BY <1>1, FetchedSound
<1>2. ASSUME NEW m \in Fetched(handed, 0), m.phase = "check",
             \/ v \in MoveNotMade(m)
             \/ \E g \in Feeds \cup {None} : v = MoveMade(f, m, g)
      PROVE  SoundRow(v.row, ShownAfter(v, doc))
  <2>1. /\ m.row \in StoredRow
        /\ SoundRow(m.row, doc)
        /\ m.doc \in Docs \cup {None}
        /\ None \notin Docs
    BY <1>2, FetchedSound, VerdictRows, RowVerdictsSound, NoneAssumption
  <2>2. CASE v \in MoveNotMade(m)
    BY <2>1, <2>2, RowVerdictsSound DEF MoveNotMade, ToRecord, ShownAfter
  <2>3. ASSUME NEW g \in Feeds \cup {None}, v = MoveMade(f, m, g)
        PROVE  SoundRow(v.row, ShownAfter(v, doc))
    BY <2>1, <2>3, RowVerdictsSound DEF MoveMade, ToRecord, ShownAfter
  <2> QED
    BY <1>2, <2>2, <2>3
<1> QED
  BY <1>1, <1>2, VerdictCases

ShownInv == \A f \in Feeds : /\ SoundRow(feeds[f], shown[f])
                             /\ ~Exists(f) => shown[f] = None

LEMMA ShownInvariant ==
  ASSUME BatchTime < Lease
  PROVE  Spec => []ShownInv
<1>1. Init => ShownInv
  <2>1. SoundRow(NoRow, None)
    BY DEF SoundRow, NoRow
  <2> QED
    BY <2>1 DEF Init, ShownInv
<1>2. /\ TypeInv /\ LeaseInv /\ ReadingInv /\ ShownInv
      /\ [Next]_queueVars
      => ShownInv'
  <2> SUFFICES ASSUME TypeInv, LeaseInv, ReadingInv, ShownInv, [Next]_queueVars
               PROVE  ShownInv'
    OBVIOUS
  <2>1. ASSUME NEW f \in Feeds, NEW u \in Urls, UpsertFeed(f, u)
        PROVE  ShownInv'
    <3>1. SoundRow(NewRow(u), None)
      BY DEF SoundRow, NewRow, NoRow
    <3>2. shown[f] = None /\ shown' = shown
      BY <2>1 DEF UpsertFeed, ShownInv
    <3> QED
      BY <2>1, <3>1, <3>2 DEF UpsertFeed, TypeInv, ShownInv, Exists
  <2>2. ASSUME NEW f \in Feeds, MarkFeedRequested(f)
        PROVE  ShownInv'
    BY <2>2 DEF MarkFeedRequested, TypeInv, TableRow, Row, ShownInv, SoundRow,
                Exists
  <2>3. ASSUME NEW w \in Workers, ClaimDueFeeds(w) \/ Crash(w)
        PROVE  ShownInv'
    BY <2>3 DEF ClaimDueFeeds, Crash, ShownInv, SoundRow, Exists
  <2>4. ASSUME NEW w \in Workers, NEW f \in Feeds, Record(w, f)
        PROVE  ShownInv'
    <3>1. Atomic!Crawl(f) /\ Crawling(w, f)
      BY <2>4, WorkersAssumption, RecordIsCrawl DEF Record, Crawling
    <3>2. PICK v \in Atomic!Verdicts(f, feeds[f]) :
            /\ feeds' = [feeds EXCEPT ![f] = v.row]
            /\ shown' = [shown EXCEPT ![f] = IF v.doc = None THEN @ ELSE v.doc]
      BY <3>1 DEF Atomic!Crawl
    <3>3. SoundRow(v.row, ShownAfter(v, shown[f]))
      BY <3>1, WorkersAssumption, StoredWhileCrawled, VerdictSound DEF ShownInv
    <3>4. feeds'[f] \in StoredRow
      BY <2>4, WorkersAssumption DEF Record, TypeInv, CrawlTask
    <3> QED
      BY <3>2, <3>3, <3>4 DEF TypeInv, ShownInv, ShownAfter, StoredRow, Exists
  <2>5. ASSUME NEW w \in Workers, NEW f \in Feeds,
               Fetch(w, f) \/ CheckTarget(w, f) \/ Abandon(w, f)
        PROVE  ShownInv'
    BY <2>5 DEF Fetch, CheckTarget, Abandon, ShownInv, SoundRow, Exists
  <2>6. CASE Tick \/ UNCHANGED queueVars
    BY <2>6 DEF Tick, queueVars, ShownInv, SoundRow, Exists
  <2> QED
    BY <2>1, <2>2, <2>3, <2>4, <2>5, <2>6 DEF Next, Catalogue, CrawlStep
<1> QED
  BY <1>1, <1>2, TypeInvariant, LeaseInvariant, ReadingInvariant, PTL DEF Spec

(* Left to the crawler processes alone, with a lease longer than a batch,  *)
(* a feed's etag and body_hash always describe the document its listeners  *)
(* are served.                                                             *)
THEOREM ValidatorsStayTrue ==
  ASSUME BatchTime < Lease
  PROVE  Spec => []ValidatorsDescribeShown
<1>1. ShownInv => ValidatorsDescribeShown
  BY DEF ShownInv, SoundRow, ValidatorsDescribeShown
<1> QED
  BY <1>1, ShownInvariant, PTL

(* On the same condition, no feed with episodes to show ever counts as     *)
(* never crawled.                                                          *)
THEOREM CrawledStaysCrawled ==
  ASSUME BatchTime < Lease
  PROVE  Spec => []ShownIsCrawled
<1>1. ShownInv => ShownIsCrawled
  BY DEF ShownInv, SoundRow, ShownIsCrawled, NeverCrawled
<1> QED
  BY <1>1, ShownInvariant, PTL
=============================================================================
