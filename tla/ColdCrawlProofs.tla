--------------------------- MODULE ColdCrawlProofs ---------------------------
(***************************************************************************)
(* Proofs about ColdCrawl, where crawls overlap at will: what holds of the *)
(* rows of the feeds table however stale the snapshots written back are,   *)
(* and of what a request that finds its feed crawled is told.  Only the    *)
(* last part assumes anything about how long crawls take.                  *)
(***************************************************************************)
EXTENDS ColdCrawl, FeedQueueProofs

(* A request that is to crawl holds a stored row. *)
LiveRequest ==
  {q \in Request : /\ q.pc # "idle" => q.feed \in Feeds
                   /\ q.pc = "mark" /\ q.cold => q.row \in StoredRow
                   /\ q.pc = "crawl" => q.row \in StoredRow}

ColdTypeInv == TypeInv /\ req \in [Requests -> LiveRequest]

-----------------------------------------------------------------------------
LEMMA RequestsCrawl == Requests \subseteq Crawlers /\ Workers \subseteq Crawlers
  BY RequestsAssumption

LEMMA ColdInitTyped == ColdInit => ColdTypeInv
<1>1. NoRow \in Row
  BY TableRowFacts DEF TableRow
<1>2. NoRequest \in LiveRequest
  BY <1>1 DEF NoRequest, LiveRequest, Request, Replies
<1> QED
  BY <1>2, InitTyped DEF ColdInit, ColdTypeInv

LEMMA ResolveTyped ==
  ASSUME ColdTypeInv, NEW r \in Requests, NEW f \in Feeds, Resolve(r, f)
  PROVE  ColdTypeInv'
<1> DEFINE read == [NoRequest EXCEPT !.pc = "mark", !.feed = f]
<1>1. /\ feeds[f] \in StoredRow
      /\ dueIn[f] \in Nat
      /\ RequestTime \in Nat
      /\ NoRow \in Row
  BY TableRowFacts, RequestTimeAssumption
  DEF ColdTypeInv, TypeInv, Resolve, Exists, TableRow
<1>2. /\ read \in LiveRequest
      /\ [read EXCEPT !.cold = TRUE, !.row = feeds[f], !.dueIn = dueIn[f]]
           \in LiveRequest
  BY <1>1 DEF NoRequest, LiveRequest, Request, Replies, StoredRow
<1>3. req' \in [Requests -> LiveRequest]
  BY <1>2 DEF ColdTypeInv, Resolve
<1>4. left' \in [Crawlers -> Nat]
  BY <1>1, RequestsCrawl DEF ColdTypeInv, TypeInv, Resolve
<1> QED
  BY <1>3, <1>4 DEF ColdTypeInv, TypeInv, Resolve

LEMMA MarkTyped ==
  ASSUME ColdTypeInv, NEW r \in Requests, Mark(r)
  PROVE  ColdTypeInv'
<1>1. req[r] \in LiveRequest /\ req[r].pc = "mark"
  BY DEF ColdTypeInv, Mark
<1>2. [req[r] EXCEPT !.pc = IF req[r].cold THEN "crawl" ELSE "read"] \in LiveRequest
  BY <1>1 DEF LiveRequest, Request
<1>3. req' \in [Requests -> LiveRequest]
  BY <1>2 DEF ColdTypeInv, Mark
<1>4. TypeInv'
  <2>1. CASE MarkFeedRequested(req[r].feed)
    BY <1>1, <2>1, MarkFeedRequestedTyped DEF ColdTypeInv, LiveRequest
  <2>2. CASE UNCHANGED queueVars
    BY <2>2 DEF queueVars, ColdTypeInv, TypeInv
  <2> QED
    BY <2>1, <2>2 DEF Mark
<1> QED
  BY <1>3, <1>4 DEF ColdTypeInv

LEMMA LeadTyped ==
  ASSUME ColdTypeInv, NEW r \in Requests, Lead(r)
  PROVE  ColdTypeInv'
<1>1. req[r] \in LiveRequest /\ req[r].pc = "crawl" /\ NoRow \in Row
  BY TableRowFacts DEF ColdTypeInv, Lead, TableRow
<1>2. [req[r] EXCEPT !.pc = "lead", !.row = NoRow, !.dueIn = 0] \in LiveRequest
  BY <1>1 DEF LiveRequest, Request
<1>3. req' \in [Requests -> LiveRequest]
  BY <1>2 DEF ColdTypeInv, Lead
<1>4. Begin(req[r].row, req[r].dueIn) \in CrawlTask
  BY <1>1, BeginLive, TableRowFacts DEF LiveRequest, Request
<1>5. task' \in [Crawlers -> [Feeds -> CrawlTask]]
  BY <1>4, RequestsCrawl DEF ColdTypeInv, TypeInv, Lead
<1> QED
  BY <1>3, <1>5 DEF ColdTypeInv, TypeInv, Lead

LEMMA JoinTyped ==
  ASSUME ColdTypeInv, NEW r \in Requests, Join(r)
  PROVE  ColdTypeInv'
<1>1. req[r] \in LiveRequest /\ req[r].pc = "crawl" /\ NoRow \in Row
  BY TableRowFacts DEF ColdTypeInv, Join, TableRow
<1>2. \A l \in Requests :
        [req[r] EXCEPT !.pc = "join", !.leader = l, !.row = NoRow, !.dueIn = 0]
          \in LiveRequest
  BY <1>1 DEF LiveRequest, Request
<1>3. PICK l \in Requests :
        req' = [req EXCEPT ![r] = [req[r] EXCEPT !.pc = "join", !.leader = l,
                                                 !.row = NoRow, !.dueIn = 0]]
  BY DEF Join, Leaders, ColdTypeInv
<1>4. req' \in [Requests -> LiveRequest]
  BY <1>2, <1>3 DEF ColdTypeInv
<1>5. left' \in [Crawlers -> Nat]
  BY RequestsCrawl DEF ColdTypeInv, TypeInv, Join
<1> QED
  BY <1>4, <1>5 DEF ColdTypeInv, TypeInv, Join

(* A landing leaves well-formed requests behind. *)
LEMMA LandTyped ==
  ASSUME ColdTypeInv, NEW l \in Requests, NEW failed \in BOOLEAN, Land(l, failed),
         req[l].pc = "lead"
  PROVE  req' \in [Requests -> LiveRequest]
<1>1. ASSUME NEW r \in Requests, req[r].pc \in {"lead", "join"}
      PROVE  /\ [req[r] EXCEPT !.pc = "done", !.reply = "error", !.leader = None]
                  \in LiveRequest
             /\ [req[r] EXCEPT !.pc = "read", !.leader = None] \in LiveRequest
  BY <1>1 DEF ColdTypeInv, LiveRequest, Request, Replies
<1>2. ASSUME NEW r \in Requests
      PROVE  req'[r] \in LiveRequest
  BY <1>1 DEF Land, ColdTypeInv
<1> QED
  BY <1>2 DEF Land

LEMMA LeaderFetchTyped ==
  ASSUME ColdTypeInv, NEW r \in Requests, LeaderFetch(r)
  PROVE  ColdTypeInv'
<1>1. req[r].feed \in Feeds /\ r \in Crawlers
  BY RequestsCrawl DEF ColdTypeInv, LiveRequest, LeaderFetch
<1>2. TypeInv'
  BY <1>1, FetchTyped, CheckTargetTyped DEF ColdTypeInv, LeaderFetch
<1> QED
  BY <1>2 DEF ColdTypeInv, LeaderFetch

LEMMA LeaderRecordTyped ==
  ASSUME ColdTypeInv, NEW r \in Requests, LeaderRecord(r)
  PROVE  ColdTypeInv'
<1>1. req[r].feed \in Feeds /\ r \in Crawlers
  BY RequestsCrawl DEF ColdTypeInv, LiveRequest, LeaderRecord
<1>2. TypeInv' /\ task[r][req[r].feed].err \in BOOLEAN
  BY <1>1, RecordTyped DEF ColdTypeInv, LeaderRecord, TypeInv, CrawlTask, Task
<1> QED
  BY <1>2, LandTyped DEF ColdTypeInv, LeaderRecord

LEMMA LeaderGivesUpTyped ==
  ASSUME ColdTypeInv, NEW r \in Requests, LeaderGivesUp(r)
  PROVE  ColdTypeInv'
<1>1. req[r].feed \in Feeds /\ r \in Crawlers
  BY RequestsCrawl DEF ColdTypeInv, LiveRequest, LeaderGivesUp
<1>2. TypeInv'
  BY <1>1, EndTyped DEF ColdTypeInv, LeaderGivesUp, TypeInv
<1> QED
  BY <1>2, LandTyped DEF ColdTypeInv, LeaderGivesUp

LEMMA ReadTyped ==
  ASSUME ColdTypeInv, NEW r \in Requests, Read(r)
  PROVE  ColdTypeInv'
<1>1. req[r] \in LiveRequest /\ req[r].pc = "read" /\ shown[req[r].feed] \in Docs \cup {None}
  BY DEF ColdTypeInv, TypeInv, Read, LiveRequest
<1>2. \A reply \in Docs \cup {"unfilled", "error"} :
        [req[r] EXCEPT !.pc = "done", !.reply = reply] \in LiveRequest
  BY <1>1 DEF LiveRequest, Request, Replies
<1>3. PICK reply \in {Listed(req[r].feed), "error"} :
        req' = [req EXCEPT ![r].pc = "done", ![r].reply = reply]
  BY DEF Read
<1>4. reply \in Docs \cup {"unfilled", "error"}
  BY <1>1, <1>3 DEF Listed
<1>5. [req[r] EXCEPT !.pc = "done", !.reply = reply] \in LiveRequest
  BY <1>2, <1>4
<1>6. req' \in [Requests -> LiveRequest]
  BY <1>1, <1>3, <1>5 DEF ColdTypeInv
<1> QED
  BY <1>6 DEF ColdTypeInv, TypeInv, Read, queueVars

LEMMA FinishTyped ==
  ASSUME ColdTypeInv, NEW r \in Requests, Finish(r)
  PROVE  ColdTypeInv'
<1>1. NoRequest \in LiveRequest
  BY TableRowFacts DEF NoRequest, LiveRequest, Request, Replies, TableRow
<1> QED
  BY <1>1 DEF ColdTypeInv, TypeInv, Finish, queueVars

LEMMA ColdTickTyped ==
  ASSUME ColdTypeInv, ColdTick
  PROVE  ColdTypeInv'
<1>1. \A q \in LiveRequest : [q EXCEPT !.dueIn = Less(@)] \in LiveRequest
  BY DEF LiveRequest, Request, Less
<1>2. req' \in [Requests -> LiveRequest]
  BY <1>1 DEF ColdTypeInv, ColdTick
<1> QED
  BY <1>2, TickTyped DEF ColdTypeInv, ColdTick

LEMMA WorkerStepTyped ==
  ASSUME ColdTypeInv, NEW w \in Workers, WorkerStep(w), UNCHANGED req
  PROVE  ColdTypeInv'
  BY RequestsCrawl, ClaimDueFeedsTyped, CrashTyped, FetchTyped, CheckTargetTyped,
     RecordTyped, AbandonTyped DEF ColdTypeInv, WorkerStep, CrawlStep

LEMMA ColdTypeInvariant == ColdSpec => []ColdTypeInv
<1>1. ColdInit => ColdTypeInv
  BY ColdInitTyped
<1>2. ColdTypeInv /\ [ColdNext]_vars => ColdTypeInv'
  <2> SUFFICES ASSUME ColdTypeInv, [ColdNext]_vars
               PROVE  ColdTypeInv'
    OBVIOUS
  <2>1. ASSUME NEW f \in Feeds, NEW u \in Urls, UpsertFeed(f, u), UNCHANGED req
        PROVE  ColdTypeInv'
    BY <2>1, UpsertFeedTyped DEF ColdTypeInv
  <2>2. ASSUME NEW w \in Workers, WorkerStep(w), UNCHANGED req
        PROVE  ColdTypeInv'
    BY <2>2, WorkerStepTyped
  <2>3. ASSUME NEW r \in Requests, NEW f \in Feeds, Resolve(r, f)
        PROVE  ColdTypeInv'
    BY <2>3, ResolveTyped
  <2>4. ASSUME NEW r \in Requests, RequestStep(r)
        PROVE  ColdTypeInv'
    BY <2>4, MarkTyped, LeadTyped, JoinTyped, LeaderFetchTyped, LeaderRecordTyped,
       LeaderGivesUpTyped, ReadTyped, FinishTyped DEF RequestStep
  <2>5. CASE ColdTick
    BY <2>5, ColdTickTyped
  <2>6. CASE UNCHANGED vars
    BY <2>6 DEF vars, ColdTypeInv, TypeInv
  <2> QED
    BY <2>1, <2>2, <2>3, <2>4, <2>5, <2>6 DEF ColdNext
<1> QED
  BY <1>1, <1>2, PTL DEF ColdSpec

(* Type correctness of the episodes endpoint on top of the queue.          *)
THEOREM ColdTypeCorrect == ColdSpec => []ColdTypeOK
<1>1. ColdTypeInv => ColdTypeOK
  BY TypeInvImplies DEF ColdTypeInv, ColdTypeOK, LiveRequest
<1> QED
  BY <1>1, ColdTypeInvariant, PTL

-----------------------------------------------------------------------------
(***************************************************************************)
(* What can be said of a row without knowing how old it is.  The rows of   *)
(* the table, the rows that crawls hold and the rows that requests hold    *)
(* are all good in the same sense: validators come with the URL they were  *)
(* fetched from, and a redirect points at a feed that is there.  A crawl   *)
(* past its fetch has, besides, an awake row.  That is inductive: verdicts *)
(* on good rows are good, rows are only ever copied from one place to      *)
(* another, and feeds never go away.                                       *)
(***************************************************************************)
Present == {f \in Feeds : Exists(f)}

AwakeRow(row) == row.status \notin {"absent", "dormant"}

GoodRow(row, present) ==
  /\ row.validators # None => row.validators[1] = row.url
  /\ row.status = "redirected" => row.redirectedTo \in present

GoodTask(t, present) ==
  /\ GoodRow(t.row, present)
  /\ t.phase \in {"check", "record"} => AwakeRow(t.row)

TableInv ==
  /\ \A f \in Feeds : GoodRow(feeds[f], Present)
  /\ \A f \in Feeds : feeds[f].status = "redirected" => feeds[f].redirectedTo # f
  /\ \A c \in Crawlers, f \in Feeds : GoodTask(task[c][f], Present)

RowsInv == TableInv /\ \A r \in Requests : GoodRow(req[r].row, Present)

(* What no step undoes: a feed's presence, and its being awake. *)
Onward ==
  \A f \in Feeds : /\ Exists(f) => Exists(f)'
                   /\ AwakeRow(feeds[f]) => AwakeRow(feeds'[f])

LEMMA GoodVerdicts ==
  ASSUME NEW row \in StoredRow, NEW present, GoodRow(row, present)
  PROVE  /\ GoodRow(Awake(row), present) /\ AwakeRow(Awake(row))
         /\ \A d : GoodRow(Parsed(row, d), present) /\ AwakeRow(Parsed(row, d))
         /\ GoodRow(NotModified(row), present) /\ AwakeRow(NotModified(row))
         /\ GoodRow(Gone(row), present) /\ AwakeRow(Gone(row))
         /\ GoodRow(Failed(row), present)
         /\ AwakeRow(row) => AwakeRow(Failed(row))
         /\ \A u : GoodRow(MovedTo(row, u), present) /\ AwakeRow(MovedTo(row, u))
         /\ \A g \in present :
              GoodRow(StubOf(row, g), present) /\ AwakeRow(StubOf(row, g))
<1>1. GoodRow(Awake(row), present) /\ AwakeRow(Awake(row))
  BY DEF StoredRow, Row, GoodRow, AwakeRow, Awake
<1>2. \A d : GoodRow(Parsed(row, d), present) /\ AwakeRow(Parsed(row, d))
  BY DEF StoredRow, Row, GoodRow, AwakeRow, Parsed
<1>3. GoodRow(NotModified(row), present) /\ AwakeRow(NotModified(row))
  BY DEF StoredRow, Row, GoodRow, AwakeRow, NotModified
<1>4. GoodRow(Gone(row), present) /\ AwakeRow(Gone(row))
  BY DEF StoredRow, Row, GoodRow, AwakeRow, Gone
<1>5. GoodRow(Failed(row), present) /\ (AwakeRow(row) => AwakeRow(Failed(row)))
  BY DEF StoredRow, Row, GoodRow, AwakeRow, Failed
<1>6. \A u : GoodRow(MovedTo(row, u), present) /\ AwakeRow(MovedTo(row, u))
  BY DEF StoredRow, Row, GoodRow, AwakeRow, MovedTo
<1>7. \A g \in present : GoodRow(StubOf(row, g), present) /\ AwakeRow(StubOf(row, g))
  BY DEF StoredRow, Row, GoodRow, AwakeRow, StubOf
<1> QED
  BY <1>1, <1>2, <1>3, <1>4, <1>5, <1>6, <1>7

LEMMA FetchedGood ==
  ASSUME NEW handed \in StoredRow, NEW present, GoodRow(handed, present),
         NEW due \in Nat, NEW t \in Fetched(handed, due)
  PROVE  GoodTask(t, present)
<1> DEFINE row == Awake(handed)
<1>1. row \in StoredRow /\ GoodRow(row, present) /\ AwakeRow(row)
  BY VerdictRows, GoodVerdicts
<1> HIDE DEF row
<1>2. ASSUME NEW d \in Docs, t \in AnswerDocument(row, due, d)
      PROVE  GoodTask(t, present)
  <2>1. t.row \in {row, NotModified(row), Parsed(row, d)}
    <3>1. CASE row.validators = <<row.url, d>>
      BY <1>2, <3>1 DEF AnswerDocument, ToRecord
    <3>2. CASE row.validators # <<row.url, d>> /\ RealMove(row, Announces[d])
      <4>1. t = ToCheck(row, due, Announces[d], d)
        BY <1>2, <3>2 DEF AnswerDocument
      <4> QED
        BY <4>1 DEF ToCheck
    <3>3. CASE row.validators # <<row.url, d>> /\ ~RealMove(row, Announces[d])
      BY <1>2, <3>3 DEF AnswerDocument, ToRecord
    <3> QED
      BY <3>1, <3>2, <3>3
  <2> QED
    BY <1>1, <2>1, GoodVerdicts DEF GoodTask
<1>3. ASSUME NEW u \in Urls, t \in AnswerMoved(row, due, u)
      PROVE  GoodTask(t, present)
  <2>1. t \in {ToCheck(row, due, u, None), ToRecord(row, due, None, FALSE)}
    BY <1>3 DEF AnswerMoved
  <2>2. t.row = row
    BY <2>1 DEF ToCheck, ToRecord
  <2> QED
    BY <1>1, <2>2 DEF GoodTask
<1>4. ASSUME t \in AnswerGone(row)
      PROVE  GoodTask(t, present)
  <2>1. t.row = Gone(row)
    BY <1>4 DEF AnswerGone, ToRecord
  <2> QED
    BY <1>1, <2>1, GoodVerdicts DEF GoodTask
<1>5. ASSUME t \in AnswerRateLimited(row)
      PROVE  GoodTask(t, present)
  <2>1. t.row = row
    BY <1>5 DEF AnswerRateLimited, ToRecord
  <2> QED
    BY <1>1, <2>1 DEF GoodTask
<1>6. ASSUME t \in AnswerFailed(row)
      PROVE  GoodTask(t, present)
  <2>1. t.row = Failed(row)
    BY <1>6 DEF AnswerFailed, ToRecord
  <2> QED
    BY <1>1, <2>1, GoodVerdicts DEF GoodTask
<1> QED
  BY <1>2, <1>3, <1>4, <1>5, <1>6, FetchedCases DEF row

(* The ownership check: a stub is only made of a feed that is there.       *)
LEMMA MovesGood ==
  ASSUME NEW t \in CrawlTask, t.phase = "check", NEW present, GoodTask(t, present),
         NEW f \in Feeds
  PROVE  /\ \A m \in MoveNotMade(t) : GoodTask(m, present)
         /\ \A g \in present \cup {None} : GoodTask(MoveMade(f, t, g), present)
<1>1. t.row \in StoredRow /\ GoodRow(t.row, present) /\ AwakeRow(t.row)
  BY DEF CrawlTask, GoodTask
<1>2. ASSUME NEW m \in MoveNotMade(t)
      PROVE  GoodTask(m, present)
  <2>1. m.row \in {t.row, Parsed(t.row, t.doc)}
    BY <1>2 DEF MoveNotMade, ToRecord
  <2> QED
    BY <1>1, <2>1, GoodVerdicts DEF GoodTask
<1>3. ASSUME NEW g \in present \cup {None}
      PROVE  GoodTask(MoveMade(f, t, g), present)
  <2>1. CASE g \in Feeds \ {f}
    <3>1. MoveMade(f, t, g).row = StubOf(t.row, g) /\ g \in present
      BY <2>1, NoneAssumption DEF MoveMade, ToRecord
    <3> QED
      BY <1>1, <3>1, GoodVerdicts DEF GoodTask
  <2>2. CASE g \notin Feeds \ {f}
    <3>1. MoveMade(f, t, g).row = MovedTo(t.row, t.to)
      BY <2>2 DEF MoveMade, ToRecord
    <3> QED
      BY <1>1, <3>1, GoodVerdicts DEF GoodTask
  <2> QED
    BY <2>1, <2>2
<1> QED
  BY <1>2, <1>3

-----------------------------------------------------------------------------
(* The steps of the queue keep the table's part, and lead onward.          *)
LEMMA GoodLater ==
  ASSUME Onward, NEW row, GoodRow(row, Present)
  PROVE  GoodRow(row, Present')
<1>1. \A f \in Feeds : Exists(f) => Exists(f)'
  BY DEF Onward
<1>2. Present \subseteq Present'
  BY <1>1 DEF Present
<1> QED
  BY <1>2 DEF GoodRow

LEMMA SameRowsOnward == UNCHANGED feeds => Onward /\ Present' = Present
  BY DEF Onward, Present, Exists

LEMMA BlankGood ==
  ASSUME NEW present
  PROVE  /\ GoodRow(NoRow, present)
         /\ GoodTask(NoTask, present)
         /\ \A u : GoodRow(NewRow(u), present)
  BY DEF GoodRow, GoodTask, NoRow, NoTask, NewRow

(* Tasks that are new, or changed, need to be good; the rest follows.      *)
LEMMA TasksGood ==
  ASSUME TableInv, UNCHANGED feeds,
         \A c \in Crawlers, f \in Feeds :
           \/ GoodTask(task'[c][f], Present)
           \/ task'[c][f] = task[c][f]
  PROVE  TableInv' /\ Onward
<1>1. Onward /\ Present' = Present
  BY SameRowsOnward
<1>2. \A c \in Crawlers, f \in Feeds : GoodTask(task'[c][f], Present)
  BY DEF TableInv
<1> QED
  BY <1>1, <1>2 DEF TableInv

LEMMA UpsertFeedGood ==
  ASSUME TypeInv, TableInv, NEW f \in Feeds, NEW u \in Urls, UpsertFeed(f, u)
  PROVE  TableInv' /\ Onward
<1>1. /\ feeds' = [feeds EXCEPT ![f] = NewRow(u)]
      /\ feeds[f].status = "absent"
      /\ task' = task
  BY DEF UpsertFeed, Exists
<1>2. NewRow(u).status = "dormant"
  BY DEF NewRow, NoRow
<1>3. Onward
  BY <1>1, <1>2 DEF TypeInv, Onward, Exists, AwakeRow
<1>4. \A g \in Feeds : GoodRow(feeds'[g], Present')
  BY <1>1, <1>3, GoodLater, BlankGood DEF TypeInv, TableInv
<1>5. \A c \in Crawlers, g \in Feeds : GoodTask(task'[c][g], Present')
  BY <1>1, <1>3, GoodLater DEF TableInv, GoodTask
<1>6. \A g \in Feeds : feeds'[g].status = "redirected" => feeds'[g].redirectedTo # g
  BY <1>1, <1>2 DEF TypeInv, TableInv
<1> QED
  BY <1>3, <1>4, <1>5, <1>6 DEF TableInv

LEMMA MarkFeedRequestedGood ==
  ASSUME TypeInv, TableInv, NEW f \in Feeds, MarkFeedRequested(f)
  PROVE  TableInv' /\ Onward
<1>1. /\ feeds' = [feeds EXCEPT ![f] = [feeds[f] EXCEPT !.status = "active"]]
      /\ task' = task
  BY DEF MarkFeedRequested
<1>2. \A g \in Feeds :
        /\ feeds'[g].validators = feeds[g].validators
        /\ feeds'[g].url = feeds[g].url
        /\ feeds'[g].redirectedTo = feeds[g].redirectedTo
        /\ feeds'[g].status = feeds[g].status \/ feeds'[g].status = "active"
  BY <1>1 DEF TypeInv, TableRow, Row
<1>3. Onward
  BY <1>2 DEF Onward, Exists, AwakeRow
<1>4. \A g \in Feeds : GoodRow(feeds'[g], Present)
  BY <1>2 DEF TableInv, GoodRow
<1>5. \A c \in Crawlers, g \in Feeds : GoodTask(task'[c][g], Present')
  BY <1>1, <1>3, GoodLater DEF TableInv, GoodTask
<1>6. \A g \in Feeds : feeds'[g].status = "redirected" => feeds'[g].redirectedTo # g
  BY <1>2 DEF TableInv
<1> QED
  BY <1>3, <1>4, <1>5, <1>6, GoodLater DEF TableInv

LEMMA ClaimDueFeedsGood ==
  ASSUME TypeInv, TableInv, NEW w \in Crawlers, ClaimDueFeeds(w)
  PROVE  TableInv' /\ Onward
<1>1. PICK batch \in SUBSET Due :
        task' = [task EXCEPT ![w] =
                   [f \in Feeds |-> IF f \in batch THEN Begin(feeds[f], Lease)
                                                   ELSE task[w][f]]]
  BY DEF ClaimDueFeeds
<1>2. \A f \in Feeds : GoodTask(Begin(feeds[f], Lease), Present)
  BY DEF TableInv, GoodTask, Begin, NoTask
<1>3. \A c \in Crawlers, f \in Feeds :
        GoodTask(task'[c][f], Present) \/ task'[c][f] = task[c][f]
  BY <1>1, <1>2 DEF TypeInv
<1> QED
  BY <1>3, TasksGood DEF ClaimDueFeeds

(* c's crawl of f goes on, or starts, with a good task t. *)
LEMMA OngoingGood ==
  ASSUME TypeInv, TableInv, NEW c \in Crawlers, NEW f \in Feeds, NEW t,
         task' = [task EXCEPT ![c][f] = t], UNCHANGED feeds, GoodTask(t, Present)
  PROVE  TableInv' /\ Onward
<1>1. \A d \in Crawlers, g \in Feeds :
        GoodTask(task'[d][g], Present) \/ task'[d][g] = task[d][g]
  BY DEF TypeInv
<1> QED
  BY <1>1, TasksGood

LEMMA FetchGood ==
  ASSUME TypeInv, TableInv, NEW c \in Crawlers, NEW f \in Feeds, Fetch(c, f)
  PROVE  TableInv' /\ Onward
<1>1. /\ task[c][f].row \in StoredRow
      /\ task[c][f].dueIn \in Nat
      /\ GoodRow(task[c][f].row, Present)
  BY DEF TypeInv, Fetch, CrawlTask, Task, TableInv, GoodTask
<1>2. PICK t \in Fetched(task[c][f].row, task[c][f].dueIn) :
        task' = [task EXCEPT ![c][f] = t]
  BY DEF Fetch
<1>3. GoodTask(t, Present)
  BY <1>1, FetchedGood
<1> QED
  BY <1>2, <1>3, OngoingGood DEF Fetch

LEMMA CheckTargetGood ==
  ASSUME TypeInv, TableInv, NEW c \in Crawlers, NEW f \in Feeds, CheckTarget(c, f)
  PROVE  TableInv' /\ Onward
<1>1. /\ task[c][f] \in CrawlTask
      /\ task[c][f].phase = "check"
      /\ GoodTask(task[c][f], Present)
  BY DEF TypeInv, CheckTarget, TableInv
<1>2. PICK t : /\ task' = [task EXCEPT ![c][f] = t]
               /\ \/ t \in MoveNotMade(task[c][f])
                  \/ \E g \in Present \cup {None} : t = MoveMade(f, task[c][f], g)
  BY DEF CheckTarget, Owners, Present
<1>3. GoodTask(t, Present)
  BY <1>1, <1>2, MovesGood
<1> QED
  BY <1>2, <1>3, OngoingGood DEF CheckTarget

LEMMA EndGood ==
  ASSUME TypeInv, NEW c \in Crawlers, NEW f \in Feeds, End(c, f),
         NEW d \in Crawlers, NEW g \in Feeds
  PROVE  task'[d][g] \in {NoTask, task[d][g]}
  BY DEF TypeInv, End

LEMMA RecordGood ==
  ASSUME TypeInv, TableInv, NEW c \in Crawlers, NEW f \in Feeds, Record(c, f)
  PROVE  TableInv' /\ Onward
<1> DEFINE row == task[c][f].row
<1>1. /\ feeds' = [feeds EXCEPT ![f] = row]
      /\ row.redirectedTo # f
      /\ End(c, f)
  BY DEF Record
<1>2. /\ row \in StoredRow
      /\ AwakeRow(row)
      /\ GoodRow(row, Present)
  BY DEF Record, TypeInv, CrawlTask, TableInv, GoodTask
<1> HIDE DEF row
<1>3. Onward
  BY <1>1, <1>2 DEF TypeInv, Onward, Exists, StoredRow
<1>4. \A g \in Feeds : GoodRow(feeds'[g], Present')
  BY <1>1, <1>2, <1>3, GoodLater DEF TypeInv, TableInv
<1>5. \A d \in Crawlers, g \in Feeds : GoodTask(task'[d][g], Present')
  <2> SUFFICES ASSUME NEW d \in Crawlers, NEW g \in Feeds
               PROVE  GoodTask(task'[d][g], Present')
    OBVIOUS
  <2>1. task'[d][g] \in {NoTask, task[d][g]}
    BY <1>1, EndGood
  <2>2. GoodTask(task[d][g], Present')
    BY <1>3, GoodLater DEF TableInv, GoodTask
  <2> QED
    BY <2>1, <2>2, BlankGood
<1>6. \A g \in Feeds : feeds'[g].status = "redirected" => feeds'[g].redirectedTo # g
  BY <1>1 DEF TypeInv, TableInv
<1> QED
  BY <1>3, <1>4, <1>5, <1>6 DEF TableInv

LEMMA EndOnlyGood ==
  ASSUME TypeInv, TableInv, NEW c \in Crawlers, NEW f \in Feeds, End(c, f),
         UNCHANGED feeds
  PROVE  TableInv' /\ Onward
<1>1. \A d \in Crawlers, g \in Feeds :
        GoodTask(task'[d][g], Present) \/ task'[d][g] = task[d][g]
  BY EndGood, BlankGood
<1> QED
  BY <1>1, TasksGood

LEMMA CrashGood ==
  ASSUME TypeInv, TableInv, NEW c \in Crawlers, Crash(c)
  PROVE  TableInv' /\ Onward
<1>1. \A d \in Crawlers, g \in Feeds :
        GoodTask(task'[d][g], Present) \/ task'[d][g] = task[d][g]
  BY BlankGood DEF Crash, TypeInv
<1> QED
  BY <1>1, TasksGood DEF Crash

LEMMA TickGood ==
  ASSUME TypeInv, TableInv, Tick
  PROVE  TableInv' /\ Onward
<1>1. ASSUME NEW d \in Crawlers, NEW g \in Feeds
      PROVE  GoodTask(task'[d][g], Present)
  <2>1. task'[d][g] = [task[d][g] EXCEPT !.dueIn = Less(@)] /\ task[d][g] \in Task
    BY DEF Tick, TypeInv, CrawlTask
  <2>2. /\ task'[d][g].row = task[d][g].row
        /\ task'[d][g].phase = task[d][g].phase
    BY <2>1 DEF Task
  <2> QED
    BY <2>2 DEF TableInv, GoodTask
<1> QED
  BY <1>1, TasksGood DEF Tick

-----------------------------------------------------------------------------
(* The requests.  Beyond the queue's part, a step of theirs only ever      *)
(* keeps a row it has, or drops it, except that Resolve reads one.         *)
LEMMA RowsFollow ==
  ASSUME RowsInv, TableInv', Onward,
         \A r \in Requests : req'[r].row \in {req[r].row, NoRow}
  PROVE  RowsInv'
<1>1. ASSUME NEW r \in Requests
      PROVE  GoodRow(req'[r].row, Present')
  <2>1. GoodRow(req[r].row, Present')
    BY GoodLater DEF RowsInv
  <2> QED
    BY <2>1, BlankGood
<1> QED
  BY <1>1 DEF RowsInv

(* What each step of a request does to the rows the requests hold. *)
LEMMA RequestRows ==
  ASSUME ColdTypeInv, NEW r \in Requests, RequestStep(r), NEW s \in Requests
  PROVE  req'[s].row \in {req[s].row, NoRow}
<1>1. \A q \in Requests : req[q] \in Request
  BY DEF ColdTypeInv, LiveRequest
<1>2. ASSUME Mark(r)
      PROVE  req'[s].row = req[s].row
  BY <1>1, <1>2 DEF ColdTypeInv, Mark, Request
<1>3. ASSUME Lead(r)
      PROVE  req'[s].row \in {req[s].row, NoRow}
  BY <1>1, <1>3 DEF ColdTypeInv, Lead, Request
<1>4. ASSUME Join(r)
      PROVE  req'[s].row \in {req[s].row, NoRow}
  BY <1>1, <1>4 DEF ColdTypeInv, Join, Request
<1>5. ASSUME NEW failed, Land(r, failed)
      PROVE  req'[s].row = req[s].row
  BY <1>1, <1>5 DEF Land, Request
<1>6. ASSUME Read(r)
      PROVE  req'[s].row = req[s].row
  BY <1>1, <1>6 DEF ColdTypeInv, Read, Request
<1>7. ASSUME Finish(r)
      PROVE  req'[s].row \in {req[s].row, NoRow}
  BY <1>7 DEF ColdTypeInv, Finish, NoRequest
<1> QED
  BY <1>2, <1>3, <1>4, <1>5, <1>6, <1>7
  DEF RequestStep, LeaderFetch, LeaderRecord, LeaderGivesUp

LEMMA ResolveGood ==
  ASSUME ColdTypeInv, RowsInv, NEW r \in Requests, NEW f \in Feeds, Resolve(r, f)
  PROVE  RowsInv' /\ Onward
<1>1. Onward /\ Present' = Present
  BY SameRowsOnward DEF Resolve
<1>2. TableInv'
  BY <1>1 DEF Resolve, RowsInv, TableInv
<1>3. ASSUME NEW s \in Requests
      PROVE  req'[s].row \in {req[s].row, NoRow, feeds[f]}
  BY DEF ColdTypeInv, Resolve, NoRequest
<1>4. \A s \in Requests : GoodRow(req'[s].row, Present)
  BY <1>3, BlankGood DEF RowsInv, TableInv
<1> QED
  BY <1>1, <1>2, <1>4 DEF RowsInv

LEMMA LeadGood ==
  ASSUME ColdTypeInv, RowsInv, NEW r \in Requests, Lead(r)
  PROVE  TableInv' /\ Onward
<1> DEFINE t == Begin(req[r].row, req[r].dueIn)
<1>1. GoodTask(t, Present)
  BY DEF RowsInv, GoodTask, Begin, NoTask
<1>2. /\ TypeInv
      /\ TableInv
      /\ r \in Crawlers
      /\ req[r].feed \in Feeds
      /\ task' = [task EXCEPT ![r][req[r].feed] = t]
      /\ UNCHANGED feeds
  BY RequestsCrawl DEF ColdTypeInv, RowsInv, Lead, LiveRequest
<1> HIDE DEF t
<1> QED
  BY <1>1, <1>2, OngoingGood

LEMMA StillGood ==
  ASSUME TableInv, UNCHANGED <<feeds, task>>
  PROVE  TableInv' /\ Onward
  BY SameRowsOnward DEF TableInv

LEMMA RequestStepGood ==
  ASSUME ColdTypeInv, RowsInv, NEW r \in Requests, RequestStep(r)
  PROVE  RowsInv' /\ Onward
<1>1. TypeInv /\ TableInv /\ r \in Crawlers
  BY RequestsCrawl DEF ColdTypeInv, RowsInv
<1>2. req[r].pc # "idle" => req[r].feed \in Feeds
  BY DEF ColdTypeInv, LiveRequest
<1>3. ASSUME Mark(r)
      PROVE  TableInv' /\ Onward
  <2>1. CASE MarkFeedRequested(req[r].feed)
    BY <1>1, <1>2, <1>3, <2>1, MarkFeedRequestedGood DEF Mark
  <2>2. CASE UNCHANGED queueVars
    BY <1>1, <2>2, StillGood DEF queueVars
  <2> QED
    BY <1>3, <2>1, <2>2 DEF Mark
<1>4. ASSUME Join(r) \/ Read(r) \/ Finish(r)
      PROVE  TableInv' /\ Onward
  BY <1>1, <1>4, StillGood DEF Join, Read, Finish, queueVars
<1>5. ASSUME LeaderFetch(r)
      PROVE  TableInv' /\ Onward
  BY <1>1, <1>2, <1>5, FetchGood, CheckTargetGood DEF LeaderFetch
<1>6. ASSUME LeaderRecord(r)
      PROVE  TableInv' /\ Onward
  BY <1>1, <1>2, <1>6, RecordGood DEF LeaderRecord
<1>7. ASSUME LeaderGivesUp(r)
      PROVE  TableInv' /\ Onward
  BY <1>1, <1>2, <1>7, EndOnlyGood DEF LeaderGivesUp
<1>8. TableInv' /\ Onward
  BY <1>3, <1>4, <1>5, <1>6, <1>7, LeadGood DEF RequestStep
<1> QED
  BY <1>8, RequestRows, RowsFollow

LEMMA WorkerStepGood ==
  ASSUME TypeInv, TableInv, NEW w \in Workers, WorkerStep(w)
  PROVE  TableInv' /\ Onward
<1>1. w \in Crawlers
  BY RequestsCrawl
<1>2. ASSUME NEW f \in Feeds, Abandon(w, f)
      PROVE  TableInv' /\ Onward
  BY <1>1, <1>2, EndOnlyGood DEF Abandon
<1> QED
  BY <1>1, <1>2, ClaimDueFeedsGood, CrashGood, FetchGood, CheckTargetGood, RecordGood
  DEF WorkerStep, CrawlStep

LEMMA InitGood == ColdInit => RowsInv
<1>1. ASSUME ColdInit
      PROVE  RowsInv
  <2>1. \A f \in Feeds : feeds[f] = NoRow
    BY <1>1 DEF ColdInit, Init
  <2>2. \A c \in Crawlers, f \in Feeds : task[c][f] = NoTask
    BY <1>1 DEF ColdInit, Init
  <2>3. \A r \in Requests : req[r].row = NoRow
    BY <1>1 DEF ColdInit, NoRequest
  <2>4. NoRow.status # "redirected"
    BY DEF NoRow
  <2> QED
    BY <2>1, <2>2, <2>3, <2>4, BlankGood DEF RowsInv, TableInv
<1> QED
  BY <1>1

(* Every step keeps the rows good, and leads onward. *)
LEMMA StepGood ==
  ASSUME ColdTypeInv, RowsInv, [ColdNext]_vars
  PROVE  RowsInv' /\ Onward
<1>1. TypeInv /\ TableInv
  BY DEF ColdTypeInv, RowsInv
<1>2. ASSUME TableInv' /\ Onward, UNCHANGED req
      PROVE  RowsInv' /\ Onward
  BY <1>2, RowsFollow
<1>3. ASSUME NEW f \in Feeds, NEW u \in Urls, UpsertFeed(f, u), UNCHANGED req
      PROVE  RowsInv' /\ Onward
  BY <1>1, <1>2, <1>3, UpsertFeedGood
<1>4. ASSUME NEW w \in Workers, WorkerStep(w), UNCHANGED req
      PROVE  RowsInv' /\ Onward
  BY <1>1, <1>2, <1>4, WorkerStepGood
<1>5. ASSUME NEW r \in Requests, NEW f \in Feeds, Resolve(r, f)
      PROVE  RowsInv' /\ Onward
  BY <1>5, ResolveGood
<1>6. ASSUME NEW r \in Requests, RequestStep(r)
      PROVE  RowsInv' /\ Onward
  BY <1>6, RequestStepGood
<1>7. ASSUME ColdTick
      PROVE  RowsInv' /\ Onward
  <2>1. TableInv' /\ Onward
    BY <1>1, <1>7, TickGood DEF ColdTick
  <2>2. ASSUME NEW r \in Requests
        PROVE  req'[r].row = req[r].row
    <3>1. /\ req'[r] = [req[r] EXCEPT !.dueIn = Less(@)]
          /\ req[r] \in Request
      BY <1>7 DEF ColdTick, ColdTypeInv, LiveRequest
    <3> QED
      BY <3>1 DEF Request
  <2> QED
    BY <2>1, <2>2, RowsFollow
<1>8. ASSUME UNCHANGED vars
      PROVE  RowsInv' /\ Onward
  BY <1>1, <1>2, <1>8, StillGood DEF vars
<1> QED
  BY <1>3, <1>4, <1>5, <1>6, <1>7, <1>8 DEF ColdNext

LEMMA RowsInvariant == ColdSpec => []RowsInv
<1>1. ColdTypeInv /\ RowsInv /\ [ColdNext]_vars => RowsInv'
  BY StepGood
<1> QED
  BY <1>1, InitGood, ColdTypeInvariant, PTL DEF ColdSpec

(* No row of the table pairs the URL of one crawl with the etag of         *)
(* another, although crawls overlap and write whole rows back.             *)
THEOREM MatchingValidators == ColdSpec => []ValidatorsMatchUrl
<1>1. RowsInv => ValidatorsMatchUrl
  BY DEF RowsInv, TableInv, GoodRow, ValidatorsMatchUrl
<1> QED
  BY <1>1, RowsInvariant, PTL

(* A redirect stub always points at another feed, which is there,          *)
(* although the row may have moved while the crawl that writes the stub    *)
(* was under way.                                                          *)
THEOREM StubsAreSound == ColdSpec => []StubsPointElsewhere
<1>1. RowsInv => StubsPointElsewhere
  BY DEF RowsInv, TableInv, GoodRow, Present, StubsPointElsewhere
<1> QED
  BY <1>1, RowsInvariant, PTL

(* No step puts an awake feed back to sleep, although the API crawls with  *)
(* rows it read while their feeds were dormant.                            *)
THEOREM StaysAwake == ColdSpec => NeverAsleepAgain
<1>1. ColdTypeInv /\ RowsInv /\ [ColdNext]_vars
        => [\A f \in Feeds : feeds[f].status \notin {"absent", "dormant"}
                               => feeds'[f].status \notin {"absent", "dormant"}]_vars
  <2> SUFFICES ASSUME ColdTypeInv, RowsInv, [ColdNext]_vars, NEW f \in Feeds,
                      AwakeRow(feeds[f])
               PROVE  AwakeRow(feeds'[f])
    BY DEF AwakeRow
  <2> QED
    BY StepGood DEF Onward
<1> QED
  BY <1>1, ColdTypeInvariant, RowsInvariant, PTL DEF ColdSpec, NeverAsleepAgain

-----------------------------------------------------------------------------
(* The single flight: whoever among the requests crawls a feed leads the   *)
(* flight of that feed, and two leaders of one process lead different      *)
(* flights.                                                                *)
FlightInv ==
  /\ \A r \in Requests, f \in Feeds :
       Crawling(r, f) => req[r].pc = "lead" /\ req[r].feed = f
  /\ \A r, s \in Requests :
       (/\ req[r].pc = "lead" /\ req[s].pc = "lead"
        /\ req[r].feed = req[s].feed
        /\ ApiOf[r] = ApiOf[s])
         => r = s

(* The workers, the catalogue and the clock take no part in it. *)
LEMMA FlightsApart ==
  ASSUME FlightInv,
         \A r \in Requests, f \in Feeds : Crawling(r, f)' => Crawling(r, f),
         \A r \in Requests : req'[r].pc = req[r].pc /\ req'[r].feed = req[r].feed
  PROVE  FlightInv'
  BY DEF FlightInv

LEMMA WorkerStepElsewhere ==
  ASSUME ColdTypeInv, NEW w \in Workers, WorkerStep(w), NEW r \in Requests
  PROVE  task'[r] = task[r]
<1>1. r # w /\ w \in Crawlers /\ r \in Crawlers
  BY RequestsAssumption, RequestsCrawl
<1>2. PICK tasks : task' = [task EXCEPT ![w] = tasks]
  BY DEF WorkerStep, CrawlStep, ClaimDueFeeds, Crash, Fetch, CheckTarget, Record,
         Abandon, End
<1> QED
  BY <1>1, <1>2 DEF ColdTypeInv, TypeInv

(* A leader's own steps: one crawl goes on, or ends and its flight lands.  *)
LEMMA LandingFlight ==
  ASSUME ColdTypeInv, FlightInv, NEW l \in Requests, req[l].pc = "lead",
         End(l, req[l].feed), NEW failed, Land(l, failed)
  PROVE  FlightInv'
<1>1. /\ l \in Crawlers
      /\ req[l].feed \in Feeds
      /\ TypeInv
      /\ \A r \in Requests : req[r] \in Request
  BY RequestsCrawl DEF ColdTypeInv, LiveRequest
<1>2. ASSUME NEW r \in Requests, NEW f \in Feeds, Crawling(r, f)'
      PROVE  Crawling(r, f) /\ r # l
  <2>1. Crawling(r, f) /\ <<r, f>> # <<l, req[l].feed>>
    BY <1>1, <1>2, RequestsCrawl, EndOthers
  <2> QED
    BY <2>1 DEF FlightInv
<1>3. ASSUME NEW r \in Requests
      PROVE  /\ req'[r].pc = "lead" => req[r].pc = "lead"
             /\ req[r].pc = "lead" /\ r # l => req'[r].pc = "lead"
             /\ req'[r].feed = req[r].feed
  BY <1>1 DEF Land, Request
<1> QED
  BY <1>2, <1>3 DEF FlightInv

LEMMA LeadFlight ==
  ASSUME ColdTypeInv, FlightInv, NEW r \in Requests, Lead(r)
  PROVE  FlightInv'
<1>1. /\ r \in Crawlers
      /\ req[r].feed \in Feeds
      /\ \A s \in Requests : req[s] \in Request
  BY RequestsCrawl DEF ColdTypeInv, LiveRequest, Lead
<1>2. ASSUME NEW s \in Requests, NEW f \in Feeds, Crawling(s, f)'
      PROVE  Crawling(s, f) \/ (s = r /\ f = req[r].feed)
  BY <1>1, <1>2, RequestsCrawl DEF ColdTypeInv, TypeInv, Lead, Crawling
<1>3. ASSUME NEW s \in Requests
      PROVE  /\ req'[s].feed = req[s].feed
             /\ req'[s].pc = IF s = r THEN "lead" ELSE req[s].pc
  BY <1>1 DEF ColdTypeInv, Lead, Request
<1>4. \A l \in Requests : ~(/\ ApiOf[l] = ApiOf[r]
                            /\ req[l].pc = "lead"
                            /\ req[l].feed = req[r].feed)
  BY DEF Lead, Leaders
<1> QED
  BY <1>2, <1>3, <1>4 DEF FlightInv

(* Steps that leave the crawls alone and make no leader. *)
LEMMA GroundedFlight ==
  ASSUME FlightInv, UNCHANGED task,
         \A s \in Requests : \/ req'[s].pc = req[s].pc /\ req'[s].feed = req[s].feed
                             \/ req'[s].pc # "lead" /\ req[s].pc # "lead"
  PROVE  FlightInv'
  BY DEF FlightInv, Crawling

LEMMA RequestStepFlight ==
  ASSUME ColdTypeInv, FlightInv, NEW r \in Requests, RequestStep(r)
  PROVE  FlightInv'
<1>1. \A s \in Requests : req[s] \in Request
  BY DEF ColdTypeInv, LiveRequest
<1>2. req[r].pc = "lead" => r \in Crawlers /\ req[r].feed \in Feeds
  BY RequestsCrawl DEF ColdTypeInv, LiveRequest
<1>3. ASSUME Mark(r) \/ Join(r) \/ Read(r) \/ Finish(r)
      PROVE  FlightInv'
  <2>1. UNCHANGED task
    BY <1>3 DEF Mark, MarkFeedRequested, Join, Read, Finish, queueVars
  <2>2. /\ req[r].pc # "lead"
        /\ req'[r].pc # "lead"
        /\ \A s \in Requests \ {r} : req'[s] = req[s]
    <3>1. CASE Mark(r)
      BY <1>1, <3>1 DEF Mark, ColdTypeInv, Request
    <3>2. CASE Join(r)
      BY <1>1, <3>2 DEF Join, ColdTypeInv, Request
    <3>3. CASE Read(r)
      BY <1>1, <3>3 DEF Read, ColdTypeInv, Request
    <3>4. CASE Finish(r)
      BY <1>1, <3>4 DEF Finish, ColdTypeInv, NoRequest
    <3> QED
      BY <1>3, <3>1, <3>2, <3>3, <3>4
  <2> QED
    BY <2>1, <2>2, GroundedFlight
<1>4. ASSUME LeaderFetch(r)
      PROVE  FlightInv'
  <2>1. UNCHANGED req /\ Crawling(r, req[r].feed)
    BY <1>4 DEF LeaderFetch, Fetch, CheckTarget, Crawling
  <2>2. PICK t : task' = [task EXCEPT ![r][req[r].feed] = t]
    BY <1>4 DEF LeaderFetch, Fetch, CheckTarget
  <2>3. \A s \in Requests, f \in Feeds : Crawling(s, f)' => Crawling(s, f)
    BY <1>2, <1>4, <2>1, <2>2, RequestsCrawl
    DEF LeaderFetch, ColdTypeInv, TypeInv, Crawling
  <2> QED
    BY <2>1, <2>3, FlightsApart
<1>5. ASSUME LeaderRecord(r) \/ LeaderGivesUp(r)
      PROVE  FlightInv'
  BY <1>5, LandingFlight DEF LeaderRecord, LeaderGivesUp, Record
<1> QED
  BY <1>3, <1>4, <1>5, LeadFlight DEF RequestStep

LEMMA FlightInvariant == ColdSpec => []FlightInv
<1>1. ColdInit => FlightInv
  <2> SUFFICES ASSUME ColdInit
               PROVE  FlightInv
    OBVIOUS
  <2>1. \A r \in Requests, f \in Feeds : ~Crawling(r, f)
    BY RequestsCrawl DEF ColdInit, Init, Crawling, NoTask
  <2>2. \A r \in Requests : req[r].pc = "idle"
    BY DEF ColdInit, NoRequest
  <2> QED
    BY <2>1, <2>2 DEF FlightInv
<1>2. ColdTypeInv /\ FlightInv /\ [ColdNext]_vars => FlightInv'
  <2> SUFFICES ASSUME ColdTypeInv, FlightInv, [ColdNext]_vars
               PROVE  FlightInv'
    OBVIOUS
  <2>1. ASSUME NEW f \in Feeds, NEW u \in Urls, UpsertFeed(f, u), UNCHANGED req
        PROVE  FlightInv'
    BY <2>1, GroundedFlight DEF UpsertFeed
  <2>2. ASSUME NEW w \in Workers, WorkerStep(w), UNCHANGED req
        PROVE  FlightInv'
    BY <2>2, WorkerStepElsewhere, FlightsApart DEF Crawling
  <2>3. ASSUME NEW r \in Requests, NEW f \in Feeds, Resolve(r, f)
        PROVE  FlightInv'
    <3>1. UNCHANGED task
      BY <2>3 DEF Resolve
    <3>2. /\ req[r].pc # "lead"
          /\ req'[r].pc # "lead"
          /\ \A s \in Requests \ {r} : req'[s] = req[s]
      BY <2>3 DEF Resolve, ColdTypeInv, NoRequest
    <3> QED
      BY <3>1, <3>2, GroundedFlight
  <2>4. ASSUME NEW r \in Requests, RequestStep(r)
        PROVE  FlightInv'
    BY <2>4, RequestStepFlight
  <2>5. CASE ColdTick
    <3>1. ASSUME NEW r \in Requests
          PROVE  /\ req'[r].pc = req[r].pc
                 /\ req'[r].feed = req[r].feed
                 /\ \A f \in Feeds : task'[r][f].phase = task[r][f].phase
      <4>1. /\ req'[r] = [req[r] EXCEPT !.dueIn = Less(@)]
            /\ req[r] \in Request
        BY <2>5 DEF ColdTick, ColdTypeInv, LiveRequest
      <4>2. \A f \in Feeds : /\ task'[r][f] = [task[r][f] EXCEPT !.dueIn = Less(@)]
                             /\ task[r][f] \in Task
        BY <2>5, RequestsCrawl DEF ColdTick, Tick, ColdTypeInv, TypeInv, CrawlTask
      <4> QED
        BY <4>1, <4>2 DEF Request, Task
    <3> QED
      BY <3>1, FlightsApart DEF Crawling
  <2>6. CASE UNCHANGED vars
    BY <2>6, GroundedFlight DEF vars
  <2> QED
    BY <2>1, <2>2, <2>3, <2>4, <2>5, <2>6 DEF ColdNext
<1> QED
  BY <1>1, <1>2, ColdTypeInvariant, PTL DEF ColdSpec

-----------------------------------------------------------------------------
(***************************************************************************)
(* A request that finds its feed crawled is told what a document lists     *)
(* (ColdCrawl): the row says so only when there is one, however crawls     *)
(* overlap.                                                                *)
(***************************************************************************)

(* A row that tells of a parsed document: by its last success, or by the   *)
(* validators a later "not modified" would be made of.                     *)
Warm(row) == row.succeeded \/ row.validators # None

WarmRow(row, doc) == Warm(row) => doc # None

(* A crawl may be about to bring the document its row tells of. *)
WarmTask(t, doc) ==
  Warm(t.row) => doc # None \/ (t.phase = "record" /\ t.doc # None)

TableWarm ==
  /\ \A f \in Feeds : WarmRow(feeds[f], shown[f])
  /\ \A c \in Crawlers, f \in Feeds : WarmTask(task[c][f], shown[f])

(* A request that skips the crawl has seen a row that tells of a document. *)
WarmRequest(q, doc) ==
  /\ q.pc # "done" => WarmRow(q.row, doc)
  /\ q.pc \in {"crawl", "lead", "join"} => q.cold
  /\ ~q.cold /\ q.pc \in {"mark", "read"} => doc # None
  /\ ~q.cold /\ q.pc = "done" => q.reply \in Docs \cup {"error"}

WarmInv ==
  /\ TableWarm
  /\ \A r \in Requests : req[r].pc # "idle" => WarmRequest(req[r], shown[req[r].feed])

(* Documents are replaced, never taken away. *)
ShownStays == \A f \in Feeds : shown[f] # None => shown'[f] # None

-----------------------------------------------------------------------------
LEMMA NoDocIsNone == \A d \in Docs : d # None
  BY NoneAssumption

LEMMA BlankWarm ==
  ASSUME NEW doc
  PROVE  /\ WarmRow(NoRow, doc)
         /\ WarmTask(NoTask, doc)
         /\ \A u : WarmRow(NewRow(u), doc)
  BY DEF WarmRow, WarmTask, Warm, NoRow, NoTask, NewRow

(* What the verdicts that parse nothing make of a row. *)
LEMMA WarmVerdicts ==
  ASSUME NEW row \in StoredRow
  PROVE  /\ Warm(Awake(row)) = Warm(row)
         /\ Warm(Gone(row)) = Warm(row)
         /\ Warm(Failed(row)) = Warm(row)
         /\ row.validators # None => Warm(NotModified(row)) = Warm(row)
         /\ \A u : Warm(MovedTo(row, u)) => Warm(row)
         /\ \A g : Warm(StubOf(row, g)) = Warm(row)
<1>1. Warm(Awake(row)) = Warm(row)
  BY DEF StoredRow, Row, Warm, Awake
<1>2. Warm(Gone(row)) = Warm(row)
  BY DEF StoredRow, Row, Warm, Gone
<1>3. Warm(Failed(row)) = Warm(row)
  BY DEF StoredRow, Row, Warm, Failed
<1>4. row.validators # None => Warm(NotModified(row)) = Warm(row)
  BY DEF StoredRow, Row, Warm, NotModified
<1>5. \A u : Warm(MovedTo(row, u)) => Warm(row)
  BY DEF StoredRow, Row, Warm, MovedTo
<1>6. \A g : Warm(StubOf(row, g)) = Warm(row)
  BY DEF StoredRow, Row, Warm, StubOf
<1> QED
  BY <1>1, <1>2, <1>3, <1>4, <1>5, <1>6

LEMMA FetchedWarm ==
  ASSUME NEW handed \in StoredRow, NEW doc, WarmRow(handed, doc),
         NEW due \in Nat, NEW t \in Fetched(handed, due)
  PROVE  WarmTask(t, doc)
<1> DEFINE row == Awake(handed)
<1>1. row \in StoredRow /\ WarmRow(row, doc)
  BY VerdictRows, WarmVerdicts DEF WarmRow
<1> HIDE DEF row
<1>2. ASSUME NEW d \in Docs, t \in AnswerDocument(row, due, d)
      PROVE  WarmTask(t, doc)
  <2>1. CASE row.validators = <<row.url, d>>
    <3>1. t.row = NotModified(row)
      BY <1>2, <2>1 DEF AnswerDocument, ToRecord
    <3>2. row.url \in Urls /\ row.validators # None
      BY <1>1, <2>1, NoneAssumption DEF StoredRow
    <3> QED
      BY <1>1, <3>1, <3>2, WarmVerdicts DEF WarmRow, WarmTask
  <2>2. CASE row.validators # <<row.url, d>> /\ RealMove(row, Announces[d])
    <3>1. t = ToCheck(row, due, Announces[d], d)
      BY <1>2, <2>2 DEF AnswerDocument
    <3>2. t.row = row
      BY <3>1 DEF ToCheck
    <3> QED
      BY <1>1, <3>2 DEF WarmRow, WarmTask
  <2>3. CASE row.validators # <<row.url, d>> /\ ~RealMove(row, Announces[d])
    <3>1. t.phase = "record" /\ t.doc = d
      BY <1>2, <2>3 DEF AnswerDocument, ToRecord
    <3> QED
      BY <3>1, NoDocIsNone DEF WarmTask
  <2> QED
    BY <2>1, <2>2, <2>3
<1>3. ASSUME NEW u \in Urls, t \in AnswerMoved(row, due, u)
      PROVE  WarmTask(t, doc)
  <2>1. t.row = row
    BY <1>3 DEF AnswerMoved, ToCheck, ToRecord
  <2> QED
    BY <1>1, <2>1 DEF WarmRow, WarmTask
<1>4. ASSUME t \in AnswerGone(row) \/ t \in AnswerRateLimited(row) \/ t \in AnswerFailed(row)
      PROVE  WarmTask(t, doc)
  <2>1. t.row \in {Gone(row), row, Failed(row)}
    BY <1>4 DEF AnswerGone, AnswerRateLimited, AnswerFailed, ToRecord
  <2> QED
    BY <1>1, <2>1, WarmVerdicts DEF WarmRow, WarmTask
<1> QED
  BY <1>2, <1>3, <1>4, FetchedCases DEF row

LEMMA MovesWarm ==
  ASSUME NEW t \in CrawlTask, t.phase = "check", NEW doc, WarmTask(t, doc), NEW f \in Feeds
  PROVE  /\ \A m \in MoveNotMade(t) : WarmTask(m, doc)
         /\ \A g : WarmTask(MoveMade(f, t, g), doc)
<1>1. t.row \in StoredRow /\ WarmRow(t.row, doc)
  BY DEF CrawlTask, WarmTask, WarmRow
<1>2. ASSUME NEW m \in MoveNotMade(t)
      PROVE  WarmTask(m, doc)
  <2>1. \/ m.row = t.row
        \/ m.phase = "record" /\ m.doc = t.doc /\ t.doc # None
    BY <1>2 DEF MoveNotMade, ToRecord
  <2> QED
    BY <1>1, <2>1 DEF WarmTask, WarmRow
<1>3. ASSUME NEW g
      PROVE  WarmTask(MoveMade(f, t, g), doc)
  <2>1. MoveMade(f, t, g).row \in {StubOf(t.row, g), MovedTo(t.row, t.to)}
    BY DEF MoveMade, ToRecord
  <2> QED
    BY <1>1, <2>1, WarmVerdicts DEF WarmTask, WarmRow
<1> QED
  BY <1>2, <1>3

-----------------------------------------------------------------------------
(* The steps of the queue keep the table's part, and never take episodes   *)
(* away.                                                                   *)
LEMMA TableFollows ==
  ASSUME TableWarm, ShownStays,
         \A f \in Feeds : WarmRow(feeds'[f], shown'[f]) \/ feeds'[f] = feeds[f],
         \A c \in Crawlers, f \in Feeds :
           WarmTask(task'[c][f], shown'[f]) \/ task'[c][f] = task[c][f]
  PROVE  TableWarm'
<1>1. \A f \in Feeds : WarmRow(feeds'[f], shown'[f])
  BY DEF TableWarm, ShownStays, WarmRow
<1>2. \A c \in Crawlers, f \in Feeds : WarmTask(task'[c][f], shown'[f])
  BY DEF TableWarm, ShownStays, WarmTask
<1> QED
  BY <1>1, <1>2 DEF TableWarm

LEMMA SameShownStays == UNCHANGED shown => ShownStays
  BY DEF ShownStays

LEMMA UpsertFeedWarm ==
  ASSUME TypeInv, TableWarm, NEW f \in Feeds, NEW u \in Urls, UpsertFeed(f, u)
  PROVE  TableWarm' /\ ShownStays
<1>1. feeds' = [feeds EXCEPT ![f] = NewRow(u)] /\ UNCHANGED <<shown, task>>
  BY DEF UpsertFeed
<1>2. \A g \in Feeds : WarmRow(feeds'[g], shown'[g]) \/ feeds'[g] = feeds[g]
  BY <1>1, BlankWarm DEF TypeInv
<1> QED
  BY <1>1, <1>2, SameShownStays, TableFollows

LEMMA MarkFeedRequestedWarm ==
  ASSUME TypeInv, TableWarm, NEW f \in Feeds, MarkFeedRequested(f)
  PROVE  TableWarm' /\ ShownStays
<1>1. /\ feeds' = [feeds EXCEPT ![f] = [feeds[f] EXCEPT !.status = "active"]]
      /\ UNCHANGED <<shown, task>>
  BY DEF MarkFeedRequested
<1>2. \A g \in Feeds : /\ feeds'[g].validators = feeds[g].validators
                       /\ feeds'[g].succeeded = feeds[g].succeeded
  BY <1>1 DEF TypeInv, TableRow, Row
<1>3. \A g \in Feeds : WarmRow(feeds'[g], shown'[g])
  BY <1>1, <1>2 DEF TableWarm, WarmRow, Warm
<1> QED
  BY <1>1, <1>3, SameShownStays, TableFollows

LEMMA ClaimDueFeedsWarm ==
  ASSUME TypeInv, TableWarm, NEW w \in Crawlers, ClaimDueFeeds(w)
  PROVE  TableWarm' /\ ShownStays
<1>1. PICK batch \in SUBSET Due :
        task' = [task EXCEPT ![w] =
                   [f \in Feeds |-> IF f \in batch THEN Begin(feeds[f], Lease)
                                                   ELSE task[w][f]]]
  BY DEF ClaimDueFeeds
<1>2. UNCHANGED <<feeds, shown>>
  BY DEF ClaimDueFeeds
<1>3. \A f \in Feeds : WarmTask(Begin(feeds[f], Lease), shown'[f])
  BY <1>2 DEF TableWarm, WarmRow, WarmTask, Begin, NoTask
<1>4. \A c \in Crawlers, f \in Feeds :
        WarmTask(task'[c][f], shown'[f]) \/ task'[c][f] = task[c][f]
  BY <1>1, <1>3 DEF TypeInv
<1> QED
  BY <1>2, <1>4, SameShownStays, TableFollows

(* c's crawl of f goes on, or starts, with t. *)
LEMMA OngoingWarm ==
  ASSUME TypeInv, TableWarm, NEW c \in Crawlers, NEW f \in Feeds, NEW t,
         task' = [task EXCEPT ![c][f] = t], UNCHANGED <<feeds, shown>>,
         WarmTask(t, shown[f])
  PROVE  TableWarm' /\ ShownStays
<1>1. \A d \in Crawlers, g \in Feeds :
        WarmTask(task'[d][g], shown'[g]) \/ task'[d][g] = task[d][g]
  BY DEF TypeInv
<1> QED
  BY <1>1, SameShownStays, TableFollows

LEMMA FetchWarm ==
  ASSUME TypeInv, TableWarm, NEW c \in Crawlers, NEW f \in Feeds, Fetch(c, f)
  PROVE  TableWarm' /\ ShownStays
<1>1. /\ task[c][f].row \in StoredRow
      /\ task[c][f].dueIn \in Nat
      /\ WarmRow(task[c][f].row, shown[f])
  BY DEF TypeInv, Fetch, CrawlTask, Task, TableWarm, WarmTask, WarmRow
<1>2. PICK t \in Fetched(task[c][f].row, task[c][f].dueIn) :
        task' = [task EXCEPT ![c][f] = t]
  BY DEF Fetch
<1>3. WarmTask(t, shown[f])
  BY <1>1, FetchedWarm
<1> QED
  BY <1>2, <1>3, OngoingWarm DEF Fetch

LEMMA CheckTargetWarm ==
  ASSUME TypeInv, TableWarm, NEW c \in Crawlers, NEW f \in Feeds, CheckTarget(c, f)
  PROVE  TableWarm' /\ ShownStays
<1>1. /\ task[c][f] \in CrawlTask
      /\ task[c][f].phase = "check"
      /\ WarmTask(task[c][f], shown[f])
  BY DEF TypeInv, CheckTarget, TableWarm
<1>2. PICK t : /\ task' = [task EXCEPT ![c][f] = t]
               /\ \/ t \in MoveNotMade(task[c][f])
                  \/ \E g : t = MoveMade(f, task[c][f], g)
  BY DEF CheckTarget
<1>3. WarmTask(t, shown[f])
  BY <1>1, <1>2, MovesWarm
<1> QED
  BY <1>2, <1>3, OngoingWarm DEF CheckTarget

LEMMA EndOnlyWarm ==
  ASSUME TypeInv, TableWarm, NEW c \in Crawlers, NEW f \in Feeds, End(c, f),
         UNCHANGED <<feeds, shown>>
  PROVE  TableWarm' /\ ShownStays
<1>1. \A d \in Crawlers, g \in Feeds :
        WarmTask(task'[d][g], shown'[g]) \/ task'[d][g] = task[d][g]
  BY EndGood, BlankWarm
<1> QED
  BY <1>1, SameShownStays, TableFollows

(* The one step that changes episodes: a row that tells of a document      *)
(* comes with it, or with episodes that are there already.                 *)
LEMMA RecordWarm ==
  ASSUME TypeInv, TableWarm, NEW c \in Crawlers, NEW f \in Feeds, Record(c, f)
  PROVE  TableWarm' /\ ShownStays
<1> DEFINE t == task[c][f]
<1>1. /\ feeds' = [feeds EXCEPT ![f] = t.row]
      /\ shown' = [shown EXCEPT ![f] = IF t.doc = None THEN @ ELSE t.doc]
      /\ End(c, f)
  BY DEF Record
<1>2. WarmTask(t, shown[f])
  BY DEF TableWarm
<1>3. ShownStays
  BY <1>1 DEF TypeInv, ShownStays
<1>4. WarmRow(t.row, shown'[f])
  BY <1>1, <1>2 DEF TypeInv, WarmTask, WarmRow
<1>5. \A g \in Feeds : WarmRow(feeds'[g], shown'[g]) \/ feeds'[g] = feeds[g]
  BY <1>1, <1>4 DEF TypeInv
<1>6. \A d \in Crawlers, g \in Feeds :
        WarmTask(task'[d][g], shown'[g]) \/ task'[d][g] = task[d][g]
  BY <1>1, EndGood, BlankWarm
<1> QED
  BY <1>3, <1>5, <1>6, TableFollows

LEMMA CrashWarm ==
  ASSUME TypeInv, TableWarm, NEW c \in Crawlers, Crash(c)
  PROVE  TableWarm' /\ ShownStays
<1>1. \A d \in Crawlers, g \in Feeds :
        WarmTask(task'[d][g], shown'[g]) \/ task'[d][g] = task[d][g]
  BY BlankWarm DEF Crash, TypeInv
<1> QED
  BY <1>1, SameShownStays, TableFollows DEF Crash

LEMMA TickWarm ==
  ASSUME TypeInv, TableWarm, Tick
  PROVE  TableWarm' /\ ShownStays
<1>1. ASSUME NEW d \in Crawlers, NEW g \in Feeds
      PROVE  WarmTask(task'[d][g], shown'[g])
  <2>1. task'[d][g] = [task[d][g] EXCEPT !.dueIn = Less(@)] /\ task[d][g] \in Task
    BY DEF Tick, TypeInv, CrawlTask
  <2>2. /\ task'[d][g].row = task[d][g].row
        /\ task'[d][g].phase = task[d][g].phase
        /\ task'[d][g].doc = task[d][g].doc
    BY <2>1 DEF Task
  <2> QED
    BY <2>2 DEF Tick, TableWarm, WarmTask
<1> QED
  BY <1>1, SameShownStays, TableFollows DEF Tick

LEMMA WorkerStepWarm ==
  ASSUME TypeInv, TableWarm, NEW w \in Workers, WorkerStep(w)
  PROVE  TableWarm' /\ ShownStays
<1>1. w \in Crawlers
  BY RequestsCrawl
<1>2. ASSUME NEW f \in Feeds, Abandon(w, f)
      PROVE  TableWarm' /\ ShownStays
  BY <1>1, <1>2, EndOnlyWarm DEF Abandon
<1> QED
  BY <1>1, <1>2, ClaimDueFeedsWarm, CrashWarm, FetchWarm, CheckTargetWarm, RecordWarm
  DEF WorkerStep, CrawlStep

-----------------------------------------------------------------------------
(* The requests.                                                           *)
LEMMA WarmRequestLater ==
  ASSUME NEW q, NEW doc, NEW later, WarmRequest(q, doc), doc # None => later # None
  PROVE  WarmRequest(q, later)
  BY DEF WarmRequest, WarmRow

(* Requests that are new, or changed, need to be as they should. *)
LEMMA RequestsFollow ==
  ASSUME ColdTypeInv, WarmInv, TableWarm', ShownStays,
         \A r \in Requests :
           \/ req'[r] = req[r]
           \/ req'[r].pc # "idle" => WarmRequest(req'[r], shown'[req'[r].feed])
  PROVE  WarmInv'
<1>1. ASSUME NEW r \in Requests, req'[r].pc # "idle"
      PROVE  WarmRequest(req'[r], shown'[req'[r].feed])
  <2>1. CASE req'[r] = req[r]
    <3>1. req[r].feed \in Feeds /\ WarmRequest(req[r], shown[req[r].feed])
      BY <1>1, <2>1 DEF ColdTypeInv, LiveRequest, WarmInv
    <3>2. WarmRequest(req[r], shown'[req[r].feed])
      BY <3>1, WarmRequestLater DEF ShownStays
    <3> QED
      BY <2>1, <3>2
  <2> QED
    BY <1>1, <2>1
<1> QED
  BY <1>1 DEF WarmInv

LEMMA ResolveWarm ==
  ASSUME ColdTypeInv, WarmInv, NEW r \in Requests, NEW f \in Feeds, Resolve(r, f)
  PROVE  WarmInv'
<1>1. UNCHANGED <<feeds, shown, task>>
  BY DEF Resolve
<1>2. TableWarm' /\ ShownStays
  BY <1>1, SameShownStays DEF WarmInv, TableWarm
<1>3. WarmRow(feeds[f], shown[f])
  BY DEF WarmInv, TableWarm
<1>4. WarmRequest(req'[r], shown[f]) /\ req'[r].feed = f
  <2> DEFINE read == [NoRequest EXCEPT !.pc = "mark", !.feed = f]
  <2>1. CASE NeverCrawled(feeds[f])
    <3>1. req'[r] = [read EXCEPT !.cold = TRUE, !.row = feeds[f], !.dueIn = dueIn[f]]
      BY <2>1 DEF ColdTypeInv, Resolve
    <3>2. /\ req'[r].pc = "mark" /\ req'[r].feed = f
          /\ req'[r].cold = TRUE /\ req'[r].row = feeds[f]
      BY <3>1 DEF NoRequest
    <3> QED
      BY <1>3, <3>2 DEF WarmRequest
  <2>2. CASE ~NeverCrawled(feeds[f])
    <3>1. req'[r] = read
      BY <2>2 DEF ColdTypeInv, Resolve
    <3>2. req'[r].pc = "mark" /\ req'[r].feed = f /\ req'[r].row = NoRow
      BY <3>1 DEF NoRequest
    <3>3. shown[f] # None
      BY <1>3, <2>2 DEF WarmRow, Warm, NeverCrawled
    <3> QED
      BY <3>2, <3>3, BlankWarm DEF WarmRequest
  <2> QED
    BY <2>1, <2>2
<1>5. \A s \in Requests \ {r} : req'[s] = req[s]
  BY DEF ColdTypeInv, Resolve
<1> QED
  BY <1>1, <1>2, <1>4, <1>5, RequestsFollow

LEMMA LeadWarm ==
  ASSUME ColdTypeInv, WarmInv, NEW r \in Requests, Lead(r)
  PROVE  TableWarm' /\ ShownStays
<1> DEFINE t == Begin(req[r].row, req[r].dueIn)
<1>1. WarmTask(t, shown[req[r].feed])
  BY DEF WarmInv, WarmRequest, Lead, WarmRow, WarmTask, Begin, NoTask
<1>2. /\ TypeInv
      /\ TableWarm
      /\ r \in Crawlers
      /\ req[r].feed \in Feeds
      /\ task' = [task EXCEPT ![r][req[r].feed] = t]
      /\ UNCHANGED <<feeds, shown>>
  BY RequestsCrawl DEF ColdTypeInv, WarmInv, Lead, LiveRequest
<1> HIDE DEF t
<1> QED
  BY <1>1, <1>2, OngoingWarm

LEMMA StillWarm ==
  ASSUME TableWarm, UNCHANGED <<feeds, shown, task>>
  PROVE  TableWarm' /\ ShownStays
  BY SameShownStays DEF TableWarm

(* The table's part of a request's step. *)
LEMMA RequestStepTable ==
  ASSUME ColdTypeInv, WarmInv, NEW r \in Requests, RequestStep(r)
  PROVE  TableWarm' /\ ShownStays
<1>1. TypeInv /\ TableWarm /\ r \in Crawlers
  BY RequestsCrawl DEF ColdTypeInv, WarmInv
<1>2. req[r].pc # "idle" => req[r].feed \in Feeds
  BY DEF ColdTypeInv, LiveRequest
<1>3. ASSUME Mark(r)
      PROVE  TableWarm' /\ ShownStays
  <2>1. CASE MarkFeedRequested(req[r].feed)
    BY <1>1, <1>2, <1>3, <2>1, MarkFeedRequestedWarm DEF Mark
  <2>2. CASE UNCHANGED queueVars
    BY <1>1, <2>2, StillWarm DEF queueVars
  <2> QED
    BY <1>3, <2>1, <2>2 DEF Mark
<1>4. ASSUME Join(r) \/ Read(r) \/ Finish(r)
      PROVE  TableWarm' /\ ShownStays
  BY <1>1, <1>4, StillWarm DEF Join, Read, Finish, queueVars
<1>5. ASSUME LeaderFetch(r)
      PROVE  TableWarm' /\ ShownStays
  BY <1>1, <1>2, <1>5, FetchWarm, CheckTargetWarm DEF LeaderFetch
<1>6. ASSUME LeaderRecord(r)
      PROVE  TableWarm' /\ ShownStays
  BY <1>1, <1>2, <1>6, RecordWarm DEF LeaderRecord
<1>7. ASSUME LeaderGivesUp(r)
      PROVE  TableWarm' /\ ShownStays
  BY <1>1, <1>2, <1>7, EndOnlyWarm DEF LeaderGivesUp
<1> QED
  BY <1>3, <1>4, <1>5, <1>6, <1>7, LeadWarm DEF RequestStep

(* The requests' part: those that never crawl go on to the read, and those *)
(* that are landed have crawled, or waited for somebody who did.           *)
LEMMA RequestStepRequests ==
  ASSUME ColdTypeInv, WarmInv, ShownStays, NEW r \in Requests, RequestStep(r),
         NEW s \in Requests
  PROVE  \/ req'[s] = req[s]
         \/ req'[s].pc # "idle" => WarmRequest(req'[s], shown'[req'[s].feed])
<1>1. /\ req \in [Requests -> LiveRequest]
      /\ \A q \in Requests : req[q] \in Request
      /\ \A q \in Requests : req[q].pc # "idle" => req[q].feed \in Feeds
  BY DEF ColdTypeInv, LiveRequest
<1>2. \A q \in Requests :
        req[q].pc # "idle" => WarmRequest(req[q], shown'[req[q].feed])
  BY <1>1, WarmRequestLater DEF WarmInv, ShownStays
<1>3. ASSUME Mark(r), s = r
      PROVE  WarmRequest(req'[s], shown'[req'[s].feed])
  <2>1. /\ req'[s] = [req[s] EXCEPT !.pc = IF req[s].cold THEN "crawl" ELSE "read"]
        /\ req[s].pc = "mark"
        /\ req[s].cold \in BOOLEAN
    BY <1>1, <1>3 DEF Mark, Request
  <2>2. /\ req'[s].pc = IF req[s].cold THEN "crawl" ELSE "read"
        /\ req'[s].row = req[s].row /\ req'[s].cold = req[s].cold
        /\ req'[s].feed = req[s].feed
    BY <1>1, <2>1 DEF Request
  <2> QED
    BY <1>2, <2>1, <2>2 DEF WarmRequest
<1>4. ASSUME Lead(r) \/ Join(r), s = r
      PROVE  WarmRequest(req'[s], shown'[req'[s].feed])
  <2>1. /\ req'[s].pc \in {"lead", "join"}
        /\ req'[s].row = NoRow
        /\ req'[s].cold = req[s].cold
        /\ req[s].pc = "crawl"
    <3>1. CASE Lead(r)
      BY <1>1, <1>4, <3>1 DEF Lead, Request
    <3>2. CASE Join(r)
      <4>1. PICK l \in Leaders(r) :
              req' = [req EXCEPT ![r].pc = "join", ![r].leader = l,
                                 ![r].row = NoRow, ![r].dueIn = 0]
        BY <3>2 DEF Join
      <4>2. req[r].pc = "crawl"
        BY <3>2 DEF Join
      <4> QED
        BY <1>1, <1>4, <4>1, <4>2 DEF Request
    <3> QED
      BY <1>4, <3>1, <3>2
  <2> QED
    BY <1>2, <2>1, BlankWarm DEF WarmRequest
<1>5. ASSUME NEW failed, Land(r, failed), req[r].pc = "lead", req'[s] # req[s]
      PROVE  WarmRequest(req'[s], shown'[req'[s].feed])
  <2>1. /\ req[s].pc \in {"lead", "join"}
        /\ req'[s].pc \in {"read", "done"}
        /\ req'[s].cold = req[s].cold /\ req'[s].row = req[s].row
        /\ req'[s].feed = req[s].feed
    BY <1>1, <1>5 DEF Land, Request
  <2> QED
    BY <1>2, <2>1 DEF WarmRequest
<1>6. ASSUME Read(r), s = r
      PROVE  WarmRequest(req'[s], shown'[req'[s].feed])
  <2>1. /\ req[s].pc = "read" /\ req'[s].pc = "done"
        /\ req'[s].cold = req[s].cold
        /\ req'[s].reply \in {Listed(req[s].feed), "error"}
        /\ shown' = shown
    BY <1>1, <1>6 DEF Read, Request, queueVars
  <2>2. shown[req[s].feed] \in Docs \cup {None}
    BY <1>1, <2>1 DEF ColdTypeInv, TypeInv
  <2> QED
    BY <1>2, <2>1, <2>2 DEF WarmRequest, Listed
<1>7. ASSUME Finish(r), s = r
      PROVE  req'[s].pc = "idle"
  BY <1>1, <1>7 DEF Finish, NoRequest
<1>8. ASSUME Mark(r) \/ Lead(r) \/ Join(r) \/ Read(r) \/ Finish(r), s # r
      PROVE  req'[s] = req[s]
  BY <1>1, <1>8 DEF Mark, Lead, Join, Read, Finish
<1> QED
  BY <1>3, <1>4, <1>5, <1>6, <1>7, <1>8
  DEF RequestStep, LeaderFetch, LeaderRecord, LeaderGivesUp

LEMMA InitWarm == ColdInit => WarmInv
<1> SUFFICES ASSUME ColdInit
             PROVE  WarmInv
  OBVIOUS
<1>1. \A f \in Feeds : feeds[f] = NoRow
  BY DEF ColdInit, Init
<1>2. \A c \in Crawlers, f \in Feeds : task[c][f] = NoTask
  BY DEF ColdInit, Init
<1>3. \A r \in Requests : req[r].pc = "idle"
  BY DEF ColdInit, NoRequest
<1> QED
  BY <1>1, <1>2, <1>3, BlankWarm DEF WarmInv, TableWarm

LEMMA WarmStep ==
  ASSUME ColdTypeInv, WarmInv, [ColdNext]_vars
  PROVE  WarmInv'
<1>1. TypeInv /\ TableWarm
  BY DEF ColdTypeInv, WarmInv
<1>2. ASSUME TableWarm' /\ ShownStays, UNCHANGED req
      PROVE  WarmInv'
  BY <1>2, RequestsFollow
<1>3. ASSUME NEW f \in Feeds, NEW u \in Urls, UpsertFeed(f, u), UNCHANGED req
      PROVE  WarmInv'
  BY <1>1, <1>2, <1>3, UpsertFeedWarm
<1>4. ASSUME NEW w \in Workers, WorkerStep(w), UNCHANGED req
      PROVE  WarmInv'
  BY <1>1, <1>2, <1>4, WorkerStepWarm
<1>5. ASSUME NEW r \in Requests, RequestStep(r)
      PROVE  WarmInv'
  <2>1. TableWarm' /\ ShownStays
    BY <1>5, RequestStepTable
  <2>2. \A s \in Requests :
          \/ req'[s] = req[s]
          \/ req'[s].pc # "idle" => WarmRequest(req'[s], shown'[req'[s].feed])
    BY <1>5, <2>1, RequestStepRequests
  <2> QED
    BY <2>1, <2>2, RequestsFollow
<1>6. ASSUME ColdTick
      PROVE  WarmInv'
  <2>1. TableWarm' /\ ShownStays /\ shown' = shown
    BY <1>1, <1>6, TickWarm DEF ColdTick, Tick
  <2>2. ASSUME NEW r \in Requests, req'[r].pc # "idle"
        PROVE  WarmRequest(req'[r], shown'[req'[r].feed])
    <3>1. /\ req'[r] = [req[r] EXCEPT !.dueIn = Less(@)]
          /\ req[r] \in Request
      BY <1>6 DEF ColdTick, ColdTypeInv, LiveRequest
    <3>2. /\ req'[r].pc = req[r].pc /\ req'[r].row = req[r].row
          /\ req'[r].cold = req[r].cold /\ req'[r].reply = req[r].reply
          /\ req'[r].feed = req[r].feed
      BY <3>1 DEF Request
    <3> QED
      BY <2>1, <2>2, <3>2 DEF WarmInv, WarmRequest
  <2> QED
    BY <2>1, <2>2, RequestsFollow
<1>7. ASSUME UNCHANGED vars
      PROVE  WarmInv'
  BY <1>1, <1>2, <1>7, StillWarm DEF vars
<1> QED
  BY <1>3, <1>4, <1>5, <1>6, <1>7, ResolveWarm DEF ColdNext

(* A request that finds its feed crawled before is told what a document    *)
(* lists, possibly nothing, or that the database failed: however stale the *)
(* rows are that overlapping crawls write over each other, no row tells of *)
(* a success of which there is no document (ApplyCrawl, getEpisodes).      *)
THEOREM CrawledFeedsAreFilled == ColdSpec => []CrawledIsNotUnfilled
<1>1. WarmInv => CrawledIsNotUnfilled
  BY DEF WarmInv, WarmRequest, CrawledIsNotUnfilled
<1>2. ColdTypeInv /\ WarmInv /\ [ColdNext]_vars => WarmInv'
  BY WarmStep
<1> QED
  BY <1>1, <1>2, InitWarm, ColdTypeInvariant, PTL DEF ColdSpec

-----------------------------------------------------------------------------
(***************************************************************************)
(* What promptness buys.  A request takes no lease, so a cold crawl may    *)
(* overlap with a crawler's; but it begins with a row that has no          *)
(* validators, and whoever writes validators moves the next check further  *)
(* away than anybody who has begun by then takes to come to its end.  So a *)
(* row with validators is handed out to one crawler, and to nobody else    *)
(* until that is done.                                                     *)
(***************************************************************************)
(* Twice the longest crawl fits into the shortest interval. *)
Unhurried == \A w \in Intervals : w > 2 * BatchTime /\ w > 2 * RequestTime

Validated(row) == row.validators # None

(* Validators are proof of a crawl. *)
EarnedRow(row) == Validated(row) => row.succeeded /\ AwakeRow(row)

(* Request r has a row in hand that it is going to crawl with. *)
Intends(r, f) == req[r].cold /\ req[r].pc \in {"mark", "crawl"} /\ req[r].feed = f

Holds(c, f) == Crawling(c, f) \/ (c \in Requests /\ Intends(c, f))

Sole(c, f) == \A d \in Crawlers : Holds(d, f) => d = c

Parses(t) == t.phase = "record" /\ t.doc # None

(* c's crawl of f: it brings a document with validators for it, and a next *)
(* check that is far enough away, or else what validators it has are the   *)
(* table's and nobody else is at it.                                       *)
PromptTask(c, f) ==
  LET t == task[c][f] IN
    /\ EarnedRow(t.row)
    /\ Parses(t) => /\ t.row.validators = <<t.row.url, t.doc>>
                    /\ t.dueIn > left[c] + BatchTime /\ t.dueIn > left[c] + RequestTime
    /\ Validated(t.row) /\ ~Parses(t) =>
          /\ t.row.validators = feeds[f].validators /\ t.row.url = feeds[f].url
          /\ Sole(c, f)

PromptFeed(f) ==
  /\ EarnedRow(feeds[f])
  /\ Validated(feeds[f]) => /\ feeds[f].validators = <<feeds[f].url, shown[f]>>
                            /\ \A c \in Crawlers : Holds(c, f) => left[c] < dueIn[f]

PromptInv ==
  /\ \A f \in Feeds : PromptFeed(f)
  /\ \A c \in Crawlers, f \in Feeds : Crawling(c, f) => PromptTask(c, f)
  /\ \A r \in Requests, f \in Feeds : Intends(r, f) => ~Validated(req[r].row)
  /\ \A r \in Requests : req[r].pc = "crawl" => req[r].cold
  /\ \A c \in Crawlers : left[c] <= BatchTime \/ left[c] <= RequestTime

(* What a verdict does to validators: it brings a document's own, keeps    *)
(* those of the row in hand with its URL, or leaves none.                  *)
Follows(t, row) ==
  /\ EarnedRow(t.row)
  /\ Parses(t) => t.row.validators = <<t.row.url, t.doc>> /\ t.dueIn \in Intervals
  /\ Validated(t.row) /\ ~Parses(t) => /\ t.row.validators = row.validators
                                       /\ t.row.url = row.url

LEMMA VerdictsEarned ==
  ASSUME NEW row \in StoredRow, EarnedRow(row)
  PROVE  /\ EarnedRow(Awake(row))
         /\ Awake(row).validators = row.validators /\ Awake(row).url = row.url
         /\ \A d : /\ EarnedRow(Parsed(row, d))
                   /\ Parsed(row, d).validators = <<Parsed(row, d).url, d>>
         /\ \A v \in {NotModified(row), Gone(row), Failed(row)} :
              EarnedRow(v) /\ v.validators = row.validators /\ v.url = row.url
         /\ \A u : EarnedRow(MovedTo(row, u)) /\ ~Validated(MovedTo(row, u))
         /\ \A g : /\ EarnedRow(StubOf(row, g))
                   /\ StubOf(row, g).validators = row.validators
                   /\ StubOf(row, g).url = row.url
<1>1. /\ EarnedRow(Awake(row))
      /\ Awake(row).validators = row.validators /\ Awake(row).url = row.url
  BY DEF StoredRow, Row, EarnedRow, Validated, AwakeRow, Awake
<1>2. \A d : /\ EarnedRow(Parsed(row, d))
             /\ Parsed(row, d).validators = <<Parsed(row, d).url, d>>
  BY DEF StoredRow, Row, EarnedRow, Validated, AwakeRow, Parsed
<1>3. \A v \in {NotModified(row), Gone(row), Failed(row)} :
        EarnedRow(v) /\ v.validators = row.validators /\ v.url = row.url
  BY DEF StoredRow, Row, EarnedRow, Validated, AwakeRow, NotModified, Gone, Failed
<1>4. \A u : EarnedRow(MovedTo(row, u)) /\ ~Validated(MovedTo(row, u))
  BY DEF StoredRow, Row, EarnedRow, Validated, AwakeRow, MovedTo
<1>5. \A g : /\ EarnedRow(StubOf(row, g))
             /\ StubOf(row, g).validators = row.validators
             /\ StubOf(row, g).url = row.url
  BY DEF StoredRow, Row, EarnedRow, Validated, AwakeRow, StubOf
<1> QED BY <1>1, <1>2, <1>3, <1>4, <1>5

LEMMA FetchedFollows ==
  ASSUME NEW handed \in StoredRow, EarnedRow(handed),
         NEW due \in Nat, NEW t \in Fetched(handed, due)
  PROVE  Follows(t, handed)
<1> DEFINE row == Awake(handed)
<1>1. /\ row \in StoredRow /\ EarnedRow(row)
      /\ row.validators = handed.validators /\ row.url = handed.url
  BY VerdictRows, VerdictsEarned
<1>2. ASSUME NEW r, NEW w, NEW err, t = ToRecord(r, w, None, err), EarnedRow(r),
             r.validators = row.validators, r.url = row.url
      PROVE  Follows(t, handed)
  BY <1>1, <1>2 DEF ToRecord, Follows, Parses
<1>3. ASSUME NEW u, NEW doc, t = ToCheck(row, due, u, doc)
      PROVE  Follows(t, handed)
  BY <1>1, <1>3 DEF ToCheck, Follows, Parses
<1>4. \A v \in {row, NotModified(row), Gone(row), Failed(row)} :
        EarnedRow(v) /\ v.validators = row.validators /\ v.url = row.url
  BY <1>1, VerdictsEarned
<1> HIDE DEF row
<1>5. ASSUME NEW d \in Docs, t \in AnswerDocument(row, due, d)
      PROVE  Follows(t, handed)
  <2>1. CASE row.validators = <<row.url, d>>
    BY <1>2, <1>4, <1>5, <2>1 DEF AnswerDocument
  <2>2. CASE row.validators # <<row.url, d>> /\ RealMove(row, Announces[d])
    BY <1>3, <1>5, <2>2 DEF AnswerDocument
  <2>3. CASE row.validators # <<row.url, d>> /\ ~RealMove(row, Announces[d])
    <3>1. PICK w \in Intervals : t = ToRecord(Parsed(row, d), w, d, FALSE)
      BY <1>5, <2>3 DEF AnswerDocument
    <3>2. /\ EarnedRow(Parsed(row, d))
          /\ Parsed(row, d).validators = <<Parsed(row, d).url, d>>
          /\ d # None
      BY <1>1, VerdictsEarned, NoDocIsNone
    <3>3. t.phase = "record" /\ t.doc = d /\ t.dueIn = w /\ t.row = Parsed(row, d)
      BY <3>1 DEF ToRecord
    <3> QED BY <3>2, <3>3 DEF Follows, Parses
  <2> QED BY <2>1, <2>2, <2>3
<1>6. ASSUME NEW u \in Urls, t \in AnswerMoved(row, due, u)
      PROVE  Follows(t, handed)
  BY <1>2, <1>3, <1>4, <1>6 DEF AnswerMoved
<1>7. ASSUME t \in AnswerGone(row) \/ t \in AnswerRateLimited(row) \/ t \in AnswerFailed(row)
      PROVE  Follows(t, handed)
  BY <1>2, <1>4, <1>7 DEF AnswerGone, AnswerRateLimited, AnswerFailed
<1> QED BY <1>5, <1>6, <1>7, FetchedCases DEF row

LEMMA MovesFollow ==
  ASSUME NEW f \in Feeds, NEW m \in CrawlTask, m.phase = "check", EarnedRow(m.row),
         NEW t, t \in MoveNotMade(m) \/ \E g : t = MoveMade(f, m, g)
  PROVE  Follows(t, m.row)
<1> DEFINE row == m.row
<1>1. row \in StoredRow /\ m.doc \in Docs \cup {None}
  BY DEF CrawlTask, Task
<1>2. ASSUME NEW g, t = MoveMade(f, m, g)
      PROVE  Follows(t, row)
  <2>1. t.row = StubOf(row, g) \/ t.row = MovedTo(row, m.to)
    BY <1>2 DEF MoveMade, ToRecord
  <2>2. ~Parses(t)
    BY <1>2 DEF MoveMade, ToRecord, Parses
  <2> QED BY <1>1, <2>1, <2>2, VerdictsEarned DEF Follows
<1>3. CASE m.doc = None /\ t \in MoveNotMade(m)
  BY <1>3 DEF MoveNotMade, ToRecord, Parses, Follows
<1>4. CASE m.doc # None /\ t \in MoveNotMade(m)
  <2>1. PICK w \in Intervals : t = ToRecord(Parsed(row, m.doc), w, m.doc, FALSE)
    BY <1>4 DEF MoveNotMade
  <2>2. /\ t.phase = "record" /\ t.doc = m.doc /\ t.dueIn = w
        /\ t.row = Parsed(row, m.doc)
    BY <2>1 DEF ToRecord
  <2> QED BY <1>1, <1>4, <2>2, VerdictsEarned DEF Follows, Parses
<1> QED BY <1>2, <1>3, <1>4

(* No request takes up a row. *)
IntentsFade ==
  \A r \in Requests :
    /\ \A f \in Feeds : Intends(r, f)' => Intends(r, f) /\ req'[r].row = req[r].row
    /\ req'[r].pc = "crawl" => req'[r].cold

(* A step that hands out no validators and writes none: rows with          *)
(* validators stay as they are, and of the crawls that go on each is what  *)
(* it was or has none.                                                     *)
LEMMA CalmPrompt ==
  ASSUME PromptInv,
         \A f \in Feeds :
           \/ feeds'[f] = feeds[f] /\ dueIn'[f] = dueIn[f] /\ shown'[f] = shown[f]
           \/ ~Validated(feeds[f]) /\ ~Validated(feeds'[f]),
         \A c \in Crawlers, f \in Feeds :
           /\ Crawling(c, f)' => \/ Crawling(c, f) /\ task'[c][f] = task[c][f]
                                 \/ ~Validated(task'[c][f].row) /\ ~Parses(task'[c][f])
           /\ Holds(c, f)' => Holds(c, f),
         \A c \in Crawlers : /\ left[c] \in Nat /\ left'[c] \in Nat /\ left'[c] <= left[c]
                             /\ \A f \in Feeds : task[c][f].dueIn \in Nat,
         \A f \in Feeds : dueIn[f] \in Nat,
         IntentsFade
  PROVE  PromptInv'
<1>1. BatchTime \in Nat /\ RequestTime \in Nat
  BY TimesAssumption, RequestTimeAssumption
<1>2. ASSUME NEW f \in Feeds PROVE PromptFeed(f)'
  <2>1. CASE ~Validated(feeds'[f])
    BY <2>1 DEF PromptFeed, EarnedRow, Validated
  <2>2. CASE feeds'[f] = feeds[f] /\ dueIn'[f] = dueIn[f] /\ shown'[f] = shown[f]
    <3>1. PromptFeed(f)
      BY DEF PromptInv
    <3>2. \A c \in Crawlers : Validated(feeds[f]) /\ Holds(c, f)' => left'[c] < dueIn'[f]
      BY <2>2, <3>1 DEF PromptFeed
    <3> QED BY <2>2, <3>1, <3>2 DEF PromptFeed, EarnedRow, Validated, AwakeRow
  <2> QED BY <2>1, <2>2
<1>3. ASSUME NEW c \in Crawlers, NEW f \in Feeds, Crawling(c, f)'
      PROVE  PromptTask(c, f)'
  <2>1. CASE ~Validated(task'[c][f].row) /\ ~Parses(task'[c][f])
    BY <2>1 DEF PromptTask, EarnedRow, Validated, Parses
  <2>2. CASE Crawling(c, f) /\ task'[c][f] = task[c][f]
    <3>1. PromptTask(c, f)
      BY <2>2 DEF PromptInv
    <3>2. Parses(task[c][f]) => /\ task[c][f].dueIn > left'[c] + BatchTime
                                /\ task[c][f].dueIn > left'[c] + RequestTime
      BY <1>1, <3>1 DEF PromptTask
    <3>3. ASSUME Validated(task[c][f].row), ~Parses(task[c][f])
          PROVE  /\ task[c][f].row.validators = feeds'[f].validators
                 /\ task[c][f].row.url = feeds'[f].url
                 /\ Sole(c, f)'
      BY <3>1, <3>3 DEF PromptTask, Sole, Validated
    <3> QED BY <2>2, <3>1, <3>2, <3>3
            DEF PromptTask, EarnedRow, Validated, AwakeRow, Parses
  <2> QED BY <1>3, <2>1, <2>2
<1>4. ASSUME NEW r \in Requests, NEW f \in Feeds, Intends(r, f)'
      PROVE  ~Validated(req'[r].row)
  BY <1>4 DEF PromptInv, IntentsFade
<1>5. \A c \in Crawlers : left'[c] <= BatchTime \/ left'[c] <= RequestTime
  BY <1>1 DEF PromptInv
<1> QED BY <1>2, <1>3, <1>4, <1>5 DEF PromptInv, Validated, IntentsFade

LEMMA ClocksTyped ==
  ASSUME ColdTypeInv
  PROVE  /\ \A c \in Crawlers : left[c] \in Nat /\ \A f \in Feeds : task[c][f].dueIn \in Nat
         /\ \A f \in Feeds : dueIn[f] \in Nat
         /\ BatchTime \in Nat /\ RequestTime \in Nat /\ Lease \in Nat
<1>1. \A c \in Crawlers, f \in Feeds : task[c][f] \in Task
  BY DEF ColdTypeInv, TypeInv, CrawlTask
<1> QED BY <1>1, TimesAssumption, RequestTimeAssumption DEF ColdTypeInv, TypeInv, Task

(* c's crawl of f goes on to t, which follows from the row it held. *)
LEMMA OngoingPrompt ==
  ASSUME Unhurried, ColdTypeInv, PromptInv, NEW c \in Crawlers, NEW f \in Feeds,
         Crawling(c, f), ~Parses(task[c][f]), NEW t, Follows(t, task[c][f].row),
         task' = [task EXCEPT ![c][f] = t], UNCHANGED <<feeds, dueIn, shown, left, req>>
  PROVE  PromptInv'
<1>1. \A d \in Crawlers, g \in Feeds : task'[d][g] = IF d = c /\ g = f THEN t ELSE task[d][g]
  BY DEF ColdTypeInv, TypeInv
<1>2. \A d \in Crawlers, g \in Feeds : Holds(d, g)' => Holds(d, g)
  BY <1>1 DEF Holds, Intends, Crawling
<1>3. ASSUME NEW g \in Feeds PROVE PromptFeed(g)'
  <2>1. PromptFeed(g)
    BY DEF PromptInv
  <2> QED BY <1>2, <2>1 DEF PromptFeed, EarnedRow, Validated, AwakeRow
<1>4. PromptTask(c, f)'
  <2>1. PromptTask(c, f)
    BY DEF PromptInv
  <2>2. ASSUME t.dueIn \in Intervals
        PROVE  t.dueIn > left[c] + BatchTime /\ t.dueIn > left[c] + RequestTime
    <3>1. /\ t.dueIn \in Nat /\ left[c] \in Nat /\ BatchTime \in Nat /\ RequestTime \in Nat
          /\ left[c] <= BatchTime \/ left[c] <= RequestTime
      BY <2>2, ClocksTyped, DelaysAssumption DEF PromptInv
    <3>2. t.dueIn > 2 * BatchTime /\ t.dueIn > 2 * RequestTime
      BY <2>2 DEF Unhurried
    <3> QED BY <3>1, <3>2
  <2>3. /\ EarnedRow(t.row)
        /\ Parses(t) => /\ t.row.validators = <<t.row.url, t.doc>>
                        /\ t.dueIn > left[c] + BatchTime /\ t.dueIn > left[c] + RequestTime
    BY <2>2 DEF Follows
  <2>4. ASSUME Validated(t.row), ~Parses(t)
        PROVE  /\ t.row.validators = feeds[f].validators /\ t.row.url = feeds[f].url
               /\ Sole(c, f)'
    <3>1. /\ t.row.validators = task[c][f].row.validators
          /\ t.row.url = task[c][f].row.url
      BY <2>4 DEF Follows
    <3>2. Validated(task[c][f].row)
      BY <2>4, <3>1 DEF Validated
    <3>3. /\ task[c][f].row.validators = feeds[f].validators
          /\ task[c][f].row.url = feeds[f].url /\ Sole(c, f)
      BY <2>1, <3>2 DEF PromptTask
    <3> QED BY <1>2, <3>1, <3>3 DEF Sole
  <2>5. task'[c][f] = t
    BY <1>1
  <2> QED BY <2>3, <2>4, <2>5 DEF PromptTask, EarnedRow, Validated, AwakeRow, Parses
<1>5. ASSUME NEW d \in Crawlers, NEW g \in Feeds, Crawling(d, g)'
      PROVE  PromptTask(d, g)'
  <2>1. CASE d = c /\ g = f
    BY <1>4, <2>1
  <2>2. CASE ~(d = c /\ g = f)
    <3>1. task'[d][g] = task[d][g]
      BY <1>1, <2>2
    <3>2. PromptTask(d, g)
      BY <1>5, <3>1 DEF PromptInv, Crawling
    <3>3. Sole(d, g) => Sole(d, g)'
      BY <1>2 DEF Sole
    <3> QED BY <3>1, <3>2, <3>3 DEF PromptTask, EarnedRow, Validated, AwakeRow, Parses
  <2> QED BY <2>1, <2>2
<1>6. ASSUME NEW r \in Requests, NEW g \in Feeds, Intends(r, g)'
      PROVE  ~Validated(req'[r].row)
  BY <1>6 DEF PromptInv, Intends
<1> QED BY <1>3, <1>5, <1>6 DEF PromptInv, Validated

LEMMA FetchPrompt ==
  ASSUME Unhurried, ColdTypeInv, PromptInv, NEW c \in Crawlers, NEW f \in Feeds,
         Fetch(c, f), UNCHANGED req
  PROVE  PromptInv'
<1>1. /\ task[c][f].row \in StoredRow /\ task[c][f].dueIn \in Nat
      /\ Crawling(c, f) /\ ~Parses(task[c][f])
  BY DEF Fetch, Crawling, Parses, ColdTypeInv, TypeInv, CrawlTask, Task
<1>2. EarnedRow(task[c][f].row)
  BY <1>1 DEF PromptInv, PromptTask
<1>3. PICK t \in Fetched(task[c][f].row, task[c][f].dueIn) : task' = [task EXCEPT ![c][f] = t]
  BY DEF Fetch
<1>4. Follows(t, task[c][f].row)
  BY <1>1, <1>2, FetchedFollows
<1>5. UNCHANGED <<feeds, dueIn, shown, left, req>>
  BY DEF Fetch
<1> QED BY <1>1, <1>3, <1>4, <1>5, OngoingPrompt

LEMMA CheckTargetPrompt ==
  ASSUME Unhurried, ColdTypeInv, PromptInv, NEW c \in Crawlers, NEW f \in Feeds,
         CheckTarget(c, f), UNCHANGED req
  PROVE  PromptInv'
<1>1. /\ task[c][f] \in CrawlTask /\ task[c][f].phase = "check"
      /\ Crawling(c, f) /\ ~Parses(task[c][f])
  BY DEF CheckTarget, Crawling, Parses, ColdTypeInv, TypeInv
<1>2. EarnedRow(task[c][f].row)
  BY <1>1 DEF PromptInv, PromptTask
<1>3. PICK t : /\ t \in MoveNotMade(task[c][f]) \/ \E g : t = MoveMade(f, task[c][f], g)
               /\ task' = [task EXCEPT ![c][f] = t]
  BY DEF CheckTarget
<1>4. Follows(t, task[c][f].row)
  BY <1>1, <1>2, <1>3, MovesFollow
<1>5. UNCHANGED <<feeds, dueIn, shown, left, req>>
  BY DEF CheckTarget
<1> QED BY <1>1, <1>3, <1>4, <1>5, OngoingPrompt

LEMMA EndCrawls ==
  ASSUME ColdTypeInv, NEW c \in Crawlers, NEW f \in Feeds, End(c, f)
  PROVE  /\ \A d \in Crawlers, g \in Feeds :
              Crawling(d, g)' => /\ Crawling(d, g) /\ task'[d][g] = task[d][g]
                                 /\ ~(d = c /\ g = f)
         /\ \A d \in Crawlers : left'[d] \in Nat /\ left'[d] <= left[d]
<1>1. /\ left \in [Crawlers -> Nat] /\ task \in [Crawlers -> [Feeds -> CrawlTask]]
  BY DEF ColdTypeInv, TypeInv
<1>2. \A d \in Crawlers, g \in Feeds :
        task'[d][g] = IF d = c /\ g = f THEN NoTask ELSE task[d][g]
  BY <1>1 DEF End
<1>3. \A d \in Crawlers : left'[d] = left[d] \/ left'[d] = 0
  BY <1>1 DEF End
<1> QED BY <1>1, <1>2, <1>3 DEF Crawling, NoTask

(* The end of a crawl that leaves the table alone. *)
LEMMA EndPrompt ==
  ASSUME ColdTypeInv, PromptInv, NEW c \in Crawlers, NEW f \in Feeds, End(c, f),
         UNCHANGED <<feeds, dueIn, shown>>, IntentsFade
  PROVE  PromptInv'
<1>1. \A d \in Crawlers, g \in Feeds :
        /\ Crawling(d, g)' => \/ Crawling(d, g) /\ task'[d][g] = task[d][g]
                              \/ ~Validated(task'[d][g].row) /\ ~Parses(task'[d][g])
        /\ Holds(d, g)' => Holds(d, g)
  <2>1. \A d \in Crawlers, g \in Feeds :
          Crawling(d, g)' => Crawling(d, g) /\ task'[d][g] = task[d][g]
    BY EndCrawls
  <2>2. \A d \in Crawlers, g \in Feeds : Holds(d, g)' => Holds(d, g)
    BY <2>1 DEF Holds, IntentsFade
  <2> QED BY <2>1, <2>2
<1>2. \A d \in Crawlers : /\ left[d] \in Nat /\ left'[d] \in Nat /\ left'[d] <= left[d]
                          /\ \A g \in Feeds : task[d][g].dueIn \in Nat
  BY EndCrawls, ClocksTyped
<1>3. \A g \in Feeds : dueIn[g] \in Nat
  BY ClocksTyped
<1> QED BY <1>1, <1>2, <1>3, CalmPrompt

LEMMA RecordPrompt ==
  ASSUME ColdTypeInv, FlightInv, PromptInv, NEW c \in Crawlers, NEW f \in Feeds, Record(c, f),
         IntentsFade
  PROVE  PromptInv'
<1> DEFINE t == task[c][f]
<1>1. /\ t.phase = "record" /\ Crawling(c, f) /\ End(c, f)
  BY DEF Record, Crawling
<1>2. PromptTask(c, f)
  BY <1>1 DEF PromptInv
<1>3. /\ feeds'[f] = t.row /\ dueIn'[f] = t.dueIn
      /\ shown'[f] = IF t.doc = None THEN shown[f] ELSE t.doc
      /\ \A g \in Feeds \ {f} : /\ feeds'[g] = feeds[g] /\ dueIn'[g] = dueIn[g]
                                /\ shown'[g] = shown[g]
  BY DEF Record, ColdTypeInv, TypeInv
<1>4. \A d \in Crawlers, g \in Feeds :
        Crawling(d, g)' => Crawling(d, g) /\ task'[d][g] = task[d][g] /\ ~(d = c /\ g = f)
  BY <1>1, EndCrawls
<1>5. \A d \in Crawlers : /\ left[d] \in Nat /\ left'[d] \in Nat /\ left'[d] <= left[d]
                          /\ \A g \in Feeds : task[d][g].dueIn \in Nat /\ dueIn[g] \in Nat
  BY <1>1, EndCrawls, ClocksTyped
<1>6. \A d \in Crawlers, g \in Feeds : Holds(d, g)' => Holds(d, g)
  BY <1>4 DEF Holds, IntentsFade
<1>7. BatchTime \in Nat /\ RequestTime \in Nat
  BY ClocksTyped
<1>8. Holds(c, f) /\ (\A d \in Crawlers : Holds(d, f)' /\ d = c => c \in Requests /\ Intends(c, f)')
  BY <1>1, <1>4 DEF Holds
<1>9. PromptFeed(f)'
  <2>1. EarnedRow(feeds'[f])
    BY <1>2, <1>3 DEF PromptTask
  <2>2. CASE Parses(t)
    <3>1. feeds'[f].validators = <<feeds'[f].url, shown'[f]>>
      BY <1>2, <1>3, <2>2 DEF PromptTask, Parses
    <3>2. ASSUME NEW d \in Crawlers PROVE left'[d] < dueIn'[f]
      <4>1. left[d] <= BatchTime \/ left[d] <= RequestTime
        BY DEF PromptInv
      <4>2. t.dueIn > left[c] + BatchTime /\ t.dueIn > left[c] + RequestTime
        BY <1>2, <2>2 DEF PromptTask
      <4>3. t.dueIn \in Nat /\ left[c] \in Nat
        BY <1>5
      <4> QED BY <1>3, <1>5, <1>7, <4>1, <4>2, <4>3
    <3> QED BY <2>1, <3>1, <3>2 DEF PromptFeed, EarnedRow, Validated, AwakeRow
  <2>3. CASE ~Parses(t) /\ Validated(t.row)
    <3>1. /\ t.row.validators = feeds[f].validators /\ t.row.url = feeds[f].url
          /\ Sole(c, f)
      BY <1>2, <2>3 DEF PromptTask
    <3>2. feeds[f].validators = <<feeds[f].url, shown[f]>>
      BY <2>3, <3>1 DEF PromptInv, PromptFeed, Validated
    <3>3. shown'[f] = shown[f]
      BY <1>1, <1>3, <2>3 DEF Parses
    <3>4. ASSUME NEW d \in Crawlers, Holds(d, f)' PROVE FALSE
      <4>1. d = c
        BY <1>6, <3>1, <3>4 DEF Sole
      <4>2. c \in Requests /\ Intends(c, f)
        BY <1>8, <3>4, <4>1 DEF IntentsFade
      <4> QED BY <1>1, <4>2 DEF FlightInv, Intends
    <3> QED BY <1>3, <2>1, <3>1, <3>2, <3>3, <3>4
            DEF PromptFeed, EarnedRow, Validated, AwakeRow
  <2>4. CASE ~Validated(t.row)
    BY <1>3, <2>4 DEF PromptFeed, EarnedRow, Validated
  <2> QED BY <2>2, <2>3, <2>4
<1>10. ASSUME NEW g \in Feeds PROVE PromptFeed(g)'
  <2>1. CASE g = f
    BY <1>9, <2>1
  <2>2. CASE g # f
    <3>1. PromptFeed(g) /\ feeds'[g] = feeds[g] /\ dueIn'[g] = dueIn[g] /\ shown'[g] = shown[g]
      BY <1>3, <2>2 DEF PromptInv
    <3>2. \A d \in Crawlers : Validated(feeds[g]) /\ Holds(d, g)' => left'[d] < dueIn[g]
      BY <1>5, <1>6, <3>1 DEF PromptFeed
    <3> QED BY <3>1, <3>2 DEF PromptFeed, EarnedRow, Validated, AwakeRow
  <2> QED BY <2>1, <2>2
<1>11. ASSUME NEW d \in Crawlers, NEW g \in Feeds, Crawling(d, g)'
       PROVE  PromptTask(d, g)'
  <2>1. Crawling(d, g) /\ task'[d][g] = task[d][g] /\ ~(d = c /\ g = f)
    BY <1>4, <1>11
  <2>2. PromptTask(d, g)
    BY <2>1 DEF PromptInv
  <2>3. Parses(task[d][g]) => /\ task[d][g].dueIn > left'[d] + BatchTime
                              /\ task[d][g].dueIn > left'[d] + RequestTime
    BY <1>5, <1>7, <2>2 DEF PromptTask
  <2>4. ASSUME Validated(task[d][g].row), ~Parses(task[d][g])
        PROVE  /\ task[d][g].row.validators = feeds'[g].validators
               /\ task[d][g].row.url = feeds'[g].url
               /\ Sole(d, g)'
    <3>1. /\ task[d][g].row.validators = feeds[g].validators
          /\ task[d][g].row.url = feeds[g].url
          /\ Sole(d, g)
      BY <2>2, <2>4 DEF PromptTask
    <3>2. g # f
      BY <1>8, <2>1, <3>1 DEF Sole
    <3> QED BY <1>3, <1>6, <3>1, <3>2 DEF Sole
  <2> QED BY <2>1, <2>2, <2>3, <2>4 DEF PromptTask, EarnedRow, Validated, AwakeRow, Parses
<1>12. \A r \in Requests, g \in Feeds : Intends(r, g)' => ~Validated(req'[r].row)
  BY DEF PromptInv, IntentsFade
<1>13. \A d \in Crawlers : left'[d] <= BatchTime \/ left'[d] <= RequestTime
  BY <1>5, <1>7 DEF PromptInv
<1> QED BY <1>10, <1>11, <1>12, <1>13 DEF PromptInv, Validated, IntentsFade

(* A claim takes a row with validators only from nobody, and keeps it to   *)
(* itself for longer than a batch takes.                                   *)
LEMMA ClaimPrompt ==
  ASSUME BatchTime < Lease, ColdTypeInv, PromptInv, NEW w \in Workers,
         ClaimDueFeeds(w), UNCHANGED req
  PROVE  PromptInv'
<1>1. PICK batch \in SUBSET Due :
        /\ dueIn' = [f \in Feeds |-> IF f \in batch THEN Lease ELSE dueIn[f]]
        /\ task' = [task EXCEPT ![w] =
                      [f \in Feeds |-> IF f \in batch THEN Begin(feeds[f], Lease)
                                                      ELSE task[w][f]]]
  BY DEF ClaimDueFeeds
<1>2. /\ left' = [left EXCEPT ![w] = BatchTime]
      /\ feeds' = feeds /\ shown' = shown
      /\ \A f \in Feeds : ~Crawling(w, f)
  BY DEF ClaimDueFeeds, Busy
<1>3. w \in Crawlers /\ w \notin Requests
  BY RequestsAssumption
<1>4. \A c \in Crawlers, f \in Feeds :
        task'[c][f] = IF c = w /\ f \in batch THEN Begin(feeds[f], Lease) ELSE task[c][f]
  BY <1>1, <1>3 DEF ColdTypeInv, TypeInv
<1>5. \A c \in Crawlers, f \in Feeds : Holds(c, f)' => Holds(c, f) \/ (c = w /\ f \in batch)
  BY <1>4 DEF Holds, Intends, Crawling
<1>6. \A f \in Feeds : ~Holds(w, f)
  BY <1>2, <1>3 DEF Holds
<1>7. \A c \in Crawlers : left'[c] = IF c = w THEN BatchTime ELSE left[c]
  BY <1>2 DEF ColdTypeInv, TypeInv
<1>8. /\ BatchTime \in Nat /\ Lease \in Nat
      /\ \A c \in Crawlers : left[c] \in Nat
  BY ClocksTyped
<1>9. ASSUME NEW f \in batch, Validated(feeds[f]), NEW c \in Crawlers, Holds(c, f)
      PROVE  FALSE
  <2>1. f \in Feeds /\ dueIn[f] = 0
    BY DEF Due
  <2>2. left[c] < dueIn[f]
    BY <1>9, <2>1 DEF PromptInv, PromptFeed
  <2> QED BY <1>8, <2>1, <2>2
<1>10. ASSUME NEW f \in Feeds PROVE PromptFeed(f)'
  <2>1. PromptFeed(f)
    BY DEF PromptInv
  <2>2. ASSUME Validated(feeds[f]), NEW c \in Crawlers, Holds(c, f)'
        PROVE  left'[c] < dueIn'[f]
    <3>1. CASE f \in batch
      <4>1. c = w
        BY <1>5, <1>9, <2>2, <3>1
      <4> QED BY <1>1, <1>7, <3>1, <4>1
    <3>2. CASE f \notin batch
      <4>1. Holds(c, f) /\ c # w
        BY <1>5, <1>6, <2>2, <3>2
      <4>2. left[c] < dueIn[f]
        BY <2>1, <2>2, <4>1 DEF PromptFeed
      <4> QED BY <1>1, <1>7, <3>2, <4>1, <4>2
    <3> QED BY <3>1, <3>2
  <2> QED BY <1>2, <2>1, <2>2 DEF PromptFeed, EarnedRow, Validated, AwakeRow
<1>11. ASSUME NEW c \in Crawlers, NEW f \in Feeds, Crawling(c, f)'
       PROVE  PromptTask(c, f)'
  <2>1. CASE c = w /\ f \in batch
    <3>1. task'[c][f].row = feeds[f] /\ task'[c][f].phase = "fetch"
      BY <1>4, <2>1 DEF Begin, NoTask
    <3>2. EarnedRow(feeds[f])
      BY DEF PromptInv, PromptFeed
    <3>3. Validated(feeds[f]) => Sole(c, f)'
      BY <1>5, <1>9, <2>1 DEF Sole
    <3> QED BY <1>2, <3>1, <3>2, <3>3 DEF PromptTask, EarnedRow, Validated, AwakeRow, Parses
  <2>2. CASE ~(c = w /\ f \in batch)
    <3>1. task'[c][f] = task[c][f] /\ Crawling(c, f) /\ c # w
      BY <1>2, <1>4, <1>11, <2>2 DEF Crawling
    <3>2. PromptTask(c, f) /\ left'[c] = left[c]
      BY <1>7, <3>1 DEF PromptInv
    <3>3. ASSUME Validated(task[c][f].row), ~Parses(task[c][f])
          PROVE  /\ task[c][f].row.validators = feeds[f].validators
                 /\ task[c][f].row.url = feeds[f].url
                 /\ Sole(c, f)'
      <4>1. /\ task[c][f].row.validators = feeds[f].validators
            /\ task[c][f].row.url = feeds[f].url
            /\ Sole(c, f) /\ Holds(c, f)
        BY <3>1, <3>2, <3>3 DEF PromptTask, Holds
      <4>2. f \notin batch
        BY <1>9, <3>3, <4>1 DEF Validated
      <4> QED BY <1>5, <4>1, <4>2 DEF Sole
    <3> QED BY <1>2, <3>1, <3>2, <3>3
            DEF PromptTask, EarnedRow, Validated, AwakeRow, Parses
  <2> QED BY <2>1, <2>2
<1>12. ASSUME NEW r \in Requests, NEW g \in Feeds, Intends(r, g)'
       PROVE  ~Validated(req'[r].row)
  BY <1>12 DEF PromptInv, Intends
<1>13. \A c \in Crawlers : left'[c] <= BatchTime \/ left'[c] <= RequestTime
  BY <1>7, <1>8 DEF PromptInv
<1> QED BY <1>10, <1>11, <1>12, <1>13 DEF PromptInv, Validated

(* A request takes up a row that was never crawled: without validators. *)
LEMMA ResolvePrompt ==
  ASSUME ColdTypeInv, FlightInv, PromptInv, NEW r \in Requests, NEW f \in Feeds,
         Resolve(r, f)
  PROVE  PromptInv'
<1>1. /\ UNCHANGED <<feeds, dueIn, shown, task>> /\ req[r].pc = "idle" /\ r \in Crawlers
      /\ \A g \in Feeds : ~Holds(r, g)
  BY RequestsCrawl DEF Resolve, FlightInv, Holds, Intends
<1>2. /\ \A s \in Requests \ {r} : req'[s] = req[s]
      /\ req'[r].pc = "mark" /\ req'[r].feed = f
      /\ req'[r].cold => req'[r].row = feeds[f] /\ NeverCrawled(feeds[f])
  <2>1. req \in [Requests -> LiveRequest]
    BY DEF ColdTypeInv
  <2>2. CASE NeverCrawled(feeds[f])
    <3> DEFINE read == [NoRequest EXCEPT !.pc = "mark", !.feed = f]
               taken == [read EXCEPT !.cold = TRUE, !.row = feeds[f], !.dueIn = dueIn[f]]
    <3>1. taken.pc = "mark" /\ taken.feed = f /\ taken.cold /\ taken.row = feeds[f]
      BY DEF NoRequest
    <3>2. req' = [req EXCEPT ![r] = taken]
      BY <2>2 DEF Resolve
    <3> HIDE DEF taken
    <3> QED BY <2>1, <2>2, <3>1, <3>2
  <2>3. CASE ~NeverCrawled(feeds[f])
    BY <2>1, <2>3 DEF Resolve, NoRequest
  <2> QED BY <2>2, <2>3
<1>3. /\ \A c \in Crawlers : left[c] \in Nat
      /\ RequestTime \in Nat
      /\ \A c \in Crawlers \ {r} : left'[c] = left[c]
      /\ left'[r] = left[r] \/ left'[r] = RequestTime
  BY ClocksTyped DEF Resolve, ColdTypeInv, TypeInv
<1>4. \A c \in Crawlers, g \in Feeds :
        Holds(c, g)' => \/ Holds(c, g) /\ c # r
                        \/ c = r /\ g = f /\ NeverCrawled(feeds[f])
  BY <1>1, <1>2 DEF Holds, Intends, Crawling
<1>5. NeverCrawled(feeds[f]) => ~Validated(feeds[f])
  BY DEF PromptInv, PromptFeed, EarnedRow, NeverCrawled
<1>6. ASSUME NEW g \in Feeds PROVE PromptFeed(g)'
  <2>1. PromptFeed(g)
    BY DEF PromptInv
  <2>2. \A c \in Crawlers : Validated(feeds[g]) /\ Holds(c, g)' => left'[c] < dueIn[g]
    BY <1>3, <1>4, <1>5, <2>1 DEF PromptFeed
  <2> QED BY <1>1, <2>1, <2>2 DEF PromptFeed, EarnedRow, Validated, AwakeRow
<1>7. ASSUME NEW c \in Crawlers, NEW g \in Feeds, Crawling(c, g)'
      PROVE  PromptTask(c, g)'
  <2>1. task'[c][g] = task[c][g] /\ Crawling(c, g) /\ c # r /\ left'[c] = left[c]
    BY <1>1, <1>3, <1>7 DEF Crawling, Holds
  <2>2. PromptTask(c, g)
    BY <2>1 DEF PromptInv
  <2>3. Validated(feeds[g]) /\ Sole(c, g) => Sole(c, g)'
    BY <1>4, <1>5 DEF Sole
  <2> QED BY <1>1, <2>1, <2>2, <2>3
          DEF PromptTask, EarnedRow, Validated, AwakeRow, Parses
<1>8. ASSUME NEW s \in Requests, NEW g \in Feeds, Intends(s, g)'
      PROVE  ~Validated(req'[s].row)
  <2>1. CASE s = r
    BY <1>2, <1>5, <1>8, <2>1 DEF Intends
  <2>2. CASE s # r
    BY <1>2, <1>8, <2>2 DEF Intends, PromptInv
  <2> QED BY <2>1, <2>2
<1>9. \A s \in Requests : req'[s].pc = "crawl" => req'[s].cold
  BY <1>2 DEF PromptInv
<1>10. \A c \in Crawlers : left'[c] <= BatchTime \/ left'[c] <= RequestTime
  BY <1>3 DEF PromptInv
<1> QED BY <1>6, <1>7, <1>8, <1>9, <1>10 DEF PromptInv, Validated

LEMMA TickPrompt ==
  ASSUME ColdTypeInv, PromptInv, ColdTick
  PROVE  PromptInv'
<1>1. ASSUME NEW r \in Requests
      PROVE  /\ req'[r].pc = req[r].pc /\ req'[r].feed = req[r].feed
             /\ req'[r].cold = req[r].cold /\ req'[r].row = req[r].row
  <2>1. req'[r] = [req[r] EXCEPT !.dueIn = Less(@)] /\ req[r] \in Request
    BY DEF ColdTick, ColdTypeInv, LiveRequest
  <2> QED BY <2>1 DEF Request
<1>2. ASSUME NEW c \in Crawlers, NEW f \in Feeds
      PROVE  /\ task'[c][f].phase = task[c][f].phase /\ task'[c][f].row = task[c][f].row
             /\ task'[c][f].doc = task[c][f].doc
             /\ task'[c][f].dueIn = Less(task[c][f].dueIn)
  <2>1. /\ task'[c][f] = [task[c][f] EXCEPT !.dueIn = Less(@)]
        /\ task[c][f] \in Task
    BY DEF ColdTick, Tick, ColdTypeInv, TypeInv, CrawlTask
  <2> QED BY <2>1 DEF Task
<1>3. \A c \in Crawlers, f \in Feeds : Holds(c, f)' <=> Holds(c, f)
  BY <1>1, <1>2 DEF Holds, Intends, Crawling
<1>4. /\ UNCHANGED <<feeds, shown>>
      /\ \A f \in Feeds : dueIn'[f] = Less(dueIn[f])
      /\ \A c \in Crawlers : left'[c] = Less(left[c])
  BY DEF ColdTick, Tick
<1>5. ASSUME NEW c \in Crawlers, NEW f \in Feeds, Holds(c, f)
      PROVE  left[c] > 0
  <2>1. CASE Crawling(c, f)
    BY <2>1 DEF ColdTick, Tick, Busy
  <2>2. CASE c \in Requests /\ Intends(c, f)
    BY <2>2 DEF ColdTick, Intends
  <2> QED BY <1>5, <2>1, <2>2 DEF Holds
<1>6. /\ \A c \in Crawlers : left[c] \in Nat /\ \A f \in Feeds : task[c][f].dueIn \in Nat
      /\ \A f \in Feeds : dueIn[f] \in Nat
      /\ BatchTime \in Nat /\ RequestTime \in Nat
  BY ClocksTyped
<1>7. ASSUME NEW f \in Feeds PROVE PromptFeed(f)'
  <2>1. PromptFeed(f)
    BY DEF PromptInv
  <2>2. ASSUME Validated(feeds[f]), NEW c \in Crawlers, Holds(c, f)'
        PROVE  left'[c] < dueIn'[f]
    <3>1. Holds(c, f) /\ left[c] > 0
      BY <1>3, <1>5, <2>2
    <3>2. left[c] < dueIn[f]
      BY <2>1, <2>2, <3>1 DEF PromptFeed
    <3> QED BY <1>4, <1>6, <3>1, <3>2 DEF Less
  <2> QED BY <1>4, <2>1, <2>2 DEF PromptFeed, EarnedRow, Validated, AwakeRow
<1>8. ASSUME NEW c \in Crawlers, NEW f \in Feeds, Crawling(c, f)'
      PROVE  PromptTask(c, f)'
  <2>1. Crawling(c, f) /\ left[c] > 0
    BY <1>2, <1>5, <1>8 DEF Crawling, Holds
  <2>2. PromptTask(c, f)
    BY <2>1 DEF PromptInv
  <2>3. Parses(task[c][f]) => /\ Less(task[c][f].dueIn) > Less(left[c]) + BatchTime
                              /\ Less(task[c][f].dueIn) > Less(left[c]) + RequestTime
    BY <1>6, <2>1, <2>2 DEF PromptTask, Less
  <2>4. Sole(c, f) => Sole(c, f)'
    BY <1>3 DEF Sole
  <2> QED BY <1>2, <1>4, <2>2, <2>3, <2>4
          DEF PromptTask, EarnedRow, Validated, AwakeRow, Parses
<1>9. ASSUME NEW r \in Requests, NEW g \in Feeds, Intends(r, g)'
      PROVE  ~Validated(req'[r].row)
  BY <1>1, <1>9 DEF PromptInv, Intends
<1>10. \A r \in Requests : req'[r].pc = "crawl" => req'[r].cold
  BY <1>1 DEF PromptInv
<1>11. \A c \in Crawlers : left'[c] <= BatchTime \/ left'[c] <= RequestTime
  BY <1>4, <1>6 DEF PromptInv, Less
<1> QED BY <1>7, <1>8, <1>9, <1>10, <1>11 DEF PromptInv, Validated

-----------------------------------------------------------------------------
(* The steps that neither hand out validators nor write any. *)
LEMMA SameIntents == ASSUME PromptInv, UNCHANGED req PROVE IntentsFade
  BY DEF PromptInv, IntentsFade, Intends

LEMMA CatalogueCalm ==
  ASSUME ColdTypeInv, PromptInv, IntentsFade, NEW f \in Feeds,
         MarkFeedRequested(f) \/ \E u \in Urls : UpsertFeed(f, u)
  PROVE  PromptInv'
<1>1. EarnedRow(feeds[f]) /\ ~AwakeRow(feeds[f])
  BY DEF MarkFeedRequested, UpsertFeed, Exists, AwakeRow, PromptInv, PromptFeed
<1>2. /\ ~Validated(feeds[f]) /\ UNCHANGED <<shown, task, left>>
      /\ \A g \in Feeds \ {f} : feeds'[g] = feeds[g] /\ dueIn'[g] = dueIn[g]
  BY <1>1 DEF EarnedRow, MarkFeedRequested, UpsertFeed, ColdTypeInv, TypeInv
<1>3. ~Validated(feeds'[f])
  <2>1. CASE MarkFeedRequested(f)
    <3>1. feeds[f] \in Row
      BY DEF ColdTypeInv, TypeInv, TableRow
    <3>2. feeds'[f] = [feeds[f] EXCEPT !.status = "active"]
      BY <2>1 DEF MarkFeedRequested, ColdTypeInv, TypeInv
    <3> QED BY <1>2, <3>1, <3>2 DEF Row, Validated
  <2>2. ASSUME NEW u \in Urls, UpsertFeed(f, u) PROVE ~Validated(feeds'[f])
    BY <2>2 DEF UpsertFeed, ColdTypeInv, TypeInv, NewRow, NoRow, Validated
  <2> QED BY <2>1, <2>2
<1>4. \A g \in Feeds :
        \/ feeds'[g] = feeds[g] /\ dueIn'[g] = dueIn[g] /\ shown'[g] = shown[g]
        \/ ~Validated(feeds[g]) /\ ~Validated(feeds'[g])
  BY <1>2, <1>3
<1>5. ASSUME NEW c \in Crawlers, NEW g \in Feeds
      PROVE  /\ Crawling(c, g)' => \/ Crawling(c, g) /\ task'[c][g] = task[c][g]
                                   \/ ~Validated(task'[c][g].row) /\ ~Parses(task'[c][g])
             /\ Holds(c, g)' => Holds(c, g)
  BY <1>2 DEF Crawling, Holds, IntentsFade
<1>6. /\ \A c \in Crawlers : /\ left[c] \in Nat /\ left'[c] \in Nat /\ left'[c] <= left[c]
                             /\ \A g \in Feeds : task[c][g].dueIn \in Nat
      /\ \A g \in Feeds : dueIn[g] \in Nat
  BY <1>2, ClocksTyped
<1> QED BY <1>4, <1>5, <1>6, CalmPrompt

(* Crawls that end without a word, and requests that go on. *)
LEMMA QuietPrompt ==
  ASSUME ColdTypeInv, PromptInv, IntentsFade, UNCHANGED <<feeds, dueIn, shown>>,
         \A c \in Crawlers, f \in Feeds : task'[c][f] = task[c][f] \/ task'[c][f] = NoTask,
         \A c \in Crawlers : left'[c] = left[c] \/ left'[c] = 0
  PROVE  PromptInv'
<1>1. \A f \in Feeds :
        \/ feeds'[f] = feeds[f] /\ dueIn'[f] = dueIn[f] /\ shown'[f] = shown[f]
        \/ ~Validated(feeds[f]) /\ ~Validated(feeds'[f])
  OBVIOUS
<1>2. ASSUME NEW c \in Crawlers, NEW f \in Feeds
      PROVE  /\ Crawling(c, f)' => \/ Crawling(c, f) /\ task'[c][f] = task[c][f]
                                   \/ ~Validated(task'[c][f].row) /\ ~Parses(task'[c][f])
             /\ Holds(c, f)' => Holds(c, f)
  BY DEF Crawling, NoTask, Holds, IntentsFade
<1>3. /\ \A c \in Crawlers : /\ left[c] \in Nat /\ left'[c] \in Nat /\ left'[c] <= left[c]
                             /\ \A f \in Feeds : task[c][f].dueIn \in Nat
      /\ \A f \in Feeds : dueIn[f] \in Nat
  BY ClocksTyped
<1> QED BY <1>1, <1>2, <1>3, CalmPrompt

LEMMA WorkerStepPrompt ==
  ASSUME BatchTime < Lease, Unhurried, ColdTypeInv, FlightInv, PromptInv,
         NEW w \in Workers, WorkerStep(w), UNCHANGED req
  PROVE  PromptInv'
<1>1. w \in Crawlers /\ IntentsFade
  BY RequestsAssumption, SameIntents
<1>2. CASE ClaimDueFeeds(w)
  BY <1>2, ClaimPrompt
<1>3. CASE Crash(w)
  <2>1. /\ \A c \in Crawlers, f \in Feeds : task'[c][f] = task[c][f] \/ task'[c][f] = NoTask
        /\ \A c \in Crawlers : left'[c] = left[c] \/ left'[c] = 0
        /\ UNCHANGED <<feeds, dueIn, shown>>
    BY <1>3 DEF Crash, ColdTypeInv, TypeInv
  <2> QED BY <1>1, <2>1, QuietPrompt
<1>4. ASSUME NEW f \in Feeds, CrawlStep(w, f)
      PROVE  PromptInv'
  <2>1. CASE Abandon(w, f)
    BY <1>1, <2>1, EndPrompt DEF Abandon
  <2> QED BY <1>1, <1>4, <2>1, FetchPrompt, CheckTargetPrompt, RecordPrompt DEF CrawlStep
<1> QED BY <1>2, <1>3, <1>4 DEF WorkerStep

LEMMA RequestStepPrompt ==
  ASSUME Unhurried, ColdTypeInv, FlightInv, PromptInv, NEW r \in Requests, RequestStep(r)
  PROVE  PromptInv'
<1>1. /\ req \in [Requests -> LiveRequest]
      /\ \A s \in Requests : req[s] \in Request
      /\ r \in Crawlers
      /\ req[r].pc # "idle" => req[r].feed \in Feeds
  BY RequestsCrawl DEF ColdTypeInv, LiveRequest
<1>2. ASSUME NEW q, req' = [req EXCEPT ![r] = q],
             \/ q.pc \notin {"mark", "crawl"}
             \/ /\ req[r].pc = "mark" /\ q.cold = req[r].cold /\ q.row = req[r].row
                /\ q.feed = req[r].feed /\ (q.pc = "crawl" => q.cold)
      PROVE  IntentsFade
  <2>1. req'[r] = q /\ \A s \in Requests \ {r} : req'[s] = req[s]
    BY <1>1, <1>2
  <2>2. ASSUME NEW s \in Requests, NEW g \in Feeds, Intends(s, g)'
        PROVE  Intends(s, g) /\ req'[s].row = req[s].row
    BY <1>2, <2>1, <2>2 DEF Intends
  <2>3. ASSUME NEW s \in Requests, req'[s].pc = "crawl"
        PROVE  req'[s].cold
    BY <1>2, <2>1, <2>3 DEF PromptInv
  <2> QED BY <2>2, <2>3 DEF IntentsFade
<1>3. CASE Mark(r)
  <2> DEFINE q == [req[r] EXCEPT !.pc = IF req[r].cold THEN "crawl" ELSE "read"]
  <2>1. /\ req[r].pc = "mark" /\ q.cold = req[r].cold /\ q.row = req[r].row
        /\ q.feed = req[r].feed /\ (q.pc = "crawl" => q.cold)
    BY <1>1, <1>3 DEF Mark, Request
  <2>2. req' = [req EXCEPT ![r] = q]
    BY <1>1, <1>3 DEF Mark
  <2>3. IntentsFade
    <3> HIDE DEF q
    <3> QED BY <1>2, <2>1, <2>2
  <2>4. CASE MarkFeedRequested(req[r].feed)
    BY <1>1, <2>1, <2>3, <2>4, CatalogueCalm
  <2>5. CASE UNCHANGED queueVars
    BY <2>3, <2>5, QuietPrompt DEF queueVars
  <2> QED BY <1>3, <2>4, <2>5 DEF Mark
<1>4. CASE Lead(r)
  <2> DEFINE q == [req[r] EXCEPT !.pc = "lead", !.row = NoRow, !.dueIn = 0]
  <2>1. req' = [req EXCEPT ![r] = q] /\ q.pc = "lead"
    BY <1>1, <1>4 DEF Lead, Request
  <2>2. IntentsFade
    <3> HIDE DEF q
    <3> QED BY <1>2, <2>1
  <2> DEFINE f == req[r].feed
  <2>3. f \in Feeds /\ Intends(r, f) /\ Holds(r, f)
    BY <1>1, <1>4 DEF Lead, PromptInv, Intends, Holds
  <2>4. \A c \in Crawlers, g \in Feeds :
          task'[c][g] = IF c = r /\ g = f THEN Begin(req[r].row, req[r].dueIn) ELSE task[c][g]
    BY <1>1, <1>4, <2>3 DEF Lead, ColdTypeInv, TypeInv
  <2>5. LET b == Begin(req[r].row, req[r].dueIn) IN ~Validated(b.row) /\ ~Parses(b)
    BY <2>3 DEF PromptInv, Begin, NoTask, Validated, Parses
  <2>6. UNCHANGED <<feeds, dueIn, shown, left>>
    BY <1>4 DEF Lead
  <2> HIDE DEF f
  <2>7. ASSUME NEW c \in Crawlers, NEW g \in Feeds
        PROVE  /\ Crawling(c, g)' => \/ Crawling(c, g) /\ task'[c][g] = task[c][g]
                                     \/ ~Validated(task'[c][g].row) /\ ~Parses(task'[c][g])
               /\ Holds(c, g)' => Holds(c, g)
    <3>1. CASE c = r /\ g = f
      BY <2>3, <2>4, <2>5, <3>1
    <3>2. CASE ~(c = r /\ g = f)
      <4>1. task'[c][g] = task[c][g] /\ (Crawling(c, g)' => Crawling(c, g))
        BY <2>4, <3>2 DEF Crawling
      <4>2. Holds(c, g)' => Holds(c, g)
        BY <2>2, <4>1 DEF Holds, IntentsFade
      <4> QED BY <4>1, <4>2
    <3> QED BY <3>1, <3>2
  <2>8. /\ \A c \in Crawlers : /\ left[c] \in Nat /\ left'[c] \in Nat /\ left'[c] <= left[c]
                               /\ \A g \in Feeds : task[c][g].dueIn \in Nat
        /\ \A g \in Feeds : dueIn[g] \in Nat
    BY <2>6, ClocksTyped
  <2>9. \A g \in Feeds :
          \/ feeds'[g] = feeds[g] /\ dueIn'[g] = dueIn[g] /\ shown'[g] = shown[g]
          \/ ~Validated(feeds[g]) /\ ~Validated(feeds'[g])
    BY <2>6
  <2> QED BY <2>2, <2>7, <2>8, <2>9, CalmPrompt
<1>5. CASE Join(r)
  <2>1. PICK l \in Requests : req' = [req EXCEPT ![r].pc = "join", ![r].leader = l,
                                               ![r].row = NoRow, ![r].dueIn = 0]
    BY <1>5 DEF Join, Leaders
  <2> DEFINE q == [req[r] EXCEPT !.pc = "join", !.leader = l, !.row = NoRow, !.dueIn = 0]
  <2>2. req' = [req EXCEPT ![r] = q] /\ q.pc = "join"
    BY <1>1, <2>1 DEF Request
  <2>3. IntentsFade
    <3> HIDE DEF q
    <3> QED BY <1>2, <2>2
  <2>4. /\ UNCHANGED <<feeds, dueIn, shown, task>>
        /\ \A c \in Crawlers : left'[c] = left[c] \/ left'[c] = 0
    BY <1>5 DEF Join, ColdTypeInv, TypeInv
  <2> QED BY <2>3, <2>4, QuietPrompt
<1>6. CASE Read(r) \/ Finish(r)
  <2>1. UNCHANGED <<feeds, dueIn, shown, task, left>>
    BY <1>6 DEF Read, Finish, queueVars
  <2>2. /\ \A s \in Requests \ {r} : req'[s] = req[s]
        /\ req'[r].pc \notin {"mark", "crawl"}
    <3>1. CASE Read(r)
      BY <1>1, <3>1 DEF Read, Request
    <3>2. CASE Finish(r)
      BY <1>1, <3>2 DEF Finish, NoRequest
    <3> QED BY <1>6, <3>1, <3>2
  <2>3. IntentsFade
    BY <2>2 DEF PromptInv, IntentsFade, Intends
  <2> QED BY <2>1, <2>3, QuietPrompt
<1>7. CASE LeaderFetch(r)
  BY <1>1, <1>7, FetchPrompt, CheckTargetPrompt DEF LeaderFetch
<1>8. ASSUME NEW failed, Land(r, failed), req[r].pc = "lead"
      PROVE  IntentsFade
  <2>1. ASSUME NEW s \in Requests
        PROVE  req'[s] = req[s] \/ req'[s].pc \in {"done", "read"}
    BY <1>1, <1>8 DEF Land, Request
  <2> QED BY <2>1 DEF PromptInv, IntentsFade, Intends
<1>9. CASE LeaderRecord(r)
  BY <1>1, <1>8, <1>9, RecordPrompt DEF LeaderRecord
<1>10. CASE LeaderGivesUp(r)
  BY <1>1, <1>8, <1>10, EndPrompt DEF LeaderGivesUp
<1> QED BY <1>3, <1>4, <1>5, <1>6, <1>7, <1>9, <1>10 DEF RequestStep

LEMMA InitPrompt == ColdInit => PromptInv
<1> SUFFICES ASSUME ColdInit PROVE PromptInv
  OBVIOUS
<1>1. \A c \in Crawlers, f \in Feeds : ~Crawling(c, f)
  BY DEF ColdInit, Init, Crawling, NoTask
<1>2. \A f \in Feeds : ~Validated(feeds[f])
  BY DEF ColdInit, Init, NoRow, Validated
<1>3. \A r \in Requests : req[r].pc = "idle"
  BY DEF ColdInit, NoRequest
<1>4. \A c \in Crawlers : left[c] <= BatchTime \/ left[c] <= RequestTime
  BY TimesAssumption DEF ColdInit, Init
<1> QED BY <1>1, <1>2, <1>3, <1>4 DEF PromptInv, PromptFeed, EarnedRow, Intends

LEMMA PromptInvariant ==
  ASSUME BatchTime < Lease, Unhurried
  PROVE  ColdSpec => []PromptInv
<1>1. ColdTypeInv /\ FlightInv /\ PromptInv /\ [ColdNext]_vars => PromptInv'
  <2> SUFFICES ASSUME ColdTypeInv, FlightInv, PromptInv, [ColdNext]_vars
               PROVE  PromptInv'
    OBVIOUS
  <2>1. ASSUME NEW f \in Feeds, NEW u \in Urls, UpsertFeed(f, u), UNCHANGED req
        PROVE  PromptInv'
    BY <2>1, SameIntents, CatalogueCalm
  <2>2. ASSUME NEW w \in Workers, WorkerStep(w), UNCHANGED req
        PROVE  PromptInv'
    BY <2>2, WorkerStepPrompt
  <2>3. ASSUME NEW r \in Requests, NEW f \in Feeds, Resolve(r, f)
        PROVE  PromptInv'
    BY <2>3, ResolvePrompt
  <2>4. ASSUME NEW r \in Requests, RequestStep(r)
        PROVE  PromptInv'
    BY <2>4, RequestStepPrompt
  <2>5. CASE ColdTick
    BY <2>5, TickPrompt
  <2>6. CASE UNCHANGED vars
    BY <2>6, SameIntents, QuietPrompt DEF vars
  <2> QED BY <2>1, <2>2, <2>3, <2>4, <2>5, <2>6 DEF ColdNext
<1> QED BY <1>1, InitPrompt, ColdTypeInvariant, FlightInvariant, PTL DEF ColdSpec

(* The stored validators describe the document that is served, although    *)
(* the API crawls beside the crawlers and takes no lease: provided a batch *)
(* ends within its lease and twice the longest crawl fits into the         *)
(* shortest interval (getEpisodes, ApplyCrawl).                            *)
THEOREM PromptnessSuffices ==
  ASSUME BatchTime < Lease, Unhurried
  PROVE  ColdSpec => []ValidatorsDescribeShown
<1>1. PromptInv => ValidatorsDescribeShown
  BY DEF PromptInv, PromptFeed, Validated, ValidatorsDescribeShown
<1> QED BY <1>1, PromptInvariant, PTL
=============================================================================
