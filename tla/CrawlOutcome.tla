---------------------------- MODULE CrawlOutcome ----------------------------
(***************************************************************************)
(* What one crawl makes of one feed: the feeds row of the catalogue, the   *)
(* answers a publisher can give to the fetch, and the row the crawler      *)
(* decides to write back (crawl/crawler.go: apply, applyMove,              *)
(* applyFailure).  Everything here is a pure function of the row the crawl *)
(* was handed; who hands it out and when the result is written is the      *)
(* business of FeedQueue and ColdCrawl.                                    *)
(*                                                                         *)
(* A row keeps the columns the crawler's decisions read or write:          *)
(*   url          the stored feed URL (UNIQUE)                             *)
(*   validators   etag, last_modified and body_hash, which every path of   *)
(*                apply sets or clears together: None, or the document     *)
(*                they describe with the URL it was fetched from           *)
(*   status       "absent" stands for no row at all                        *)
(*   redirectedTo redirected_to_feed_id                                    *)
(*   failures     consecutive_failures, which the code counts on without   *)
(*                end: MaxFailures stands for itself and all that is more, *)
(*                as comparing it with MaxFailures is all that is done     *)
(*                here (Pacing keeps the count itself)                     *)
(*   succeeded    last_success_at is not NULL                              *)
(* next_check_at is kept outside the row (FeedQueue!dueIn) as the time     *)
(* left until it comes, 0 when it is past.                                 *)
(***************************************************************************)
EXTENDS Integers

CONSTANTS
  Feeds,        \* feed ids
  Urls,         \* feed URLs
  Docs,         \* the documents a publisher may serve at a URL
  Announces,    \* Announces[d]: the itunes:new-feed-url inside d, or None
  Intervals,    \* the delays Schedule.NextCheck may yield
  RetryAfters,  \* the delays a Retry-After header may ask for
  DeadRecheck,  \* CRAWLER_DEAD_RECHECK
  MaxFailures,  \* CRAWLER_MAX_FAILURES, 0 to never give up
  None

ASSUME NoneAssumption == None \notin Feeds \cup Urls \cup Docs \cup (Urls \X Docs)
ASSUME AnnouncesAssumption == Announces \in [Docs -> Urls \cup {None}]
ASSUME DelaysAssumption == Intervals \cup RetryAfters \cup {DeadRecheck} \subseteq Nat \ {0}
ASSUME MaxFailuresAssumption == MaxFailures \in Nat

Statuses == {"absent", "dormant", "active", "dead", "redirected"}

Row == [url          : Urls \cup {None},
        validators   : (Urls \X Docs) \cup {None},
        status       : Statuses,
        redirectedTo : Feeds \cup {None},
        failures     : 0..MaxFailures,
        succeeded    : BOOLEAN]

NoRow == [url |-> None, validators |-> None, status |-> "absent",
          redirectedTo |-> None, failures |-> 0, succeeded |-> FALSE]

(* A row as INSERT INTO feeds (url) creates it. *)
NewRow(u) == [NoRow EXCEPT !.url = u, !.status = "dormant"]

NeverCrawled(row) == ~row.succeeded

-----------------------------------------------------------------------------
(***************************************************************************)
(* One crawl in progress.  In phase "fetch" it holds the row it was handed *)
(* and waits for the publisher; in "check" the publisher announced a move  *)
(* to the URL `to' and the catalogue has yet to be asked who owns it; in   *)
(* "record" it holds the row to write.  doc is the document whose episodes *)
(* the write brings (None when nothing was parsed), dueIn the time left to *)
(* the next_check_at it will write, and err says whether the Report        *)
(* carries an error.                                                       *)
(***************************************************************************)
Phases == {"idle", "fetch", "check", "record"}

Task == [phase : Phases,
         row   : Row,
         to    : Urls \cup {None},
         doc   : Docs \cup {None},
         dueIn : Nat,
         err   : BOOLEAN]

NoTask == [phase |-> "idle", row |-> NoRow, to |-> None, doc |-> None,
           dueIn |-> 0, err |-> FALSE]

Begin(row, due) ==
  [NoTask EXCEPT !.phase = "fetch", !.row = row, !.dueIn = due]

ToRecord(row, due, doc, err) ==
  [phase |-> "record", row |-> row, to |-> None, doc |-> doc,
   dueIn |-> due, err |-> err]

ToCheck(row, due, target, doc) ==
  [phase |-> "check", row |-> row, to |-> target, doc |-> doc,
   dueIn |-> due, err |-> FALSE]

-----------------------------------------------------------------------------
(* Mistake: the status is left as the snapshot had it. *)
AwakeNever(row) == row

(* The head of apply: a crawled feed belongs in the rotation. *)
Awake(row) ==
  IF row.status = "dormant" THEN [row EXCEPT !.status = "active"] ELSE row

(* One more failure, where MaxFailures stands for itself and all above. *)
OneMore(n) == IF n < MaxFailures THEN n + 1 ELSE n

IsDead(n) == MaxFailures > 0 /\ n >= MaxFailures

(* Mistake: last_success_at is not set. *)
ParsedUnsuccessfully(row, d) ==
  [row EXCEPT !.validators = <<row.url, d>>, !.status = "active", !.failures = 0]

(* OutcomeChanged with a document that parses and announces no move. *)
Parsed(row, d) ==
  [row EXCEPT !.validators = <<row.url, d>>, !.status = "active",
              !.failures = 0, !.succeeded = TRUE]

(* OutcomeNotModified: a 304, or a body with the stored hash. *)
NotModified(row) ==
  [row EXCEPT !.status = "active", !.failures = 0, !.succeeded = TRUE]

(* OutcomeGone. *)
Gone(row) == [row EXCEPT !.status = "dead", !.failures = OneMore(row.failures)]

(* Mistake: last_success_at is set like last_checked_at. *)
FailedSuccessfully(row) ==
  [row EXCEPT !.failures = OneMore(row.failures), !.succeeded = TRUE]

(* applyFailure: the count goes up and may be the feed's last. *)
Failed(row) ==
  [row EXCEPT !.failures = OneMore(row.failures),
              !.status = IF IsDead(OneMore(row.failures)) THEN "dead" ELSE row.status]

(* Mistake: the old URL's validators are kept. *)
MovedWithValidators(row, u) ==
  [row EXCEPT !.url = u, !.status = "active", !.failures = 0]

(* applyMove onto a URL nobody owns: validators belong to the old one. *)
MovedTo(row, u) ==
  [row EXCEPT !.url = u, !.validators = None, !.status = "active", !.failures = 0]

(* Mistake: redirected_to_feed_id is not set. *)
StubOfNobody(row, g) == [row EXCEPT !.status = "redirected"]

(* applyMove onto the URL of another feed g. *)
StubOf(row, g) == [row EXCEPT !.status = "redirected", !.redirectedTo = g]

(* Mistake: no announcement is taken for one of the empty URL. *)
RealMoveToNothing(row, u) == u # row.url

(* normaliseMoveTarget: is there a move to make at all? *)
RealMove(row, u) == u # None /\ u # row.url

-----------------------------------------------------------------------------
(***************************************************************************)
(* The ways the fetch of a row can end, each with the task it leads to.    *)
(* The publisher is free to serve any document at any moment, but answers  *)
(* a conditional request honestly: "not modified" exactly when the         *)
(* validators describe the document it is serving.                         *)
(***************************************************************************)
(* Mistake: the validators are stored before the move is looked at. *)
AnswerDocumentStored(row, due, d) ==
  IF row.validators = <<row.url, d>>
  THEN {ToRecord(NotModified(row), w, None, FALSE) : w \in Intervals}
  ELSE IF RealMove(row, Announces[d])
  THEN {ToCheck(Parsed(row, d), due, Announces[d], d)}
  ELSE {ToRecord(Parsed(row, d), w, d, FALSE) : w \in Intervals}

AnswerDocument(row, due, d) ==
  IF row.validators = <<row.url, d>>
  THEN {ToRecord(NotModified(row), w, None, FALSE) : w \in Intervals}
  ELSE IF RealMove(row, Announces[d])
  THEN {ToCheck(row, due, Announces[d], d)}
  ELSE {ToRecord(Parsed(row, d), w, d, FALSE) : w \in Intervals}

(* 301 or 308; a redirect home keeps the URL and the leased next check. *)
AnswerMoved(row, due, u) ==
  IF RealMove(row, u)
  THEN {ToCheck(row, due, u, None)}
  ELSE {ToRecord(row, due, None, FALSE)}

AnswerGone(row) == {ToRecord(Gone(row), DeadRecheck, None, TRUE)}

(* 429: the delay asked for, or the backoff when none was. *)
AnswerRateLimited(row) ==
  {ToRecord(row, w, None, TRUE) : w \in RetryAfters \cup Intervals}

(* Network error, timeout, any other status, or a body that will not parse. *)
AnswerFailed(row) ==
  {ToRecord(Failed(row), w, None, TRUE) :
     w \in IF IsDead(OneMore(row.failures)) THEN {DeadRecheck} ELSE Intervals}

Fetched(handed, due) ==
  LET row == Awake(handed) IN
    (UNION {AnswerDocument(row, due, d) : d \in Docs})
      \cup (UNION {AnswerMoved(row, due, u) : u \in Urls})
      \cup AnswerGone(row) \cup AnswerRateLimited(row) \cup AnswerFailed(row)

(***************************************************************************)
(* What applyMove makes of a task in phase "check": FeedByURL found the    *)
(* row g (g = None when there was none), or could not be asked.  When the  *)
(* move is not made, a document in hand is parsed as usual and a bare      *)
(* redirect writes the row back as it was handed out.                      *)
(***************************************************************************)
MoveMade(f, t, g) ==
  IF g \in Feeds \ {f}
  THEN ToRecord(StubOf(t.row, g), DeadRecheck, None, FALSE)
  ELSE ToRecord(MovedTo(t.row, t.to), 0, None, FALSE)

MoveNotMade(t) ==
  IF t.doc = None
  THEN {ToRecord(t.row, t.dueIn, None, FALSE)}
  ELSE {ToRecord(Parsed(t.row, t.doc), w, t.doc, FALSE) : w \in Intervals}
=============================================================================
