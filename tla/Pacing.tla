-------------------------------- MODULE Pacing --------------------------------
(***************************************************************************)
(* One feed crawled over the years: the interval and the failures its row  *)
(* carries from crawl to crawl (crawl/crawler.go: apply, applyFailure),    *)
(* under the configuration each crawler process was started with.  Between *)
(* deployments the settings may change; the row stays.                     *)
(***************************************************************************)
EXTENDS Config, Schedule

CONSTANTS
  Environments,     \* what a process may be started with
  Published,        \* the dates of a document's episodes, in document order
  Stored,           \* what RecentEpisodeDates may return, or <<>> if it fails
  Headers,          \* the Retry-After headers
  MaxStreak,        \* bound: failures in a row
  None

ASSUME PacingAssumption ==
  /\ \A e \in Environments : Environment(e)
  /\ None \notin Environments
  /\ Published \subseteq Seq(Int \cup {NoDate}) /\ Stored \subseteq Seq(Int)
  /\ \A header \in Headers : header.n \in Int
  /\ MaxStreak \in Nat

VARIABLES
  env,       \* the environment of the latest start, or None
  config,    \* the configuration the process runs with, or None
  refused,   \* what Load reported
  feed,      \* check_interval, consecutive_failures and whether it is dead
  last,      \* the latest crawl: what came of it and the delay it set
  streak     \* history: failures since the feed last answered with content

vars == <<env, config, refused, feed, last, streak>>

NoCrawl == [kind |-> "none", dates |-> <<>>, header |-> [says |-> "nothing", n |-> 0],
            delay |-> 0]

TypeOK ==
  /\ env \in Environments \cup {None}
  /\ config = None \/ (env # None /\ config = Loaded(env) /\ refused = {})
  /\ feed.interval \in Nat \ {0} /\ feed.failures \in 0..MaxStreak /\ feed.dead \in BOOLEAN
  /\ last.kind \in {"none", "changed", "not_modified", "failed", "gone", "rate_limited",
                    "moved", "unmoved"}
  /\ streak \in 0..MaxStreak

Init ==
  /\ env = None /\ config = None /\ refused = {}
  /\ feed = [interval |-> DefaultCadence, failures |-> 0, dead |-> FALSE]
  /\ last = NoCrawl
  /\ streak = 0

Crawled(kind, delay) == [NoCrawl EXCEPT !.kind = kind, !.delay = delay]

-----------------------------------------------------------------------------
(* Mistake: problems are reported and the process goes on. *)
StartAnyway(e) ==
  /\ env' = e
  /\ refused' = Problems(e)
  /\ config' = Loaded(e)
  /\ last' = NoCrawl
  /\ UNCHANGED <<feed, streak>>

(* A process is started: Load refuses the environment, or it does not and  *)
(* the pool cannot be had with no connection to have.                      *)
Start(e) ==
  /\ env' = e
  /\ refused' = Problems(e)
  /\ config' = IF Problems(e) = {} /\ Loaded(e).DB_MAX_CONNS >= 1 THEN Loaded(e) ELSE None
  /\ last' = NoCrawl
  /\ UNCHANGED <<feed, streak>>

(* Mistake: the jittered interval is what the row keeps. *)
SucceededJittered(kind, interval, dates) ==
  \E delay \in Jitter(interval) :
    /\ feed' = [interval |-> delay, failures |-> 0, dead |-> FALSE]
    /\ last' = [Crawled(kind, delay) EXCEPT !.dates = dates]
    /\ streak' = 0
    /\ UNCHANGED <<env, config, refused>>

Succeeded(kind, interval, dates) ==
  \E delay \in Jitter(interval) :
    /\ feed' = [interval |-> interval, failures |-> 0, dead |-> FALSE]
    /\ last' = [Crawled(kind, delay) EXCEPT !.dates = dates]
    /\ streak' = 0
    /\ UNCHANGED <<env, config, refused>>

(* The dates that a changed document and the store make a sample of. *)
Samples == {RecentDates(published, stored) : published \in Published, stored \in Stored}

Changed(dates) == Succeeded("changed", IntervalAfterChange(config, dates), dates)

NotModified ==
  Succeeded("not_modified", IntervalAfterNoChange(config, feed.interval), <<>>)

(* A permanent redirect that is taken: the row is checked again at once.   *)
(* One to a feed with a row of its own retires this row, which nobody then *)
(* crawls.                                                                 *)
Moved ==
  /\ feed' = [feed EXCEPT !.failures = 0, !.dead = FALSE]
  /\ last' = Crawled("moved", 0)
  /\ streak' = 0
  /\ UNCHANGED <<env, config, refused>>

(* One that is not taken, because it names the same URL or the check of    *)
(* the target fails: the row keeps its failures, its interval and its next *)
(* check.                                                                  *)
Unmoved ==
  /\ last' = Crawled("unmoved", 0)
  /\ UNCHANGED <<env, config, refused, feed, streak>>

Gone ==
  /\ streak < MaxStreak
  /\ feed' = [feed EXCEPT !.failures = @ + 1, !.dead = TRUE]
  /\ last' = Crawled("gone", config.CRAWLER_DEAD_RECHECK)
  /\ streak' = streak + 1
  /\ UNCHANGED <<env, config, refused>>

(* Mistake: being throttled is a failure. *)
RateLimitedCounted(header) ==
  LET asked == ParseRetryAfter(header)
      delay == IF asked > 0 THEN asked ELSE IntervalAfterError(config, feed.interval)
  IN  /\ feed.failures < MaxStreak
      /\ feed' = [feed EXCEPT !.failures = @ + 1,
                              !.dead = @ \/ IsDead(config, feed.failures + 1)]
      /\ last' = [Crawled("rate_limited", delay) EXCEPT !.header = header]
      /\ UNCHANGED <<env, config, refused, streak>>

(* Mistake: being throttled shows that the host is there. *)
RateLimitedForgiving(header) ==
  LET asked == ParseRetryAfter(header)
      delay == IF asked > 0 THEN asked ELSE IntervalAfterError(config, feed.interval)
  IN  /\ feed' = [feed EXCEPT !.failures = 0]
      /\ last' = [Crawled("rate_limited", delay) EXCEPT !.header = header]
      /\ UNCHANGED <<env, config, refused, streak>>

(* 429: the delay asked for, or one of the feed's own; nothing else. *)
RateLimited(header) ==
  LET asked == ParseRetryAfter(header)
      delay == IF asked > 0 THEN asked ELSE IntervalAfterError(config, feed.interval)
  IN  /\ last' = [Crawled("rate_limited", delay) EXCEPT !.header = header]
      /\ UNCHANGED <<env, config, refused, feed, streak>>

Failed ==
  /\ streak < MaxStreak
  /\ streak' = streak + 1
  /\ IF IsDead(config, feed.failures + 1)
     THEN /\ feed' = [feed EXCEPT !.failures = @ + 1, !.dead = TRUE]
          /\ last' = Crawled("failed", config.CRAWLER_DEAD_RECHECK)
     ELSE LET interval == IntervalAfterError(config, feed.interval) IN
            /\ feed' = [feed EXCEPT !.failures = @ + 1, !.interval = interval]
            /\ \E delay \in Jitter(interval) : last' = Crawled("failed", delay)
  /\ UNCHANGED <<env, config, refused>>

-----------------------------------------------------------------------------
Crawl ==
  /\ config # None
  /\ \/ \E dates \in Samples : Changed(dates)
     \/ \E header \in Headers : RateLimited(header)
     \/ NotModified \/ Moved \/ Unmoved \/ Gone \/ Failed

Next == Crawl \/ \E e \in Environments : Start(e)

Spec == Init /\ [][Next]_vars

-----------------------------------------------------------------------------
(* Load reports every problem at once: an operator who takes back just     *)
(* what was reported is not told of another setting next time (the two     *)
(* intervals are one problem between them).                                *)
NothingLeftToReport ==
  env # None =>
    LET named == {p[2] : p \in refused}
        blamed == named \cup IF "CRAWLER_MIN_INTERVAL" \in named
                             THEN {"CRAWLER_MAX_INTERVAL"} ELSE {}
        corrected == [url |-> env.url \/ "DATABASE_URL" \in named,
                      raw |-> [k \in Numbers |-> IF k \in blamed THEN Unset
                                                                 ELSE env.raw[k]]]
    IN  Problems(corrected) = {}

(* A configuration that was accepted is one the rest of the program can    *)
(* work with: a batch, a limiter's bucket, a body, a pool are never empty, *)
(* and the clamps leave room for an interval (Load).                       *)
RunsWithUsableSettings ==
  config # None =>
    /\ \A k \in DOMAIN Least : config[k] >= Least[k]
    /\ config.CRAWLER_MAX_INTERVAL > 0 =>
         \A d \in 1..(2 * config.CRAWLER_MAX_INTERVAL) :
           Clamp(config, d) <= config.CRAWLER_MAX_INTERVAL

(* What the row carries from one crawl to the next stays in the bounds of  *)
(* the process that wrote it, however many crawls and jitters lie behind   *)
(* it, and the check comes within a tenth of it.                           *)
PacedWithinBounds ==
  config # None /\ ~feed.dead /\ last.kind \in {"changed", "not_modified", "failed"} =>
    /\ config.CRAWLER_MIN_INTERVAL > 0 => feed.interval >= config.CRAWLER_MIN_INTERVAL
    /\ config.CRAWLER_MAX_INTERVAL > 0 => feed.interval <= config.CRAWLER_MAX_INTERVAL
    /\ 10 * last.delay \in (9 * feed.interval - 10)..(11 * feed.interval)

(* Failing, a feed dies when there have been as many real failures in a    *)
(* row as the budget of the process has, no sooner and no later: being     *)
(* throttled neither kills it nor counts, nor starts the count again, and  *)
(* a move that is not made does not either (applyFailure, IsDead).         *)
DiesOfItsFailures ==
  [][last'.kind \in {"failed", "rate_limited", "unmoved"}
       => (feed'.dead <=> feed.dead \/ (last'.kind = "failed" /\ IsDead(config, streak')))]_vars

(* A 429 is waited out: exactly as long as the publisher asked when that   *)
(* is a duration, and never not at all.                                    *)
ThrottleHonoured ==
  last.kind = "rate_limited" =>
    /\ last.delay > 0
    /\ (last.header.says = "seconds" /\ last.header.n > 0 /\ last.header.n * Second < Int64)
         => last.delay = last.header.n * Second
    /\ (last.header.says = "date" /\ last.header.n > 0) => last.delay = last.header.n

(* The positive gaps between neighbours among some dates, without sorting  *)
(* them: a gap for every pair with no date in between.                     *)
Neighbours(dates) ==
  {g \in dates \X dates : g[1] < g[2] /\ ~\E d \in dates : g[1] < d /\ d < g[2]}

(* The cadence is the median of the gaps whatever the order the episodes   *)
(* come in, and, once three dates are recent, stays within their gaps      *)
(* although another lies far back (IntervalAfterChange, before the clamp). *)
CadenceIsMedian ==
  last.kind = "changed" =>
    LET m == MedianGap(last.dates)
        dates == {last.dates[i] : i \in DOMAIN last.dates}
        gaps == Neighbours(dates)
        recent == {g \in gaps : \E d \in dates : d < g[1]}
    IN  /\ (m > 0) <=> (Cardinality(dates) > 1)
        /\ 2 * Cardinality({g \in gaps : g[2] - g[1] < m}) <= Cardinality(gaps)
        /\ 2 * Cardinality({g \in gaps : g[2] - g[1] > m}) <= Cardinality(gaps)
        /\ (Cardinality(recent) >= 2) => \E g \in recent : m <= g[2] - g[1]
=============================================================================
