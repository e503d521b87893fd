----------------------------- MODULE PacingProofs -----------------------------
(***************************************************************************)
(* Theorems about Pacing, for every environment, document and header.      *)
(* First the settings and the budget of failures; then the median and the  *)
(* intervals made of it; last what the median says of the dates.           *)
(***************************************************************************)
EXTENDS Pacing, OrderingProofs, SequenceTheorems

(* What a start leaves behind: the report is complete, and a process runs  *)
(* only without one and with a connection to have.                         *)
Reported ==
  env # None => Environment(env) /\ refused = Problems(env)

Running ==
  config # None =>
    /\ env # None /\ config = Loaded(env)
    /\ Problems(env) = {} /\ Loaded(env).DB_MAX_CONNS >= 1

(* The row's count is the number of failures there were in a row. *)
CountInv ==
  /\ DOMAIN feed = {"interval", "failures", "dead"}
  /\ feed.failures = streak

PaceInv == Reported /\ Running /\ CountInv

-----------------------------------------------------------------------------
(* The kinds of crawl, seen from the row's count and the environment. *)
LEMMA CrawlsKeepSettings ==
  ASSUME Crawl
  PROVE  UNCHANGED <<env, config, refused>>
BY DEF Crawl, Changed, Succeeded, NotModified, Moved, Unmoved, Gone, RateLimited, Failed

LEMMA CrawlsCount ==
  ASSUME Crawl, CountInv
  PROVE  CountInv'
<1>1. CASE \E dates \in Samples : Changed(dates)
  BY <1>1 DEF Changed, Succeeded, CountInv
<1>2. CASE \E header \in Headers : RateLimited(header)
  BY <1>2 DEF RateLimited, CountInv
<1>3. CASE NotModified
  BY <1>3 DEF NotModified, Succeeded, CountInv
<1>4. CASE Moved
  BY <1>4 DEF Moved, CountInv
<1>5. CASE Gone
  BY <1>5 DEF Gone, CountInv
<1>6. CASE Failed
  <2>1. CASE IsDead(config, feed.failures + 1)
    BY <1>6, <2>1 DEF Failed, CountInv
  <2>2. CASE ~IsDead(config, feed.failures + 1)
    BY <1>6, <2>2 DEF Failed, CountInv
  <2> QED BY <2>1, <2>2
<1>7. CASE Unmoved
  BY <1>7 DEF Unmoved, CountInv
<1> QED BY <1>1, <1>2, <1>3, <1>4, <1>5, <1>6, <1>7 DEF Crawl

(* What has been started and reported is kept by every step. *)
LEMMA PaceInvariant == Spec => []PaceInv
<1>1. Init => PaceInv
  BY DEF Init, PaceInv, Reported, Running, CountInv
<1>2. PaceInv /\ [Next]_vars => PaceInv'
  <2> SUFFICES ASSUME PaceInv, [Next]_vars
               PROVE  PaceInv'
    OBVIOUS
  <2>1. CASE Crawl
    BY <2>1, CrawlsKeepSettings, CrawlsCount DEF PaceInv, Reported, Running
  <2>2. ASSUME NEW e \in Environments, Start(e)
        PROVE  PaceInv'
    <3>1. Environment(e)
      BY PacingAssumption
    <3>2. Reported'
      BY <2>2, <3>1 DEF Start, Reported
    <3>3. Running'
      BY <2>2, PacingAssumption DEF Start, Running
    <3> QED BY <2>2, <3>2, <3>3 DEF Start, PaceInv, CountInv
  <2>3. CASE UNCHANGED vars
    BY <2>3 DEF vars, PaceInv, Reported, Running, CountInv
  <2> QED BY <2>1, <2>2, <2>3 DEF Next
<1> QED BY <1>1, <1>2, PTL DEF Spec

-----------------------------------------------------------------------------
(* A crawl that fails leaves a feed dead when it was, or when as many have *)
(* failed in a row as the process's budget has, and only then: however the *)
(* throttling, the moves and the successes in between fall, and whatever   *)
(* budget the processes before had (applyFailure, IsDead).                 *)
THEOREM FailureBudget == Spec => DiesOfItsFailures
<1> DEFINE Dies ==
      last'.kind \in {"failed", "rate_limited", "unmoved"}
        => (feed'.dead <=> feed.dead \/ (last'.kind = "failed" /\ IsDead(config, streak')))
<1>1. PaceInv /\ [Next]_vars => [Dies]_vars
  <2> SUFFICES ASSUME PaceInv, Next
               PROVE  Dies
    OBVIOUS
  <2>1. ASSUME NEW e \in Environments, Start(e) PROVE Dies
    BY <2>1 DEF Start, NoCrawl
  <2>2. CASE \E dates \in Samples : Changed(dates)
    BY <2>2 DEF Changed, Succeeded, Crawled, NoCrawl
  <2>3. CASE \E header \in Headers : RateLimited(header)
    <3>1. feed' = feed /\ last'.kind = "rate_limited"
      BY <2>3 DEF RateLimited, Crawled, NoCrawl
    <3> QED BY <3>1
  <2>4. CASE NotModified
    BY <2>4 DEF NotModified, Succeeded, Crawled, NoCrawl
  <2>5. CASE Moved
    BY <2>5 DEF Moved, Crawled, NoCrawl
  <2>6. CASE Unmoved
    <3>1. feed' = feed /\ last'.kind = "unmoved"
      BY <2>6 DEF Unmoved, Crawled, NoCrawl
    <3> QED BY <3>1
  <2>7. CASE Gone
    BY <2>7 DEF Gone, Crawled, NoCrawl
  <2>8. CASE Failed
    <3>1. /\ streak' = feed.failures + 1 /\ DOMAIN feed = {"interval", "failures", "dead"}
          /\ last'.kind = "failed"
      BY <2>8 DEF Failed, PaceInv, CountInv, Crawled, NoCrawl
    <3>2. CASE IsDead(config, feed.failures + 1)
      <4>1. feed'.dead = TRUE
        BY <2>8, <3>1, <3>2 DEF Failed
      <4> QED BY <3>1, <3>2, <4>1
    <3>3. CASE ~IsDead(config, feed.failures + 1)
      <4>1. feed'.dead = feed.dead
        BY <2>8, <3>1, <3>3 DEF Failed
      <4> QED BY <3>1, <3>3, <4>1
    <3> QED BY <3>2, <3>3
  <2> QED BY <2>1, <2>2, <2>3, <2>4, <2>5, <2>6, <2>7, <2>8 DEF Next, Crawl
<1> QED BY <1>1, PaceInvariant, PTL DEF Spec, DiesOfItsFailures

-----------------------------------------------------------------------------
LEMMA ReadIsInt ==
  ASSUME NEW e, Environment(e), NEW k \in Numbers
  PROVE  Read(e)[k] \in Int
<1>1. Default[k] \in Int
  BY DEF Numbers, Default
<1> QED BY <1>1 DEF Read, Environment

LEMMA NoRangeProblem ==
  ASSUME NEW v, RangeProblems(v) = {}
  PROVE  /\ \A k \in DOMAIN Least : ~(v[k] < Least[k])
         /\ ~(v.DB_MIN_CONNS > v.DB_MAX_CONNS)
         /\ ~(v.CRAWLER_MIN_INTERVAL > v.CRAWLER_MAX_INTERVAL)
BY DEF RangeProblems

LEMMA LoadedNumbers ==
  ASSUME PaceInv, config # None
  PROVE  \A k \in Numbers \ {"DB_MAX_CONNS", "DB_MIN_CONNS"} :
           config[k] = Read(env)[k] /\ config[k] \in Int
<1>1. Environment(env) /\ config = Loaded(env)
  BY DEF PaceInv, Reported, Running
<1> QED BY <1>1, ReadIsInt DEF Loaded, Read

LEMMA Clamps ==
  ASSUME PaceInv, config # None
  PROVE  /\ config.CRAWLER_MIN_INTERVAL \in Int /\ config.CRAWLER_MAX_INTERVAL \in Int
         /\ config.CRAWLER_MIN_INTERVAL <= config.CRAWLER_MAX_INTERVAL
<1>1. {"CRAWLER_MIN_INTERVAL", "CRAWLER_MAX_INTERVAL"}
        \subseteq Numbers \ {"DB_MAX_CONNS", "DB_MIN_CONNS"}
  BY DEF Numbers, Default
<1>2. RangeProblems(Read(env)) = {}
  BY DEF PaceInv, Running, Problems
<1> QED BY <1>1, <1>2, LoadedNumbers, NoRangeProblem

(* What Load accepts is usable: no batch, bucket, body or pool is empty,   *)
(* and the clamps leave room for an interval, for every environment.       *)
THEOREM SettingsAreUsable == Spec => []RunsWithUsableSettings
<1>1. PaceInv => RunsWithUsableSettings
  <2> SUFFICES ASSUME PaceInv, config # None
               PROVE  /\ \A k \in DOMAIN Least : config[k] >= Least[k]
                      /\ config.CRAWLER_MAX_INTERVAL > 0 =>
                           \A d \in 1..(2 * config.CRAWLER_MAX_INTERVAL) :
                             Clamp(config, d) <= config.CRAWLER_MAX_INTERVAL
    BY DEF RunsWithUsableSettings
  <2>1. Environment(env) /\ config = Loaded(env) /\ config.DB_MAX_CONNS >= 1
    BY DEF PaceInv, Reported, Running
  <2>2. RangeProblems(Read(env)) = {}
    BY DEF PaceInv, Running, Problems
  <2>3. \A k \in Numbers \ {"DB_MAX_CONNS", "DB_MIN_CONNS"} :
          config[k] = Read(env)[k] /\ config[k] \in Int
    BY LoadedNumbers
  <2>4. ASSUME NEW k \in DOMAIN Least
        PROVE  config[k] >= Least[k]
    <3>1. k = "DB_MAX_CONNS" \/ k \in Numbers \ {"DB_MAX_CONNS", "DB_MIN_CONNS"}
      BY <2>4 DEF Least, Numbers, Default
    <3>2. Least[k] \in Int
      BY <2>4 DEF Least
    <3>3. CASE k = "DB_MAX_CONNS"
      BY <3>3, <2>1 DEF Least
    <3>4. CASE k \in Numbers \ {"DB_MAX_CONNS", "DB_MIN_CONNS"}
      BY <3>2, <3>4, <2>2, <2>3, <2>4, NoRangeProblem
    <3> QED BY <3>1, <3>3, <3>4
  <2>5. /\ config.CRAWLER_MIN_INTERVAL \in Int /\ config.CRAWLER_MAX_INTERVAL \in Int
        /\ config.CRAWLER_MIN_INTERVAL <= config.CRAWLER_MAX_INTERVAL
    BY Clamps
  <2>6. ASSUME config.CRAWLER_MAX_INTERVAL > 0,
               NEW d \in 1..(2 * config.CRAWLER_MAX_INTERVAL)
        PROVE  Clamp(config, d) <= config.CRAWLER_MAX_INTERVAL
    BY <2>5, <2>6 DEF Clamp
  <2> QED BY <2>4, <2>6
<1> QED BY <1>1, PaceInvariant, PTL

-----------------------------------------------------------------------------
(* The settings that are blamed in an environment, and the environment in  *)
(* which they were taken back.                                             *)
Named(e) == {p[2] : p \in Problems(e)}

Blamed(e) ==
  Named(e) \cup IF "CRAWLER_MIN_INTERVAL" \in Named(e)
                THEN {"CRAWLER_MAX_INTERVAL"} ELSE {}

Corrected(e) ==
  [url |-> e.url \/ "DATABASE_URL" \in Named(e),
   raw |-> [k \in Numbers |-> IF k \in Blamed(e) THEN Unset ELSE e.raw[k]]]

(* What is still wrong with it: nothing. *)
LEMMA TakenBack ==
  ASSUME NEW e, Environment(e)
  PROVE  Problems(Corrected(e)) = {}
<1> DEFINE named == Named(e)
           blamed == Blamed(e)
           c == Corrected(e)
<1>0. /\ named = {p[2] : p \in Problems(e)}
      /\ blamed = named \cup IF "CRAWLER_MIN_INTERVAL" \in named
                             THEN {"CRAWLER_MAX_INTERVAL"} ELSE {}
      /\ c.url = (e.url \/ "DATABASE_URL" \in named)
      /\ c.raw = [k \in Numbers |-> IF k \in blamed THEN Unset ELSE e.raw[k]]
  BY DEF Named, Blamed, Corrected
<1> DEFINE v == Read(e)
           w == Read(c)
<1> HIDE DEF named, blamed, c
<1>1. \A p \in Problems(e) : p[2] \in named
  BY <1>0
<1>2. /\ ~e.url => "DATABASE_URL" \in named
      /\ \A k \in Numbers : e.raw[k] = Unreadable => k \in named
      /\ \A k \in DOMAIN Least : v[k] < Least[k] => k \in named
      /\ v.DB_MIN_CONNS > v.DB_MAX_CONNS => "DB_MIN_CONNS" \in named
      /\ v.CRAWLER_MIN_INTERVAL > v.CRAWLER_MAX_INTERVAL => "CRAWLER_MIN_INTERVAL" \in named
  <2>1. ~e.url => <<"missing", "DATABASE_URL">> \in Problems(e)
    BY DEF Problems
  <2>2. \A k \in Numbers : e.raw[k] = Unreadable => <<"unreadable", k>> \in Problems(e)
    BY DEF Problems
  <2>3. \A k \in DOMAIN Least : v[k] < Least[k] => <<"low", k>> \in Problems(e)
    BY DEF Problems, RangeProblems
  <2>4. v.DB_MIN_CONNS > v.DB_MAX_CONNS => <<"above", "DB_MIN_CONNS">> \in Problems(e)
    BY DEF Problems, RangeProblems
  <2>5. v.CRAWLER_MIN_INTERVAL > v.CRAWLER_MAX_INTERVAL
          => <<"above", "CRAWLER_MIN_INTERVAL">> \in Problems(e)
    BY DEF Problems, RangeProblems
  <2> HIDE DEF v
  <2> QED BY <1>1, <2>1, <2>2, <2>3, <2>4, <2>5
<1>3. e.url \in BOOLEAN /\ c.url = TRUE
  BY <1>0, <1>2 DEF Environment
<1>4. ASSUME NEW k \in Numbers
      PROVE  /\ c.raw[k] # Unreadable
             /\ w[k] = IF k \in blamed THEN Default[k] ELSE v[k]
             /\ v[k] \in Int /\ Default[k] \in Int
             /\ e.raw[k] = Unreadable => v[k] = Default[k]
  <2>1. c.raw[k] = IF k \in blamed THEN Unset ELSE e.raw[k]
    BY <1>0
  <2>2. e.raw[k] = Unreadable => k \in blamed
    BY <1>0, <1>2
  <2>3. Default[k] \in Int
    BY DEF Numbers, Default
  <2> QED BY <2>1, <2>2, <2>3, ReadIsInt, RawAssumption DEF Read
<1>5. /\ {"DB_MIN_CONNS", "DB_MAX_CONNS", "CRAWLER_MIN_INTERVAL", "CRAWLER_MAX_INTERVAL"}
           \subseteq Numbers
      /\ DOMAIN Least \subseteq Numbers
      /\ "DB_MAX_CONNS" \in DOMAIN Least /\ Least["DB_MAX_CONNS"] = 1
      /\ "DB_MIN_CONNS" \notin DOMAIN Least
      /\ "CRAWLER_MAX_INTERVAL" \notin DOMAIN Least
      /\ Default.DB_MIN_CONNS = 1 /\ Default.DB_MAX_CONNS = 10
      /\ Default.CRAWLER_MIN_INTERVAL = 1 /\ Default.CRAWLER_MAX_INTERVAL = 24
  BY DEF Numbers, Default, Least
<1>6. \A k \in DOMAIN Least : Default[k] >= Least[k] /\ Least[k] \in Int
  BY DEF Default, Least
<1>7. \A k \in {"DB_MAX_CONNS", "CRAWLER_MAX_INTERVAL"} :
        k \in named => \/ e.raw[k] = Unreadable
                       \/ k \in DOMAIN Least /\ v[k] < Least[k]
  <2> SUFFICES ASSUME NEW k \in {"DB_MAX_CONNS", "CRAWLER_MAX_INTERVAL"},
                      NEW p \in Problems(e), p[2] = k
               PROVE  \/ e.raw[k] = Unreadable
                      \/ k \in DOMAIN Least /\ v[k] < Least[k]
    BY <1>0
  <2> QED BY DEF Problems, RangeProblems
<1> HIDE DEF v, w
<1>8. \A k \in DOMAIN Least : ~(w[k] < Least[k])
  BY <1>0, <1>2, <1>4, <1>5, <1>6
<1>9. ~(w.DB_MIN_CONNS > w.DB_MAX_CONNS)
  <2>1. CASE "DB_MAX_CONNS" \in blamed
    BY <2>1, <1>0, <1>2, <1>4, <1>5, <1>7
  <2>2. CASE "DB_MAX_CONNS" \notin blamed
    BY <2>2, <1>0, <1>2, <1>4, <1>5
  <2> QED BY <2>1, <2>2
<1>10. ~(w.CRAWLER_MIN_INTERVAL > w.CRAWLER_MAX_INTERVAL)
  <2>1. CASE "CRAWLER_MIN_INTERVAL" \in named
    BY <2>1, <1>0, <1>4, <1>5
  <2>2. CASE "CRAWLER_MIN_INTERVAL" \notin named
    BY <2>2, <1>0, <1>2, <1>4, <1>5, <1>7
  <2> QED BY <2>1, <2>2
<1>11. RangeProblems(w) = {}
  BY <1>8, <1>9, <1>10 DEF RangeProblems
<1>12. {<<"unreadable", k>> : k \in {l \in Numbers : c.raw[l] = Unreadable}} = {}
  <2>1. {l \in Numbers : c.raw[l] = Unreadable} = {}
    BY <1>4
  <2> QED BY <2>1
<1>13. Problems(c) = (IF c.url THEN {} ELSE {<<"missing", "DATABASE_URL">>})
                       \cup {<<"unreadable", k>> : k \in {l \in Numbers : c.raw[l] = Unreadable}}
                       \cup RangeProblems(w)
  BY DEF Problems, w
<1> QED BY <1>3, <1>11, <1>12, <1>13 DEF c

(* Load reports everything at once, whatever combination of settings is    *)
(* missing, unreadable or out of range: taking back what was reported      *)
(* leaves nothing to report.                                               *)
THEOREM ReportIsComplete == Spec => []NothingLeftToReport
<1>1. ASSUME PaceInv, env # None
      PROVE  NothingLeftToReport
  <2>1. Environment(env) /\ refused = Problems(env)
    BY <1>1 DEF PaceInv, Reported
  <2>2. Problems(Corrected(env)) = {}
    BY <2>1, TakenBack
  <2> QED BY <2>1, <2>2 DEF NothingLeftToReport, Corrected, Blamed, Named
<1>2. PaceInv => NothingLeftToReport
  BY <1>1 DEF NothingLeftToReport
<1> QED BY <1>2, PaceInvariant, PTL

-----------------------------------------------------------------------------
(* The median splits a family in halves, even when it is the mean of two. *)
LEMMA MedianSplits ==
  ASSUME NEW D, IsFiniteSet(D), D # {}, NEW f \in [D -> Int]
  PROVE  /\ Median(f) \in Int
         /\ 2 * Cardinality(Below(Median(f), f)) <= Cardinality(D)
         /\ 2 * (Cardinality(D) - Cardinality(UpTo(Median(f), f))) <= Cardinality(D)
         /\ (\A i \in D : f[i] > 0) => Median(f) > 0
<1> DEFINE count == Cardinality(D)
           middle == count \div 2
           low == Nth(middle, f)
           high == Nth(middle + 1, f)
           m == Median(f)
<1>1. count \in Nat \ {0}
  BY FS_EmptySet, FS_CardinalityType
<1>2. m = IF count % 2 = 1 THEN high ELSE (low + high) \div 2
  BY DEF Median
<1> HIDE DEF count, m
<1>3. /\ middle \in Nat /\ middle + 1 \in Nat /\ middle + 1 <= count
      /\ count % 2 = 1 => count = 2 * middle + 1
      /\ count % 2 # 1 => count = 2 * middle /\ middle >= 1
  <2>1. middle \in Nat /\ (count = 2 * middle \/ count = 2 * middle + 1)
    BY <1>1
  <2>2. count % 2 = 1 <=> count = 2 * middle + 1
    BY <1>1
  <2> HIDE DEF middle
  <2>3. CASE count = 2 * middle
    BY <1>1, <2>1, <2>2, <2>3
  <2>4. CASE count = 2 * middle + 1
    BY <1>1, <2>1, <2>2, <2>4
  <2> QED BY <2>1, <2>3, <2>4
<1> HIDE DEF middle
<1>4. /\ high \in Int /\ \E i \in D : f[i] = high
      /\ Cardinality(Below(high, f)) < middle + 1
      /\ middle + 1 <= Cardinality(UpTo(high, f))
  BY <1>1, <1>3, NthProperties DEF count
<1> DEFINE Less(v) == Cardinality(Below(v, f))
           More(v) == count - Cardinality(UpTo(v, f))
<1>5. ASSUME NEW v \in Int
      PROVE  /\ Less(v) \in Nat /\ More(v) \in Nat
             /\ \A w \in Int : v <= w => Less(v) <= Less(w) /\ More(w) <= More(v)
  <2>1. Less(v) \in Nat /\ More(v) \in Nat
    BY Counted DEF count
  <2>2. ASSUME NEW w \in Int, v <= w
        PROVE  Less(v) <= Less(w) /\ More(w) <= More(v)
    <3>1. CASE v = w
      BY <2>1, <3>1
    <3>2. CASE v < w
      <4>1. /\ Less(v) <= Cardinality(UpTo(v, f)) /\ Cardinality(UpTo(v, f)) <= Less(w)
            /\ Less(w) <= Cardinality(UpTo(w, f))
        BY <3>2, Counted
      <4>2. /\ Cardinality(UpTo(v, f)) \in Nat /\ Cardinality(UpTo(w, f)) \in Nat
            /\ Less(v) \in Nat /\ Less(w) \in Nat
        BY Counted
      <4> HIDE DEF Less
      <4> QED BY <1>1, <4>1, <4>2
    <3> QED BY <2>2, <3>1, <3>2
  <2> QED BY <2>1, <2>2
<1>6. Less(high) < middle + 1 /\ More(high) <= count - (middle + 1)
  <2>1. Cardinality(UpTo(high, f)) \in Nat
    BY <1>4, Counted
  <2> QED BY <1>1, <1>3, <1>4, <2>1
<1>7. CASE count % 2 = 1
  <2>1. m = high
    BY <1>2, <1>7
  <2>2. 2 * Less(m) <= count /\ 2 * More(m) <= count
    <3>1. Less(high) \in Nat /\ More(high) \in Nat
      BY <1>4, <1>5
    <3> HIDE DEF Less, More, high
    <3> QED BY <1>1, <1>3, <1>6, <1>7, <2>1, <3>1
  <2> QED BY <1>4, <2>1, <2>2 DEF m, count
<1>8. CASE count % 2 # 1
  <2>1. /\ low \in Int /\ \E i \in D : f[i] = low
        /\ middle <= Cardinality(UpTo(low, f)) /\ low <= high
    BY <1>1, <1>3, <1>8, NthProperties, NthMonotonic DEF count
  <2>2. m \in Int /\ low <= m /\ m <= high
    BY <1>2, <1>4, <1>8, <2>1
  <2>3. More(low) <= count - middle
    <3>1. Cardinality(UpTo(low, f)) \in Nat
      BY <2>1, Counted
    <3> QED BY <1>1, <1>3, <2>1, <3>1
  <2>4. /\ Less(m) \in Nat /\ More(m) \in Nat /\ Less(high) \in Nat /\ More(low) \in Nat
        /\ Less(m) <= Less(high) /\ More(m) <= More(low)
    BY <1>4, <1>5, <2>1, <2>2
  <2>5. 2 * Less(m) <= count /\ 2 * More(m) <= count
    <3> HIDE DEF Less, More, low, high
    <3> QED BY <1>1, <1>3, <1>6, <1>8, <2>3, <2>4
  <2>6. (\A i \in D : f[i] > 0) => m > 0
    BY <2>1, <2>2
  <2> QED BY <2>2, <2>5, <2>6 DEF m, count
<1> QED BY <1>7, <1>8

-----------------------------------------------------------------------------
(* The dates of a crawl in order, and the gaps between them.               *)
LEMMA DatesInOrder ==
  ASSUME NEW dates \in Seq(Int)
  PROVE  /\ IsFiniteSet(1..Len(dates)) /\ Cardinality(1..Len(dates)) = Len(dates)
         /\ dates \in [1..Len(dates) -> Int]
         /\ \A i \in 1..Len(dates) : Nth(i, dates) \in Int
         /\ \A i, j \in 1..Len(dates) : i <= j => Nth(i, dates) <= Nth(j, dates)
<1>1. Len(dates) \in Nat /\ dates \in [1..Len(dates) -> Int]
  BY LenProperties
<1>2. IsFiniteSet(1..Len(dates)) /\ Cardinality(1..Len(dates)) = Len(dates)
  BY <1>1, FS_Interval
<1> DEFINE D == 1..Len(dates)
<1>3. IsFiniteSet(D) /\ dates \in [D -> Int] /\ D = 1..Cardinality(D)
  BY <1>1, <1>2
<1> HIDE DEF D
<1>4. \A i \in D : Nth(i, dates) \in Int
  BY <1>3, NthProperties
<1>5. \A i, j \in D : i <= j => Nth(i, dates) <= Nth(j, dates)
  BY <1>3, NthMonotonic
<1> QED BY <1>1, <1>2, <1>4, <1>5 DEF D

LEMMA GapsBetween ==
  ASSUME NEW dates \in Seq(Int)
  PROVE  LET starts == {i \in 1..(Len(dates) - 1) : Nth(i, dates) < Nth(i + 1, dates)}
         IN  /\ IsFiniteSet(starts) /\ Gaps(dates) \in [starts -> Int]
             /\ \A i \in starts : /\ Gaps(dates)[i] = Nth(i + 1, dates) - Nth(i, dates)
                                  /\ Gaps(dates)[i] > 0
             /\ Gaps(dates) = <<>> <=> starts = {}
<1> DEFINE sorted == [i \in DOMAIN dates |-> Nth(i, dates)]
           starts == {i \in 1..(Len(dates) - 1) : Nth(i, dates) < Nth(i + 1, dates)}
<1>1. DOMAIN dates = 1..Len(dates) /\ Len(dates) \in Nat
  BY LenProperties
<1>2. \A i \in 1..(Len(dates) - 1) : /\ i \in 1..Len(dates) /\ i + 1 \in 1..Len(dates)
                                     /\ sorted[i] = Nth(i, dates)
                                     /\ sorted[i + 1] = Nth(i + 1, dates)
  BY <1>1
<1>3. Gaps(dates) = [i \in {i \in 1..(Len(dates) - 1) : sorted[i] < sorted[i + 1]} |->
                       sorted[i + 1] - sorted[i]]
  BY DEF Gaps
<1> HIDE DEF sorted
<1>4. {i \in 1..(Len(dates) - 1) : sorted[i] < sorted[i + 1]} = starts
  BY <1>2
<1>5. Gaps(dates) = [i \in starts |-> sorted[i + 1] - sorted[i]]
  BY <1>3, <1>4
<1>6. starts \subseteq 1..Len(dates) /\ IsFiniteSet(starts)
  <2>1. starts \subseteq 1..Len(dates)
    BY <1>2
  <2> HIDE DEF starts
  <2> QED BY <2>1, DatesInOrder, PartOfFinite
<1>7. ASSUME NEW i \in starts
      PROVE  /\ Gaps(dates)[i] = Nth(i + 1, dates) - Nth(i, dates)
             /\ Gaps(dates)[i] \in Int /\ Gaps(dates)[i] > 0
  <2>1. /\ i \in 1..(Len(dates) - 1) /\ Nth(i, dates) < Nth(i + 1, dates)
    OBVIOUS
  <2>2. Nth(i, dates) \in Int /\ Nth(i + 1, dates) \in Int
    BY <1>2, <2>1, DatesInOrder
  <2>3. Gaps(dates)[i] = Nth(i + 1, dates) - Nth(i, dates)
    BY <1>2, <1>5, <2>1
  <2> QED BY <2>1, <2>2, <2>3
<1> HIDE DEF starts
<1>8. Gaps(dates) \in [starts -> Int]
  BY <1>5, <1>7
<1>9. Gaps(dates) = <<>> <=> starts = {}
  BY <1>5
<1> QED BY <1>6, <1>7, <1>8, <1>9 DEF starts

LEMMA MedianGapType ==
  ASSUME NEW dates \in Seq(Int)
  PROVE  MedianGap(dates) \in Nat
<1> DEFINE starts == {i \in 1..(Len(dates) - 1) : Nth(i, dates) < Nth(i + 1, dates)}
           gaps == Gaps(dates)
<1>1. /\ IsFiniteSet(starts) /\ gaps \in [starts -> Int] /\ \A i \in starts : gaps[i] > 0
      /\ gaps = <<>> <=> starts = {}
  BY GapsBetween
<1>2. MedianGap(dates) = IF Len(dates) < 2 \/ gaps = <<>> THEN 0 ELSE Median(gaps)
  BY DEF MedianGap
<1> HIDE DEF starts, gaps
<1>3. starts # {} => Median(gaps) \in Int /\ Median(gaps) > 0
  BY <1>1, MedianSplits
<1> QED BY <1>1, <1>2, <1>3

-----------------------------------------------------------------------------
(* How long a feed is left alone.                                          *)
LEMMA ClampHolds ==
  ASSUME PaceInv, config # None, NEW d \in Nat \ {0}
  PROVE  /\ Clamp(config, d) \in Nat \ {0}
         /\ config.CRAWLER_MIN_INTERVAL > 0 =>
              Clamp(config, d) >= config.CRAWLER_MIN_INTERVAL
         /\ config.CRAWLER_MAX_INTERVAL > 0 =>
              Clamp(config, d) <= config.CRAWLER_MAX_INTERVAL
BY Clamps DEF Clamp

(* Every interval a crawl computes is the clamp of a positive one. *)
Kept(interval) ==
  /\ interval \in Nat \ {0}
  /\ config.CRAWLER_MIN_INTERVAL > 0 => interval >= config.CRAWLER_MIN_INTERVAL
  /\ config.CRAWLER_MAX_INTERVAL > 0 => interval <= config.CRAWLER_MAX_INTERVAL

LEMMA IntervalsKept ==
  ASSUME PaceInv, config # None
  PROVE  /\ \A dates \in Seq(Int) : Kept(IntervalAfterChange(config, dates))
         /\ \A current \in Nat \ {0} : /\ Kept(IntervalAfterNoChange(config, current))
                                       /\ Kept(IntervalAfterError(config, current))
<1>1. ASSUME NEW d \in Nat PROVE Known(d) \in Nat \ {0}
  BY ScheduleAssumption DEF Known
<1>2. ASSUME NEW dates \in Seq(Int) PROVE Kept(IntervalAfterChange(config, dates))
  BY <1>1, MedianGapType, ClampHolds DEF IntervalAfterChange, Kept
<1>3. ASSUME NEW current \in Nat \ {0}
      PROVE  Kept(IntervalAfterNoChange(config, current))
  <2>1. (Known(current) * 3) \div 2 \in Nat \ {0}
    <3>1. Known(current) \in Nat \ {0}
      BY <1>1
    <3> QED BY <3>1
  <2> QED BY <2>1, ClampHolds DEF IntervalAfterNoChange, Kept
<1>4. ASSUME NEW current \in Nat \ {0}
      PROVE  Kept(IntervalAfterError(config, current))
  <2>1. Known(current) * 2 \in Nat \ {0}
    <3>1. Known(current) \in Nat \ {0}
      BY <1>1
    <3> QED BY <3>1
  <2> QED BY <2>1, ClampHolds DEF IntervalAfterError, Kept
<1> QED BY <1>2, <1>3, <1>4

LEMMA JitterIsSmall ==
  ASSUME NEW d \in Nat \ {0}, NEW delay \in Jitter(d)
  PROVE  10 * delay \in (9 * d - 10)..(11 * d)
BY DEF Jitter

(* A sample is made of dates, whatever lacks one in the document. *)
LEMMA SamplesAreDates ==
  ASSUME NEW dates \in Samples
  PROVE  dates \in Seq(Int)
<1>1. PICK published \in Published, stored \in Stored :
        dates = RecentDates(published, stored)
  BY DEF Samples
<1>2. published \in Seq(Int \cup {NoDate}) /\ stored \in Seq(Int)
  BY PacingAssumption
<1> DEFINE dated == {i \in DOMAIN published : published[i] # NoDate}
           count == Cardinality(dated)
           place == [i \in dated |-> i]
           size == IF count < CadenceSample THEN count ELSE CadenceSample
           sample == [n \in 1..size |-> published[Nth(n, place)]]
<1>3. /\ DOMAIN published = 1..Len(published) /\ Len(published) \in Nat
      /\ \A i \in 1..Len(published) : published[i] \in Int \cup {NoDate}
  BY <1>2, LenProperties, ElementOfSeq
<1>4. IsFiniteSet(dated) /\ count \in Nat
  <2>1. dated \subseteq 1..Len(published) /\ IsFiniteSet(1..Len(published))
    BY <1>3, FS_Interval
  <2> HIDE DEF dated
  <2> QED BY <2>1, PartOfFinite
<1>5. place \in [dated -> Int] /\ \A i \in dated : place[i] = i
  BY <1>3
<1>6. size \in Nat /\ size <= count
  BY <1>4, ScheduleAssumption
<1>7. ASSUME NEW n \in 1..size PROVE published[Nth(n, place)] \in Int
  <2>1. n \in 1..count
    BY <1>4, <1>6
  <2>2. Nth(n, place) \in dated
    <3> HIDE DEF dated, place
    <3> QED BY <1>4, <1>5, <2>1, NthProperties
  <2> QED BY <1>3, <2>2
<1>8. sample \in Seq(Int)
  <2>1. sample \in [1..size -> Int]
    BY <1>7
  <2> HIDE DEF sample, size
  <2> QED BY <1>6, <2>1, SeqDef
<1>9. sample \o stored \in Seq(Int)
  BY <1>2, <1>8, ConcatProperties
<1>10. dates = IF Len(sample) >= 2 THEN sample ELSE sample \o stored
  BY <1>1 DEF RecentDates
<1> HIDE DEF sample
<1> QED BY <1>8, <1>9, <1>10

(* Seconds are exact as long as they fit a Duration. *)
LEMMA RetryAfterParsed ==
  ASSUME NEW header \in Headers
  PROVE  /\ ParseRetryAfter(header) \in Int
         /\ (header.says = "seconds" /\ header.n > 0 /\ header.n * Second < Int64)
              => ParseRetryAfter(header) = header.n * Second /\ header.n * Second > 0
         /\ (header.says = "date" /\ header.n > 0) => ParseRetryAfter(header) = header.n
<1>1. header.n \in Int
  BY PacingAssumption
<1>2. ASSUME NEW x \in Int PROVE Wrap(x) \in Int /\ (0 <= x /\ x < Int64 => Wrap(x) = x)
  <2>1. Int64 \in Nat \ {0} /\ 2 * Int64 \in Nat \ {0} /\ x + Int64 \in Int
    BY ScheduleAssumption
  <2> DEFINE M == 2 * Int64
             y == x + Int64
  <2>2. M \in Nat \ {0} /\ y \in Int
    BY <2>1
  <2> HIDE DEF M, y
  <2>3. y % M \in Int /\ (0 <= y /\ y < M => y % M = y)
    BY <2>2
  <2> QED BY <2>1, <2>3 DEF Wrap, M, y
<1> DEFINE x == header.n * Second
<1>3. x \in Int /\ (header.n > 0 => x > 0)
  BY <1>1, ScheduleAssumption
<1>4. ParseRetryAfter(header) =
        CASE header.says = "seconds" /\ header.n \in 0..(Int64 - 1) -> Wrap(x)
          [] header.says = "date" /\ header.n > 0                  -> header.n
          [] OTHER                                                 -> 0
  BY DEF ParseRetryAfter
<1>8. header.n > 0 /\ x < Int64 => header.n \in 0..(Int64 - 1)
  <2> SUFFICES ASSUME header.n > 0, x < Int64 PROVE header.n \in 0..(Int64 - 1)
    OBVIOUS
  <2> DEFINE n == header.n
  <2>1. n \in Int /\ n > 0 /\ Second \in Int /\ Second >= 1
    BY <1>1, ScheduleAssumption
  <2> HIDE DEF n
  <2>2. n <= n * Second
    BY <2>1
  <2>3. n * Second \in Int /\ n * Second < Int64 /\ Int64 \in Int
    BY <1>3, ScheduleAssumption DEF n
  <2> QED BY <2>1, <2>2, <2>3 DEF n
<1> HIDE DEF x
<1>5. CASE header.says = "seconds" /\ header.n \in 0..(Int64 - 1)
  <2>1. ParseRetryAfter(header) = Wrap(x)
    BY <1>4, <1>5
  <2>2. (header.n > 0 /\ x < Int64) => Wrap(x) = x /\ x > 0
    BY <1>2, <1>3
  <2> QED BY <1>2, <1>3, <1>5, <2>1, <2>2 DEF x
<1>6. CASE header.says = "date" /\ header.n > 0
  <2>1. ParseRetryAfter(header) = header.n
    BY <1>4, <1>6
  <2> QED BY <1>1, <1>6, <2>1
<1>7. CASE /\ ~(header.says = "seconds" /\ header.n \in 0..(Int64 - 1))
           /\ ~(header.says = "date" /\ header.n > 0)
  <2>1. ParseRetryAfter(header) = 0
    BY <1>4, <1>7
  <2> QED BY <1>1, <1>7, <1>8, <2>1 DEF x
<1> QED BY <1>5, <1>6, <1>7

-----------------------------------------------------------------------------
(* What the crawls of a feed leave behind: of an answer with content or a  *)
(* failure, an interval and a check close to it; of a 429, a real delay;   *)
(* of a changed document, its dates.                                       *)
LastInv == last.kind = "changed" => last.dates \in Seq(Int)

PacedInv == PaceInv /\ TypeOK /\ PacedWithinBounds /\ ThrottleHonoured /\ LastInv

(* A crawl that sets the interval, with the rest of what it writes. *)
LEMMA IntervalSet ==
  ASSUME PacedInv, PaceInv', config # None, UNCHANGED <<env, config, refused>>,
         NEW interval, Kept(interval), feed'.interval = interval,
         feed'.dead \in BOOLEAN, streak' \in 0..MaxStreak,
         NEW kind \in {"changed", "not_modified", "failed"},
         NEW delay \in Jitter(interval), last'.kind = kind, last'.delay = delay,
         last'.kind = "changed" => last'.dates \in Seq(Int)
  PROVE  PacedInv'
<1>1. TypeOK'
  BY DEF PacedInv, TypeOK, Kept, PaceInv, CountInv
<1>2. PacedWithinBounds'
  BY JitterIsSmall DEF PacedWithinBounds, Kept
<1>3. ThrottleHonoured'
  BY DEF ThrottleHonoured
<1> QED BY <1>1, <1>2, <1>3 DEF PacedInv, LastInv

(* One that leaves the interval alone. *)
LEMMA IntervalLeft ==
  ASSUME PacedInv, PaceInv', UNCHANGED <<env, config, refused>>,
         feed'.interval = feed.interval, streak' \in 0..MaxStreak,
         \/ last'.kind = "moved" /\ feed'.dead = FALSE
         \/ last'.kind = "unmoved" /\ feed'.dead = feed.dead
         \/ last'.kind \in {"gone", "failed"} /\ feed'.dead = TRUE
  PROVE  PacedInv'
<1>1. TypeOK'
  BY DEF PacedInv, TypeOK, PaceInv, CountInv
<1> QED BY <1>1 DEF PacedInv, PacedWithinBounds, ThrottleHonoured, LastInv

LEMMA SucceededKeeps ==
  ASSUME PacedInv, PaceInv', config # None, NEW kind \in {"changed", "not_modified"},
         NEW interval, Kept(interval), NEW dates, kind = "changed" => dates \in Seq(Int),
         Succeeded(kind, interval, dates)
  PROVE  PacedInv'
<1>1. PICK delay \in Jitter(interval) :
        /\ feed' = [interval |-> interval, failures |-> 0, dead |-> FALSE]
        /\ last' = [Crawled(kind, delay) EXCEPT !.dates = dates]
        /\ streak' = 0 /\ UNCHANGED <<env, config, refused>>
  BY DEF Succeeded
<1>2. last'.kind = kind /\ last'.delay = delay /\ last'.dates = dates
  BY <1>1 DEF Crawled, NoCrawl
<1>3. feed'.interval = interval /\ feed'.dead = FALSE /\ 0 \in 0..MaxStreak
  BY <1>1, PacingAssumption
<1>4. kind \in {"changed", "not_modified", "failed"} /\ FALSE \in BOOLEAN
  OBVIOUS
<1> QED BY <1>1, <1>2, <1>3, <1>4, IntervalSet

LEMMA CrawlKeeps ==
  ASSUME PacedInv, PaceInv', Crawl
  PROVE  PacedInv'
<1>1. config # None /\ PaceInv /\ UNCHANGED <<env, config, refused>>
  BY CrawlsKeepSettings DEF Crawl, PacedInv
<1>2. feed.interval \in Nat \ {0} /\ feed.dead \in BOOLEAN /\ streak \in 0..MaxStreak
      /\ DOMAIN feed = {"interval", "failures", "dead"} /\ MaxStreak \in Nat
  BY PacingAssumption DEF PacedInv, TypeOK, PaceInv, CountInv
<1>3. ASSUME NEW dates \in Samples, Changed(dates) PROVE PacedInv'
  BY <1>1, <1>3, SamplesAreDates, IntervalsKept, SucceededKeeps DEF Changed
<1>4. CASE NotModified
  BY <1>1, <1>2, <1>4, IntervalsKept, SucceededKeeps DEF NotModified
<1>5. CASE Moved
  <2>1. /\ last'.kind = "moved" /\ feed'.interval = feed.interval /\ feed'.dead = FALSE
        /\ streak' \in 0..MaxStreak
    BY <1>2, <1>5 DEF Moved, Crawled, NoCrawl
  <2> QED BY <1>1, <2>1, IntervalLeft
<1>6. CASE Gone
  <2>1. /\ last'.kind = "gone" /\ feed'.interval = feed.interval /\ feed'.dead = TRUE
        /\ streak' = streak + 1 /\ streak < MaxStreak
    BY <1>2, <1>6 DEF Gone, Crawled, NoCrawl
  <2>2. streak' \in 0..MaxStreak
    BY <1>2, <2>1
  <2> QED BY <1>1, <2>1, <2>2, IntervalLeft
<1>7. ASSUME NEW header \in Headers, RateLimited(header) PROVE PacedInv'
  <2> DEFINE asked == ParseRetryAfter(header)
             delay == IF asked > 0 THEN asked ELSE IntervalAfterError(config, feed.interval)
  <2>1. feed' = feed /\ streak' = streak /\ last' = [Crawled("rate_limited", delay) EXCEPT !.header = header]
    BY <1>7 DEF RateLimited
  <2>2. asked \in Int /\ IntervalAfterError(config, feed.interval) \in Nat \ {0}
    BY <1>1, <1>2, RetryAfterParsed, IntervalsKept DEF Kept
  <2>3. /\ (header.says = "seconds" /\ header.n > 0 /\ header.n * Second < Int64)
             => asked = header.n * Second /\ asked > 0
        /\ (header.says = "date" /\ header.n > 0) => asked = header.n
    BY RetryAfterParsed
  <2> HIDE DEF asked
  <2>4. /\ delay > 0
        /\ (header.says = "seconds" /\ header.n > 0 /\ header.n * Second < Int64)
             => delay = header.n * Second
        /\ (header.says = "date" /\ header.n > 0) => delay = header.n
    BY <2>2, <2>3
  <2> HIDE DEF delay
  <2>5. last'.kind = "rate_limited" /\ last'.delay = delay /\ last'.header = header
    BY <2>1 DEF Crawled, NoCrawl
  <2>6. ThrottleHonoured'
    BY <2>4, <2>5 DEF ThrottleHonoured
  <2>7. TypeOK'
    BY <1>1, <2>1, <2>5 DEF PacedInv, TypeOK
  <2> QED BY <2>5, <2>6, <2>7 DEF PacedInv, PacedWithinBounds, LastInv
<1>8. CASE Failed
  <2>1. CASE IsDead(config, feed.failures + 1)
    <3>1. /\ last'.kind = "failed" /\ feed'.interval = feed.interval /\ feed'.dead = TRUE
          /\ streak' = streak + 1 /\ streak < MaxStreak
      BY <1>2, <1>8, <2>1 DEF Failed, Crawled, NoCrawl
    <3>2. streak' \in 0..MaxStreak
      BY <1>2, <3>1
    <3> QED BY <1>1, <3>1, <3>2, IntervalLeft
  <2>2. CASE ~IsDead(config, feed.failures + 1)
    <3> DEFINE interval == IntervalAfterError(config, feed.interval)
    <3>1. PICK delay \in Jitter(interval) :
            /\ feed' = [feed EXCEPT !.failures = @ + 1, !.interval = interval]
            /\ last' = Crawled("failed", delay)
            /\ streak' = streak + 1 /\ streak < MaxStreak
      BY <1>8, <2>2 DEF Failed
    <3>2. Kept(interval)
      BY <1>1, <1>2, IntervalsKept
    <3> HIDE DEF interval
    <3>3. feed'.interval = interval /\ feed'.dead = feed.dead
      BY <1>2, <3>1
    <3>4. last'.kind = "failed" /\ last'.delay = delay
      BY <3>1 DEF Crawled, NoCrawl
    <3>5. streak' \in 0..MaxStreak
      BY <1>2, <3>1
    <3> QED BY <1>1, <1>2, <3>1, <3>2, <3>3, <3>4, <3>5, IntervalSet
  <2> QED BY <2>1, <2>2
<1>9. CASE Unmoved
  <2>1. /\ last'.kind = "unmoved" /\ feed'.interval = feed.interval /\ feed'.dead = feed.dead
        /\ streak' \in 0..MaxStreak
    BY <1>2, <1>9 DEF Unmoved, Crawled, NoCrawl
  <2> QED BY <1>1, <2>1, IntervalLeft
<1> QED BY <1>3, <1>4, <1>5, <1>6, <1>7, <1>8, <1>9 DEF Crawl

LEMMA PacedInvariant == Spec => []PacedInv
<1>1. Init => PacedInv
  <2> SUFFICES ASSUME Init PROVE PacedInv
    OBVIOUS
  <2>1. PaceInv
    BY DEF Init, PaceInv, Reported, Running, CountInv
  <2>2. last.kind = "none"
    BY DEF Init, NoCrawl
  <2>3. TypeOK
    BY <2>2, ScheduleAssumption, PacingAssumption DEF Init, TypeOK
  <2> QED BY <2>1, <2>2, <2>3 DEF PacedInv, PacedWithinBounds, ThrottleHonoured, LastInv
<1>2. PaceInv' /\ PacedInv /\ [Next]_vars => PacedInv'
  <2> SUFFICES ASSUME PaceInv', PacedInv, [Next]_vars PROVE PacedInv'
    OBVIOUS
  <2>1. CASE Crawl
    BY <2>1, CrawlKeeps
  <2>2. ASSUME NEW e \in Environments, Start(e) PROVE PacedInv'
    <3>1. last'.kind = "none" /\ UNCHANGED <<feed, streak>> /\ env' = e
      BY <2>2 DEF Start, NoCrawl
    <3>2. TypeOK'
      <4>1. config' = None \/ (env' # None /\ config' = Loaded(env') /\ refused' = {})
        BY <2>2, PacingAssumption DEF Start
      <4> QED BY <3>1, <4>1 DEF PacedInv, TypeOK
    <3> QED BY <3>1, <3>2 DEF PacedInv, PacedWithinBounds, ThrottleHonoured, LastInv
  <2>3. CASE UNCHANGED vars
    BY <2>3 DEF vars, PacedInv, TypeOK, PacedWithinBounds, ThrottleHonoured, LastInv
  <2> QED BY <2>1, <2>2, <2>3 DEF Next
<1> QED BY <1>1, <1>2, PaceInvariant, PTL DEF Spec

(* The row of a feed stays well-formed over any run of crawls, of any      *)
(* processes and settings: in particular no interval ever reaches zero.    *)
THEOREM PacingTypeCorrect == Spec => []TypeOK
<1>1. PacedInv => TypeOK
  BY DEF PacedInv
<1> QED BY <1>1, PacedInvariant, PTL

(* Whatever is published, answered or stored, an interval is within the    *)
(* clamps of the process that computes it and the check is a tenth off it  *)
(* at most (Schedule.clamp, jitter).                                       *)
THEOREM IntervalsStayInBounds == Spec => []PacedWithinBounds
<1>1. PacedInv => PacedWithinBounds
  BY DEF PacedInv
<1> QED BY <1>1, PacedInvariant, PTL

(* A 429 is waited out for as long as it asks, for every number of seconds *)
(* that is a Duration and every date, and for some time whatever it says.  *)
THEOREM ThrottlingIsHonoured == Spec => []ThrottleHonoured
<1>1. PacedInv => ThrottleHonoured
  BY DEF PacedInv
<1> QED BY <1>1, PacedInvariant, PTL

-----------------------------------------------------------------------------
(* The cadence.  The gaps that are measured, by their place among the      *)
(* dates in order, are the pairs of neighbours among the dates.            *)
(* The dates in order are the dates, and v is last found at the place      *)
(* that counts those up to it.                                             *)
LEMMA PlaceOf ==
  ASSUME NEW s \in Seq(Int)
  PROVE  /\ \A i \in 1..Len(s) : \E j \in DOMAIN s : Nth(i, s) = s[j]
         /\ \A j \in DOMAIN s : \E i \in 1..Len(s) :
              /\ Nth(i, s) = s[j]
              /\ \A k \in 1..Len(s) : k > i => Nth(k, s) > s[j]
<1>1. /\ IsFiniteSet(1..Len(s)) /\ Cardinality(1..Len(s)) = Len(s) /\ Len(s) \in Nat
      /\ s \in [1..Len(s) -> Int] /\ DOMAIN s = 1..Len(s)
  BY DatesInOrder, LenProperties
<1> DEFINE D == 1..Len(s)
<1>2. IsFiniteSet(D) /\ s \in [D -> Int] /\ D = 1..Cardinality(D) /\ DOMAIN s = D
  BY <1>1
<1>3. \A i \in D : i \in Nat
  OBVIOUS
<1> HIDE DEF D
<1>4. \A i \in D : \E j \in D : Nth(i, s) = s[j]
  BY <1>2, NthProperties
<1>5. ASSUME NEW j \in D
      PROVE  \E i \in D : Nth(i, s) = s[j] /\ \A k \in D : k > i => Nth(k, s) > s[j]
  <2> DEFINE v == s[j]
             i == Cardinality(UpTo(v, s))
  <2>1. v \in Int /\ IsFiniteSet(UpTo(v, s)) /\ j \in UpTo(v, s) /\ UpTo(v, s) \subseteq D
    BY <1>2, PartOfFinite DEF UpTo
  <2>2. Cardinality(Below(v, s)) < i /\ i \in Nat /\ Cardinality(Below(v, s)) \in Nat
    <3>1. Below(v, s) \subseteq UpTo(v, s) /\ j \notin Below(v, s)
      BY <1>2, <2>1 DEF Below, UpTo
    <3> QED BY <2>1, <3>1, PartOfFinite
  <2>3. i \in D
    <3>1. i <= Cardinality(D) /\ Cardinality(D) \in Nat
      BY <1>2, <2>1, PartOfFinite
    <3> QED BY <1>2, <2>2, <3>1
  <2> HIDE DEF v, i
  <2>4. Nth(i, s) = v
    <3> DEFINE w == Nth(i, s)
    <3>1. /\ w \in Int /\ Cardinality(Below(w, s)) < i /\ i <= Cardinality(UpTo(w, s))
          /\ Cardinality(Below(w, s)) \in Nat /\ Cardinality(UpTo(w, s)) \in Nat
      BY <1>2, <2>3, NthProperties, Counted
    <3> HIDE DEF w
    <3>2. ~(v < w)
      <4>1. v < w => i <= Cardinality(Below(w, s))
        BY <1>2, <2>1, <3>1, Counted DEF i
      <4> QED BY <2>2, <3>1, <4>1
    <3>3. ~(w < v)
      <4>1. w < v => Cardinality(UpTo(w, s)) <= Cardinality(Below(v, s))
        BY <1>2, <2>1, <3>1, Counted
      <4> QED BY <2>2, <3>1, <4>1
    <3> QED BY <2>1, <3>1, <3>2, <3>3 DEF w
  <2>5. ASSUME NEW k \in D, k > i PROVE Nth(k, s) > v
    <3>1. Nth(k, s) \in Int /\ k <= Cardinality(UpTo(Nth(k, s), s)) /\ k \in Nat
      BY <1>2, <1>3, NthProperties
    <3>2. Nth(i, s) <= Nth(k, s)
      <4>1. i <= k
        BY <2>2, <2>5, <3>1
      <4> QED BY <1>2, <2>3, <4>1, NthMonotonic
    <3>3. Nth(k, s) # v
      <4>1. Nth(k, s) = v => k <= i
        BY <3>1 DEF i
      <4> QED BY <2>2, <2>5, <3>1, <4>1
    <3> QED BY <2>1, <2>4, <3>1, <3>2, <3>3
  <2> QED BY <2>3, <2>4, <2>5 DEF v
<1> QED BY <1>2, <1>4, <1>5 DEF D

Dates(s) == {s[i] : i \in DOMAIN s}
Starts(s) == {i \in 1..(Len(s) - 1) : Nth(i, s) < Nth(i + 1, s)}
Pair(s) == [i \in Starts(s) |-> <<Nth(i, s), Nth(i + 1, s)>>]

LEMMA StartsArePlaces ==
  ASSUME NEW s \in Seq(Int), NEW i \in Starts(s)
  PROVE  /\ i \in 1..Len(s) /\ i + 1 \in 1..Len(s) /\ i \in Nat
         /\ Nth(i, s) \in Int /\ Nth(i + 1, s) \in Int /\ Nth(i, s) < Nth(i + 1, s)
         /\ Nth(i, s) \in Dates(s) /\ Nth(i + 1, s) \in Dates(s)
<1>1. /\ i \in 1..Len(s) /\ i + 1 \in 1..Len(s) /\ i \in Nat /\ Nth(i, s) < Nth(i + 1, s)
  BY LenProperties DEF Starts
<1> QED BY <1>1, DatesInOrder, PlaceOf DEF Dates

(* Where one date comes after another, a gap starts at the earlier. *)
LEMMA GapAfter ==
  ASSUME NEW s \in Seq(Int), NEW a \in Dates(s), NEW b \in Dates(s), a < b
  PROVE  \E i \in Starts(s) : Nth(i, s) = a /\ Nth(i + 1, s) <= b
<1>1. PICK i \in 1..Len(s) : Nth(i, s) = a /\ \A k \in 1..Len(s) : k > i => Nth(k, s) > a
  BY PlaceOf DEF Dates
<1>2. PICK k \in 1..Len(s) : Nth(k, s) = b
  BY PlaceOf DEF Dates
<1>3. a \in Int /\ b \in Int /\ Len(s) \in Nat
  BY <1>1, <1>2, DatesInOrder, LenProperties
<1>4. ~(k <= i)
  <2>1. k <= i => b <= a
    BY <1>1, <1>2, DatesInOrder
  <2> QED BY <1>3, <2>1
<1>5. i + 1 \in 1..Len(s) /\ i \in 1..(Len(s) - 1) /\ i + 1 > i /\ i + 1 <= k
  BY <1>3, <1>4
<1>6. Nth(i + 1, s) > a /\ Nth(i + 1, s) <= b /\ Nth(i + 1, s) \in Int
  BY <1>1, <1>2, <1>5, DatesInOrder
<1>7. Nth(i, s) < Nth(i + 1, s)
  BY <1>1, <1>3, <1>6
<1> QED BY <1>1, <1>5, <1>6, <1>7 DEF Starts

LEMMA PairsAreNeighbours ==
  ASSUME NEW s \in Seq(Int)
  PROVE  /\ \A g : g \in Neighbours(Dates(s)) <=> \E i \in Starts(s) : g = Pair(s)[i]
         /\ \A i, j \in Starts(s) : Pair(s)[i] = Pair(s)[j] => i = j
<1>1. \A i \in Starts(s) : Pair(s)[i] = <<Nth(i, s), Nth(i + 1, s)>>
  BY DEF Pair
<1>2. ASSUME NEW i \in Starts(s)
      PROVE  <<Nth(i, s), Nth(i + 1, s)>> \in Neighbours(Dates(s))
  <2>1. /\ i \in 1..Len(s) /\ i + 1 \in 1..Len(s) /\ i \in Nat
        /\ Nth(i, s) \in Int /\ Nth(i + 1, s) \in Int /\ Nth(i, s) < Nth(i + 1, s)
        /\ Nth(i, s) \in Dates(s) /\ Nth(i + 1, s) \in Dates(s)
    BY StartsArePlaces
  <2>2. ASSUME NEW d \in Dates(s), Nth(i, s) < d, d < Nth(i + 1, s) PROVE FALSE
    <3>1. PICK k \in 1..Len(s) : Nth(k, s) = d
      BY PlaceOf DEF Dates
    <3>2. k \in Nat /\ d \in Int /\ (k <= i \/ i + 1 <= k)
      BY <2>1, <3>1, DatesInOrder
    <3>3. k <= i => d <= Nth(i, s)
      BY <2>1, <3>1, DatesInOrder
    <3>4. i + 1 <= k => Nth(i + 1, s) <= d
      BY <2>1, <3>1, DatesInOrder
    <3> QED BY <2>1, <2>2, <3>2, <3>3, <3>4
  <2> QED BY <2>1, <2>2 DEF Neighbours
<1>3. ASSUME NEW g \in Neighbours(Dates(s))
      PROVE  \E i \in Starts(s) : g = <<Nth(i, s), Nth(i + 1, s)>>
  <2>1. /\ g = <<g[1], g[2]>> /\ g[1] \in Dates(s) /\ g[2] \in Dates(s) /\ g[1] < g[2]
        /\ ~\E d \in Dates(s) : g[1] < d /\ d < g[2]
    BY DEF Neighbours
  <2>2. PICK i \in Starts(s) : Nth(i, s) = g[1] /\ Nth(i + 1, s) <= g[2]
    BY <2>1, GapAfter
  <2>3. Nth(i + 1, s) \in Dates(s) /\ Nth(i, s) < Nth(i + 1, s) /\ Nth(i + 1, s) \in Int
    BY StartsArePlaces
  <2>4. g[2] \in Int
    BY <2>1, ElementOfSeq, LenProperties DEF Dates
  <2>5. ~(Nth(i + 1, s) < g[2])
    BY <2>1, <2>2, <2>3
  <2>6. Nth(i + 1, s) = g[2]
    BY <2>2, <2>3, <2>4, <2>5
  <2> QED BY <2>1, <2>2, <2>6
<1>4. ASSUME NEW i \in Starts(s), NEW j \in Starts(s), Nth(i, s) = Nth(j, s)
      PROVE  i = j
  <2>1. ASSUME NEW m \in Starts(s), NEW n \in Starts(s), m < n
        PROVE  Nth(m, s) < Nth(n, s)
    <3>1. /\ m \in Nat /\ n \in Nat /\ m + 1 \in 1..Len(s) /\ n \in 1..Len(s)
          /\ Nth(m, s) \in Int /\ Nth(m + 1, s) \in Int /\ Nth(n, s) \in Int
          /\ Nth(m, s) < Nth(m + 1, s)
      BY StartsArePlaces
    <3>2. Nth(m + 1, s) <= Nth(n, s)
      <4>1. m + 1 <= n
        BY <2>1, <3>1
      <4> QED BY <3>1, <4>1, DatesInOrder
    <3> QED BY <3>1, <3>2
  <2>2. i \in Nat /\ j \in Nat /\ Nth(i, s) \in Int /\ Nth(j, s) \in Int
    BY StartsArePlaces
  <2>3. ~(i < j)
    BY <1>4, <2>1, <2>2
  <2>4. ~(j < i)
    BY <1>4, <2>1, <2>2
  <2> QED BY <2>2, <2>3, <2>4
<1>5. ASSUME NEW i \in Starts(s), NEW j \in Starts(s), Pair(s)[i] = Pair(s)[j]
      PROVE  i = j
  <2>1. Nth(i, s) = Nth(j, s)
    BY <1>1, <1>5
  <2> QED BY <1>4, <2>1
<1>6. ASSUME NEW i \in Starts(s) PROVE Pair(s)[i] \in Neighbours(Dates(s))
  BY <1>1, <1>2
<1>7. ASSUME NEW g \in Neighbours(Dates(s)) PROVE \E i \in Starts(s) : g = Pair(s)[i]
  BY <1>1, <1>3
<1> QED BY <1>5, <1>6, <1>7

(* How many gaps there are, and how many below and above an amount. *)
Shorter(s, m) == {g \in Neighbours(Dates(s)) : g[2] - g[1] < m}
LongerThan(s, m) == {g \in Neighbours(Dates(s)) : g[2] - g[1] > m}

LEMMA NeighboursCounted ==
  ASSUME NEW s \in Seq(Int), NEW m \in Int
  PROVE  /\ IsFiniteSet(Neighbours(Dates(s)))
         /\ Cardinality(Neighbours(Dates(s))) = Cardinality(Starts(s))
         /\ Cardinality(Shorter(s, m)) = Cardinality(Below(m, Gaps(s)))
         /\ Cardinality(LongerThan(s, m))
              = Cardinality(Starts(s)) - Cardinality(UpTo(m, Gaps(s)))
<1> DEFINE gaps == Neighbours(Dates(s))
           pair == Pair(s)
           lower == Below(m, Gaps(s))
           upper == Starts(s) \ UpTo(m, Gaps(s))
<1>1. /\ IsFiniteSet(Starts(s)) /\ Gaps(s) \in [Starts(s) -> Int]
      /\ \A i \in Starts(s) : Gaps(s)[i] = Nth(i + 1, s) - Nth(i, s)
  BY GapsBetween DEF Starts
<1>2. /\ \A g : g \in gaps <=> \E i \in Starts(s) : g = pair[i]
      /\ \A i, j \in Starts(s) : pair[i] = pair[j] => i = j
  BY PairsAreNeighbours
<1>3. \A i \in Starts(s) : pair[i][2] - pair[i][1] = Gaps(s)[i]
  BY <1>1 DEF Pair
<1>4. /\ \A i \in Starts(s) : i \in lower <=> Gaps(s)[i] < m
      /\ \A i \in Starts(s) : i \in upper <=> Gaps(s)[i] > m
      /\ lower \subseteq Starts(s) /\ upper \subseteq Starts(s)
      /\ UpTo(m, Gaps(s)) \subseteq Starts(s)
  BY <1>1 DEF Below, UpTo
<1>5. IsFiniteSet(lower) /\ IsFiniteSet(upper) /\ IsFiniteSet(UpTo(m, Gaps(s)))
  <2> HIDE DEF lower, upper
  <2> QED BY <1>1, <1>4, PartOfFinite
<1> HIDE DEF gaps, pair, lower, upper
<1>6. IsFiniteSet(gaps) /\ Cardinality(gaps) = Cardinality(Starts(s))
  BY <1>1, <1>2, SameCount
<1>7. Cardinality(Shorter(s, m)) = Cardinality(lower)
  <2>1. \A g : g \in Shorter(s, m) <=> \E i \in lower : g = pair[i]
    BY <1>2, <1>3, <1>4 DEF Shorter, gaps
  <2>2. \A i, j \in lower : pair[i] = pair[j] => i = j
    BY <1>2, <1>4
  <2> QED BY <1>5, <2>1, <2>2, SameCount
<1>8. Cardinality(LongerThan(s, m)) = Cardinality(upper)
  <2>1. \A g : g \in LongerThan(s, m) <=> \E i \in upper : g = pair[i]
    BY <1>2, <1>3, <1>4 DEF LongerThan, gaps
  <2>2. \A i, j \in upper : pair[i] = pair[j] => i = j
    BY <1>2, <1>4
  <2> QED BY <1>5, <2>1, <2>2, SameCount
<1>9. Cardinality(upper) = Cardinality(Starts(s)) - Cardinality(UpTo(m, Gaps(s)))
  <2>1. Starts(s) \cap UpTo(m, Gaps(s)) = UpTo(m, Gaps(s))
    BY <1>4
  <2>2. Cardinality(upper) = Cardinality(Starts(s))
                               - Cardinality(Starts(s) \cap UpTo(m, Gaps(s)))
    BY <1>1, FS_Difference DEF upper
  <2> QED BY <2>1, <2>2
<1> QED BY <1>6, <1>7, <1>8, <1>9 DEF gaps, lower

(* What the median of the gaps says, for any dates at all. *)
LEMMA CadenceOf ==
  ASSUME NEW s \in Seq(Int)
  PROVE  LET m == MedianGap(s)
             count == Cardinality(Neighbours(Dates(s)))
         IN  /\ m \in Nat
             /\ (m > 0) <=> (Starts(s) # {})
             /\ IsFiniteSet(Neighbours(Dates(s)))
             /\ 2 * Cardinality(Shorter(s, m)) <= count
             /\ 2 * Cardinality(LongerThan(s, m)) <= count
<1> DEFINE m == MedianGap(s)
           count == Cardinality(Neighbours(Dates(s)))
<1>1. /\ IsFiniteSet(Starts(s)) /\ Gaps(s) \in [Starts(s) -> Int]
      /\ \A i \in Starts(s) : Gaps(s)[i] > 0
      /\ Gaps(s) = <<>> <=> Starts(s) = {}
  BY GapsBetween DEF Starts
<1>2. m \in Nat
  BY MedianGapType
<1>3. m = IF Len(s) < 2 \/ Gaps(s) = <<>> THEN 0 ELSE Median(Gaps(s))
  BY DEF MedianGap
<1>4. Starts(s) # {} => ~(Len(s) < 2)
  BY LenProperties DEF Starts
<1> HIDE DEF m
<1>5. /\ IsFiniteSet(Neighbours(Dates(s))) /\ count = Cardinality(Starts(s))
      /\ Cardinality(Shorter(s, m)) = Cardinality(Below(m, Gaps(s)))
      /\ Cardinality(LongerThan(s, m))
           = Cardinality(Starts(s)) - Cardinality(UpTo(m, Gaps(s)))
  <2>1. m \in Int
    BY <1>2
  <2> QED BY <2>1, NeighboursCounted
<1> HIDE DEF count
<1>6. CASE Starts(s) = {}
  <2>1. m = 0
    BY <1>1, <1>3, <1>6
  <2>2. Below(m, Gaps(s)) = {} /\ UpTo(m, Gaps(s)) = {}
    BY <1>1, <1>6 DEF Below, UpTo
  <2>3. Cardinality({}) = 0
    BY FS_EmptySet
  <2>4. /\ count = 0 /\ Cardinality(Shorter(s, m)) = 0 /\ Cardinality(LongerThan(s, m)) = 0
    BY <1>5, <1>6, <2>2, <2>3
  <2>5. 2 * Cardinality(Shorter(s, m)) <= count /\ 2 * Cardinality(LongerThan(s, m)) <= count
    BY <2>4
  <2>6. (m > 0) <=> (Starts(s) # {})
    BY <1>6, <2>1
  <2> QED BY <1>2, <1>5, <2>5, <2>6 DEF m, count
<1>7. CASE Starts(s) # {}
  <2>1. m = Median(Gaps(s))
    BY <1>1, <1>3, <1>4, <1>7
  <2>2. /\ 2 * Cardinality(Below(m, Gaps(s))) <= Cardinality(Starts(s))
        /\ 2 * (Cardinality(Starts(s)) - Cardinality(UpTo(m, Gaps(s)))) <= Cardinality(Starts(s))
        /\ m > 0
    BY <1>1, <1>7, <2>1, MedianSplits
  <2>3. 2 * Cardinality(Shorter(s, m)) <= count /\ 2 * Cardinality(LongerThan(s, m)) <= count
    BY <1>5, <2>2
  <2>4. (m > 0) <=> (Starts(s) # {})
    BY <1>7, <2>2
  <2> QED BY <1>2, <1>5, <2>3, <2>4 DEF m, count
<1> QED BY <1>6, <1>7

(* Two gaps start at different dates, so one at most starts at the first. *)
Recent(s) == {g \in Neighbours(Dates(s)) : \E d \in Dates(s) : d < g[1]}

LEMMA OneOldestGap ==
  ASSUME NEW s \in Seq(Int)
  PROVE  LET count == Cardinality(Neighbours(Dates(s)))
         IN  /\ IsFiniteSet(Recent(s)) /\ Cardinality(Recent(s)) \in Nat
             /\ count \in Nat /\ count <= Cardinality(Recent(s)) + 1
<1> DEFINE gaps == Neighbours(Dates(s))
           recent == Recent(s)
           oldest == gaps \ recent
<1>1. IsFiniteSet(gaps)
  BY CadenceOf
<1>2. \A d \in Dates(s) : d \in Int
  BY ElementOfSeq, LenProperties DEF Dates
<1>3. ASSUME NEW g \in oldest, NEW h \in oldest PROVE g = h
  <2>1. /\ g = <<g[1], g[2]>> /\ g[1] \in Dates(s) /\ g[2] \in Dates(s) /\ g[1] < g[2]
        /\ ~\E d \in Dates(s) : g[1] < d /\ d < g[2]
        /\ ~\E d \in Dates(s) : d < g[1]
    BY DEF Neighbours, Recent
  <2>2. /\ h = <<h[1], h[2]>> /\ h[1] \in Dates(s) /\ h[2] \in Dates(s) /\ h[1] < h[2]
        /\ ~\E d \in Dates(s) : h[1] < d /\ d < h[2]
        /\ ~\E d \in Dates(s) : d < h[1]
    BY DEF Neighbours, Recent
  <2>3. g[1] = h[1]
    BY <1>2, <2>1, <2>2
  <2>4. g[2] = h[2]
    BY <1>2, <2>1, <2>2, <2>3
  <2> QED BY <2>1, <2>2, <2>3, <2>4
<1>4. recent \subseteq gaps /\ oldest \subseteq gaps /\ gaps = recent \cup oldest
  BY DEF Recent
<1> HIDE DEF gaps, recent, oldest
<1>5. IsFiniteSet(recent) /\ Cardinality(recent) \in Nat /\ Cardinality(gaps) \in Nat
  BY <1>1, <1>4, PartOfFinite
<1>6. CASE oldest = {}
  <2>1. gaps = recent
    BY <1>4, <1>6
  <2> QED BY <1>5, <2>1 DEF gaps, recent
<1>7. CASE oldest # {}
  <2>1. PICK g \in oldest : oldest = {g}
    BY <1>3, <1>7
  <2>2. gaps = recent \cup {g}
    BY <1>4, <2>1
  <2>3. Cardinality(gaps) = IF g \in recent THEN Cardinality(recent) ELSE Cardinality(recent) + 1
    BY <1>5, <2>2, FS_AddElement
  <2> QED BY <1>5, <2>3 DEF gaps, recent
<1> QED BY <1>6, <1>7

LEMMA TwoDates ==
  ASSUME NEW s \in Seq(Int)
  PROVE  Starts(s) # {} <=> Cardinality(Dates(s)) > 1
<1>1. IsFiniteSet(Dates(s)) /\ Cardinality(Dates(s)) \in Nat
  <2>1. IsFiniteSet(DOMAIN s)
    BY DatesInOrder, LenProperties
  <2> DEFINE f == [i \in DOMAIN s |-> s[i]]
  <2>2. f \in Surjection(DOMAIN s, Dates(s))
    BY DEF Surjection, Dates
  <2> HIDE DEF f
  <2>3. IsFiniteSet(Dates(s))
    BY <2>1, <2>2, FS_Surjection
  <2> QED BY <2>3, FS_CardinalityType
<1>2. ASSUME NEW i \in Starts(s) PROVE Cardinality(Dates(s)) > 1
  <2>1. /\ Nth(i, s) \in Dates(s) /\ Nth(i + 1, s) \in Dates(s)
        /\ Nth(i, s) # Nth(i + 1, s)
    BY StartsArePlaces
  <2>2. Cardinality(Dates(s)) # 0
    BY <1>1, <2>1, FS_EmptySet
  <2>3. Cardinality(Dates(s)) # 1
    <3>1. Cardinality(Dates(s)) = 1 => \E d : Dates(s) = {d}
      BY <1>1, FS_Singleton
    <3> QED BY <2>1, <3>1
  <2> QED BY <1>1, <2>2, <2>3
<1>3. ASSUME Cardinality(Dates(s)) > 1 PROVE Starts(s) # {}
  <2>1. Dates(s) # {}
    BY <1>1, <1>3, FS_EmptySet
  <2>2. PICK a \in Dates(s) : TRUE
    BY <2>1
  <2>3. Dates(s) # {a}
    <3>1. Cardinality({a}) = 1
      BY FS_Singleton
    <3>2. ~(1 > 1)
      OBVIOUS
    <3> QED BY <1>3, <3>1, <3>2, Zenon
  <2>4. PICK b \in Dates(s) : b # a
    BY <2>2, <2>3
  <2>5. a \in Int /\ b \in Int
    BY ElementOfSeq, LenProperties DEF Dates
  <2>6. a < b \/ b < a
    BY <2>4, <2>5
  <2> QED BY <2>6, GapAfter
<1> QED BY <1>2, <1>3

(* The cadence is a median whatever dates the documents and the store      *)
(* give, in any order, repeated or missing, and one old item moves it no   *)
(* further than the gaps of the others (medianGap, recentDates).           *)
THEOREM CadenceMeasured == Spec => []CadenceIsMedian
<1>1. ASSUME PacedInv, last.kind = "changed" PROVE CadenceIsMedian
  <2> DEFINE s == last.dates
             m == MedianGap(s)
             count == Cardinality(Neighbours(Dates(s)))
  <2>1. s \in Seq(Int)
    BY <1>1 DEF PacedInv, LastInv
  <2> HIDE DEF s
  <2>2. /\ m \in Nat
        /\ (m > 0) <=> (Starts(s) # {})
    BY <2>1, CadenceOf
  <2>3. /\ 2 * Cardinality(Shorter(s, m)) <= count
        /\ 2 * Cardinality(LongerThan(s, m)) <= count
    BY <2>1, CadenceOf
  <2>4. \A d \in Dates(s) : d \in Int
    BY <2>1, ElementOfSeq, LenProperties DEF Dates
  <2>5. (m > 0) <=> (Cardinality(Dates(s)) > 1)
    BY <2>1, <2>2, TwoDates
  <2> HIDE DEF m
  <2>6. ASSUME Cardinality(Recent(s)) >= 2 PROVE \E g \in Recent(s) : m <= g[2] - g[1]
    <3>1. /\ IsFiniteSet(Recent(s)) /\ Cardinality(Recent(s)) \in Nat
          /\ count \in Nat /\ count <= Cardinality(Recent(s)) + 1
      BY <2>1, OneOldestGap
    <3>2. ~(Recent(s) \subseteq Shorter(s, m))
      <4>1. IsFiniteSet(Shorter(s, m)) /\ Cardinality(Shorter(s, m)) \in Nat
        <5>1. IsFiniteSet(Neighbours(Dates(s)))
          BY <2>1, CadenceOf
        <5>2. Shorter(s, m) \subseteq Neighbours(Dates(s))
          BY DEF Shorter
        <5> QED BY <5>1, <5>2, PartOfFinite
      <4>2. Recent(s) \subseteq Shorter(s, m)
              => Cardinality(Recent(s)) <= Cardinality(Shorter(s, m))
        BY <4>1, PartOfFinite
      <4> HIDE DEF count
      <4> QED BY <2>3, <2>6, <3>1, <4>1, <4>2
    <3>3. PICK g \in Recent(s) : g \notin Shorter(s, m)
      BY <3>2
    <3>4. g[1] \in Int /\ g[2] \in Int /\ ~(g[2] - g[1] < m)
      BY <2>4, <3>3 DEF Neighbours, Shorter, Recent
    <3>5. m \in Int
      BY <2>2
    <3>6. m <= g[2] - g[1]
      BY <3>4, <3>5
    <3> QED BY <3>6
  <2>7. CadenceIsMedian <=>
          /\ (m > 0) <=> (Cardinality(Dates(s)) > 1)
          /\ 2 * Cardinality(Shorter(s, m)) <= count
          /\ 2 * Cardinality(LongerThan(s, m)) <= count
          /\ (Cardinality(Recent(s)) >= 2) => \E g \in Recent(s) : m <= g[2] - g[1]
    BY <1>1, Zenon DEF CadenceIsMedian, Dates, Shorter, LongerThan, Recent, m, s
  <2> HIDE DEF count
  <2> QED BY <2>3, <2>5, <2>6, <2>7
<1>2. PacedInv => CadenceIsMedian
  BY <1>1 DEF CadenceIsMedian
<1> QED BY <1>2, PacedInvariant, PTL
=============================================================================
