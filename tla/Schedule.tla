------------------------------- MODULE Schedule -------------------------------
(***************************************************************************)
(* When a feed is worth looking at again (crawl/schedule.go; recentDates   *)
(* in crawl/crawler.go; parseRetryAfter in crawl/fetch.go).  All of it is  *)
(* computed; Pacing says when.  Durations and dates are whole units of     *)
(* time, and a quotient is rounded down.                                   *)
(***************************************************************************)
EXTENDS Sequences, Ordering

CONSTANTS
  DefaultCadence,    \* the interval of a feed with too few dates
  CadenceSample,     \* how many dates inform the cadence
  Second,            \* a second, in units of time
  Int64,             \* the values of an int and of a Duration: -Int64 .. Int64 - 1
  NoDate             \* an episode without a date that parses

ASSUME ScheduleAssumption ==
  /\ DefaultCadence \in Nat \ {0} /\ CadenceSample \in Nat \ {0, 1}
  /\ Second \in Nat \ {0} /\ Int64 \in Nat \ {0} /\ NoDate \notin Int

(* The positive gaps between consecutive dates, by the date they start at. *)
Gaps(dates) ==
  LET sorted == [i \in DOMAIN dates |-> Nth(i, dates)]
      starts == {i \in 1..(Len(dates) - 1) : sorted[i] < sorted[i + 1]}
  IN  [i \in starts |-> sorted[i + 1] - sorted[i]]

(* Mistake: one gap too far up. *)
MedianAbove(f) ==
  LET count == Cardinality(DOMAIN f)
      middle == count \div 2
  IN  Nth(IF middle + 2 <= count THEN middle + 2 ELSE count, f)

Median(f) ==
  LET count == Cardinality(DOMAIN f)
      middle == count \div 2
  IN  IF count % 2 = 1 THEN Nth(middle + 1, f)
      ELSE (Nth(middle, f) + Nth(middle + 1, f)) \div 2

(* The median gap, 0 when there is none. *)
MedianGap(dates) ==
  IF Len(dates) < 2 \/ Gaps(dates) = <<>> THEN 0 ELSE Median(Gaps(dates))

Clamp(c, d) ==
  IF c.CRAWLER_MIN_INTERVAL > 0 /\ d < c.CRAWLER_MIN_INTERVAL
    THEN c.CRAWLER_MIN_INTERVAL
  ELSE IF c.CRAWLER_MAX_INTERVAL > 0 /\ d > c.CRAWLER_MAX_INTERVAL
    THEN c.CRAWLER_MAX_INTERVAL
  ELSE d

Known(d) == IF d <= 0 THEN DefaultCadence ELSE d

IntervalAfterChange(c, dates) == Clamp(c, Known(MedianGap(dates)))

IntervalAfterNoChange(c, current) == Clamp(c, (Known(current) * 3) \div 2)

IntervalAfterError(c, current) == Clamp(c, Known(current) * 2)

IsDead(c, failures) ==
  c.CRAWLER_MAX_FAILURES > 0 /\ failures >= c.CRAWLER_MAX_FAILURES

(* The delays jitter makes of one: the least, the same and the most. *)
Jitter(d) == IF d <= 0 THEN {d} ELSE {(d * 9) \div 10, d, (d * 11) \div 10}

(* recentDates: what the document says, or, when that is too little, with  *)
(* what is stored, which is asked for latest first.                        *)
RecentDates(published, stored) ==
  LET dated == {i \in DOMAIN published : published[i] # NoDate}
      count == Cardinality(dated)
      place == [i \in dated |-> i]
      sample == [n \in 1..(IF count < CadenceSample THEN count ELSE CadenceSample) |->
                   published[Nth(n, place)]]
  IN  IF Len(sample) >= 2 THEN sample ELSE sample \o stored

Wrap(n) == ((n + Int64) % (2 * Int64)) - Int64

(* Mistake: the number is taken for a duration. *)
ParseRetryAfterRaw(header) == header.n

(* A Retry-After header: nothing usable, seconds that are an int, or a     *)
(* date from now.                                                          *)
ParseRetryAfter(header) ==
  CASE header.says = "seconds" /\ header.n \in 0..(Int64 - 1) -> Wrap(header.n * Second)
    [] header.says = "date" /\ header.n > 0                  -> header.n
    [] OTHER                                                 -> 0
=============================================================================
