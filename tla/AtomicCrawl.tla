----------------------------- MODULE AtomicCrawl -----------------------------
(***************************************************************************)
(* What crawling promises: every crawl is one indivisible step.  It reads  *)
(* the row, hears the publisher, and writes its verdict on that very row,  *)
(* so nothing another crawl recorded is ever undone by it.  No queue, no   *)
(* clock, no processes: only the rows and the documents shown.             *)
(***************************************************************************)
EXTENDS CrawlOutcome

VARIABLES feeds, shown

vars == <<feeds, shown>>

Init == /\ feeds = [f \in Feeds |-> NoRow]
        /\ shown = [f \in Feeds |-> None]

Seed(f, u) ==
  /\ feeds[f].status = "absent"
  /\ feeds' = [feeds EXCEPT ![f] = NewRow(u)]
  /\ UNCHANGED shown

Wake(f) ==
  /\ feeds[f].status = "dormant"
  /\ feeds' = [feeds EXCEPT ![f].status = "active"]
  /\ UNCHANGED shown

(* The verdicts on row that end a crawl of f. *)
Verdicts(f, row) ==
  LET answers == Fetched(row, 0)
      moves   == {t \in answers : t.phase = "check"} IN
    {t \in answers : t.phase = "record"}
      \cup (UNION {MoveNotMade(t) : t \in moves})
      \cup {MoveMade(f, t, g) : t \in moves, g \in Feeds \cup {None}}

Crawl(f) ==
  /\ feeds[f].status \in {"active", "dead"}
  /\ \E t \in Verdicts(f, feeds[f]) :
       /\ feeds' = [feeds EXCEPT ![f] = t.row]
       /\ shown' = [shown EXCEPT ![f] = IF t.doc = None THEN @ ELSE t.doc]

Next == \/ \E f \in Feeds, u \in Urls : Seed(f, u)
        \/ \E f \in Feeds : Wake(f) \/ Crawl(f)

Spec == Init /\ [][Next]_vars
=============================================================================
