------------------------------ MODULE WorkerLoop ------------------------------
(***************************************************************************)
(* The life of a crawler process (crawl/worker.go, cmd/crawler/main.go):   *)
(* it claims a batch, crawls it with a bounded number of goroutines,       *)
(* claims again as long as there was something to crawl and otherwise      *)
(* waits for its ticker.  A signal ends the context of everything it does: *)
(* a call that is on its way (a request, a query, a commit) may still      *)
(* succeed, every later one fails.  The process then has a grace period to *)
(* come to rest before main returns.                                       *)
(*                                                                         *)
(* Every step is a step of FeedQueue or leaves its variables alone.        *)
(* FeedQueue leaves open which due feeds a claim takes; here they stand in *)
(* line, ORDER BY next_check_at.  The unit of time is the poll interval.   *)
(***************************************************************************)
EXTENDS FeedQueue, SequencesExt, Ordering

CONSTANTS
  Slots,       \* CRAWLER_WORKERS: crawls a process runs at a time
  Grace,       \* shutdownGrace
  MaxStops     \* bound: how often processes are signalled or killed

ASSUME LoopAssumption == Slots \in Nat \ {0} /\ Grace \in Nat /\ MaxStops \in Nat
ASSUME TableAssumption == IsFiniteSet(Feeds)

VARIABLES
  line,        \* the feeds that are due, by next_check_at
  loop,        \* loop[w]: where process w is
  running,     \* running[w]: the feeds of its batch that have a goroutine
  stops        \* signals and kills so far

loopVars == <<feeds, dueIn, shown, task, left, line, loop, running, stops>>

(* ticked: a tick is waiting in the ticker's channel.  calls: the feeds    *)
(* whose crawls had a call on its way when the signal came.                *)
Process == [pc       : {"down", "claim", "batch", "wait"},
            stopping : BOOLEAN,
            ticked   : BOOLEAN,
            grace    : Nat,
            calls    : SUBSET Feeds]

Down == [pc |-> "down", stopping |-> FALSE, ticked |-> FALSE, grace |-> 0,
         calls |-> {}]

LoopTypeOK ==
  /\ TypeOK
  /\ ToSet(line) = Due /\ IsInjective(line)
  /\ loop \in [Workers -> Process]
  /\ \A w \in Workers :
       running[w] \subseteq {f \in Feeds : Crawling(w, f)} /\ Cardinality(running[w]) <= Slots
  /\ stops \in 0..MaxStops

LoopInit ==
  /\ Init
  /\ line = <<>>
  /\ loop = [w \in Workers |-> Down]
  /\ running = [w \in Workers |-> {}]
  /\ stops = 0

-----------------------------------------------------------------------------
(* The feeds of the line that are in S, in turn. *)
InLine(S) == Picked(line, {i \in DOMAIN line : line[i] \in S})

(* Mistake: who comes due last is claimed first. *)
LineUpInFront(rewritten) ==
  LET stay == InLine(Due' \ rewritten)
  IN  \E new \in SetToSeqs(Due' \ ToSet(stay)) : line' = new \o stay

(* Whoever comes due goes to the end of the line, also a feed whose        *)
(* next_check_at is rewritten to a time that is already there.             *)
LineUp(rewritten) ==
  LET stay == InLine(Due' \ rewritten)
  IN  \E new \in SetToSeqs(Due' \ ToSet(stay)) : line' = stay \o new

(* The first BatchSize feeds of the line that are not skipped. *)
InTurn(skipped) ==
  LET free == InLine(Feeds \ skipped)
  IN  {free[i] : i \in {j \in DOMAIN free : j <= BatchSize}}

Up(w) == loop[w].pc # "down"

(* main: configuration and pool are there, Run is called. *)
Start(w) ==
  /\ ~Up(w)
  /\ loop' = [loop EXCEPT ![w].pc = "claim"]
  /\ UNCHANGED <<queueVars, line, running, stops>>

(* runBatch claims a batch, while others have the rows of skipped locked. *)
ClaimSkipping(w, skipped) ==
  /\ loop[w].pc = "claim" /\ ~loop[w].stopping
  /\ ClaimDueFeeds(w)
  /\ {f \in Feeds : task'[w][f] # task[w][f]} = InTurn(skipped)
  /\ LineUp({})
  /\ loop' = [loop EXCEPT ![w].pc = "batch"]
  /\ UNCHANGED <<running, stops>>

Claim(w) == \E skipped \in SUBSET Due : ClaimSkipping(w, skipped)

(* There is nothing to claim, or the query fails. *)
ClaimNothing(w) ==
  /\ loop[w].pc = "claim" /\ ~loop[w].stopping
  /\ loop' = [loop EXCEPT ![w].pc = "wait"]
  /\ UNCHANGED <<queueVars, line, running, stops>>

(* group.Go hands a claimed feed to a goroutine when one is free. *)
Go(w, f) ==
  /\ Crawling(w, f) /\ f \notin running[w]
  /\ Cardinality(running[w]) < Slots
  /\ running' = [running EXCEPT ![w] = @ \cup {f}]
  /\ UNCHANGED <<queueVars, line, loop, stops>>

(* The next call of f's crawl begins when the context is already over. *)
Interrupted(w, f) == loop[w].stopping /\ f \notin loop[w].calls

(* Such a call fails: the request, the ownership check or the transaction. *)
CutShort(w, f) ==
  \/ Fetch(w, f) /\ task'[w][f] \in AnswerFailed(Awake(task[w][f].row))
  \/ CheckTarget(w, f) /\ task'[w][f] \in MoveNotMade(task[w][f])
  \/ Abandon(w, f)

(* Mistake: the goroutine's slot is not given back. *)
CrawlKeepingSlot(w, f) ==
  /\ f \in running[w]
  /\ IF Interrupted(w, f) THEN CutShort(w, f) ELSE CrawlStep(w, f)
  /\ loop' = [loop EXCEPT ![w].calls = @ \ {f}]
  /\ LineUp(IF feeds' = feeds /\ dueIn' = dueIn THEN {} ELSE {f})
  /\ UNCHANGED <<running, stops>>

Crawl(w, f) ==
  /\ f \in running[w]
  /\ IF Interrupted(w, f) THEN CutShort(w, f) ELSE CrawlStep(w, f)
  /\ running' = [running EXCEPT ![w] = {g \in @ : task'[w][g].phase # "idle"}]
  /\ loop' = [loop EXCEPT ![w].calls = @ \ {f}]
  /\ LineUp(IF feeds' = feeds /\ dueIn' = dueIn THEN {} ELSE {f})
  /\ UNCHANGED stops

(* group.Wait returns; a batch was crawled, so there may be more. *)
Drain(w) ==
  /\ loop[w].pc = "batch" /\ ~Busy(w)
  /\ loop' = [loop EXCEPT ![w].pc = "claim"]
  /\ UNCHANGED <<queueVars, line, running, stops>>

Wake(w) ==
  /\ loop[w].pc = "wait" /\ loop[w].ticked
  /\ loop' = [loop EXCEPT ![w].pc = "claim", ![w].ticked = FALSE]
  /\ UNCHANGED <<queueVars, line, running, stops>>

-----------------------------------------------------------------------------
Signal(w) ==
  /\ Up(w) /\ ~loop[w].stopping
  /\ stops < MaxStops
  /\ loop' = [loop EXCEPT ![w].stopping = TRUE, ![w].grace = Grace,
                          ![w].calls = running[w]]
  /\ stops' = stops + 1
  /\ UNCHANGED <<queueVars, line, running>>

(* Run sees that its context is over: between batches, in the wait for the *)
(* ticker, or because the claim fails.                                     *)
Leave(w) ==
  /\ loop[w].stopping /\ loop[w].pc \in {"claim", "wait"}
  /\ loop' = [loop EXCEPT ![w] = Down]
  /\ UNCHANGED <<queueVars, line, running, stops>>

(* Mistake: whoever goes down gives its feeds back to the queue. *)
ExitReleasing(w) ==
  /\ task' = [task EXCEPT ![w] = [f \in Feeds |-> NoTask]]
  /\ left' = [left EXCEPT ![w] = 0]
  /\ dueIn' = [f \in Feeds |-> IF Crawling(w, f) THEN 0 ELSE dueIn[f]]
  /\ UNCHANGED <<feeds, shown>>
  /\ LineUp({})
  /\ loop' = [loop EXCEPT ![w] = Down]
  /\ running' = [running EXCEPT ![w] = {}]

(* The process goes, with whatever it was doing. *)
Exit(w) ==
  /\ IF Busy(w) THEN Crash(w) ELSE UNCHANGED queueVars
  /\ loop' = [loop EXCEPT ![w] = Down]
  /\ running' = [running EXCEPT ![w] = {}]
  /\ UNCHANGED line

(* main has waited for Run long enough. *)
GraceOver(w) ==
  /\ loop[w].stopping /\ loop[w].grace = 0
  /\ Exit(w)
  /\ UNCHANGED stops

Kill(w) ==
  /\ Up(w)
  /\ stops < MaxStops
  /\ Exit(w)
  /\ stops' = stops + 1

LoopTick ==
  /\ Tick
  /\ LineUp({})
  /\ loop' = [w \in Workers |->
                IF Up(w) THEN [loop[w] EXCEPT !.ticked = TRUE, !.grace = Less(@)]
                         ELSE Down]
  /\ UNCHANGED <<running, stops>>

Demand ==
  /\ Catalogue
  /\ LineUp({})
  /\ UNCHANGED <<loop, running, stops>>

-----------------------------------------------------------------------------
LoopStep(w) ==
  \/ Start(w) \/ ClaimNothing(w) \/ Drain(w) \/ Wake(w) \/ Leave(w) \/ GraceOver(w)
  \/ \E f \in Feeds : Go(w, f) \/ Crawl(w, f)

LoopNext ==
  \/ Demand
  \/ \E w \in Workers : LoopStep(w) \/ Claim(w) \/ Signal(w) \/ Kill(w)
  \/ LoopTick

LoopSpec == LoopInit /\ [][LoopNext]_loopVars

(* A process runs, and is started again when it went down; crawls end; and *)
(* claims do not fail for ever, nor always find some row locked, as locks  *)
(* are held for a moment.                                                  *)
LoopFairSpec ==
  /\ LoopSpec
  /\ WF_loopVars(LoopTick)
  /\ \A w \in Workers :
       /\ SF_loopVars(ClaimSkipping(w, {}))
       /\ WF_loopVars(LoopStep(w))
       /\ \A f \in Feeds : WF_loopVars(Go(w, f)) /\ WF_loopVars(Crawl(w, f))

-----------------------------------------------------------------------------
(* The processes only ever do to the table what FeedQueue allows, so what  *)
(* is shown of FeedQueue holds of them (claims and crash recovery).        *)
QueueKept == Spec

(* A feed in the rotation is crawled again and again, whatever is stopped  *)
(* or killed: a claim is only a lease, a dead feed's recheck comes round   *)
(* like any other check, and no feed that is due at once over and over (a  *)
(* move that leads back) keeps the others from their turn.                 *)
NobodyStranded ==
  \A f \in Feeds :
    []<>(~InRotation(f) \/ \E w \in Workers : Crawling(w, f))
=============================================================================
