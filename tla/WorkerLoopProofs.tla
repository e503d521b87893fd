--------------------------- MODULE WorkerLoopProofs ---------------------------
(***************************************************************************)
(* Proofs about WorkerLoop: the life of the crawler processes is an        *)
(* implementation of FeedQueue, so everything proved of the queue holds of *)
(* processes that start, wait, stop and are killed; and the line of due    *)
(* feeds and the slots of the processes are kept as they should be.        *)
(***************************************************************************)
EXTENDS WorkerLoop, FeedQueueProofs, OrderingProofs

(* What a step of a process does to the queue, action by action: a claim,  *)
(* a crawl's step, a crash, or nothing.                                    *)
LEMMA CrawlIsCrawlStep ==
  ASSUME NEW w \in Workers, NEW f \in Feeds, Crawl(w, f)
  PROVE  CrawlStep(w, f)
<1>1. CASE Interrupted(w, f)
  <2>1. CutShort(w, f)
    BY <1>1 DEF Crawl
  <2> QED
    BY <2>1 DEF CutShort, CrawlStep
<1>2. CASE ~Interrupted(w, f)
  BY <1>2 DEF Crawl
<1> QED
  BY <1>1, <1>2

LEMMA ExitIsCrash ==
  ASSUME NEW w \in Workers, Exit(w)
  PROVE  Crash(w) \/ UNCHANGED queueVars
  BY DEF Exit

LEMMA StepIsQueueStep ==
  ASSUME NEW w \in Workers, LoopStep(w)
  PROVE  [Next]_queueVars
<1>1. CASE Start(w) \/ ClaimNothing(w) \/ Drain(w) \/ Wake(w) \/ Leave(w)
  <2>1. UNCHANGED queueVars
    BY <1>1 DEF Start, ClaimNothing, Drain, Wake, Leave
  <2> QED
    BY <2>1
<1>2. CASE GraceOver(w)
  BY <1>2, ExitIsCrash DEF GraceOver, Next
<1>3. ASSUME NEW f \in Feeds, Go(w, f)
      PROVE  UNCHANGED queueVars
  BY <1>3 DEF Go
<1>4. ASSUME NEW f \in Feeds, Crawl(w, f)
      PROVE  Next
  BY <1>4, CrawlIsCrawlStep DEF Next
<1> QED
  BY <1>1, <1>2, <1>3, <1>4 DEF LoopStep

LEMMA LoopIsQueueStep ==
  ASSUME [LoopNext]_loopVars
  PROVE  [Next]_queueVars
<1>1. CASE Demand
  BY <1>1 DEF Demand, Next
<1>2. ASSUME NEW w \in Workers, LoopStep(w)
      PROVE  [Next]_queueVars
  BY <1>2, StepIsQueueStep
<1>3. ASSUME NEW w \in Workers, Claim(w)
      PROVE  Next
  BY <1>3 DEF Claim, ClaimSkipping, Next
<1>4. ASSUME NEW w \in Workers, Signal(w)
      PROVE  UNCHANGED queueVars
  BY <1>4 DEF Signal
<1>5. ASSUME NEW w \in Workers, Kill(w)
      PROVE  [Next]_queueVars
  BY <1>5, ExitIsCrash DEF Kill, Next
<1>6. CASE LoopTick
  BY <1>6 DEF LoopTick, Next
<1>7. CASE UNCHANGED loopVars
  BY <1>7 DEF loopVars, queueVars
<1> QED
  BY <1>1, <1>2, <1>3, <1>4, <1>5, <1>6, <1>7 DEF LoopNext

(* The crawler processes, with their batches, pools of goroutines, ticks,  *)
(* signals and kills, do to the table only what FeedQueue allows           *)
(* (Worker.Run, runBatch, main).                                           *)
THEOREM LoopImplementsQueue == LoopSpec => QueueKept
<1>1. LoopInit => Init
  BY DEF LoopInit
<1>2. [LoopNext]_loopVars => [Next]_queueVars
  BY LoopIsQueueStep
<1> QED
  BY <1>1, <1>2, PTL DEF LoopSpec, QueueKept, Spec

(* Started, signalled and killed as they may be, crawler processes never   *)
(* crawl one feed at once if their batches drain within a lease.           *)
THEOREM ProcessesKeepApart ==
  ASSUME BatchTime < Lease
  PROVE  LoopSpec => []NoDoubleCrawl
  BY LoopImplementsQueue, LeaseKeepsOthersAway, PTL DEF QueueKept

-----------------------------------------------------------------------------
(* Only w's own steps move w's tasks from phase to phase. *)
LEMMA OthersTasks ==
  ASSUME NEW v \in Workers, NEW f \in Feeds, NEW w \in Workers, w # v,
         TypeInv,
         \/ CrawlStep(v, f)
         \/ ClaimDueFeeds(v)
         \/ Crash(v)
  PROVE  task'[w] = task[w]
<1>1. v \in Crawlers /\ w \in Crawlers
  BY WorkersAssumption
<1>2. CASE Crash(v)
  BY <1>1, <1>2 DEF TypeInv, Crash
<1>3. CASE ClaimDueFeeds(v)
  BY <1>1, <1>3 DEF TypeInv, ClaimDueFeeds
<1>4. CASE Fetch(v, f)
  BY <1>1, <1>4 DEF TypeInv, Fetch
<1>5. CASE CheckTarget(v, f)
  BY <1>1, <1>5 DEF TypeInv, CheckTarget
<1>6. CASE Record(v, f)
  BY <1>1, <1>6 DEF TypeInv, Record, End
<1>7. CASE Abandon(v, f)
  BY <1>1, <1>7 DEF TypeInv, Abandon, End
<1> QED
  BY <1>2, <1>3, <1>4, <1>5, <1>6, <1>7 DEF CrawlStep

-----------------------------------------------------------------------------
(* The line.  Every step that changes who is due lines the feeds up anew:  *)
(* those who stay keep their places, the others join behind them, and      *)
(* nobody stands in it twice.                                              *)

LEMMA Arranged ==
  ASSUME NEW S, IsFiniteSet(S), NEW new \in SetToSeqs(S)
  PROVE  /\ new \in Seq(S) /\ Len(new) \in Nat /\ DOMAIN new = 1..Len(new)
         /\ \A i, j \in DOMAIN new : new[i] = new[j] => i = j
         /\ \A x \in S : \E i \in DOMAIN new : new[i] = x
<1> DEFINE n == Cardinality(S)
<1>1. n \in Nat
  BY FS_CardinalityType
<1>2. new \in [1..n -> S] /\ \A i, j \in 1..n : new[i] = new[j] => i = j
  BY DEF SetToSeqs
<1>3. IsFiniteSet(1..n) /\ Cardinality(1..n) = n
  <2> HIDE DEF n
  <2> QED BY <1>1, FS_Interval
<1>4. new \in Injection(1..n, S)
  <2> HIDE DEF n
  <2> QED BY <1>2 DEF Injection, IsInjective
<1>5. new \in Surjection(1..n, S)
  BY <1>3, <1>4, FS_Injection
<1>6. \A x \in S : \E i \in 1..n : new[i] = x
  <2> HIDE DEF n
  <2> QED BY <1>5 DEF Surjection
<1> HIDE DEF n
<1>7. new \in Seq(S) /\ Len(new) = n /\ DOMAIN new = 1..n
  BY <1>1, <1>2
<1> QED BY <1>1, <1>2, <1>6, <1>7

(* The feeds of D, each at one place of s. *)
Lined(s, D) == /\ s \in Seq(Feeds)
               /\ \A i, j \in DOMAIN s : s[i] = s[j] => i = j
               /\ ToSet(s) = D

LEMMA LinedUp ==
  ASSUME NEW old, NEW Before, Lined(old, Before),
         NEW D \in SUBSET Feeds, IsFiniteSet(D), NEW kept \in SUBSET D,
         NEW places, \A i : i \in places <=> i \in DOMAIN old /\ old[i] \in kept,
         NEW stay, stay = Picked(old, places),
         NEW new \in SetToSeqs(D \ ToSet(stay)),
         NEW s, s = stay \o new
  PROVE  Lined(s, D)
<1> DEFINE S == D \ ToSet(stay)
<1>0. old \in Seq(Feeds) /\ \A i, j \in DOMAIN old : old[i] = old[j] => i = j
  BY DEF Lined
<1>1. places \in SUBSET DOMAIN old /\ \A i \in places : old[i] \in D
  OBVIOUS
<1>2. stay = Picked(old, places)
  OBVIOUS
<1>3. /\ stay \in Seq(Feeds) /\ \A n \in DOMAIN stay : stay[n] \in D
      /\ \A m, n \in DOMAIN stay : stay[m] = stay[n] => m = n
  <2>1. /\ stay \in Seq(Feeds)
        /\ \A n \in DOMAIN stay : \E i \in places : stay[n] = old[i]
    <3>1. /\ Picked(old, places) \in Seq(Feeds)
          /\ \A n \in DOMAIN Picked(old, places) :
               \E i \in places : Picked(old, places)[n] = old[i]
      BY <1>0, <1>1, PickedLists
    <3> QED BY <1>2, <3>1
  <2>2. \A m, n \in DOMAIN stay : stay[m] = stay[n] => m = n
    BY <1>0, <1>1, <1>2, PickedOnce
  <2>3. \A n \in DOMAIN stay : stay[n] \in D
    BY <1>1, <2>1
  <2> QED BY <2>1, <2>2, <2>3
<1>4. ToSet(stay) = {stay[n] : n \in DOMAIN stay}
  BY DEF ToSet
<1>5. IsFiniteSet(S)
  <2>1. S \in SUBSET D
    OBVIOUS
  <2> HIDE DEF S
  <2> QED BY <2>1, PartOfFinite
<1>6. /\ new \in Seq(S) /\ Len(new) \in Nat /\ DOMAIN new = 1..Len(new)
      /\ \A i, j \in DOMAIN new : new[i] = new[j] => i = j
      /\ \A x \in S : \E i \in DOMAIN new : new[i] = x
  <2>1. new \in SetToSeqs(S)
    OBVIOUS
  <2> HIDE DEF S
  <2> QED BY <1>5, <2>1, Arranged
<1>7. \A x : x \in S <=> x \in D /\ \A n \in DOMAIN stay : stay[n] # x
  BY <1>4
<1>8. Len(stay) \in Nat /\ DOMAIN stay = 1..Len(stay)
  BY <1>3
<1> HIDE DEF S
<1>9. S \subseteq Feeds
  BY <1>7
<1>10. new \in Seq(Feeds) /\ \A i \in DOMAIN new : new[i] \in S
  BY <1>6, <1>9
<1>11. /\ s \in Seq(Feeds) /\ Len(s) = Len(stay) + Len(new) /\ DOMAIN s = 1..Len(s)
       /\ \A i \in 1..Len(stay) : s[i] = stay[i]
       /\ \A i \in 1..Len(s) : i > Len(stay) => s[i] = new[i - Len(stay)]
  BY <1>3, <1>10
<1>12. \A i \in 1..Len(s) : \/ i \in DOMAIN stay /\ s[i] = stay[i] /\ s[i] \notin S
                            \/ /\ i - Len(stay) \in DOMAIN new
                               /\ s[i] = new[i - Len(stay)] /\ s[i] \in S
  <2> TAKE i \in 1..Len(s)
  <2>1. CASE i <= Len(stay)
    <3>1. i \in DOMAIN stay /\ s[i] = stay[i]
      BY <1>8, <1>11, <2>1
    <3> QED BY <1>7, <3>1
  <2>2. CASE i > Len(stay)
    <3>1. i - Len(stay) \in 1..Len(new)
      BY <1>6, <1>8, <1>11, <2>2
    <3>2. s[i] = new[i - Len(stay)]
      BY <1>11, <2>2
    <3> QED BY <1>6, <1>10, <3>1, <3>2
  <2> QED BY <1>8, <2>1, <2>2
<1>13. ASSUME NEW i \in DOMAIN s, NEW j \in DOMAIN s, s[i] = s[j] PROVE i = j
  <2>1. i \in 1..Len(s) /\ j \in 1..Len(s)
    BY <1>11
  <2>2. CASE s[i] \in S
    <3>1. /\ i - Len(stay) \in DOMAIN new /\ j - Len(stay) \in DOMAIN new
          /\ new[i - Len(stay)] = new[j - Len(stay)]
      BY <1>12, <1>13, <2>1, <2>2
    <3>2. i - Len(stay) = j - Len(stay)
      BY <1>6, <3>1
    <3> QED BY <1>6, <1>8, <1>11, <2>1, <3>2
  <2>3. CASE s[i] \notin S
    BY <1>3, <1>12, <1>13, <2>1, <2>3
  <2> QED BY <2>2, <2>3
<1>14. \A x \in D : \E i \in 1..Len(s) : s[i] = x
  <2> TAKE x \in D
  <2>1. CASE x \in S
    <3>1. PICK k \in DOMAIN new : new[k] = x
      BY <1>6, <2>1
    <3>2. /\ Len(stay) + k \in 1..Len(s) /\ Len(stay) + k > Len(stay)
          /\ (Len(stay) + k) - Len(stay) = k
      BY <1>6, <1>8, <1>11
    <3>3. s[Len(stay) + k] = x
      BY <1>11, <3>1, <3>2
    <3> QED BY <3>2, <3>3
  <2>2. CASE x \notin S
    <3>1. PICK n \in DOMAIN stay : stay[n] = x
      BY <1>7, <2>2
    <3>2. n \in 1..Len(s) /\ s[n] = x
      BY <1>6, <1>8, <1>11, <3>1
    <3> QED BY <3>2
  <2> QED BY <2>1, <2>2
<1>15. \A i \in 1..Len(s) : s[i] \in D
  BY <1>3, <1>7, <1>12
<1>16. ToSet(s) = D
  <2>1. ToSet(s) = {s[i] : i \in 1..Len(s)}
    BY <1>11 DEF ToSet
  <2>2. \A x : x \in ToSet(s) <=> x \in D
    BY <1>14, <1>15, <2>1
  <2> QED BY <2>2
<1> QED BY <1>11, <1>13, <1>16 DEF Lined

LineInv == Lined(line, Due)

LEMMA LineUpLined ==
  ASSUME LineInv, NEW rewritten, LineUp(rewritten)
  PROVE  LineInv'
<1> DEFINE D == Due'
           kept == D \ rewritten
           places == {i \in DOMAIN line : line[i] \in kept}
           stay == InLine(kept)
<1>1. D \in SUBSET Feeds
  BY DEF Due
<1>2. IsFiniteSet(D)
  <2> HIDE DEF D
  <2> QED BY <1>1, TableAssumption, PartOfFinite
<1>3. PICK new \in SetToSeqs(D \ ToSet(stay)) : line' = stay \o new
  BY DEF LineUp
<1>4. /\ kept \in SUBSET D /\ stay = Picked(line, places)
      /\ \A i : i \in places <=> i \in DOMAIN line /\ line[i] \in kept
  BY DEF InLine
<1>5. Lined(line, Due)
  BY DEF LineInv
<1> HIDE DEF D, kept, places, stay
<1>6. Lined(line', D)
  BY <1>1, <1>2, <1>3, <1>4, <1>5, LinedUp
<1> QED BY <1>6 DEF LineInv, Lined, D, ToSet

LEMMA LineKept ==
  ASSUME LineInv, UNCHANGED <<line, feeds, dueIn>>
  PROVE  LineInv'
BY DEF LineInv, Lined, Due, InRotation, ToSet

LEMMA ExitLined ==
  ASSUME LineInv, NEW w \in Workers, Exit(w)
  PROVE  LineInv'
<1>1. UNCHANGED <<line, feeds, dueIn>>
  BY DEF Exit, Crash, queueVars
<1> QED BY <1>1, LineKept

LEMMA LineStep ==
  ASSUME LineInv, [LoopNext]_loopVars
  PROVE  LineInv'
<1>1. CASE Demand \/ LoopTick
  BY <1>1, LineUpLined DEF Demand, LoopTick
<1>2. ASSUME NEW w \in Workers, LoopStep(w) PROVE LineInv'
  <2>1. CASE Start(w) \/ ClaimNothing(w) \/ Drain(w) \/ Wake(w) \/ Leave(w)
    BY <2>1, LineKept DEF Start, ClaimNothing, Drain, Wake, Leave, queueVars
  <2>2. CASE GraceOver(w)
    BY <2>2, ExitLined DEF GraceOver
  <2>3. ASSUME NEW f \in Feeds, Go(w, f) PROVE LineInv'
    BY <2>3, LineKept DEF Go, queueVars
  <2>4. ASSUME NEW f \in Feeds, Crawl(w, f) PROVE LineInv'
    <3>1. \E rewritten : LineUp(rewritten)
      BY <2>4 DEF Crawl
    <3> QED BY <3>1, LineUpLined
  <2> QED BY <1>2, <2>1, <2>2, <2>3, <2>4 DEF LoopStep
<1>3. ASSUME NEW w \in Workers, Claim(w) PROVE LineInv'
  BY <1>3, LineUpLined DEF Claim, ClaimSkipping
<1>4. ASSUME NEW w \in Workers, Signal(w) PROVE LineInv'
  BY <1>4, LineKept DEF Signal, queueVars
<1>5. ASSUME NEW w \in Workers, Kill(w) PROVE LineInv'
  BY <1>5, ExitLined DEF Kill
<1>6. CASE UNCHANGED loopVars
  BY <1>6, LineKept DEF loopVars
<1> QED BY <1>1, <1>2, <1>3, <1>4, <1>5, <1>6 DEF LoopNext

-----------------------------------------------------------------------------
(* The processes: what they are doing, and who has a goroutine.            *)

ProcessInv == loop \in [Workers -> Process] /\ stops \in 0..MaxStops

(* A goroutine has a feed that is being crawled. *)
Pooled(w) ==
  /\ IsFiniteSet(running[w]) /\ Cardinality(running[w]) <= Slots
  /\ \A f \in running[w] : f \in Feeds /\ Crawling(w, f)

PoolInv == running \in [Workers -> SUBSET Feeds] /\ \A w \in Workers : Pooled(w)

LEMMA ProcessStep ==
  ASSUME ProcessInv, PoolInv, [LoopNext]_loopVars
  PROVE  ProcessInv'
<1>a. /\ Grace \in Nat /\ MaxStops \in Nat /\ Down \in Process
      /\ \A n \in Nat : Less(n) \in Nat
  BY LoopAssumption DEF Down, Process, Less
<1>b. ASSUME NEW w \in Workers, Exit(w) PROVE loop' \in [Workers -> Process]
  BY <1>a, <1>b DEF Exit, ProcessInv
<1>1. CASE Demand
  BY <1>1 DEF Demand, ProcessInv
<1>2. ASSUME NEW w \in Workers, LoopStep(w) PROVE ProcessInv'
  <2>1. CASE Start(w) \/ ClaimNothing(w) \/ Drain(w)
    BY <2>1 DEF Start, ClaimNothing, Drain, ProcessInv, Process
  <2>2. CASE Wake(w)
    BY <2>2 DEF Wake, ProcessInv, Process
  <2>3. CASE Leave(w)
    BY <1>a, <2>3 DEF Leave, ProcessInv
  <2>4. CASE GraceOver(w)
    BY <1>b, <2>4 DEF GraceOver, ProcessInv
  <2>5. ASSUME NEW f \in Feeds, Go(w, f) PROVE ProcessInv'
    BY <2>5 DEF Go, ProcessInv
  <2>6. ASSUME NEW f \in Feeds, Crawl(w, f) PROVE ProcessInv'
    <3>1. [loop[w] EXCEPT !.calls = @ \ {f}] \in Process
      BY DEF ProcessInv, Process
    <3> QED BY <2>6, <3>1 DEF Crawl, ProcessInv
  <2> QED BY <1>2, <2>1, <2>2, <2>3, <2>4, <2>5, <2>6 DEF LoopStep
<1>3. ASSUME NEW w \in Workers, Claim(w) PROVE ProcessInv'
  BY <1>3 DEF Claim, ClaimSkipping, ProcessInv, Process
<1>4. ASSUME NEW w \in Workers, Signal(w) PROVE ProcessInv'
  <2> DEFINE told == [loop[w] EXCEPT !.stopping = TRUE, !.grace = Grace,
                                     !.calls = running[w]]
  <2>1. told \in Process
    BY <1>a DEF ProcessInv, PoolInv, Process
  <2>2. loop' = [loop EXCEPT ![w] = told]
    BY <1>4 DEF Signal, ProcessInv, Process
  <2>3. stops' \in 0..MaxStops
    BY <1>4, <1>a DEF Signal, ProcessInv
  <2> HIDE DEF told
  <2> QED BY <2>1, <2>2, <2>3 DEF ProcessInv
<1>5. ASSUME NEW w \in Workers, Kill(w) PROVE ProcessInv'
  BY <1>5, <1>a, <1>b DEF Kill, ProcessInv
<1>6. CASE LoopTick
  <2>1. \A w \in Workers : [loop[w] EXCEPT !.ticked = TRUE, !.grace = Less(@)] \in Process
    BY <1>a DEF ProcessInv, Process
  <2> QED BY <1>6, <1>a, <2>1 DEF LoopTick, ProcessInv
<1>7. CASE UNCHANGED loopVars
  BY <1>7 DEF loopVars, ProcessInv
<1> QED BY <1>1, <1>2, <1>3, <1>4, <1>5, <1>6, <1>7 DEF LoopNext

LEMMA TickKeepsPhases ==
  ASSUME TypeInv, Tick, NEW w \in Workers, NEW f \in Feeds
  PROVE  task'[w][f].phase = task[w][f].phase
<1>1. w \in Crawlers
  BY WorkersAssumption
<1>2. task'[w][f] = [task[w][f] EXCEPT !.dueIn = Less(@)]
  BY <1>1 DEF Tick
<1>3. task[w][f] \in Task
  BY <1>1 DEF TypeInv, CrawlTask
<1> QED BY <1>2, <1>3 DEF Task

(* What leaves a pool and its crawls alone. *)
LEMMA PoolKept ==
  ASSUME PoolInv, NEW w \in Workers, running'[w] = running[w],
         \A f \in Feeds : task'[w][f].phase = task[w][f].phase
  PROVE  Pooled(w)'
BY DEF PoolInv, Pooled, Crawling

LEMMA EmptyPool ==
  ASSUME NEW w \in Workers, running'[w] = {}
  PROVE  Pooled(w)'
<1>1. IsFiniteSet({}) /\ Cardinality({}) = 0 /\ 0 <= Slots
  BY FS_EmptySet, LoopAssumption
<1> QED BY <1>1 DEF Pooled

LEMMA ExitPooled ==
  ASSUME PoolInv, TypeInv, NEW v \in Workers, Exit(v)
  PROVE  PoolInv'
<1>1. /\ running' = [running EXCEPT ![v] = {}] /\ running \in [Workers -> SUBSET Feeds]
      /\ \A w \in Workers \ {v} : task'[w] = task[w]
  BY WorkersAssumption DEF Exit, Crash, queueVars, PoolInv, TypeInv
<1>2. ASSUME NEW w \in Workers PROVE Pooled(w)'
  <2>1. CASE w = v
    BY <1>1, <2>1, EmptyPool
  <2>2. CASE w # v
    BY <1>1, <2>2, PoolKept
  <2> QED BY <2>1, <2>2
<1> QED BY <1>1, <1>2 DEF PoolInv

LEMMA CrawlPooled ==
  ASSUME PoolInv, TypeInv, NEW v \in Workers, NEW g \in Feeds, Crawl(v, g)
  PROVE  PoolInv'
<1>1. /\ running' = [running EXCEPT ![v] = {f \in @ : task'[v][f].phase # "idle"}]
      /\ running \in [Workers -> SUBSET Feeds] /\ CrawlStep(v, g)
  BY CrawlIsCrawlStep DEF Crawl, PoolInv
<1>2. ASSUME NEW w \in Workers PROVE Pooled(w)'
  <2>1. CASE w = v
    <3> DEFINE old == running[v]
               new == {f \in old : task'[v][f].phase # "idle"}
    <3>1. running'[v] = new /\ new \in SUBSET old
      BY <1>1
    <3>2. IsFiniteSet(old) /\ Cardinality(old) <= Slots /\ old \subseteq Feeds
      BY DEF PoolInv, Pooled
    <3>3. \A f \in new : Crawling(v, f)'
      BY DEF Crawling
    <3> HIDE DEF old, new
    <3>4. /\ IsFiniteSet(new) /\ Cardinality(new) <= Cardinality(old)
          /\ Cardinality(new) \in Nat /\ Cardinality(old) \in Nat
      BY <3>1, <3>2, PartOfFinite
    <3>5. Cardinality(new) <= Slots /\ \A f \in new : f \in Feeds
      BY <3>1, <3>2, <3>4, LoopAssumption
    <3> QED BY <2>1, <3>1, <3>3, <3>4, <3>5 DEF Pooled
  <2>2. CASE w # v
    <3>1. task'[w] = task[w]
      BY <1>1, <2>2, OthersTasks
    <3> QED BY <1>1, <2>2, <3>1, PoolKept
  <2> QED BY <2>1, <2>2
<1> QED BY <1>1, <1>2 DEF PoolInv

LEMMA GoPooled ==
  ASSUME PoolInv, TypeInv, NEW v \in Workers, NEW g \in Feeds, Go(v, g)
  PROVE  PoolInv'
<1>1. /\ running' = [running EXCEPT ![v] = @ \cup {g}] /\ task' = task
      /\ running \in [Workers -> SUBSET Feeds]
      /\ g \notin running[v] /\ Cardinality(running[v]) < Slots /\ Crawling(v, g)
  BY DEF Go, queueVars, PoolInv
<1>2. ASSUME NEW w \in Workers PROVE Pooled(w)'
  <2>1. CASE w = v
    <3> DEFINE old == running[v]
    <3>1. IsFiniteSet(old) /\ \A f \in old : f \in Feeds /\ Crawling(v, f)
      BY DEF PoolInv, Pooled
    <3>2. Cardinality(old) < Slots /\ g \notin old /\ running'[v] = old \cup {g}
      BY <1>1
    <3> HIDE DEF old
    <3>3. /\ IsFiniteSet(old \cup {g}) /\ Cardinality(old \cup {g}) = Cardinality(old) + 1
          /\ Cardinality(old) \in Nat
      BY <3>1, <3>2, FS_AddElement, FS_CardinalityType
    <3>4. Cardinality(old \cup {g}) <= Slots
      BY <3>2, <3>3, LoopAssumption
    <3>5. \A f \in old \cup {g} : f \in Feeds /\ Crawling(v, f)'
      BY <1>1, <3>1 DEF Crawling
    <3> QED BY <2>1, <3>2, <3>3, <3>4, <3>5 DEF Pooled
  <2>2. CASE w # v
    BY <1>1, <2>2, PoolKept
  <2> QED BY <2>1, <2>2
<1> QED BY <1>1, <1>2 DEF PoolInv

LEMMA ClaimPooled ==
  ASSUME PoolInv, TypeInv, NEW v \in Workers, Claim(v)
  PROVE  PoolInv'
<1>1. running' = running /\ ClaimDueFeeds(v) /\ ~Busy(v)
  BY DEF Claim, ClaimSkipping, ClaimDueFeeds
<1>2. ASSUME NEW w \in Workers PROVE Pooled(w)'
  <2>1. CASE w = v
    <3>1. running[v] = {}
      BY <1>1 DEF PoolInv, Pooled, Busy
    <3> QED BY <1>1, <2>1, <3>1, EmptyPool
  <2>2. CASE w # v
    <3>1. \A f \in Feeds : task'[w][f].phase = task[w][f].phase
      BY <1>1, <2>2, OthersTasks
    <3> QED BY <1>1, <3>1, PoolKept
  <2> QED BY <2>1, <2>2
<1> QED BY <1>1, <1>2 DEF PoolInv

LEMMA PoolStep ==
  ASSUME PoolInv, TypeInv, [LoopNext]_loopVars
  PROVE  PoolInv'
<1>a. ASSUME UNCHANGED <<task, running>> PROVE PoolInv'
  BY <1>a, PoolKept DEF PoolInv
<1>1. CASE Demand
  BY <1>1, <1>a DEF Demand, Catalogue, UpsertFeed, MarkFeedRequested
<1>2. ASSUME NEW w \in Workers, LoopStep(w) PROVE PoolInv'
  <2>1. CASE Start(w) \/ ClaimNothing(w) \/ Drain(w) \/ Wake(w) \/ Leave(w)
    BY <1>a, <2>1 DEF Start, ClaimNothing, Drain, Wake, Leave, queueVars
  <2>2. CASE GraceOver(w)
    BY <2>2, ExitPooled DEF GraceOver
  <2> QED BY <1>2, <2>1, <2>2, GoPooled, CrawlPooled DEF LoopStep
<1>3. ASSUME NEW w \in Workers, Claim(w) PROVE PoolInv'
  BY <1>3, ClaimPooled
<1>4. ASSUME NEW w \in Workers, Signal(w) PROVE PoolInv'
  BY <1>4, <1>a DEF Signal, queueVars
<1>5. ASSUME NEW w \in Workers, Kill(w) PROVE PoolInv'
  BY <1>5, ExitPooled DEF Kill
<1>6. CASE LoopTick
  <2>1. running' = running /\ Tick
    BY <1>6 DEF LoopTick
  <2>2. \A w \in Workers : Pooled(w)'
    BY <2>1, TickKeepsPhases, PoolKept
  <2> QED BY <2>1, <2>2 DEF PoolInv
<1>7. CASE UNCHANGED loopVars
  BY <1>7, <1>a DEF loopVars
<1> QED BY <1>1, <1>2, <1>3, <1>4, <1>5, <1>6, <1>7 DEF LoopNext

(* Exactly the feeds that are due stand in line, each once, and no process *)
(* ever runs more crawls than it has slots, nor keeps one for a crawl that *)
(* is over (ClaimDueFeeds, runBatch).                                      *)
THEOREM LoopTypeCorrect == LoopSpec => []LoopTypeOK
<1>1. LoopInit => LineInv /\ ProcessInv /\ PoolInv
  <2> SUFFICES ASSUME LoopInit PROVE LineInv /\ ProcessInv /\ PoolInv
    OBVIOUS
  <2>1. LineInv
    <3>1. Due = {}
      BY DEF LoopInit, Init, Due, InRotation, NoRow
    <3>2. line = <<>> /\ <<>> \in Seq(Feeds) /\ DOMAIN <<>> = {} /\ Len(<<>>) = 0
      BY DEF LoopInit
    <3> QED BY <3>1, <3>2 DEF LineInv, Lined, ToSet
  <2>2. ProcessInv
    BY LoopAssumption DEF LoopInit, ProcessInv, Process, Down
  <2>3. PoolInv
    <3>1. IsFiniteSet({}) /\ Cardinality({}) = 0 /\ 0 <= Slots
      BY FS_EmptySet, LoopAssumption
    <3> QED BY <3>1 DEF LoopInit, PoolInv, Pooled
  <2> QED BY <2>1, <2>2, <2>3
<1>2. LoopSpec => []TypeInv
  BY LoopImplementsQueue, TypeInvariant, PTL DEF QueueKept
<1>3. TypeInv /\ LineInv /\ ProcessInv /\ PoolInv /\ [LoopNext]_loopVars
        => LineInv' /\ ProcessInv' /\ PoolInv'
  BY LineStep, ProcessStep, PoolStep
<1>4. TypeInv /\ LineInv /\ ProcessInv /\ PoolInv => LoopTypeOK
  <2> SUFFICES ASSUME TypeInv, LineInv, ProcessInv, PoolInv PROVE LoopTypeOK
    OBVIOUS
  <2>1. TypeOK
    BY TypeInvImplies
  <2>2. ToSet(line) = Due /\ IsInjective(line)
    BY DEF LineInv, Lined, IsInjective
  <2>3. \A w \in Workers : /\ running[w] \subseteq {f \in Feeds : Crawling(w, f)}
                           /\ Cardinality(running[w]) <= Slots
    BY DEF PoolInv, Pooled
  <2> QED BY <2>1, <2>2, <2>3 DEF ProcessInv, LoopTypeOK
<1> QED BY <1>1, <1>2, <1>3, <1>4, PTL DEF LoopSpec
=============================================================================
