------------------------------ MODULE ColdCrawl ------------------------------
(***************************************************************************)
(* The API's side of crawling (service/podcast/routes.go: getEpisodes,     *)
(* activateFeed, crawlColdFeed), running against the same table as the     *)
(* crawler processes of FeedQueue.                                         *)
(*                                                                         *)
(* A request for a podcast's episodes reads its feed's row (Resolve),      *)
(* records the demand, which wakes a dormant feed (Mark), and, if the row  *)
(* it read had never been crawled, crawls the feed itself before it reads  *)
(* the episodes (Read).  Requests of one API process share a single flight *)
(* per feed: the first becomes the leader and crawls with the row IT read  *)
(* (Lead), the others wait for its outcome (Join).  No lease is taken.     *)
(*                                                                         *)
(* A leader is one more crawler: Crawlers = Workers \cup Requests.         *)
(***************************************************************************)
EXTENDS FeedQueue

CONSTANTS
  Requests,      \* concurrent requests for episodes
  ApiOf,         \* the API process that handles each request
  RequestTime    \* the longest from reading the row to the end of the crawl

ASSUME RequestsAssumption ==
  /\ Requests \cap Workers = {}
  /\ Crawlers = Workers \cup Requests
  /\ None \notin Requests
  /\ DOMAIN ApiOf = Requests
ASSUME RequestTimeAssumption == RequestTime \in Nat \ {0}

VARIABLE req     \* req[r]: how far request r has come

vars == <<feeds, dueIn, shown, task, left, req>>

(* A document is a 200 with what it lists, which may be nothing, and       *)
(* "unfilled" the empty 200 of a feed of which no document was ever parsed.*)
Replies == Docs \cup {"pending", "error", "unfilled"}

Request == [pc     : {"idle", "mark", "crawl", "lead", "join", "read", "done"},
            feed   : Feeds \cup {None},
            row    : Row,      \* the row read, until it is crawled with
            dueIn  : Nat,
            cold   : BOOLEAN,  \* that row had never been crawled
            leader : Requests \cup {None},
            reply  : Replies]

NoRequest == [pc |-> "idle", feed |-> None, row |-> NoRow, dueIn |-> 0,
              cold |-> FALSE, leader |-> None, reply |-> "pending"]

ColdTypeOK == TypeOK /\ req \in [Requests -> Request]

ColdInit == Init /\ req = [r \in Requests |-> NoRequest]

-----------------------------------------------------------------------------
(* PodcastWithFeedByItunesID: the row as it is now, which only a request   *)
(* that will crawl with it has to keep.                                    *)
Resolve(r, f) ==
  /\ req[r].pc = "idle"
  /\ Exists(f)
  /\ LET read == [NoRequest EXCEPT !.pc = "mark", !.feed = f] IN
       IF NeverCrawled(feeds[f])
       THEN /\ req' = [req EXCEPT ![r] = [read EXCEPT !.cold = TRUE,
                                            !.row = feeds[f], !.dueIn = dueIn[f]]]
            /\ left' = [left EXCEPT ![r] = RequestTime]
       ELSE req' = [req EXCEPT ![r] = read] /\ UNCHANGED left
  /\ UNCHANGED <<feeds, dueIn, shown, task>>

(* activateFeed is best effort; what follows depends on the row read. *)
Mark(r) ==
  /\ req[r].pc = "mark"
  /\ MarkFeedRequested(req[r].feed) \/ UNCHANGED queueVars
  /\ req' = [req EXCEPT ![r].pc = IF req[r].cold THEN "crawl" ELSE "read"]

(* The requests of r's process that are crawling r's feed right now. *)
Leaders(r) == {l \in Requests : /\ ApiOf[l] = ApiOf[r]
                                /\ req[l].pc = "lead"
                                /\ req[l].feed = req[r].feed}

Lead(r) ==
  /\ req[r].pc = "crawl"
  /\ Leaders(r) = {}
  /\ task' = [task EXCEPT ![r][req[r].feed] = Begin(req[r].row, req[r].dueIn)]
  /\ req' = [req EXCEPT ![r].pc = "lead", ![r].row = NoRow, ![r].dueIn = 0]
  /\ UNCHANGED <<feeds, dueIn, shown, left>>

Join(r) ==
  /\ req[r].pc = "crawl"
  /\ \E l \in Leaders(r) :
       req' = [req EXCEPT ![r].pc = "join", ![r].leader = l,
                          ![r].row = NoRow, ![r].dueIn = 0]
  /\ left' = [left EXCEPT ![r] = 0]
  /\ UNCHANGED <<feeds, dueIn, shown, task>>

(* Mistake: only the leader hears of the outcome. *)
LandAlone(l, failed) ==
  req' = [req EXCEPT ![l].pc = IF failed THEN "done" ELSE "read",
                     ![l].reply = IF failed THEN "error" ELSE @]

(* The flight led by l is over: everybody on it reads, or reports the error. *)
Land(l, failed) ==
  req' = [r \in Requests |->
            IF r = l \/ (req[r].pc = "join" /\ req[r].leader = l)
            THEN IF failed THEN [req[r] EXCEPT !.pc = "done", !.reply = "error",
                                             !.leader = None]
                           ELSE [req[r] EXCEPT !.pc = "read", !.leader = None]
            ELSE req[r]]

(* The leader's crawl. *)
LeaderFetch(r) ==
  /\ req[r].pc = "lead"
  /\ Fetch(r, req[r].feed) \/ CheckTarget(r, req[r].feed)
  /\ UNCHANGED req

LeaderRecord(r) ==
  /\ req[r].pc = "lead"
  /\ Record(r, req[r].feed)
  /\ Land(r, task[r][req[r].feed].err)

(* The outcome could not be recorded: ApplyCrawl failed, the budget ran    *)
(* out or the leader's client went away, at whatever point of the crawl.   *)
LeaderGivesUp(r) ==
  /\ req[r].pc = "lead"
  /\ End(r, req[r].feed)
  /\ Land(r, TRUE)
  /\ UNCHANGED <<feeds, dueIn, shown>>

(* Mistake: an empty list is passed on as no list at all. *)
ReadNothing(r) ==
  /\ req[r].pc = "read"
  /\ \E reply \in {shown[req[r].feed], "error"} :
       req' = [req EXCEPT ![r].pc = "done", ![r].reply = reply]
  /\ UNCHANGED queueVars

(* What EpisodesByFeed finds of f. *)
Listed(f) == IF shown[f] = None THEN "unfilled" ELSE shown[f]

(* EpisodesByFeed, or its error, is the answer. *)
Read(r) ==
  /\ req[r].pc = "read"
  /\ \E reply \in {Listed(req[r].feed), "error"} :
       req' = [req EXCEPT ![r].pc = "done", ![r].reply = reply]
  /\ UNCHANGED queueVars

(* The answer is out; the slot serves another request. *)
Finish(r) ==
  /\ req[r].pc = "done"
  /\ req' = [req EXCEPT ![r] = NoRequest]
  /\ UNCHANGED queueVars

(* Time also runs for the rows requests hold, which a prompt request does  *)
(* not sit on for longer than RequestTime.                                 *)
ColdTick ==
  /\ \A r \in Requests : req[r].cold /\ req[r].pc \in {"mark", "crawl"} => left[r] > 0
  /\ Tick
  /\ req' = [r \in Requests |-> [req[r] EXCEPT !.dueIn = Less(@)]]

-----------------------------------------------------------------------------
RequestStep(r) ==
  \/ Mark(r) \/ Lead(r) \/ Join(r)
  \/ LeaderFetch(r) \/ LeaderRecord(r) \/ LeaderGivesUp(r)
  \/ Read(r) \/ Finish(r)

WorkerStep(w) == \/ ClaimDueFeeds(w)
                 \/ Crash(w)
                 \/ \E f \in Feeds : CrawlStep(w, f)

ColdNext ==
  \/ (\E f \in Feeds, u \in Urls : UpsertFeed(f, u)) /\ UNCHANGED req
  \/ (\E w \in Workers : WorkerStep(w)) /\ UNCHANGED req
  \/ \E r \in Requests, f \in Feeds : Resolve(r, f)
  \/ \E r \in Requests : RequestStep(r)
  \/ ColdTick

ColdSpec == ColdInit /\ [][ColdNext]_vars

(* A handler keeps going: its database calls return and its crawl is       *)
(* bounded by the budget.                                                  *)
ColdFairSpec == ColdSpec /\ \A r \in Requests : WF_vars(RequestStep(r))

-----------------------------------------------------------------------------
(* A feed somebody woke is never put back to sleep, although the API       *)
(* crawls with a row it read while the feed was still dormant.             *)
NeverAsleepAgain ==
  [][\A f \in Feeds : feeds[f].status \notin {"absent", "dormant"}
                        => feeds'[f].status \notin {"absent", "dormant"}]_vars

(* A request that finds its feed crawled before, and so does not crawl it, *)
(* is told what a document of the publisher lists, be that nothing, or     *)
(* that the database failed; never the empty list of a feed of which       *)
(* nothing was parsed.  "Crawled" in a row means that there is a document, *)
(* although crawls overlap and write stale rows back (ApplyCrawl,          *)
(* getEpisodes).                                                           *)
CrawledIsNotUnfilled ==
  \A r \in Requests :
    req[r].pc = "done" /\ ~req[r].cold => req[r].reply \in Docs \cup {"error"}

(* Every request is answered, also one that waits on a leader that failed. *)
EveryRequestAnswered ==
  \A r \in Requests : req[r].pc = "mark" ~> req[r].pc = "done"
=============================================================================
