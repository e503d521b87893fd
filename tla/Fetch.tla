-------------------------------- MODULE Fetch --------------------------------
(***************************************************************************)
(* One conditional GET of a feed (crawl/fetch.go), by goroutines that      *)
(* share a host limiter: the wait for the feed's host, the chain of        *)
(* redirects the HTTP client follows, and the outcome made of the response *)
(* it stops at.                                                            *)
(*                                                                         *)
(* A URL is a host and a path.  A Location header gives both, or a path    *)
(* alone (host = None) that is relative to whatever was asked, or nothing  *)
(* usable.  The publishers answer each request as they like.               *)
(***************************************************************************)
EXTENDS HostLimiter

CONSTANTS
  Paths,
  Fetchers,      \* goroutines crawling a feed
  Deadlines,     \* time a caller's context leaves for the fetch; Forever for none,
                 \* 0 for a context that has ended
  Timeout,       \* CRAWLER_HTTP_TIMEOUT
  MaxRequests,   \* the requests after which no redirect is taken (5)
  MaxBody,       \* CRAWLER_MAX_BODY_BYTES
  MaxDebt,       \* bound: the debt a bucket runs into
  Forever, None

Urls == [host : Hosts, path : Paths]
Unusable == [host |-> None, path |-> None]
Locations == [host : Hosts \cup {None}, path : Paths] \cup {Unusable}

Outcomes == {"changed", "not_modified", "moved", "gone", "rate_limited", "failed"}

ASSUME NumbersAssumption ==
  /\ Timeout \in Nat \ {0} /\ MaxRequests \in Nat \ {0} /\ MaxBody \in Nat \ {0} /\ MaxDebt \in Nat
  /\ Deadlines \subseteq Nat \cup {Forever}
  /\ Forever \notin Nat /\ None \notin Hosts \cup Paths \cup Outcomes

VARIABLES
  fetch     \* fetch[g]: g's call of Fetch

vars == <<tokens, sent, fetch>>

(* at: the URL of the request in flight; wait: time left of the limiter's  *)
(* wait; left: time left to the context's deadline, in "wait", or to the   *)
(* earlier of that and the client's timeout, in "send".  said is where the *)
(* permanent redirect itself pointed, and read and sizes what was read of  *)
(* what was there.                                                         *)
Call == [pc       : {"idle", "wait", "send", "done"},
         url      : Urls \cup {Unusable},
         at       : Urls \cup {Unusable},
         wait     : Nat,
         left     : Nat \cup {Forever},
         requests : Nat,
         outcome  : Outcomes \cup {None},
         newUrl   : Urls \cup {Unusable},
         said     : Urls \cup {Unusable},
         read     : Nat,
         size     : Nat]

NoCall == [pc |-> "idle", url |-> Unusable, at |-> Unusable, wait |-> 0,
           left |-> Forever, requests |-> 0, outcome |-> None,
           newUrl |-> Unusable, said |-> Unusable, read |-> 0, size |-> 0]

TypeOK ==
  /\ LimiterTypeOK
  /\ fetch \in [Fetchers -> Call]

Init ==
  /\ LimiterInit
  /\ fetch = [g \in Fetchers |-> NoCall]

-----------------------------------------------------------------------------
Ended(outcome) == [NoCall EXCEPT !.pc = "done", !.outcome = outcome]

Longer(t, wait) == t = Forever \/ t >= wait

Sooner(t, u) == IF t = Forever \/ t > u THEN u ELSE t

HostOf(url) == url.host

(* Fetch begins: the limiter refuses a context that has ended, however     *)
(* many tokens there are, and a wait the context would not outlast, and    *)
(* takes no token for either.                                              *)
Wait(g, u, deadline) ==
  /\ fetch[g].pc = "idle"
  /\ tokens[HostOf(u)] > -MaxDebt
  /\ IF deadline # 0 /\ Longer(deadline, WaitFor(HostOf(u)))
     THEN /\ Reserve(HostOf(u))
          /\ fetch' = [fetch EXCEPT ![g] =
                         [NoCall EXCEPT !.pc = "wait", !.url = u, !.at = u,
                            !.wait = WaitFor(HostOf(u)), !.left = deadline]]
     ELSE /\ fetch' = [fetch EXCEPT ![g] = [Ended("failed") EXCEPT !.url = u]]
          /\ UNCHANGED limiterVars

(* The context ends while waiting: a signal, or the client went away. *)
Cancelled(g) ==
  /\ fetch[g].pc = "wait" /\ fetch[g].wait > 0
  /\ GiveBack(HostOf(fetch[g].url), fetch[g].wait)
  /\ fetch' = [fetch EXCEPT ![g] = Ended("failed")]

(* The wait is over and the request goes out. *)
Send(g) ==
  /\ fetch[g].pc = "wait" /\ fetch[g].wait = 0
  /\ LetThrough(HostOf(fetch[g].url))
  /\ fetch' = [fetch EXCEPT ![g].pc = "send", ![g].requests = 1,
                            ![g].left = Sooner(@, Timeout)]

(* Mistake: a Location is taken for a URL. *)
ResolveNot(base, loc) == loc

Resolve(base, loc) == IF loc.host = None THEN [base EXCEPT !.path = loc.path] ELSE loc

(* CheckRedirect for a temporary redirect (302, 303, 307): the client      *)
(* follows it, resolving the Location itself.  The request it makes waits  *)
(* for no limiter, and so is not in the limiter's history either.          *)
Follow(g, loc) ==
  /\ fetch[g].pc = "send"
  /\ IF fetch[g].requests >= MaxRequests \/ loc = Unusable
     THEN fetch' = [fetch EXCEPT ![g] = Ended("failed")]
     ELSE fetch' = [fetch EXCEPT ![g].at = Resolve(@, loc), ![g].requests = @ + 1]
  /\ UNCHANGED limiterVars

(* A permanent redirect (301, 308) is handed back and becomes the new URL, *)
(* as seen from the feed's URL.                                            *)
Moved(g, loc) ==
  /\ fetch[g].pc = "send"
  /\ fetch' = [fetch EXCEPT ![g] =
       IF fetch[g].requests >= MaxRequests \/ loc = Unusable THEN Ended("failed")
       ELSE [Ended("moved") EXCEPT !.newUrl = Resolve(fetch[g].url, loc),
                                   !.said = Resolve(fetch[g].at, loc)]]
  /\ UNCHANGED limiterVars

(* 304, 410, 429, any other status, a transport error. *)
Answered(g, outcome) ==
  /\ fetch[g].pc = "send"
  /\ fetch' = [fetch EXCEPT ![g] = Ended(outcome)]
  /\ UNCHANGED limiterVars

(* Mistake: the reader stops at the limit and cannot tell what is over. *)
ReadCappedShort(size) == IF size > MaxBody THEN MaxBody ELSE size

(* How much readCapped reads of a body; more than MaxBody is an error.     *)
ReadCapped(size) == IF size > MaxBody + 1 THEN MaxBody + 1 ELSE size

(* A 2xx with a body of a size, whose hash is the stored one or not. *)
Body(g, size, known) ==
  /\ fetch[g].pc = "send"
  /\ LET read == ReadCapped(size) IN
       fetch' = [fetch EXCEPT ![g] =
         IF read > MaxBody THEN Ended("failed")
         ELSE [Ended(IF known THEN "not_modified" ELSE "changed")
                 EXCEPT !.read = read, !.size = size]]
  /\ UNCHANGED limiterVars

(* Mistake: the client has no timeout. *)
ExpireNever(g) ==
  /\ fetch[g].pc = "send" /\ fetch[g].left = 0 /\ fetch[g].requests < 0
  /\ fetch' = [fetch EXCEPT ![g] = Ended("failed")]
  /\ UNCHANGED limiterVars

(* The client's timeout or the context's deadline, which also end a body   *)
(* half read.                                                              *)
Expire(g) ==
  /\ fetch[g].pc = "send" /\ fetch[g].left = 0
  /\ fetch' = [fetch EXCEPT ![g] = Ended("failed")]
  /\ UNCHANGED limiterVars

Return(g) ==
  /\ fetch[g].pc = "done"
  /\ fetch' = [fetch EXCEPT ![g] = NoCall]
  /\ UNCHANGED limiterVars

Less(n) == IF n \in {0, Forever} THEN n ELSE n - 1

(* Timers fire before more time passes. *)
Tick ==
  /\ \A g \in Fetchers :
       /\ fetch[g].pc = "wait" => fetch[g].wait > 0
       /\ fetch[g].pc = "send" => fetch[g].left > 0
  /\ LimiterTick
  /\ fetch' = [g \in Fetchers |->
                 [fetch[g] EXCEPT !.wait = Less(@), !.left = Less(@)]]

-----------------------------------------------------------------------------
Response(g) ==
  \/ \E loc \in Locations : Follow(g, loc) \/ Moved(g, loc)
  \/ \E outcome \in Outcomes \ {"changed", "moved"} : Answered(g, outcome)
  \/ \E size \in {MaxBody, MaxBody + 1}, known \in BOOLEAN :
       Body(g, size, known)

Next ==
  \/ \E g \in Fetchers, u \in Urls, d \in Deadlines : Wait(g, u, d)
  \/ \E g \in Fetchers : Cancelled(g) \/ Send(g) \/ Response(g) \/ Expire(g) \/ Return(g)
  \/ Tick

Spec == Init /\ [][Next]_vars

(* Clocks run and timers fire; no publisher is obliged to answer. *)
FairSpec ==
  /\ Spec
  /\ WF_vars(Tick)
  /\ \A g \in Fetchers : WF_vars(Send(g)) /\ WF_vars(Expire(g))

-----------------------------------------------------------------------------
(* The limiter does not begin fetches of a host's feeds faster than        *)
(* configured: in any stretch of time at most a burst and one per unit of  *)
(* time, whatever waits are given up in between.  A redirect's further     *)
(* requests are not among them (HostLimiter.Wait).                         *)
LimitKept ==
  \A h \in Hosts, a \in 0..Window : sent[h][a] <= Burst + a

(* Half a feed is never taken for a feed: a body counts as read, changed   *)
(* or not, only when all of it was (readCapped).                           *)
WholeBodyOrFailure ==
  \A g \in Fetchers :
    fetch[g].outcome \in {"changed", "not_modified"} => fetch[g].read = fetch[g].size

(* Every fetch ends: the limiter's wait, chains and loops of redirects and *)
(* publishers that never answer are all bounded.                           *)
EveryFetchEnds ==
  \A g \in Fetchers : fetch[g].pc \in {"wait", "send"} ~> fetch[g].pc = "done"

(* "the feed permanently moved to another URL": the one the redirect names.*)
MovedWhereAnnounced ==
  \A g \in Fetchers : fetch[g].outcome = "moved" => fetch[g].newUrl = fetch[g].said
=============================================================================
