------------------------------ MODULE FetchProofs ------------------------------
(***************************************************************************)
(* Theorems about Fetch, for any hosts, callers, deadlines, bursts and     *)
(* bounds.                                                                 *)
(***************************************************************************)
EXTENDS Fetch, FiniteSetTheorems, TLAPS

(* A goroutine that is not fetching holds nothing of an earlier fetch. *)
IdleIsBlank == \A g \in Fetchers : fetch[g].pc = "idle" => fetch[g] = NoCall

(* One that is has a feed to fetch and a URL it is asking. *)
BusyHasUrl ==
  \A g \in Fetchers :
    fetch[g].pc \in {"wait", "send"} => fetch[g].url \in Urls /\ fetch[g].at \in Urls

FetchInv == TypeOK /\ IdleIsBlank /\ BusyHasUrl /\ WholeBodyOrFailure

-----------------------------------------------------------------------------
LEMMA ResolvedIsUrl ==
  ASSUME NEW base \in Urls, NEW loc \in Locations, loc # Unusable
  PROVE  Resolve(base, loc) \in Urls
<1>1. CASE loc.host = None
  <2>1. loc.path \in Paths
    BY <1>1 DEF Locations, Unusable
  <2> QED BY <1>1, <2>1 DEF Resolve, Urls
<1>2. CASE loc.host # None
  BY <1>2 DEF Resolve, Locations, Urls, Unusable
<1> QED BY <1>1, <1>2

LEMMA NoCallIsCall == NoCall \in Call
BY DEF NoCall, Call

LEMMA EndedIsCall ==
  ASSUME NEW outcome \in Outcomes
  PROVE  /\ Ended(outcome) \in Call
         /\ Ended(outcome).pc = "done" /\ Ended(outcome).outcome = outcome
         /\ Ended(outcome).read = 0 /\ Ended(outcome).size = 0
BY DEF Ended, NoCall, Call

LEMMA WaitIsNat ==
  ASSUME LimiterTypeOK, NEW h \in Hosts
  PROVE  WaitFor(h) \in Nat /\ (WaitFor(h) > 0 <=> tokens[h] < 1)
BY DEF LimiterTypeOK, WaitFor

(* What every step but the clock's does to the calls: one goroutine's is   *)
(* replaced, by one that satisfies all there is to satisfy.                *)
Sound(call) ==
  /\ call \in Call
  /\ call.pc = "idle" => call = NoCall
  /\ call.pc \in {"wait", "send"} => call.url \in Urls /\ call.at \in Urls
  /\ call.outcome \in {"changed", "not_modified"} => call.read = call.size

LEMMA SoundCalls ==
  FetchInv <=> /\ LimiterTypeOK
               /\ DOMAIN fetch = Fetchers /\ fetch = [g \in Fetchers |-> fetch[g]]
               /\ \A g \in Fetchers : Sound(fetch[g])
BY DEF FetchInv, TypeOK, IdleIsBlank, BusyHasUrl, WholeBodyOrFailure, Sound

LEMMA OneCallChanged ==
  ASSUME FetchInv, LimiterTypeOK', NEW g \in Fetchers, NEW call, Sound(call),
         fetch' = [fetch EXCEPT ![g] = call]
  PROVE  FetchInv'
<1>1. \A f \in Fetchers : Sound(fetch'[f])
  BY SoundCalls DEF FetchInv
<1> QED BY <1>1 DEF FetchInv, TypeOK, IdleIsBlank, BusyHasUrl, WholeBodyOrFailure, Sound

LEMMA EndedIsSound ==
  ASSUME NEW outcome \in Outcomes
  PROVE  Sound(Ended(outcome))
BY EndedIsCall DEF Sound

-----------------------------------------------------------------------------
(* The bucket of a host that is asked for, given back to, and refilled. *)
LEMMA LimiterTypes ==
  ASSUME LimiterTypeOK
  PROVE  /\ \A h \in Hosts : Reserve(h) => LimiterTypeOK'
         /\ \A h \in Hosts, wait \in Nat : GiveBack(h, wait) => LimiterTypeOK'
         /\ \A h \in Hosts : LetThrough(h) => LimiterTypeOK'
         /\ LimiterTick => LimiterTypeOK'
         /\ UNCHANGED limiterVars => LimiterTypeOK'
<1>1. ASSUME NEW h \in Hosts, Reserve(h) PROVE LimiterTypeOK'
  BY <1>1 DEF Reserve, LimiterTypeOK
<1>2. ASSUME NEW h \in Hosts, NEW wait \in Nat, GiveBack(h, wait) PROVE LimiterTypeOK'
  BY <1>2 DEF GiveBack, LimiterTypeOK
<1>3. ASSUME NEW h \in Hosts, LetThrough(h) PROVE LimiterTypeOK'
  <2>1. ASSUME NEW a \in 0..Window PROVE sent[h][a] + 1 \in Nat
    <3>1. sent[h][a] \in Nat
      BY DEF LimiterTypeOK
    <3> QED BY <3>1
  <2> DEFINE more == [a \in 0..Window |-> sent[h][a] + 1]
  <2>2. more \in [0..Window -> Nat]
    <3> SUFFICES \A a \in 0..Window : sent[h][a] + 1 \in Nat
      BY DEF more
    <3> QED BY <2>1
  <2>3. sent' = [sent EXCEPT ![h] = more] /\ tokens' = tokens
    BY <1>3 DEF LetThrough
  <2> HIDE DEF more
  <2> QED BY <2>2, <2>3 DEF LimiterTypeOK
<1>4. ASSUME LimiterTick PROVE LimiterTypeOK'
  <2>1. tokens' \in [Hosts -> Int]
    BY <1>4, LimiterAssumption DEF LimiterTick, LimiterTypeOK
  <2>2. ASSUME NEW h \in Hosts, NEW a \in 0..Window
        PROVE  (IF a = 0 THEN 0 ELSE sent[h][a - 1]) \in Nat
    <3>1. sent[h] \in [0..Window -> Nat]
      BY DEF LimiterTypeOK
    <3>2. CASE a = 0
      BY <3>2
    <3>3. CASE a # 0
      <4>1. a - 1 \in 0..Window
        BY <3>3, LimiterAssumption
      <4> QED BY <3>1, <3>3, <4>1
    <3> QED BY <3>2, <3>3
  <2>3. sent' \in [Hosts -> [0..Window -> Nat]]
    BY <1>4, <2>2 DEF LimiterTick
  <2> QED BY <2>1, <2>3 DEF LimiterTypeOK
<1>5. ASSUME UNCHANGED limiterVars PROVE LimiterTypeOK'
  BY <1>5 DEF limiterVars, LimiterTypeOK
<1> QED BY <1>1, <1>2, <1>3, <1>4, <1>5

-----------------------------------------------------------------------------
LEMMA WaitStep ==
  ASSUME FetchInv, NEW g \in Fetchers, NEW u \in Urls, NEW d \in Deadlines, Wait(g, u, d)
  PROVE  FetchInv'
<1>1. LimiterTypeOK /\ HostOf(u) \in Hosts /\ WaitFor(HostOf(u)) \in Nat
  BY WaitIsNat DEF FetchInv, TypeOK, HostOf, Urls
<1>2. CASE d # 0 /\ Longer(d, WaitFor(HostOf(u)))
  <2> DEFINE call == [NoCall EXCEPT !.pc = "wait", !.url = u, !.at = u,
                        !.wait = WaitFor(HostOf(u)), !.left = d]
  <2>1. Sound(call)
    BY <1>1, NumbersAssumption DEF Sound, NoCall, Call
  <2>2. LimiterTypeOK' /\ fetch' = [fetch EXCEPT ![g] = call]
    BY <1>1, <1>2, LimiterTypes DEF Wait
  <2> HIDE DEF call
  <2> QED BY <2>1, <2>2, OneCallChanged
<1>3. CASE ~(d # 0 /\ Longer(d, WaitFor(HostOf(u))))
  <2> DEFINE call == [Ended("failed") EXCEPT !.url = u]
  <2>1. Sound(call)
    BY DEF Ended, Sound, NoCall, Call, Outcomes
  <2>2. LimiterTypeOK' /\ fetch' = [fetch EXCEPT ![g] = call]
    BY <1>1, <1>3, LimiterTypes DEF Wait
  <2> HIDE DEF call
  <2> QED BY <2>1, <2>2, OneCallChanged
<1> QED BY <1>2, <1>3

LEMMA CancelledStep ==
  ASSUME FetchInv, NEW g \in Fetchers, Cancelled(g)
  PROVE  FetchInv'
<1>1. fetch[g] \in Call /\ LimiterTypeOK /\ fetch[g].url \in Urls
  BY DEF FetchInv, TypeOK, BusyHasUrl, Cancelled
<1>2. fetch[g].wait \in Nat /\ HostOf(fetch[g].url) \in Hosts
  BY <1>1 DEF Call, HostOf, Urls
<1>3. LimiterTypeOK' /\ fetch' = [fetch EXCEPT ![g] = Ended("failed")]
  BY <1>1, <1>2, LimiterTypes DEF Cancelled
<1>4. Sound(Ended("failed"))
  BY EndedIsSound DEF Outcomes
<1> QED BY <1>3, <1>4, OneCallChanged

LEMMA SendStep ==
  ASSUME FetchInv, NEW g \in Fetchers, Send(g)
  PROVE  FetchInv'
<1> DEFINE call == [fetch[g] EXCEPT !.pc = "send", !.requests = 1,
                                    !.left = Sooner(@, Timeout)]
<1>1. fetch[g] \in Call /\ LimiterTypeOK /\ fetch[g].url \in Urls /\ fetch[g].at \in Urls
  BY DEF FetchInv, TypeOK, BusyHasUrl, Send
<1>2. Sooner(fetch[g].left, Timeout) \in Nat \cup {Forever}
  BY <1>1, NumbersAssumption DEF Sooner, Call
<1>3. Sound(call)
  <2>1. call \in Call
    BY <1>1, <1>2 DEF Call
  <2>2. /\ call.pc = "send" /\ call.outcome = fetch[g].outcome
        /\ call.url \in Urls /\ call.at \in Urls
        /\ call.read = fetch[g].read /\ call.size = fetch[g].size
    BY <1>1 DEF Call
  <2>3. fetch[g].outcome \in {"changed", "not_modified"} => fetch[g].read = fetch[g].size
    BY DEF FetchInv, WholeBodyOrFailure
  <2> HIDE DEF call
  <2> QED BY <2>1, <2>2, <2>3 DEF Sound
<1>4. LimiterTypeOK'
  BY <1>1, LimiterTypes DEF Send, HostOf, Urls
<1>5. fetch' = [fetch EXCEPT ![g] = call]
  BY <1>1 DEF Send, FetchInv, TypeOK
<1> HIDE DEF call
<1> QED BY <1>3, <1>4, <1>5, OneCallChanged

(* What a response makes of a fetch in flight. *)
LEMMA ResponseStep ==
  ASSUME FetchInv, NEW g \in Fetchers, Response(g)
  PROVE  FetchInv'
<1>1. fetch[g] \in Call /\ LimiterTypeOK /\ fetch[g].pc = "send"
  BY DEF FetchInv, TypeOK, Response, Follow, Moved, Answered, Body
<1>2. fetch[g].url \in Urls /\ fetch[g].at \in Urls
  BY <1>1 DEF FetchInv, BusyHasUrl
<1>3. LimiterTypeOK'
  BY <1>1, LimiterTypes DEF Response, Follow, Moved, Answered, Body
<1>4. Sound(Ended("failed"))
  BY EndedIsSound DEF Outcomes
<1>5. ASSUME NEW loc \in Locations, Follow(g, loc)
      PROVE  FetchInv'
  <2>1. CASE fetch[g].requests >= MaxRequests \/ loc = Unusable
    BY <1>3, <1>4, <1>5, <2>1, OneCallChanged DEF Follow
  <2>2. CASE ~(fetch[g].requests >= MaxRequests \/ loc = Unusable)
    <3> DEFINE call == [fetch[g] EXCEPT !.at = Resolve(@, loc), !.requests = @ + 1]
    <3>1. Resolve(fetch[g].at, loc) \in Urls
      BY <1>2, <2>2, ResolvedIsUrl
    <3>2. call \in Call
      <4>1. fetch[g].requests + 1 \in Nat
        BY <1>1 DEF Call
      <4> QED BY <1>1, <3>1, <4>1 DEF Call
    <3>3. /\ call.pc = "send" /\ call.outcome = fetch[g].outcome
          /\ call.url \in Urls /\ call.at \in Urls
          /\ call.read = fetch[g].read /\ call.size = fetch[g].size
      BY <1>1, <1>2, <3>1 DEF Call
    <3>4. fetch[g].outcome \in {"changed", "not_modified"} => fetch[g].read = fetch[g].size
      BY DEF FetchInv, WholeBodyOrFailure
    <3>5. fetch' = [fetch EXCEPT ![g] = call]
      BY <1>5, <2>2 DEF Follow
    <3> HIDE DEF call
    <3>6. Sound(call)
      BY <3>2, <3>3, <3>4 DEF Sound
    <3> QED BY <1>3, <3>5, <3>6, OneCallChanged
  <2> QED BY <2>1, <2>2
<1>6. ASSUME NEW loc \in Locations, Moved(g, loc)
      PROVE  FetchInv'
  <2>1. CASE fetch[g].requests >= MaxRequests \/ loc = Unusable
    BY <1>3, <1>4, <1>6, <2>1, OneCallChanged DEF Moved
  <2>2. CASE ~(fetch[g].requests >= MaxRequests \/ loc = Unusable)
    <3> DEFINE call == [Ended("moved") EXCEPT !.newUrl = Resolve(fetch[g].url, loc),
                                              !.said = Resolve(fetch[g].at, loc)]
    <3>1. Resolve(fetch[g].at, loc) \in Urls /\ Resolve(fetch[g].url, loc) \in Urls
      BY <1>2, <2>2, ResolvedIsUrl
    <3>2. Sound(call)
      BY <3>1 DEF Sound, Ended, NoCall, Call, Outcomes
    <3>3. fetch' = [fetch EXCEPT ![g] = call]
      BY <1>6, <2>2 DEF Moved
    <3> HIDE DEF call
    <3> QED BY <1>3, <3>2, <3>3, OneCallChanged
  <2> QED BY <2>1, <2>2
<1>7. ASSUME NEW outcome \in Outcomes \ {"changed", "moved"}, Answered(g, outcome)
      PROVE  FetchInv'
  BY <1>3, <1>7, EndedIsSound, OneCallChanged DEF Answered
<1>8. ASSUME NEW size \in {MaxBody, MaxBody + 1}, NEW known \in BOOLEAN, Body(g, size, known)
      PROVE  FetchInv'
  <2>1. CASE ReadCapped(size) > MaxBody
    BY <1>3, <1>4, <1>8, <2>1, OneCallChanged DEF Body
  <2>2. CASE ~(ReadCapped(size) > MaxBody)
    <3> DEFINE outcome == IF known THEN "not_modified" ELSE "changed"
               call == [Ended(outcome) EXCEPT !.read = ReadCapped(size), !.size = size]
    <3>1. ReadCapped(size) = size /\ size \in Nat
      BY <2>2, NumbersAssumption DEF ReadCapped
    <3>2. Ended(outcome) \in Call /\ Ended(outcome).pc = "done"
      BY EndedIsCall DEF Outcomes
    <3>3. Sound(call)
      <4> HIDE DEF outcome
      <4> QED BY <3>1, <3>2 DEF Sound, Call
    <3>4. fetch' = [fetch EXCEPT ![g] = call]
      BY <1>8, <2>2 DEF Body
    <3> HIDE DEF call
    <3> QED BY <1>3, <3>3, <3>4, OneCallChanged
  <2> QED BY <2>1, <2>2
<1> QED BY <1>5, <1>6, <1>7, <1>8 DEF Response

LEMMA TickStep ==
  ASSUME FetchInv, Tick
  PROVE  FetchInv'
<1>1. LimiterTypeOK'
  BY LimiterTypes DEF FetchInv, TypeOK, Tick
<1>2. ASSUME NEW g \in Fetchers
      PROVE  Sound(fetch'[g])
  <2> DEFINE call == [fetch[g] EXCEPT !.wait = Less(@), !.left = Less(@)]
  <2>1. fetch[g] \in Call /\ fetch'[g] = call
    BY DEF FetchInv, TypeOK, Tick
  <2>2. Less(fetch[g].wait) \in Nat /\ Less(fetch[g].left) \in Nat \cup {Forever}
    BY <2>1, NumbersAssumption DEF Less, Call
  <2>3. call \in Call
    BY <2>1, <2>2 DEF Call
  <2>4. /\ call.pc = fetch[g].pc /\ call.outcome = fetch[g].outcome
        /\ call.url = fetch[g].url /\ call.at = fetch[g].at
        /\ call.read = fetch[g].read /\ call.size = fetch[g].size
    BY <2>1 DEF Call
  <2>5. fetch[g].pc = "idle" => call = NoCall
    <3>1. Less(NoCall.wait) = NoCall.wait /\ Less(NoCall.left) = NoCall.left
      BY DEF NoCall, Less
    <3>2. [NoCall EXCEPT !.wait = NoCall.wait, !.left = NoCall.left] = NoCall
      BY DEF NoCall
    <3> QED BY <3>1, <3>2 DEF FetchInv, IdleIsBlank
  <2>6. Sound(fetch[g])
    BY SoundCalls
  <2> HIDE DEF call
  <2> QED BY <2>1, <2>3, <2>4, <2>5, <2>6 DEF Sound
<1>3. DOMAIN fetch' = Fetchers /\ fetch' = [g \in Fetchers |-> fetch'[g]]
  BY DEF Tick
<1> QED BY <1>1, <1>2, <1>3
        DEF FetchInv, TypeOK, IdleIsBlank, BusyHasUrl, WholeBodyOrFailure, Sound

(* The calls and the buckets keep their types and the rest of FetchInv. *)
LEMMA FetchInvariant == Spec => []FetchInv
<1>1. Init => FetchInv
  <2> SUFFICES ASSUME Init PROVE FetchInv
    OBVIOUS
  <2>1. LimiterTypeOK
    BY LimiterAssumption DEF Init, LimiterInit, LimiterTypeOK
  <2>2. Sound(NoCall)
    BY NoCallIsCall DEF Sound, NoCall
  <2> QED BY <2>1, <2>2 DEF Init, FetchInv, TypeOK, IdleIsBlank, BusyHasUrl,
                            WholeBodyOrFailure, Sound
<1>2. FetchInv /\ [Next]_vars => FetchInv'
  <2> SUFFICES ASSUME FetchInv, [Next]_vars PROVE FetchInv'
    OBVIOUS
  <2>1. ASSUME NEW g \in Fetchers, NEW u \in Urls, NEW d \in Deadlines, Wait(g, u, d)
        PROVE  FetchInv'
    BY <2>1, WaitStep
  <2>2. ASSUME NEW g \in Fetchers, Cancelled(g) PROVE FetchInv'
    BY <2>2, CancelledStep
  <2>3. ASSUME NEW g \in Fetchers, Send(g) PROVE FetchInv'
    BY <2>3, SendStep
  <2>4. ASSUME NEW g \in Fetchers, Response(g) PROVE FetchInv'
    BY <2>4, ResponseStep
  <2>5. ASSUME NEW g \in Fetchers, Expire(g) PROVE FetchInv'
    BY <2>5, LimiterTypes, EndedIsSound, OneCallChanged
       DEF Expire, FetchInv, TypeOK, Outcomes
  <2>6. ASSUME NEW g \in Fetchers, Return(g) PROVE FetchInv'
    <3>1. Sound(NoCall)
      BY NoCallIsCall DEF Sound, NoCall
    <3>2. LimiterTypeOK'
      BY <2>6, LimiterTypes DEF Return, FetchInv, TypeOK
    <3> QED BY <2>6, <3>1, <3>2, OneCallChanged DEF Return
  <2>7. CASE Tick
    BY <2>7, TickStep
  <2>8. CASE UNCHANGED vars
    BY <2>8 DEF vars, FetchInv, TypeOK, LimiterTypeOK, IdleIsBlank, BusyHasUrl,
                WholeBodyOrFailure
  <2> QED BY <2>1, <2>2, <2>3, <2>4, <2>5, <2>6, <2>7, <2>8 DEF Next
<1> QED BY <1>1, <1>2, PTL DEF Spec

(* Calls, waits and buckets are well-formed: a redirect is resolved before *)
(* it is followed, so that whatever chain the publishers make, a fetch     *)
(* asks for URLs only (Fetcher.Fetch, CheckRedirect).                      *)
THEOREM FetchTypeCorrect == Spec => []TypeOK
<1>1. FetchInv => TypeOK
  BY DEF FetchInv
<1> QED BY <1>1, FetchInvariant, PTL

(* A truncated body never passes for a feed, whatever the cap (readCapped).*)
THEOREM NeverHalfAFeed == Spec => []WholeBodyOrFailure
<1>1. FetchInv => WholeBodyOrFailure
  BY DEF FetchInv
<1> QED BY <1>1, FetchInvariant, PTL

-----------------------------------------------------------------------------
(* Why the rate is kept.  A fetch waits for a host in one of two ways: its *)
(* wait is over and the request is due, or its wait is still to come.      *)
Waiting(h) == {g \in Fetchers : fetch[g].pc = "wait" /\ HostOf(fetch[g].url) = h}
Ready(h) == {g \in Waiting(h) : fetch[g].wait = 0}
InHand(h) == IF tokens[h] > 0 THEN tokens[h] ELSE 0

(* The waits to come end at different times, within the debt: a token that *)
(* is given back was the last one reserved, and no two fetches are due at  *)
(* once because of a debt.                                                 *)
Queued(h) ==
  /\ \A g \in Waiting(h) \ Ready(h) : fetch[g].wait <= -tokens[h]
  /\ \A f, g \in Waiting(h) \ Ready(h) : f # g => fetch[f].wait # fetch[g].wait

(* What was sent, is due and could be had at once is within the limit. *)
Accounted(h) ==
  /\ tokens[h] <= Burst
  /\ IsFiniteSet(Ready(h))
  /\ \A a \in 0..Window : sent[h][a] + Cardinality(Ready(h)) + InHand(h) <= Burst + a

RateInv == \A h \in Hosts : Queued(h) /\ Accounted(h)

LEMMA BucketTypes ==
  ASSUME FetchInv, NEW h \in Hosts
  PROVE  /\ tokens[h] \in Int /\ InHand(h) \in Nat
         /\ \A a \in 0..Window : sent[h][a] \in Nat
         /\ \A g \in Waiting(h) : fetch[g].wait \in Nat
<1>1. tokens[h] \in Int /\ \A a \in 0..Window : sent[h][a] \in Nat
  BY DEF FetchInv, TypeOK, LimiterTypeOK
<1>2. ASSUME NEW g \in Waiting(h) PROVE fetch[g].wait \in Nat
  BY DEF Waiting, FetchInv, TypeOK, Call
<1> QED BY <1>1, <1>2 DEF InHand

(* A host whose bucket and whose waiting fetches stay as they are. *)
LEMMA HostUntouched ==
  ASSUME NEW h \in Hosts, Queued(h), Accounted(h),
         tokens'[h] = tokens[h], sent'[h] = sent[h],
         Waiting(h)' = Waiting(h),
         \A g \in Waiting(h) : fetch'[g].wait = fetch[g].wait
  PROVE  Queued(h)' /\ Accounted(h)'
<1>1. Ready(h)' = Ready(h)
  BY DEF Ready
<1>2. InHand(h)' = InHand(h)
  BY DEF InHand
<1>3. Queued(h)'
  BY <1>1 DEF Queued
<1>4. Accounted(h)'
  BY <1>1, <1>2 DEF Accounted
<1> QED BY <1>3, <1>4

(* One goroutine's call is replaced: the other fetches wait as they did. *)
LEMMA OneWaiterChanged ==
  ASSUME FetchInv, NEW g \in Fetchers, NEW call, fetch' = [fetch EXCEPT ![g] = call],
         NEW h \in Hosts
  PROVE  /\ Waiting(h)' = IF call.pc = "wait" /\ HostOf(call.url) = h
                          THEN Waiting(h) \cup {g} ELSE Waiting(h) \ {g}
         /\ fetch'[g] = call
         /\ \A f \in Fetchers \ {g} : fetch'[f] = fetch[f]
<1>1. fetch'[g] = call /\ \A f \in Fetchers \ {g} : fetch'[f] = fetch[f]
  BY DEF FetchInv, TypeOK
<1> QED BY <1>1 DEF Waiting

(* Steps of a goroutine that neither waits nor will: nothing changes. *)
LEMMA NotWaiting ==
  ASSUME FetchInv, RateInv, UNCHANGED limiterVars, NEW g \in Fetchers, NEW call,
         fetch' = [fetch EXCEPT ![g] = call], fetch[g].pc # "wait", call.pc # "wait"
  PROVE  RateInv'
<1> SUFFICES ASSUME NEW h \in Hosts PROVE Queued(h)' /\ Accounted(h)'
  BY DEF RateInv
<1>1. g \notin Waiting(h)
  BY DEF Waiting
<1>2. Waiting(h)' = Waiting(h) /\ \A f \in Waiting(h) : fetch'[f].wait = fetch[f].wait
  BY <1>1, OneWaiterChanged DEF Waiting
<1>3. tokens' = tokens /\ sent' = sent
  BY DEF limiterVars
<1> QED BY <1>2, <1>3, HostUntouched DEF RateInv

(* A reservation: the request is due at once, for a token in hand, or      *)
(* after all those that wait already.                                      *)
LEMMA WaitRate ==
  ASSUME FetchInv, RateInv, NEW g \in Fetchers, NEW u \in Urls, NEW d \in Deadlines,
         Wait(g, u, d)
  PROVE  RateInv'
<1> DEFINE host == HostOf(u)
<1>1. fetch[g].pc = "idle" /\ host \in Hosts
  BY DEF Wait, HostOf, Urls
<1>2. CASE d # 0 /\ Longer(d, WaitFor(host))
  <2> DEFINE call == [NoCall EXCEPT !.pc = "wait", !.url = u, !.at = u,
                        !.wait = WaitFor(host), !.left = d]
  <2>1. call.pc = "wait" /\ call.url = u /\ call.wait = WaitFor(host)
    BY DEF NoCall
  <2>2. fetch' = [fetch EXCEPT ![g] = call] /\ Reserve(host)
    BY <1>2 DEF Wait
  <2> HIDE DEF call
  <2> SUFFICES ASSUME NEW h \in Hosts PROVE Queued(h)' /\ Accounted(h)'
    BY DEF RateInv
  <2>3. Queued(h) /\ Accounted(h) /\ g \notin Waiting(h)
    BY <1>1 DEF RateInv, Waiting
  <2>4. sent' = sent /\ tokens'[h] = IF h = host THEN tokens[h] - 1 ELSE tokens[h]
    BY <2>2 DEF Reserve, FetchInv, TypeOK, LimiterTypeOK
  <2>5. /\ Waiting(h)' = IF h = host THEN Waiting(h) \cup {g} ELSE Waiting(h)
        /\ fetch'[g] = call
        /\ \A f \in Waiting(h) : fetch'[f] = fetch[f] /\ f # g
    <3>1. /\ Waiting(h)' = IF call.pc = "wait" /\ HostOf(call.url) = h
                           THEN Waiting(h) \cup {g} ELSE Waiting(h) \ {g}
          /\ fetch'[g] = call
          /\ \A f \in Fetchers \ {g} : fetch'[f] = fetch[f]
      BY <2>2, OneWaiterChanged
    <3>2. Waiting(h) \subseteq Fetchers \ {g} /\ Waiting(h) \ {g} = Waiting(h)
      BY <2>3 DEF Waiting
    <3> QED BY <2>1, <3>1, <3>2
  <2>6. CASE h # host
    BY <2>3, <2>4, <2>5, <2>6, HostUntouched
  <2>7. CASE h = host /\ tokens[h] >= 1
    <3>1. tokens[h] \in Int /\ \A f \in Waiting(h) : fetch[f].wait \in Nat
      BY BucketTypes
    <3>2. call.wait = 0
      BY <2>1, <2>7 DEF WaitFor
    <3>3. Waiting(h) = Ready(h)
      BY <2>3, <2>7, <3>1 DEF Queued, Ready
    <3>4. Ready(h)' = Ready(h) \cup {g} /\ Waiting(h)' = Ready(h)'
      BY <2>5, <2>7, <3>2, <3>3 DEF Ready
    <3>5. Queued(h)'
      BY <3>4 DEF Queued
    <3>6. /\ IsFiniteSet(Ready(h)) /\ Cardinality(Ready(h)) \in Nat
          /\ IsFiniteSet(Ready(h)') /\ Cardinality(Ready(h)') = Cardinality(Ready(h)) + 1
      BY <2>3, <3>3, <3>4, FS_AddElement, FS_CardinalityType DEF Accounted
    <3>7. InHand(h)' = InHand(h) - 1 /\ InHand(h) \in Nat
      BY <2>4, <2>7, <3>1 DEF InHand
    <3>8. \A a \in 0..Window : sent'[h][a] = sent[h][a] /\ sent[h][a] \in Nat
      BY <2>4, BucketTypes
    <3> DEFINE n == Cardinality(Ready(h))
    <3>9. \A a \in 0..Window : sent[h][a] + n + InHand(h) <= Burst + a
      BY <2>3 DEF Accounted
    <3>10. tokens'[h] <= Burst
      BY <2>3, <2>4, <2>7, <3>1, LimiterAssumption DEF Accounted
    <3> HIDE DEF n
    <3>11. \A a \in 0..Window : sent'[h][a] + Cardinality(Ready(h)') + InHand(h)' <= Burst + a
      BY <3>6, <3>7, <3>8, <3>9, LimiterAssumption DEF n
    <3> QED BY <3>5, <3>6, <3>10, <3>11 DEF Accounted
  <2>8. CASE h = host /\ ~(tokens[h] >= 1)
    <3>1. tokens[h] \in Int /\ \A f \in Waiting(h) : fetch[f].wait \in Nat
      BY BucketTypes
    <3>2. call.wait = 1 - tokens[h] /\ call.wait > 0 /\ tokens'[h] = tokens[h] - 1
      BY <2>1, <2>4, <2>8, <3>1 DEF WaitFor
    <3>3. Ready(h)' = Ready(h)
      BY <2>5, <2>8, <3>1, <3>2 DEF Ready
    <3>4. Queued(h)'
      <4>1. ASSUME NEW f \in Waiting(h)' \ Ready(h)'
            PROVE  /\ fetch'[f].wait <= -tokens'[h]
                   /\ f # g => fetch'[f].wait < call.wait /\ fetch'[f] = fetch[f]
                               /\ f \in Waiting(h) \ Ready(h)
                   /\ f = g => fetch'[f].wait = call.wait
        BY <2>3, <2>5, <2>8, <3>1, <3>2, <3>3 DEF Queued
      <4>2. ASSUME NEW e \in Waiting(h)' \ Ready(h)', NEW f \in Waiting(h)' \ Ready(h)', e # f
            PROVE  fetch'[e].wait # fetch'[f].wait
        <5>1. CASE e # g /\ f # g
          BY <2>3, <4>1, <4>2, <5>1 DEF Queued
        <5>2. CASE e = g /\ f # g
          <6>1. fetch[f].wait \in Nat /\ fetch'[f] = fetch[f] /\ fetch[f].wait < call.wait
            BY <3>1, <4>1, <5>2
          <6> QED BY <3>1, <3>2, <4>1, <5>2, <6>1
        <5>3. CASE e # g /\ f = g
          <6>1. fetch[e].wait \in Nat /\ fetch'[e] = fetch[e] /\ fetch[e].wait < call.wait
            BY <3>1, <4>1, <5>3
          <6> QED BY <3>1, <3>2, <4>1, <5>3, <6>1
        <5> QED BY <4>2, <5>1, <5>2, <5>3
      <4> QED BY <4>1, <4>2 DEF Queued
    <3>5. InHand(h)' = InHand(h) /\ tokens'[h] <= Burst
      BY <2>8, <3>1, <3>2, LimiterAssumption DEF InHand
    <3>6. Accounted(h)'
      BY <2>3, <2>4, <3>3, <3>5 DEF Accounted
    <3> QED BY <3>4, <3>6
  <2> QED BY <2>6, <2>7, <2>8
<1>3. CASE ~(d # 0 /\ Longer(d, WaitFor(host)))
  <2> DEFINE call == [Ended("failed") EXCEPT !.url = u]
  <2>1. call.pc = "done"
    BY DEF Ended, NoCall
  <2>2. fetch' = [fetch EXCEPT ![g] = call] /\ UNCHANGED limiterVars
    BY <1>3 DEF Wait
  <2> HIDE DEF call
  <2> QED BY <1>1, <2>1, <2>2, NotWaiting
<1> QED BY <1>2, <1>3

(* What follows the sending of a request leaves the limiter alone. *)
LEMMA AfterSending ==
  ASSUME FetchInv, NEW g \in Fetchers, Response(g) \/ Expire(g) \/ Return(g)
  PROVE  /\ fetch[g].pc # "wait" /\ UNCHANGED limiterVars
         /\ \E call : call.pc # "wait" /\ fetch' = [fetch EXCEPT ![g] = call]
<1> DEFINE Replaced == \E call : call.pc # "wait" /\ fetch' = [fetch EXCEPT ![g] = call]
<1>1. fetch[g].pc # "wait" /\ UNCHANGED limiterVars
  BY DEF Response, Follow, Moved, Answered, Body, Expire, Return
<1>2. NoCall.pc = "idle" /\ \A outcome : Ended(outcome).pc = "done"
  BY DEF NoCall, Ended
<1>3. ASSUME NEW loc \in Locations, Follow(g, loc) PROVE Replaced
  <2> DEFINE call == [fetch[g] EXCEPT !.at = Resolve(@, loc), !.requests = @ + 1]
  <2>1. fetch[g].pc = "send" /\ fetch[g] \in Call
    BY <1>3 DEF Follow, FetchInv, TypeOK
  <2>2. call.pc = "send"
    BY <2>1 DEF Call
  <2>3. fetch' = [fetch EXCEPT ![g] = Ended("failed")] \/ fetch' = [fetch EXCEPT ![g] = call]
    BY <1>3 DEF Follow
  <2> HIDE DEF call
  <2> QED BY <1>2, <2>2, <2>3
<1>4. ASSUME NEW loc \in Locations, Moved(g, loc) PROVE Replaced
  <2> DEFINE call == [Ended("moved") EXCEPT !.newUrl = Resolve(fetch[g].url, loc),
                                            !.said = Resolve(fetch[g].at, loc)]
  <2>1. call.pc = "done"
    BY DEF Ended, NoCall
  <2>2. fetch' = [fetch EXCEPT ![g] = Ended("failed")] \/ fetch' = [fetch EXCEPT ![g] = call]
    BY <1>4 DEF Moved
  <2> HIDE DEF call
  <2> QED BY <1>2, <2>1, <2>2
<1>5. ASSUME NEW size, NEW known, Body(g, size, known) PROVE Replaced
  <2> DEFINE outcome == IF known THEN "not_modified" ELSE "changed"
             call == [Ended(outcome) EXCEPT !.read = ReadCapped(size), !.size = size]
  <2>1. call.pc = "done"
    BY DEF Ended, NoCall
  <2>2. fetch' = [fetch EXCEPT ![g] = Ended("failed")] \/ fetch' = [fetch EXCEPT ![g] = call]
    BY <1>5 DEF Body
  <2> HIDE DEF call
  <2> QED BY <1>2, <2>1, <2>2
<1>6. ASSUME NEW outcome, Answered(g, outcome) PROVE Replaced
  BY <1>2, <1>6 DEF Answered
<1>7. ASSUME Expire(g) \/ Return(g) PROVE Replaced
  BY <1>2, <1>7 DEF Expire, Return
<1>8. Replaced
  <2> HIDE DEF Replaced
  <2> QED BY <1>3, <1>4, <1>5, <1>6, <1>7 DEF Response
<1> QED BY <1>1, <1>8

(* A wait given up: the token goes back only if it was the last reserved,  *)
(* and then no wait that is left is as long as the debt was.               *)
LEMMA CancelledRate ==
  ASSUME FetchInv, RateInv, NEW g \in Fetchers, Cancelled(g)
  PROVE  RateInv'
<1> DEFINE host == HostOf(fetch[g].url)
           call == Ended("failed")
<1>1. call.pc = "done" /\ fetch' = [fetch EXCEPT ![g] = call]
  BY DEF Cancelled, Ended, NoCall
<1>2. GiveBack(host, fetch[g].wait) /\ fetch[g].wait > 0 /\ fetch[g].pc = "wait"
  BY DEF Cancelled
<1> HIDE DEF call
<1> SUFFICES ASSUME NEW h \in Hosts PROVE Queued(h)' /\ Accounted(h)'
  BY DEF RateInv
<1>3. Queued(h) /\ Accounted(h)
  BY DEF RateInv
<1>4. /\ Waiting(h)' = Waiting(h) \ {g}
      /\ \A f \in Waiting(h)' : fetch'[f] = fetch[f]
  BY <1>1, OneWaiterChanged DEF Waiting
<1>5. sent' = sent
  BY <1>2 DEF GiveBack
<1>6. CASE h # host
  <2>1. g \notin Waiting(h)
    BY <1>6 DEF Waiting
  <2>2. tokens'[h] = tokens[h]
    BY <1>2, <1>6 DEF GiveBack, FetchInv, TypeOK, LimiterTypeOK
  <2>3. Waiting(h)' = Waiting(h)
    BY <1>4, <2>1
  <2> QED BY <1>3, <1>4, <1>5, <2>2, <2>3, HostUntouched
<1>7. CASE h = host
  <2>1. g \in Waiting(h) \ Ready(h) /\ fetch[g].wait \in Nat
    <3>1. g \in Waiting(h)
      BY <1>2, <1>7 DEF Waiting
    <3> QED BY <1>2, <3>1, BucketTypes DEF Ready
  <2>2. tokens[h] \in Int /\ fetch[g].wait <= -tokens[h]
    BY <1>3, <2>1, BucketTypes DEF Queued
  <2>3. tokens'[h] = IF -tokens[h] = fetch[g].wait THEN tokens[h] + 1 ELSE tokens[h]
    BY <1>2, <1>7 DEF GiveBack, FetchInv, TypeOK, LimiterTypeOK
  <2>4. Ready(h)' = Ready(h)
    BY <1>4, <2>1 DEF Ready
  <2>5. ASSUME NEW f \in Waiting(h)' \ Ready(h)'
        PROVE  /\ f \in Waiting(h) \ Ready(h) /\ fetch'[f] = fetch[f]
               /\ fetch[f].wait <= -tokens'[h]
    <3>1. f \in Waiting(h) \ Ready(h) /\ fetch'[f] = fetch[f] /\ f # g
      BY <1>4, <2>4
    <3>2. fetch[f].wait \in Nat /\ fetch[f].wait <= -tokens[h] /\ fetch[f].wait # fetch[g].wait
      BY <1>3, <2>1, <3>1, BucketTypes DEF Queued
    <3> QED BY <2>2, <2>3, <3>1, <3>2
  <2>6. Queued(h)'
    BY <1>3, <2>5 DEF Queued
  <2>7. InHand(h)' = InHand(h) /\ tokens'[h] <= Burst
    BY <1>2, <2>1, <2>2, <2>3, LimiterAssumption DEF InHand
  <2>8. Accounted(h)'
    BY <1>3, <1>5, <2>4, <2>7 DEF Accounted
  <2> QED BY <2>6, <2>8
<1> QED BY <1>6, <1>7

(* A request goes out: it was due, and now it is sent. *)
LEMMA SendRate ==
  ASSUME FetchInv, RateInv, NEW g \in Fetchers, Send(g)
  PROVE  RateInv'
<1> DEFINE host == HostOf(fetch[g].url)
           call == [fetch[g] EXCEPT !.pc = "send", !.requests = 1,
                                    !.left = Sooner(@, Timeout)]
<1>1. fetch' = [fetch EXCEPT ![g] = call]
  BY DEF Send, FetchInv, TypeOK
<1>2. call.pc = "send"
  BY DEF FetchInv, TypeOK, Call
<1>3. LetThrough(host) /\ fetch[g].wait = 0 /\ fetch[g].pc = "wait"
  BY DEF Send
<1> HIDE DEF call
<1> SUFFICES ASSUME NEW h \in Hosts PROVE Queued(h)' /\ Accounted(h)'
  BY DEF RateInv
<1>4. Queued(h) /\ Accounted(h)
  BY DEF RateInv
<1>5. /\ Waiting(h)' = Waiting(h) \ {g}
      /\ \A f \in Waiting(h)' : fetch'[f] = fetch[f]
  BY <1>1, <1>2, OneWaiterChanged DEF Waiting
<1>6. tokens' = tokens
  BY <1>3 DEF LetThrough
<1>7. CASE h # host
  <2>1. g \notin Waiting(h)
    BY <1>7 DEF Waiting
  <2>2. sent'[h] = sent[h]
    BY <1>3, <1>7 DEF LetThrough, FetchInv, TypeOK, LimiterTypeOK
  <2>3. Waiting(h)' = Waiting(h)
    BY <1>5, <2>1
  <2> QED BY <1>4, <1>5, <1>6, <2>2, <2>3, HostUntouched
<1>8. CASE h = host
  <2>1. g \in Ready(h)
    BY <1>3, <1>8 DEF Ready, Waiting
  <2>2. Ready(h)' = Ready(h) \ {g}
    BY <1>5 DEF Ready
  <2>3. Queued(h)'
    BY <1>4, <1>5, <1>6, <2>1, <2>2 DEF Queued
  <2>4. ASSUME NEW a \in 0..Window
        PROVE  sent[h][a] \in Nat /\ sent'[h][a] = sent[h][a] + 1
    BY <1>3, <1>8, BucketTypes DEF LetThrough, FetchInv, TypeOK, LimiterTypeOK
  <2>5. /\ IsFiniteSet(Ready(h)) /\ Cardinality(Ready(h)) \in Nat
        /\ IsFiniteSet(Ready(h)') /\ Cardinality(Ready(h)') = Cardinality(Ready(h)) - 1
    BY <1>4, <2>1, <2>2, FS_RemoveElement, FS_CardinalityType DEF Accounted
  <2>6. InHand(h)' = InHand(h) /\ InHand(h) \in Nat
    BY <1>6, BucketTypes DEF InHand
  <2> DEFINE n == Cardinality(Ready(h))
  <2>7. \A a \in 0..Window : sent[h][a] + n + InHand(h) <= Burst + a
    BY <1>4 DEF Accounted
  <2>8. n \in Nat /\ Cardinality(Ready(h)') = n - 1
    BY <2>5
  <2> HIDE DEF n
  <2>9. \A a \in 0..Window : sent'[h][a] + Cardinality(Ready(h)') + InHand(h)' <= Burst + a
    BY <2>4, <2>6, <2>7, <2>8, LimiterAssumption
  <2> QED BY <1>4, <1>6, <2>3, <2>5, <2>9 DEF Accounted
<1> QED BY <1>7, <1>8

(* Time passes when nothing is due: every bucket gains a token, every wait *)
(* is one shorter, and at most one of a host's fetches becomes due.        *)
LEMMA TickRate ==
  ASSUME FetchInv, RateInv, Tick
  PROVE  RateInv'
<1> SUFFICES ASSUME NEW h \in Hosts PROVE Queued(h)' /\ Accounted(h)'
  BY DEF RateInv
<1>1. Queued(h) /\ Accounted(h)
  BY DEF RateInv
<1>2. tokens[h] \in Int /\ \A g \in Waiting(h) : fetch[g].wait \in Nat
  BY BucketTypes
<1>3. \A g \in Waiting(h) : fetch[g].wait > 0
  BY <1>2 DEF Tick, Waiting
<1>4. Ready(h) = {} /\ Waiting(h) \ Ready(h) = Waiting(h)
  BY <1>3 DEF Ready
<1>5. ASSUME NEW g \in Fetchers
      PROVE  /\ fetch'[g].pc = fetch[g].pc /\ fetch'[g].url = fetch[g].url
             /\ fetch'[g].wait = Less(fetch[g].wait)
  <2>1. fetch[g] \in Call /\ fetch'[g] = [fetch[g] EXCEPT !.wait = Less(@), !.left = Less(@)]
    BY DEF Tick, FetchInv, TypeOK
  <2> QED BY <2>1 DEF Call
<1>6. Waiting(h)' = Waiting(h)
  BY <1>5 DEF Waiting
<1>7. \A g \in Waiting(h) : fetch'[g].wait = fetch[g].wait - 1
  BY <1>2, <1>3, <1>5, NumbersAssumption DEF Less, Waiting
<1>8. tokens'[h] = IF tokens[h] < Burst THEN tokens[h] + 1 ELSE Burst
  BY DEF Tick, LimiterTick
<1>9. Queued(h)'
  <2>1. ASSUME NEW g \in Waiting(h)' PROVE fetch'[g].wait <= -tokens'[h]
    <3>1. fetch[g].wait \in Nat /\ fetch[g].wait > 0 /\ fetch[g].wait <= -tokens[h]
      BY <1>1, <1>2, <1>3, <1>4, <1>6 DEF Queued
    <3>2. fetch'[g].wait = fetch[g].wait - 1
      BY <1>6, <1>7
    <3> QED BY <1>2, <1>8, <3>1, <3>2, LimiterAssumption
  <2>2. ASSUME NEW f \in Waiting(h)', NEW g \in Waiting(h)', f # g
        PROVE  fetch'[f].wait # fetch'[g].wait
    <3>1. /\ fetch[f].wait # fetch[g].wait /\ fetch[f].wait \in Nat /\ fetch[g].wait \in Nat
          /\ fetch'[f].wait = fetch[f].wait - 1 /\ fetch'[g].wait = fetch[g].wait - 1
      BY <1>1, <1>2, <1>4, <1>6, <1>7, <2>2 DEF Queued
    <3> QED BY <3>1
  <2> QED BY <2>1, <2>2 DEF Queued
<1>10. /\ IsFiniteSet(Ready(h)') /\ Cardinality(Ready(h)') \in 0..1
       /\ Cardinality(Ready(h)') = 1 => tokens[h] < 0
  <2>1. CASE Ready(h)' = {}
    BY <2>1, FS_EmptySet
  <2>2. CASE Ready(h)' # {}
    <3>1. PICK g \in Ready(h)' : TRUE
      BY <2>2
    <3>2. ASSUME NEW f \in Ready(h)' PROVE f \in Waiting(h) /\ fetch[f].wait = 1
      <4>1. f \in Waiting(h) /\ fetch'[f].wait = 0
        BY <1>6 DEF Ready
      <4> QED BY <1>2, <1>7, <4>1
    <3>3. Ready(h)' = {g}
      BY <1>1, <1>4, <3>1, <3>2 DEF Queued
    <3>4. tokens[h] < 0
      <4>1. fetch[g].wait <= -tokens[h] /\ fetch[g].wait = 1
        BY <1>1, <1>4, <3>1, <3>2 DEF Queued
      <4> QED BY <1>2, <4>1
    <3>5. IsFiniteSet({g}) /\ Cardinality({g}) = 1
      BY FS_Singleton
    <3> QED BY <3>3, <3>4, <3>5
  <2> QED BY <2>1, <2>2
<1>11. tokens'[h] <= Burst
  BY <1>2, <1>8, LimiterAssumption
<1> DEFINE n == Cardinality(Ready(h)')
<1>12. ASSUME NEW a \in 0..Window
       PROVE  sent'[h][a] + n + InHand(h)' <= Burst + a
  <2>1. n \in 0..1 /\ (n = 1 => tokens[h] < 0)
    BY <1>10
  <2>2. n + InHand(h)' <= InHand(h) + 1 /\ n + InHand(h)' <= Burst /\ InHand(h)' \in Nat
    <3> HIDE DEF n
    <3> QED BY <1>2, <1>8, <2>1, LimiterAssumption DEF InHand
  <2>3. CASE a = 0
    <3>1. sent'[h][a] = 0
      BY <2>3 DEF Tick, LimiterTick
    <3> HIDE DEF n
    <3> QED BY <2>1, <2>2, <2>3, <3>1, LimiterAssumption
  <2>4. CASE a # 0
    <3>1. a - 1 \in 0..Window /\ a \in Int
      BY <2>4, LimiterAssumption
    <3>2. sent'[h][a] = sent[h][a - 1] /\ sent[h][a - 1] \in Nat
      BY <2>4, <3>1, BucketTypes DEF Tick, LimiterTick
    <3>3. sent[h][a - 1] + 0 + InHand(h) <= Burst + (a - 1)
      BY <1>1, <1>4, <3>1, FS_EmptySet DEF Accounted
    <3>4. InHand(h) \in Nat
      BY BucketTypes
    <3> HIDE DEF n
    <3> QED BY <2>1, <2>2, <3>1, <3>2, <3>3, <3>4, LimiterAssumption
  <2> QED BY <2>3, <2>4
<1> QED BY <1>9, <1>10, <1>11, <1>12 DEF Accounted

(* What the limiter promises of the fetches it lets through, with the      *)
(* state that keeps it: no stretch of time of any length sees more of them *)
(* begin at a host than a burst and one per unit of time, however many     *)
(* callers share the bucket, give up their waits or run it into debt.  Of  *)
(* the requests a redirect adds it promises nothing (HostLimiter.Wait).    *)
THEOREM RateIsKept == Spec => []LimitKept
<1>1. Init => RateInv
  <2> SUFFICES ASSUME Init, NEW h \in Hosts PROVE Queued(h) /\ Accounted(h)
    BY DEF RateInv
  <2>1. Waiting(h) = {} /\ Ready(h) = {}
    BY DEF Init, NoCall, Waiting, Ready
  <2>2. tokens[h] = Burst /\ InHand(h) = Burst
    BY LimiterAssumption DEF Init, LimiterInit, InHand
  <2>3. \A a \in 0..Window : sent[h][a] = 0
    BY DEF Init, LimiterInit
  <2>4. IsFiniteSet(Ready(h)) /\ Cardinality(Ready(h)) = 0
    BY <2>1, FS_EmptySet
  <2> DEFINE n == Cardinality(Ready(h))
  <2>5. n = 0 /\ IsFiniteSet(Ready(h))
    BY <2>4
  <2> HIDE DEF n
  <2>6. \A a \in 0..Window : sent[h][a] + n + InHand(h) <= Burst + a
    BY <2>2, <2>3, <2>5, LimiterAssumption
  <2> QED BY <2>1, <2>2, <2>5, <2>6, LimiterAssumption DEF Queued, Accounted, n
<1>2. FetchInv /\ RateInv /\ [Next]_vars => RateInv'
  <2> SUFFICES ASSUME FetchInv, RateInv, [Next]_vars PROVE RateInv'
    OBVIOUS
  <2>1. ASSUME NEW g \in Fetchers, NEW u \in Urls, NEW d \in Deadlines, Wait(g, u, d)
        PROVE  RateInv'
    BY <2>1, WaitRate
  <2>2. ASSUME NEW g \in Fetchers, Cancelled(g) PROVE RateInv'
    BY <2>2, CancelledRate
  <2>3. ASSUME NEW g \in Fetchers, Send(g) PROVE RateInv'
    BY <2>3, SendRate
  <2>4. ASSUME NEW g \in Fetchers, Response(g) \/ Expire(g) \/ Return(g) PROVE RateInv'
    <3>1. /\ fetch[g].pc # "wait" /\ UNCHANGED limiterVars
          /\ \E call : call.pc # "wait" /\ fetch' = [fetch EXCEPT ![g] = call]
      BY <2>4, AfterSending
    <3> QED BY <3>1, NotWaiting
  <2>5. CASE Tick
    BY <2>5, TickRate
  <2>6. CASE UNCHANGED vars
    BY <2>6 DEF vars, RateInv, Queued, Accounted, Waiting, Ready, InHand
  <2> QED BY <2>1, <2>2, <2>3, <2>4, <2>5, <2>6 DEF Next
<1>3. FetchInv /\ RateInv => LimitKept
  <2> SUFFICES ASSUME FetchInv, RateInv, NEW h \in Hosts, NEW a \in 0..Window
               PROVE  sent[h][a] <= Burst + a
    BY DEF LimitKept
  <2>1. InHand(h) \in Nat /\ sent[h][a] \in Nat
    BY BucketTypes
  <2>2. Cardinality(Ready(h)) \in Nat
    BY FS_CardinalityType DEF RateInv, Accounted
  <2>3. sent[h][a] + Cardinality(Ready(h)) + InHand(h) <= Burst + a
    BY DEF RateInv, Accounted
  <2> QED BY <2>1, <2>2, <2>3, LimiterAssumption
<1> QED BY <1>1, <1>2, <1>3, FetchInvariant, PTL DEF Spec
=============================================================================
