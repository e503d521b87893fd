----------------------------- MODULE HostLimiter -----------------------------
(***************************************************************************)
(* A token bucket per host (crawl/ratelimit.go, over                       *)
(* golang.org/x/time/rate).  The unit of time is what one token takes at   *)
(* the configured rate.  A bucket may be in debt: whoever reserves from an *)
(* empty one waits until the debt before it and its own token are paid.    *)
(***************************************************************************)
EXTENDS Integers

CONSTANTS
  Hosts,
  Burst,      \* CRAWLER_HOST_BURST
  Window      \* bound: how far back the history of fetches goes

ASSUME LimiterAssumption == Burst \in Nat \ {0} /\ Window \in Nat

VARIABLES
  tokens,     \* tokens[h]: what is in h's bucket, less than 0 for a debt
  sent        \* history: sent[h][a], the fetches let through to h in the last
              \* a units of time and the current one

limiterVars == <<tokens, sent>>

LimiterTypeOK ==
  /\ tokens \in [Hosts -> Int]
  /\ sent \in [Hosts -> [0..Window -> Nat]]

(* A bucket is made, full, when its host is first asked for. *)
LimiterInit ==
  /\ tokens = [h \in Hosts |-> Burst]
  /\ sent = [h \in Hosts |-> [a \in 0..Window |-> 0]]

(* The wait of a reservation made now. *)
WaitFor(h) == IF tokens[h] >= 1 THEN 0 ELSE 1 - tokens[h]

Reserve(h) == tokens' = [tokens EXCEPT ![h] = @ - 1] /\ UNCHANGED sent

(* Mistake: a token comes back whoever else is waiting behind it. *)
GiveBackAlways(h, wait) == tokens' = [tokens EXCEPT ![h] = @ + 1] /\ UNCHANGED sent

(* A wait is cancelled: its token comes back if nobody reserved after it,  *)
(* since those who did keep their times.                                   *)
GiveBack(h, wait) ==
  /\ tokens' = [tokens EXCEPT ![h] = IF wait > 0 /\ -@ = wait THEN @ + 1 ELSE @]
  /\ UNCHANGED sent

LetThrough(h) ==
  /\ sent' = [sent EXCEPT ![h] = [a \in 0..Window |-> @[a] + 1]]
  /\ UNCHANGED tokens

LimiterTick ==
  /\ tokens' = [h \in Hosts |-> IF tokens[h] < Burst THEN tokens[h] + 1 ELSE Burst]
  /\ sent' = [h \in Hosts |-> [a \in 0..Window |-> IF a = 0 THEN 0 ELSE sent[h][a - 1]]]
=============================================================================
