------------------------------ MODULE MCPacing ------------------------------
(***************************************************************************)
(* Instances of Pacing for TLC.                                            *)
(***************************************************************************)
EXTENDS Pacing

(* Settings worth trying, beside leaving them out. *)
MCValues ==
  [DB_MAX_CONNS |-> {Unreadable, 0, 200}, DB_MIN_CONNS |-> {20},
   CRAWLER_BATCH_SIZE |-> {Unreadable, 0}, CRAWLER_HOST_BURST |-> {0},
   CRAWLER_EPISODE_GRACE_CRAWLS |-> {-1},
   CRAWLER_MIN_INTERVAL |-> {Unreadable, 4, 30}, CRAWLER_MAX_INTERVAL |-> {0, 8},
   CRAWLER_MAX_FAILURES |-> {0, 2}]

(* All environments with at most two settings of their own. *)
Set(j, v, l, w) == [k \in Numbers |-> IF k = j THEN v ELSE IF k = l THEN w ELSE Unset]

MCEnvironments ==
  [url : {TRUE},
   raw : {[k \in Numbers |-> Unset]} \cup
         UNION {{Set(j, v, l, w) : v \in MCValues[j], w \in MCValues[l] \cup {Unset}} :
                  <<j, l>> \in (DOMAIN MCValues) \X (DOMAIN MCValues)}]
  \cup {[url |-> FALSE, raw |-> [k \in Numbers |-> IF k = "CRAWLER_WORKERS" THEN 0 ELSE Unset]]}

(* Every document of up to three items, dated in any order or not at all,  *)
(* and some that are longer, one of them longer than the sample.           *)
MCPublished ==
  UNION {[1..n -> {0, 40, 43, NoDate}] : n \in 0..3}
    \cup {<<48, 43, 40, 0>>, <<0, 40, 43, 48>>, <<43, 0, 48, 40>>, <<40, NoDate, 43, 0, 40>>,
          <<50, 48, 43, 40, 0>>}

MCStored == {<<>>, <<45, 43, 40>>}

MCHeaders ==
  {[says |-> "nothing", n |-> 0]}
    \cup [says : {"seconds"}, n : {-1, 0, 2, 42, 43, 90, 130}]
    \cup [says : {"date"}, n : {-5, 60}]
=============================================================================
