-------------------------------- MODULE Config --------------------------------
(***************************************************************************)
(* Reading the settings from the environment (config/config.go).  A raw    *)
(* setting is Unset (or blank), Unreadable for its type, or a number; each *)
(* is counted in the unit its default is written in below.  Settings that  *)
(* are plain text and cannot be wrong are left out.                        *)
(***************************************************************************)
EXTENDS Integers

CONSTANTS
  Unset, Unreadable,
  Int32      \* the values an int32 can take: -Int32 .. Int32 - 1

ASSUME RawAssumption == Unset \notin Int /\ Unreadable \notin Int /\ Unset # Unreadable
ASSUME Int32Assumption == Int32 \in Nat \ {0}

Default ==
  [DB_MAX_CONNS |-> 10, DB_MIN_CONNS |-> 1,
   CRAWLER_WORKERS |-> 8, CRAWLER_BATCH_SIZE |-> 20,
   CRAWLER_POLL_INTERVAL |-> 30, CRAWLER_HTTP_TIMEOUT |-> 30,
   CRAWLER_MAX_BODY_BYTES |-> 20, CRAWLER_HOST_RPS |-> 1, CRAWLER_HOST_BURST |-> 2,
   CRAWLER_MIN_INTERVAL |-> 1, CRAWLER_MAX_INTERVAL |-> 24,
   CRAWLER_MAX_FAILURES |-> 10, CRAWLER_DEAD_RECHECK |-> 720,
   CRAWLER_LEASE_DURATION |-> 15, CRAWLER_SYNC_BUDGET |-> 20,
   CRAWLER_EPISODE_GRACE_CRAWLS |-> 5, FEED_REQUEST_THROTTLE |-> 60,
   ITUNES_TIMEOUT |-> 10, ITUNES_SEARCH_LIMIT |-> 0]

Numbers == DOMAIN Default

(* The settings that are compared with a least value.  CRAWLER_HOST_RPS is *)
(* compared with 0, which it has to exceed; here it is a whole number.     *)
Least ==
  [DB_MAX_CONNS |-> 1, CRAWLER_WORKERS |-> 1, CRAWLER_BATCH_SIZE |-> 1,
   CRAWLER_MAX_BODY_BYTES |-> 1, CRAWLER_HOST_RPS |-> 1, CRAWLER_HOST_BURST |-> 1,
   CRAWLER_EPISODE_GRACE_CRAWLS |-> 0]

(* An environment: whether DATABASE_URL is there, and the raw numbers. *)
Environment(env) ==
  /\ env.url \in BOOLEAN
  /\ DOMAIN env.raw = Numbers
  /\ \A k \in Numbers : env.raw[k] \in Int \cup {Unset, Unreadable}

(* intOr, int64Or, floatOr, durationOr: an unreadable setting is reported, *)
(* and its default is what the checks that follow see.                     *)
Read(env) ==
  [k \in Numbers |-> IF env.raw[k] \in {Unset, Unreadable} THEN Default[k]
                                                           ELSE env.raw[k]]

(* Mistake: the two intervals are not compared. *)
RangeProblemsLoose(v) ==
  {<<"low", k>> : k \in {l \in DOMAIN Least : v[l] < Least[l]}}
    \cup {<<"above", k>> : k \in {l \in {"DB_MIN_CONNS"} : v[l] > v.DB_MAX_CONNS}}

RangeProblems(v) ==
  {<<"low", k>> : k \in {l \in DOMAIN Least : v[l] < Least[l]}}
    \cup {<<"above", k>> : k \in {l \in {"DB_MIN_CONNS"} : v[l] > v.DB_MAX_CONNS}
                             \cup {l \in {"CRAWLER_MIN_INTERVAL"} :
                                     v[l] > v.CRAWLER_MAX_INTERVAL}}

(* Mistake: values are looked at once all of them can be read. *)
ProblemsInStages(env) ==
  LET unreadable == {<<"unreadable", k>> : k \in {l \in Numbers : env.raw[l] = Unreadable}}
  IN  IF unreadable # {} THEN unreadable
      ELSE RangeProblems(Read(env))
             \cup IF env.url THEN {} ELSE {<<"missing", "DATABASE_URL">>}

(* Everything Load has to say about an environment. *)
Problems(env) ==
  (IF env.url THEN {} ELSE {<<"missing", "DATABASE_URL">>})
    \cup {<<"unreadable", k>> : k \in {l \in Numbers : env.raw[l] = Unreadable}}
    \cup RangeProblems(Read(env))

(* int32(n). *)
Narrow(n) == ((n + Int32) % (2 * Int32)) - Int32

(* The configuration of an environment without problems. *)
Loaded(env) ==
  [Read(env) EXCEPT !.DB_MAX_CONNS = Narrow(@), !.DB_MIN_CONNS = Narrow(@)]
=============================================================================
