----------------------------- MODULE RootHints -----------------------------
(***************************************************************************)
(* The root's referral in cache/dns_recursive_cache and the thread that    *)
(* keeps it good, update_root_hints.  Every query the cache cannot answer  *)
(* ends up at this referral, and get_referral throws when it has expired.  *)
(*                                                                         *)
(* Time passes in whole units.  An answer's age is the time since its      *)
(* m_create_time, which update_ttls sets to now and set_ttls leaves alone, *)
(* and it has expired when that is more than its m_min_ttl.                *)
(***************************************************************************)
EXTENDS Integers

CONSTANTS
  OneHour, OneDay, TwoDays,
  Round,      \* the longest that the thread takes from one look at the
              \* referral to the next, its sleep and its query included
  Outcomes    \* what may come of a query to the root servers

AllOutcomes ==
  {"valid",            \* an answer that validate_root_response accepts
   "no_name_servers",  \* one too, in which every NS record's TTL is zero
   "rejected",         \* an answer that it does not accept
   "none",             \* no answer
   "error"}            \* an exception, a sendto() that failed for one

ASSUME RootHintsAssumption ==
  /\ OneHour \in Nat /\ OneDay \in Nat /\ TwoDays \in Nat /\ Round \in Nat
  /\ 2 * Round <= OneHour
  /\ OneHour <= OneDay
  /\ OneDay <= TwoDays
  /\ Outcomes \subseteq AllOutcomes

VARIABLES
  min_ttl,     \* m_min_ttl of the root's referral
  age,         \* time since its m_create_time
  first_pass,
  pc,          \* where update_root_hints stands
  since,       \* time since its last look at the referral
  unasked,     \* time since it last asked the root servers, or since startup
  shutdown     \* run_state::o_state = shutdown_e

hints == <<min_ttl, age, first_pass, pc, since, unasked, shutdown>>

HintsTypeOK ==
  /\ min_ttl \in 0 .. TwoDays
  /\ age \in 0 .. Round
  /\ first_pass \in BOOLEAN
  /\ pc \in {"asleep", "querying", "exited", "terminated"}
  /\ since \in 0 .. Round
  /\ unasked \in Nat
  /\ shutdown \in BOOLEAN

\* load_root_hints
HintsInit ==
  /\ min_ttl = TwoDays
  /\ age = 0
  /\ first_pass = TRUE
  /\ pc = "asleep"
  /\ since = 0
  /\ unasked = 0
  /\ shutdown = FALSE

Expired == age > min_ttl

\* get_referral throws "no root hints loaded", and as nothing in the thread
\* catches an exception the program is terminated.
Throw ==
  /\ pc' = "terminated"
  /\ UNCHANGED <<min_ttl, age, first_pass, since, unasked, shutdown>>

-----------------------------------------------------------------------------
Tick ==
  /\ pc # "terminated"
  /\ since < Round
  /\ age' = age + 1
  /\ since' = since + 1
  /\ unasked' = unasked + 1
  /\ UNCHANGED <<min_ttl, first_pass, pc, shutdown>>

Shutdown ==
  /\ pc # "terminated"
  /\ ~shutdown
  /\ shutdown' = TRUE
  /\ UNCHANGED <<min_ttl, age, first_pass, pc, since, unasked>>

Exit ==
  /\ pc = "asleep" /\ shutdown
  /\ pc' = "exited"
  /\ UNCHANGED <<min_ttl, age, first_pass, since, unasked, shutdown>>

UpdateTtlsAfresh ==
  /\ age' = 0
  /\ UNCHANGED min_ttl

\* dns_recursive_cache_answer::update_ttls
UpdateTtls ==
  /\ min_ttl' = IF age > min_ttl THEN 0 ELSE min_ttl - age
  /\ age' = 0

\* Out of its sleep, the thread looks at the referral and at the first pass,
\* or when less than a day is left, asks the root servers.
Look ==
  /\ pc = "asleep" /\ ~shutdown
  /\ IF Expired
     THEN Throw
     ELSE /\ UpdateTtls
          /\ since' = 0
          /\ first_pass' = FALSE
          /\ IF first_pass \/ min_ttl' < OneDay
             THEN pc' = "querying" /\ unasked' = 0
             ELSE UNCHANGED <<pc, unasked>>
          /\ UNCHANGED shutdown

\* update_root_hints_now puts a new referral in place.
Replace ==
  /\ min_ttl' = TwoDays
  /\ age' = 0
  /\ pc' = "asleep"
  /\ UNCHANGED <<first_pass, since, unasked, shutdown>>

\* The present referral is set back to two days.
Extend ==
  /\ min_ttl' = TwoDays
  /\ pc' = "asleep"
  /\ UNCHANGED <<age, first_pass, since, unasked, shutdown>>

KeepAnyway ==
  /\ pc' = "asleep"
  /\ UNCHANGED <<min_ttl, age, first_pass, since, unasked, shutdown>>

\* The present referral stays as it is, while more than an hour is left.
Keep ==
  /\ pc' = "asleep"
  /\ min_ttl' = IF min_ttl < OneHour THEN TwoDays ELSE min_ttl
  /\ UNCHANGED <<age, first_pass, since, unasked, shutdown>>

\* The rest of the round, from the query's outcome on.
Finish(outcome) ==
  /\ pc = "querying"
  /\ IF \/ outcome \in {"no_name_servers", "error"}
        \/ outcome # "valid" /\ Expired
     THEN Throw
     ELSE \/ outcome = "valid" /\ Replace
          \/ outcome = "none" /\ Extend
          \/ outcome = "rejected" /\ Keep

HintsNext ==
  \/ Tick
  \/ Shutdown
  \/ Exit
  \/ Look
  \/ \E outcome \in Outcomes : Finish(outcome)

HintsSpec == HintsInit /\ [][HintsNext]_hints

-----------------------------------------------------------------------------
(* Properties *)

\* The root's referral never expires, however long the root servers are out
\* of reach or send answers that are rejected: "no root hints loaded" is never
\* thrown, by this thread or by a slot.
RootAvailable == ~Expired

\* The hints are not kept alive without asking: the root servers are asked
\* once in every day and two rounds, although a failure too puts the time to
\* live back to two days.
AskedDaily == unasked <= TwoDays - OneDay + 2 * Round

=============================================================================
