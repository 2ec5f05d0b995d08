--------------------------- MODULE RecursiveCache ---------------------------
(***************************************************************************)
(* cache/dns_recursive_cache: the answers and referrals the slots have     *)
(* learnt, shared by all of them, and the thread that collects garbage.    *)
(*                                                                         *)
(* Each half is a map, a list of what was put in the map in that order,    *)
(* and a count of the records in the list.  Putting an answer in the map   *)
(* over another leaves the other in the list: only the collector takes     *)
(* anything off a list, and it tells entries of one key apart by their     *)
(* sequence number.  Slots draw that number when they build an answer and  *)
(* add the answer later, so numbers reach the cache in any order.          *)
(*                                                                         *)
(* A map gives the number of the answer it holds.  A list is the set of    *)
(* its entries, each with its place in the order of push_back.  Both halves *)
(* are collected by the same text, which is one operator here.  Methods    *)
(* hold the write lock of their half throughout, so each is one step.      *)
(***************************************************************************)
EXTENDS Integers, FiniteSets, FiniteSetsExt

CONSTANTS
  Questions, Names, Root,
  RecordCounts,         \* get_num_records of an answer; 0 for a bare NXDOMAIN
  MaxAnswerRRs,         \* cache_max_answer_rrs
  MaxReferralRRs,       \* cache_max_referral_rrs
  MaxSequence,          \* bound: how many answers are ever built
  MaxMade               \* bound: how many slots hold one at the same time

ASSUME CacheAssumption ==
  /\ Root \in Names
  /\ RecordCounts \subseteq Nat
  /\ MaxAnswerRRs \in Nat /\ MaxReferralRRs \in Nat
  /\ MaxSequence \in Nat \ {0}

None == 0
Sequences == 1 .. MaxSequence

Answers   == [key : Questions, sequence : Sequences, records : RecordCounts]
Referrals == [key : Names, sequence : Sequences, records : RecordCounts]

Listed(answer, place) == [key |-> answer.key, sequence |-> answer.sequence,
                          records |-> answer.records, place |-> place]

VARIABLES
  o_sequence,         \* the last sequence number drawn
  made_answers,       \* built by a slot and on their way to add_answer
  made_referrals,     \* and to add_referral
  expired,            \* sequence numbers of answers whose time has run out
  places,             \* how many entries were ever put on a list
  m_answers, m_answer_list, m_num_answer_rrs,
  m_referrals, m_referral_list, m_num_referral_rrs,
  collector           \* what garbage_collect does next

making       == <<o_sequence, made_answers, made_referrals>>
answerVars   == <<m_answers, m_answer_list, m_num_answer_rrs>>
referralVars == <<m_referrals, m_referral_list, m_num_referral_rrs>>
vars == <<making, expired, places, answerVars, referralVars, collector>>

AnswerEntry   == [key : Questions, sequence : Sequences,
                  records : RecordCounts, place : Sequences]
ReferralEntry == [key : Names \ {Root}, sequence : Sequences,
                  records : RecordCounts, place : Sequences]

\* load_root_hints has put the root referral in place.
Init ==
  /\ o_sequence = 1
  /\ made_answers = {} /\ made_referrals = {}
  /\ expired = {}
  /\ places = 0
  /\ m_answers = [q \in Questions |-> None]
  /\ m_answer_list = {}
  /\ m_num_answer_rrs = 0
  /\ m_referrals = [n \in Names |-> IF n = Root THEN 1 ELSE None]
  /\ m_referral_list = {}
  /\ m_num_referral_rrs = 0
  /\ collector = "answers"

-----------------------------------------------------------------------------
(* A slot, or the root hint updater, builds an answer *)

Draw ==
  /\ o_sequence < MaxSequence
  /\ Cardinality(made_answers) + Cardinality(made_referrals) < MaxMade
  /\ o_sequence' = o_sequence + 1

MakeAnswer(q, records) ==
  /\ Draw
  /\ made_answers' = made_answers \union
       {[key |-> q, sequence |-> o_sequence', records |-> records]}
  /\ UNCHANGED <<made_referrals, expired, places, answerVars, referralVars,
                 collector>>

MakeReferral(n, records) ==
  /\ Draw
  /\ made_referrals' = made_referrals \union
       {[key |-> n, sequence |-> o_sequence', records |-> records]}
  /\ UNCHANGED <<made_answers, expired, places, answerVars, referralVars,
                 collector>>

\* Its time to live passes.  The root referral's never does: see RootHints.
Mortal == made_answers \union m_answer_list \union m_referral_list
            \union {a \in made_referrals : a.key # Root}

Expire(i) ==
  /\ \E a \in Mortal : a.sequence = i
  /\ i \notin expired
  /\ expired' = expired \union {i}
  /\ UNCHANGED <<making, places, answerVars, referralVars, collector>>

-----------------------------------------------------------------------------
(* add_answer, add_referral *)

\* An answer with a zero time to live, or with a TKEY record, is not cached.
PassOver(a) ==
  /\ a \in made_answers
  /\ made_answers' = made_answers \ {a}
  /\ UNCHANGED <<o_sequence, made_referrals, expired, places, answerVars,
                 referralVars, collector>>

AddAnswerUnlessListed(a) ==
  /\ a \in made_answers
  /\ made_answers' = made_answers \ {a}
  /\ m_answers' = [m_answers EXCEPT ![a.key] = a.sequence]
  /\ IF m_answers[a.key] = None
     THEN /\ places' = places + 1
          /\ m_answer_list' = m_answer_list \union {Listed(a, places')}
          /\ m_num_answer_rrs' = m_num_answer_rrs + a.records
     ELSE UNCHANGED <<places, m_answer_list, m_num_answer_rrs>>
  /\ UNCHANGED <<o_sequence, made_referrals, expired, referralVars, collector>>

AddAnswerCountingKeys(a) ==
  /\ a \in made_answers
  /\ made_answers' = made_answers \ {a}
  /\ places' = places + 1
  /\ m_answers' = [m_answers EXCEPT ![a.key] = a.sequence]
  /\ m_answer_list' = m_answer_list \union {Listed(a, places')}
  /\ m_num_answer_rrs' = IF m_answers[a.key] = None
                         THEN m_num_answer_rrs + a.records
                         ELSE m_num_answer_rrs
  /\ UNCHANGED <<o_sequence, made_referrals, expired, referralVars, collector>>

AddAnswer(a) ==
  /\ a \in made_answers
  /\ made_answers' = made_answers \ {a}
  /\ places' = places + 1
  /\ m_answers' = [m_answers EXCEPT ![a.key] = a.sequence]
  /\ m_answer_list' = m_answer_list \union {Listed(a, places')}
  /\ m_num_answer_rrs' = m_num_answer_rrs + a.records
  /\ UNCHANGED <<o_sequence, made_referrals, expired, referralVars, collector>>

\* The root's referral is neither listed nor counted.
AddReferral(a) ==
  /\ a \in made_referrals
  /\ made_referrals' = made_referrals \ {a}
  /\ m_referrals' = [m_referrals EXCEPT ![a.key] = a.sequence]
  /\ IF a.key = Root
     THEN UNCHANGED <<places, m_referral_list, m_num_referral_rrs>>
     ELSE /\ places' = places + 1
          /\ m_referral_list' = m_referral_list \union {Listed(a, places')}
          /\ m_num_referral_rrs' = m_num_referral_rrs + a.records
  /\ UNCHANGED <<o_sequence, made_answers, expired, answerVars, collector>>

-----------------------------------------------------------------------------
(* garbage_collect_answers, garbage_collect_referrals *)

Total(entries) == MapThenSumSet(LAMBDA e : e.records, entries)

\* The map still holds this entry's answer, and not a later version of it.
Current(map, e) == map[e.key] = e.sequence

\* What the first loop leaves on the list.
Live(map, list) == {e \in list : Current(map, e) /\ e.sequence \notin expired}

OverFromYoungest(entries, num, max) ==
  {e \in entries : num - Total({f \in entries : f.place > e.place}) > max}

\* What the second loop takes off, given the count it starts with: entries
\* from the oldest on, for as long as the count is over the maximum.
Over(entries, num, max) ==
  {e \in entries : num - Total({f \in entries : f.place < e.place}) > max}

\* The map, list and count that the two loops leave.
Collected(map, list, num, max) ==
  LET live == Live(map, list)
      rest == num - Total(list \ live)
      over == Over(live, rest, max)
  IN  [map  |-> [k \in DOMAIN map |->
                   IF \E e \in list : /\ e.key = k
                                      /\ e \in over \/ (Current(map, e)
                                                        /\ e.sequence \in expired)
                   THEN None ELSE map[k]],
       list |-> live \ over,
       num  |-> rest - Total(over)]

CollectAnswersWhenOver ==
  /\ collector = "answers"
  /\ m_num_answer_rrs > MaxAnswerRRs
  /\ LET c == Collected(m_answers, m_answer_list, m_num_answer_rrs, MaxAnswerRRs)
     IN  /\ m_answers' = c.map
         /\ m_answer_list' = c.list
         /\ m_num_answer_rrs' = c.num
  /\ collector' = "referrals"
  /\ UNCHANGED <<making, expired, places, referralVars>>

CollectAnswers ==
  /\ collector = "answers"
  /\ LET c == Collected(m_answers, m_answer_list, m_num_answer_rrs, MaxAnswerRRs)
     IN  /\ m_answers' = c.map
         /\ m_answer_list' = c.list
         /\ m_num_answer_rrs' = c.num
  /\ collector' = "referrals"
  /\ UNCHANGED <<making, expired, places, referralVars>>

CollectReferrals ==
  /\ collector = "referrals"
  /\ LET c == Collected(m_referrals, m_referral_list, m_num_referral_rrs,
                        MaxReferralRRs)
     IN  /\ m_referrals' = c.map
         /\ m_referral_list' = c.list
         /\ m_num_referral_rrs' = c.num
  /\ collector' = "answers"
  /\ UNCHANGED <<making, expired, places, answerVars>>

Next ==
  \/ \E q \in Questions, r \in RecordCounts : MakeAnswer(q, r)
  \/ \E n \in Names, r \in RecordCounts : MakeReferral(n, r)
  \/ \E i \in Sequences : Expire(i)
  \/ \E a \in made_answers : PassOver(a) \/ AddAnswer(a)
  \/ \E a \in made_referrals : AddReferral(a)
  \/ CollectAnswers
  \/ CollectReferrals

\* The collector's thread runs a pass every cache_garbage_collect_ms.
Fairness == WF_vars(CollectAnswers) /\ WF_vars(CollectReferrals)

Spec == Init /\ [][Next]_vars

FairSpec == Spec /\ Fairness

-----------------------------------------------------------------------------
(* Properties *)

\* The unsigned counts that decide what is thrown away are those of the lists,
\* overwritten answers included, so that they neither drift nor wrap.
CountsExact ==
  /\ m_num_answer_rrs = Total(m_answer_list)
  /\ m_num_referral_rrs = Total(m_referral_list)

OnceOn(list, key, sequence) ==
  \E e \in list : /\ e.key = key /\ e.sequence = sequence
                  /\ \A f \in list : f.sequence = sequence => f = e

\* Whatever is in a map is on its list, once, so that the collector can find
\* it: nothing but the root's referral outlives its time or the limit, in
\* whatever order slots add what they built.
EveryEntryListed ==
  /\ \A q \in Questions : m_answers[q] # None =>
       OnceOn(m_answer_list, q, m_answers[q])
  /\ \A n \in Names \ {Root} : m_referrals[n] # None =>
       OnceOn(m_referral_list, n, m_referrals[n])

\* A question the cache knows nothing of is always referred somewhere: the
\* walk up from the question's name ends at the root's referral, which no
\* collection removes.
RootKept == m_referrals[Root] # None

\* "get rid of the entries that have been in the cache the longest until we're
\* down to the required size": an answer that is still good goes only if
\* everything younger stays within the maximum and it does not.
EvictsOldest(map, list, max) ==
  \A e \in Live(map, list) \ list' :
    /\ \A f \in list' : e.place < f.place
    /\ Total({f \in Live(map, list) : f.place >= e.place}) > max

CollectionEvictsOldest ==
  [][/\ EvictsOldest(m_answers, m_answer_list, MaxAnswerRRs)
     /\ EvictsOldest(m_referrals, m_referral_list, MaxReferralRRs)]_vars

\* An answer that has expired leaves both map and list.
ExpiredAreCollected == \A i \in Sequences :
  i \in expired /\ (\E e \in m_answer_list \union m_referral_list : e.sequence = i)
    ~> \A e \in m_answer_list \union m_referral_list : e.sequence # i
=============================================================================
