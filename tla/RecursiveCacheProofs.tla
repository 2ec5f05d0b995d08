------------------------ MODULE RecursiveCacheProofs ------------------------
(***************************************************************************)
(* Whatever the recursive cache holds can be found by its collector, for   *)
(* every set of questions and names, and any number of slots.              *)
(*                                                                         *)
(* The argument turns on the sequence numbers.  Two answers of one half    *)
(* never have the same number, on their way to the cache or on its list,   *)
(* so the list entry with the number in the map is the map's answer, and   *)
(* a collection that takes it off the list takes its key out of the map.   *)
(*                                                                         *)
(* The second part is about the counts, sums over the lists: that they are *)
(* right, and so that the second loop takes off the oldest entries only.   *)
(*                                                                         *)
(* The third part is about what RootHints does with this cache: for every *)
(* length of an hour and a round, the root's referral never expires.       *)
(***************************************************************************)
EXTENDS RecursiveCache, RootHints, FiniteSetTheorems, TLAPS

\* No two of a half's answers have the same sequence number.
Distinct(made, list) ==
  /\ \A a, b \in made : a.sequence = b.sequence => a = b
  /\ \A e, f \in list : e.sequence = f.sequence => e = f
  /\ \A a \in made, e \in list : a.sequence # e.sequence

AreListed(map, list, keys) ==
  \A k \in keys : map[k] # None =>
    \E e \in list : e.key = k /\ e.sequence = map[k]

\* A half of the cache whose list accounts for the keys given.
Sound(made, map, list, all, keys) ==
  /\ \A a \in made : a.key \in all /\ a.sequence \in 1 .. o_sequence
  /\ \A e \in list : e.key \in keys /\ e.sequence \in 1 .. o_sequence
  /\ map \in [all -> Nat]
  /\ Distinct(made, list)
  /\ AreListed(map, list, keys)

AnswersSound   == Sound(made_answers, m_answers, m_answer_list,
                        Questions, Questions)
ReferralsSound == Sound(made_referrals, m_referrals, m_referral_list,
                        Names, Names \ {Root})

\* The inductive invariant.
IInv ==
  /\ o_sequence \in Nat
  /\ AnswersSound
  /\ ReferralsSound
  /\ RootKept

-----------------------------------------------------------------------------
\* The four ways in which a half changes.

LEMMA SoundAsNumbersGrow ==
  ASSUME o_sequence \in Nat,
         NEW made, NEW map, NEW list, NEW all, NEW keys,
         Sound(made, map, list, all, keys),
         NEW k \in all, NEW r
  PROVE  LET a == [key |-> k, sequence |-> o_sequence + 1, records |-> r]
         IN  /\ \A b \in made \union {a} :
                  b.key \in all /\ b.sequence \in 1 .. o_sequence + 1
             /\ \A e \in list : e.key \in keys /\ e.sequence \in 1 .. o_sequence + 1
             /\ Distinct(made \union {a}, list)
<1> DEFINE a == [key |-> k, sequence |-> o_sequence + 1, records |-> r]
<1>1. a.key = k /\ a.sequence = o_sequence + 1
  OBVIOUS
<1>2. \A b \in made : b.sequence # a.sequence
  BY <1>1 DEF Sound
<1>3. \A e \in list : e.sequence # a.sequence
  BY <1>1 DEF Sound
<1>4. Distinct(made \union {a}, list)
  <2> HIDE DEF a
  <2> QED
    BY <1>2, <1>3 DEF Distinct, Sound
<1>5. \A b \in made \union {a} : b.key \in all /\ b.sequence \in 1 .. o_sequence + 1
  BY <1>1 DEF Sound
<1>6. \A e \in list : e.key \in keys /\ e.sequence \in 1 .. o_sequence + 1
  BY DEF Sound
<1> QED
  BY <1>4, <1>5, <1>6

\* An answer goes from its slot into the map and onto the list.
LEMMA SoundAfterAdd ==
  ASSUME o_sequence \in Nat,
         NEW made, NEW map, NEW list, NEW all, NEW keys,
         Sound(made, map, list, all, keys), keys \subseteq all,
         NEW a \in made, a.key \in keys, NEW place
  PROVE  Sound(made \ {a}, [map EXCEPT ![a.key] = a.sequence],
               list \union {Listed(a, place)}, all, keys)
<1> DEFINE l == Listed(a, place)
           map2 == [map EXCEPT ![a.key] = a.sequence]
<1>1. l.key = a.key /\ l.sequence = a.sequence
  BY DEF Listed
<1>2. map2 \in [all -> Nat]
  BY DEF Sound
<1>3. \A k \in all : map2[k] = IF k = a.key THEN a.sequence ELSE map[k]
  BY DEF Sound
<1> HIDE DEF l, map2
<1>4. Distinct(made \ {a}, list \union {l})
  BY <1>1 DEF Sound, Distinct
<1>5. AreListed(map2, list \union {l}, keys)
  <2> SUFFICES ASSUME NEW k \in keys, map2[k] # None
               PROVE  \E e \in list \union {l} : e.key = k /\ e.sequence = map2[k]
    BY DEF AreListed
  <2>1. CASE k = a.key
    BY <2>1, <1>1, <1>3
  <2>2. CASE k # a.key
    BY <2>2, <1>3 DEF Sound, AreListed
  <2> QED
    BY <2>1, <2>2
<1> QED
  BY <1>1, <1>2, <1>4, <1>5 DEF Sound, l, map2

\* A slot lets go of an answer, or the updater puts one where no list is kept.
LEMMA SoundWithout ==
  ASSUME NEW made, NEW map, NEW list, NEW all, NEW keys,
         Sound(made, map, list, all, keys),
         NEW a \in made
  PROVE  /\ Sound(made \ {a}, map, list, all, keys)
         /\ a.key \notin keys =>
              Sound(made \ {a}, [map EXCEPT ![a.key] = a.sequence], list, all, keys)
<1>1. Distinct(made \ {a}, list)
  BY DEF Sound, Distinct
<1>2. Sound(made \ {a}, map, list, all, keys)
  BY <1>1 DEF Sound
<1>3. ASSUME a.key \notin keys
      PROVE  Sound(made \ {a}, [map EXCEPT ![a.key] = a.sequence], list, all, keys)
  <2> DEFINE map2 == [map EXCEPT ![a.key] = a.sequence]
  <2>1. map2 \in [all -> Nat]
    BY DEF Sound
  <2>2. \A k \in keys : map2[k] = map[k]
    BY <1>3 DEF Sound
  <2> HIDE DEF map2
  <2>3. AreListed(map2, list, keys)
    BY <2>2 DEF Sound, AreListed
  <2>4. Sound(made \ {a}, map2, list, all, keys)
    BY <1>2, <2>1, <2>3 DEF Sound
  <2> QED
    BY <2>4 DEF map2
<1> QED
  BY <1>2, <1>3

\* What a collection leaves.  No entry it keeps is overwritten or expired,
\* and a key is taken out of the map only when its entry goes.
LEMMA Collection ==
  ASSUME NEW made, NEW map, NEW list, NEW all, NEW keys, keys \subseteq all,
         Sound(made, map, list, all, keys),
         NEW num, NEW max
  PROVE  LET c == Collected(map, list, num, max)
         IN  /\ Sound(made, c.map, c.list, all, keys)
             /\ \A k \in all \ keys : c.map[k] = map[k]
             /\ \A e \in c.list : Current(c.map, e) /\ e.sequence \notin expired
<1> DEFINE live == Live(map, list)
           rest == num - Total(list \ live)
           over == Over(live, rest, max)
           goes(e) == e \in over \/ (Current(map, e) /\ e.sequence \in expired)
           map2 == [k \in DOMAIN map |->
                      IF \E e \in list : e.key = k /\ goes(e) THEN None ELSE map[k]]
           list2 == live \ over
           c == Collected(map, list, num, max)
<1>1. c.map = map2 /\ c.list = list2
  BY Zenon DEF Collected
<1>2. live \subseteq list /\ \A e \in live : Current(map, e) /\ e.sequence \notin expired
  BY DEF Live
<1>3. over \subseteq live
  BY Zenon DEF Over
<1>4. DOMAIN map = all /\ \A k \in all : map[k] \in Nat
  BY DEF Sound
<1>5. /\ map2 \in [all -> Nat]
      /\ \A k \in all : map2[k] = IF \E e \in list : e.key = k /\ goes(e)
                                  THEN None ELSE map[k]
  <2> HIDE DEF over, live, rest, goes
  <2> QED
    BY <1>4 DEF None
<1>6. \A e \in list : e \in live \/ ~Current(map, e) \/ e.sequence \in expired
  BY DEF Live
<1> HIDE DEF live, rest, over, map2, c
<1>7. \A e \in list2 : Current(map2, e) /\ e.sequence \notin expired
  <2> SUFFICES ASSUME NEW e \in list2 PROVE Current(map2, e)
    BY <1>2
  <2>1. e \in list /\ e \notin over /\ Current(map, e) /\ e.sequence \notin expired
    BY <1>2
  <2>2. e.key \in all
    BY <2>1 DEF Sound
  <2>3. ASSUME NEW f \in list, f.key = e.key, goes(f) PROVE FALSE
    <3>1. Current(map, f)
      BY <2>3, <1>2, <1>3
    <3>2. f.sequence = e.sequence
      BY <3>1, <2>1, <2>3 DEF Current
    <3>3. f = e
      BY <3>2, <2>1 DEF Sound, Distinct
    <3> QED
      BY <3>3, <2>1, <2>3
  <2>4. map2[e.key] = map[e.key]
    BY <2>2, <2>3, <1>5
  <2> QED
    BY <2>1, <2>4 DEF Current
<1>8. AreListed(map2, list2, keys)
  <2> SUFFICES ASSUME NEW k \in keys, map2[k] # None
               PROVE  \E e \in list2 : e.key = k /\ e.sequence = map2[k]
    BY DEF AreListed
  <2>1. map2[k] = map[k] /\ ~ \E e \in list : e.key = k /\ goes(e)
    BY <1>5
  <2>2. PICK e \in list : e.key = k /\ e.sequence = map[k]
    BY <2>1 DEF Sound, AreListed
  <2>3. Current(map, e) /\ ~goes(e)
    BY <2>1, <2>2 DEF Current
  <2>4. e \in list2
    BY <2>3, <1>6
  <2> QED
    BY <2>1, <2>2, <2>4
<1>9. \A k \in all \ keys : map2[k] = map[k]
  BY <1>5 DEF Sound
<1>10. Sound(made, map2, list2, all, keys)
  <2>1. list2 \subseteq list
    BY <1>2
  <2>2. Distinct(made, list2)
    BY <2>1 DEF Sound, Distinct
  <2> QED
    BY <2>1, <2>2, <1>5, <1>8 DEF Sound
<1> QED
  BY <1>1, <1>7, <1>9, <1>10 DEF c

-----------------------------------------------------------------------------
LEMMA InvariantInit == Init => IInv
<1> SUFFICES ASSUME Init PROVE IInv
  OBVIOUS
<1> USE CacheAssumption DEF Init
<1>1. AnswersSound
  BY DEF AnswersSound, Sound, Distinct, AreListed, None
<1>2. ReferralsSound
  <2>1. m_referrals \in [Names -> Nat]
    BY DEF None
  <2>2. AreListed(m_referrals, m_referral_list, Names \ {Root})
    BY DEF AreListed, None
  <2> QED
    BY <2>1, <2>2 DEF ReferralsSound, Sound, Distinct
<1>3. RootKept
  BY DEF RootKept, None
<1> QED
  BY <1>1, <1>2, <1>3 DEF IInv

\* What each kind of step does to the invariant.

LEMMA StepMakeAnswer ==
  ASSUME IInv, NEW q \in Questions, NEW r \in RecordCounts, MakeAnswer(q, r)
  PROVE  IInv'
<1>1. o_sequence' = o_sequence + 1 /\ o_sequence \in Nat
  BY DEF MakeAnswer, Draw, IInv
<1>2. UNCHANGED <<made_referrals, answerVars, referralVars>>
  BY DEF MakeAnswer
<1>3. made_answers' = made_answers \union
        {[key |-> q, sequence |-> o_sequence + 1, records |-> r]}
  BY <1>1 DEF MakeAnswer
<1>4. AnswersSound'
  <2>1. Sound(made_answers, m_answers, m_answer_list, Questions, Questions)
    BY DEF IInv, AnswersSound
  <2>2. /\ \A b \in made_answers' :
             b.key \in Questions /\ b.sequence \in 1 .. o_sequence + 1
        /\ \A e \in m_answer_list :
             e.key \in Questions /\ e.sequence \in 1 .. o_sequence + 1
        /\ Distinct(made_answers', m_answer_list)
    BY <2>1, <1>1, <1>3, SoundAsNumbersGrow
  <2>3. UNCHANGED <<m_answers, m_answer_list>>
    BY <1>2 DEF answerVars
  <2> QED
    BY <1>1, <2>1, <2>2, <2>3 DEF AnswersSound, Sound
<1>5. ReferralsSound'
  BY <1>1, <1>2 DEF IInv, ReferralsSound, Sound, referralVars
<1> QED
  BY <1>1, <1>2, <1>4, <1>5 DEF IInv, RootKept, referralVars

LEMMA StepMakeReferral ==
  ASSUME IInv, NEW n \in Names, NEW r \in RecordCounts, MakeReferral(n, r)
  PROVE  IInv'
<1>1. o_sequence' = o_sequence + 1 /\ o_sequence \in Nat
  BY DEF MakeReferral, Draw, IInv
<1>2. UNCHANGED <<made_answers, answerVars, referralVars>>
  BY DEF MakeReferral
<1>3. made_referrals' = made_referrals \union
        {[key |-> n, sequence |-> o_sequence + 1, records |-> r]}
  BY <1>1 DEF MakeReferral
<1>4. ReferralsSound'
  <2>1. Sound(made_referrals, m_referrals, m_referral_list, Names, Names \ {Root})
    BY DEF IInv, ReferralsSound
  <2>2. /\ \A b \in made_referrals' :
             b.key \in Names /\ b.sequence \in 1 .. o_sequence + 1
        /\ \A e \in m_referral_list :
             e.key \in Names \ {Root} /\ e.sequence \in 1 .. o_sequence + 1
        /\ Distinct(made_referrals', m_referral_list)
    BY <2>1, <1>1, <1>3, SoundAsNumbersGrow
  <2>3. UNCHANGED <<m_referrals, m_referral_list>>
    BY <1>2 DEF referralVars
  <2> QED
    BY <1>1, <2>1, <2>2, <2>3 DEF ReferralsSound, Sound
<1>5. AnswersSound'
  BY <1>1, <1>2 DEF IInv, AnswersSound, Sound, answerVars
<1> QED
  BY <1>1, <1>2, <1>4, <1>5 DEF IInv, RootKept, referralVars

LEMMA StepPassOver ==
  ASSUME IInv, NEW a \in made_answers, PassOver(a)
  PROVE  IInv'
<1>1. Sound(made_answers \ {a}, m_answers, m_answer_list, Questions, Questions)
  BY SoundWithout DEF IInv, AnswersSound
<1>2. AnswersSound'
  BY <1>1 DEF PassOver, AnswersSound, Sound, answerVars
<1> QED
  BY <1>2 DEF IInv, PassOver, ReferralsSound, RootKept, Sound, referralVars

LEMMA StepAddAnswer ==
  ASSUME IInv, NEW a \in made_answers, AddAnswer(a)
  PROVE  IInv'
<1>1. a.key \in Questions
  BY DEF IInv, AnswersSound, Sound
<1>2. Sound(made_answers \ {a}, [m_answers EXCEPT ![a.key] = a.sequence],
            m_answer_list \union {Listed(a, places + 1)}, Questions, Questions)
  BY <1>1, SoundAfterAdd DEF IInv, AnswersSound
<1>3. AnswersSound'
  BY <1>2 DEF AddAnswer, AnswersSound, Sound
<1> QED
  BY <1>3 DEF IInv, AddAnswer, ReferralsSound, RootKept, Sound, referralVars

LEMMA StepAddReferral ==
  ASSUME IInv, NEW a \in made_referrals, AddReferral(a)
  PROVE  IInv'
<1>1. a.key \in Names /\ a.sequence \in 1 .. o_sequence /\ o_sequence \in Nat
  BY DEF IInv, ReferralsSound, Sound
<1>2. /\ m_referrals' = [m_referrals EXCEPT ![a.key] = a.sequence]
      /\ made_referrals' = made_referrals \ {a}
      /\ o_sequence' = o_sequence
  BY DEF AddReferral
<1>3. Sound(made_referrals, m_referrals, m_referral_list, Names, Names \ {Root})
  BY DEF IInv, ReferralsSound
<1>4. Sound(made_referrals', m_referrals', m_referral_list', Names, Names \ {Root})
  <2>1. CASE a.key = Root
    <3>1. m_referral_list' = m_referral_list
      BY <2>1 DEF AddReferral
    <3> QED
      BY <1>2, <1>3, <2>1, <3>1, SoundWithout
  <2>2. CASE a.key # Root
    <3>1. m_referral_list' = m_referral_list \union {Listed(a, places + 1)}
      BY <2>2 DEF AddReferral
    <3> QED
      BY <1>1, <1>2, <1>3, <2>2, <3>1, SoundAfterAdd
  <2> QED
    BY <2>1, <2>2
<1>5. ReferralsSound'
  BY <1>2, <1>4 DEF ReferralsSound, Sound
<1>6. RootKept'
  <2>1. m_referrals \in [Names -> Nat]
    BY DEF IInv, ReferralsSound, Sound
  <2> QED
    BY <1>1, <1>2, <2>1, CacheAssumption DEF IInv, RootKept, None
<1> QED
  BY <1>5, <1>6 DEF IInv, AddReferral, AnswersSound, Sound, answerVars

LEMMA AnswersCollected ==
  ASSUME IInv, CollectAnswers
  PROVE  /\ IInv'
         /\ \A e \in m_answer_list' :
              Current(m_answers', e) /\ e.sequence \notin expired'
<1> DEFINE c == Collected(m_answers, m_answer_list, m_num_answer_rrs, MaxAnswerRRs)
<1>1. /\ m_answers' = c.map /\ m_answer_list' = c.list
      /\ UNCHANGED <<making, expired, places, referralVars>>
  BY DEF CollectAnswers
<1>2. /\ Sound(made_answers, c.map, c.list, Questions, Questions)
      /\ \A e \in c.list : Current(c.map, e) /\ e.sequence \notin expired
  BY Collection DEF IInv, AnswersSound
<1> HIDE DEF c
<1>3. AnswersSound'
  BY <1>1, <1>2 DEF AnswersSound, Sound, making
<1>4. IInv'
  BY <1>1, <1>3 DEF IInv, ReferralsSound, RootKept, Sound, making, referralVars
<1> QED
  BY <1>1, <1>2, <1>4

LEMMA ReferralsCollected ==
  ASSUME IInv, CollectReferrals
  PROVE  /\ IInv'
         /\ \A e \in m_referral_list' :
              Current(m_referrals', e) /\ e.sequence \notin expired'
<1> DEFINE c == Collected(m_referrals, m_referral_list, m_num_referral_rrs,
                          MaxReferralRRs)
<1>1. /\ m_referrals' = c.map /\ m_referral_list' = c.list
      /\ UNCHANGED <<making, expired, places, answerVars>>
  BY DEF CollectReferrals
<1>2. /\ Sound(made_referrals, c.map, c.list, Names, Names \ {Root})
      /\ \A k \in Names \ (Names \ {Root}) : c.map[k] = m_referrals[k]
      /\ \A e \in c.list : Current(c.map, e) /\ e.sequence \notin expired
  BY Collection DEF IInv, ReferralsSound
<1> HIDE DEF c
<1>3. ReferralsSound'
  BY <1>1, <1>2 DEF ReferralsSound, Sound, making
<1>4. RootKept'
  BY <1>1, <1>2, CacheAssumption DEF IInv, RootKept
<1>5. IInv'
  BY <1>1, <1>3, <1>4 DEF IInv, AnswersSound, Sound, making, answerVars
<1> QED
  BY <1>1, <1>2, <1>5

LEMMA InvariantStep == IInv /\ [Next]_vars => IInv'
<1> SUFFICES ASSUME IInv, [Next]_vars PROVE IInv'
  OBVIOUS
<1>1. ASSUME NEW i \in Sequences, Expire(i) PROVE IInv'
  BY <1>1 DEF Expire, IInv, AnswersSound, ReferralsSound, RootKept, Sound,
              making, answerVars, referralVars
<1>2. CASE UNCHANGED vars
  BY <1>2 DEF vars, IInv, AnswersSound, ReferralsSound, RootKept, Sound,
              making, answerVars, referralVars
<1> QED
  BY <1>1, <1>2, StepMakeAnswer, StepMakeReferral, StepPassOver, StepAddAnswer,
     StepAddReferral, AnswersCollected, ReferralsCollected DEF Next

THEOREM Invariance == Spec => []IInv
BY InvariantInit, InvariantStep, PTL DEF Spec

\* Every cached answer and referral, the root's apart, is on its list once:
\* the collector can always get at it.
THEOREM AllListed == Spec => []EveryEntryListed
<1>1. IInv => EveryEntryListed
  BY DEF IInv, AnswersSound, ReferralsSound, Sound, AreListed, Distinct,
         EveryEntryListed, OnceOn
<1> QED
  BY Invariance, <1>1, PTL

\* No collection and no slot takes the root's referral away.
THEOREM RootStays == Spec => []RootKept
<1>1. IInv => RootKept
  BY DEF IInv
<1> QED
  BY Invariance, <1>1, PTL

-----------------------------------------------------------------------------
(* Sums.  Total is a fold over a set, a recursive function on its subsets. *)
(* Induction is over the subsets of a finite set: of those that would be   *)
(* counterexamples, there is a smallest.                                   *)

First(s) == CHOOSE e \in s : TRUE
Sum(s, f) == IF s = {} THEN 0 ELSE First(s).records + f[s \ {First(s)}]
Sums(S) == CHOOSE f : f = [s \in SUBSET S |-> Sum(s, f)]

LEMMA SmallestSubset ==
  ASSUME NEW S, IsFiniteSet(S), NEW B, B \subseteq SUBSET S, B # {}
  PROVE  \E T \in B : \A U \in B : U \subseteq T => U = T
<1>1. B \subseteq FiniteSubsetsOf(S)
  BY FS_Subset DEF FiniteSubsetsOf
<1>2. PICK T \in B : \A U \in B : <<U, T>> \notin StrictSubsetOrdering(S)
  BY <1>1, WFMin, FS_StrictSubsetOrderingWellFounded
<1> QED
  BY <1>2 DEF StrictSubsetOrdering

LEMMA TotalIsSums == ASSUME NEW S PROVE Total(S) = Sums(S)[S]
  BY DEF Total, MapThenSumSet, MapThenFoldSet, Sums, Sum, First

LEMMA FirstIn == ASSUME NEW s, s # {} PROVE First(s) \in s
  BY DEF First

\* The recursion defines a function on the subsets of a finite set, and the
\* same one whatever the set.
Defined(T) ==
  /\ \A s \in SUBSET T : Sums(T)[s] = Sum(s, Sums(T))
  /\ \A s \in SUBSET T : Sums(T)[s] = Sums(s)[s]

LEMMA DefinedStep ==
  ASSUME NEW T, IsFiniteSet(T), \A U \in SUBSET T : U # T => Defined(U)
  PROVE  Defined(T)
<1> DEFINE F == [s \in SUBSET T |->
                   IF s = {} THEN 0
                   ELSE First(s).records + Sums(s \ {First(s)})[s \ {First(s)}]]
<1>1. \A s \in SUBSET T : F[s] = Sum(s, F)
  <2> SUFFICES ASSUME NEW s \in SUBSET T, s # {}
               PROVE  F[s] = Sum(s, F)
    BY DEF Sum
  <2> DEFINE u == s \ {First(s)}
  <2>1. u \in SUBSET T /\ u # T
    BY FirstIn
  <2>2. Sums(u)[u] = Sum(u, Sums(u))
    BY <2>1 DEF Defined
  <2>3. Sums(u)[u \ {First(u)}] = Sums(u \ {First(u)})[u \ {First(u)}]
    BY <2>1 DEF Defined
  <2>4. F[u] = Sums(u)[u]
    BY <2>1, <2>2, <2>3 DEF Sum
  <2> QED
    BY <2>4 DEF Sum
<1>2. F = [s \in SUBSET T |-> Sum(s, F)]
  BY <1>1
<1>3. Sums(T) = [s \in SUBSET T |-> Sum(s, Sums(T))]
  <2> HIDE DEF F
  <2> QED
    BY <1>2 DEF Sums
<1>4. \A s \in SUBSET T : Sums(T)[s] = Sum(s, Sums(T))
  BY <1>3
<1>5. \A s \in SUBSET T : Sums(T)[s] = Sums(s)[s]
  <2> DEFINE B == {s \in SUBSET T : Sums(T)[s] # Sums(s)[s]}
  <2> SUFFICES ASSUME B # {} PROVE FALSE
    OBVIOUS
  <2>1. PICK U \in B : \A V \in B : V \subseteq U => V = U
    <3>1. B \subseteq SUBSET T
      OBVIOUS
    <3> HIDE DEF B
    <3> QED
      BY <3>1, SmallestSubset
  <2>2. U \in SUBSET T /\ U # T /\ Sums(T)[U] # Sums(U)[U]
    OBVIOUS
  <2>3. Sums(T)[U] = Sum(U, Sums(T)) /\ Sums(U)[U] = Sum(U, Sums(U))
    BY <1>4, <2>2 DEF Defined
  <2>4. U # {}
    BY <2>2, <2>3 DEF Sum
  <2> DEFINE u == U \ {First(U)}
  <2>5. u \in SUBSET T /\ u \in SUBSET U /\ u \notin B
    BY <2>1, <2>2, <2>4, FirstIn
  <2>6. Sums(T)[u] = Sums(u)[u]
    BY <2>5
  <2>7. Sums(U)[u] = Sums(u)[u]
    BY <2>2, <2>5 DEF Defined
  <2> QED
    BY <2>2, <2>3, <2>4, <2>6, <2>7 DEF Sum
<1> QED
  BY <1>4, <1>5 DEF Defined

LEMMA SumsDefined == ASSUME NEW S, IsFiniteSet(S) PROVE Defined(S)
<1> DEFINE B == {T \in SUBSET S : ~Defined(T)}
<1> SUFFICES ASSUME B # {} PROVE FALSE
  OBVIOUS
<1>1. PICK T \in B : \A U \in B : U \subseteq T => U = T
  <2>1. B \subseteq SUBSET S
    OBVIOUS
  <2> HIDE DEF B
  <2> QED
    BY <2>1, SmallestSubset
<1>2. IsFiniteSet(T)
  BY FS_Subset
<1> QED
  BY <1>1, <1>2, DefinedStep

LEMMA TotalOfNone == Total({}) = 0
  BY TotalIsSums, SumsDefined, FS_EmptySet DEF Defined, Sum

LEMMA TotalByFirst ==
  ASSUME NEW S, IsFiniteSet(S), S # {}
  PROVE  Total(S) = First(S).records + Total(S \ {First(S)})
<1> DEFINE u == S \ {First(S)}
<1>1. u \in SUBSET S
  OBVIOUS
<1>2. Sums(S)[S] = First(S).records + Sums(S)[u]
  BY SumsDefined DEF Defined, Sum
<1>3. Sums(S)[u] = Sums(u)[u]
  BY <1>1, SumsDefined DEF Defined
<1> QED
  BY <1>2, <1>3, TotalIsSums

Counted(S) == IsFiniteSet(S) /\ \A e \in S : e.records \in Nat

LEMMA CountedSubset ==
  ASSUME NEW S, Counted(S), NEW T \in SUBSET S PROVE Counted(T)
  BY FS_Subset DEF Counted

LEMMA TotalType == ASSUME NEW S, Counted(S) PROVE Total(S) \in Nat
<1> DEFINE B == {T \in SUBSET S : Total(T) \notin Nat}
<1> SUFFICES ASSUME B # {} PROVE FALSE
  OBVIOUS
<1>1. PICK T \in B : \A U \in B : U \subseteq T => U = T
  <2>1. B \subseteq SUBSET S
    OBVIOUS
  <2> HIDE DEF B
  <2> QED
    BY <2>1, SmallestSubset DEF Counted
<1>2. T # {} /\ Counted(T) /\ Total(T) \notin Nat
  BY TotalOfNone, CountedSubset
<1>3. First(T) \in T /\ T \ {First(T)} \notin B
  BY <1>1, <1>2, FirstIn
<1>4. Total(T \ {First(T)}) \in Nat
  BY <1>3
<1> QED
  BY <1>2, <1>3, <1>4, TotalByFirst DEF Counted

\* The order in which a set is summed does not matter.
LEMMA TotalWithout ==
  ASSUME NEW S, Counted(S)
  PROVE  \A e \in S : Total(S) = e.records + Total(S \ {e})
<1> DEFINE Fine(T) == \A e \in T : Total(T) = e.records + Total(T \ {e})
           B == {T \in SUBSET S : ~Fine(T)}
<1> SUFFICES ASSUME B # {} PROVE FALSE
  OBVIOUS
<1>1. PICK T \in B : \A U \in B : U \subseteq T => U = T
  <2>1. B \subseteq SUBSET S
    OBVIOUS
  <2> HIDE DEF B
  <2> QED
    BY <2>1, SmallestSubset DEF Counted
<1>2. PICK e \in T : Total(T) # e.records + Total(T \ {e})
  BY <1>1
<1> DEFINE f == First(T)
<1>3. Counted(T) /\ f \in T /\ f # e
  BY <1>2, CountedSubset, FirstIn, TotalByFirst DEF Counted
<1>4. Total(T) = f.records + Total(T \ {f})
  BY <1>2, <1>3, TotalByFirst DEF Counted
<1> HIDE DEF f
<1>5. Fine(T \ {f}) /\ Fine(T \ {e})
  BY <1>1, <1>2, <1>3
<1>6. Total(T \ {f}) = e.records + Total((T \ {f}) \ {e})
  BY <1>2, <1>3, <1>5
<1>7. Total(T \ {e}) = f.records + Total((T \ {e}) \ {f})
  BY <1>2, <1>3, <1>5
<1>8. (T \ {f}) \ {e} = (T \ {e}) \ {f}
  OBVIOUS
<1>9. Total((T \ {e}) \ {f}) \in Nat /\ e.records \in Nat /\ f.records \in Nat
  BY <1>2, <1>3, CountedSubset, TotalType DEF Counted
<1> QED
  BY <1>2, <1>4, <1>6, <1>7, <1>8, <1>9

LEMMA TotalWith ==
  ASSUME NEW S, Counted(S), NEW e, e \notin S, e.records \in Nat
  PROVE  /\ Counted(S \union {e})
         /\ Total(S \union {e}) = Total(S) + e.records
<1>1. Counted(S \union {e})
  BY FS_AddElement DEF Counted
<1>2. (S \union {e}) \ {e} = S
  OBVIOUS
<1> QED
  BY <1>1, <1>2, TotalWithout, TotalType

LEMMA TotalOfParts ==
  ASSUME NEW S, Counted(S)
  PROVE  \A A \in SUBSET S : Total(S) = Total(A) + Total(S \ A)
<1> DEFINE B == {A \in SUBSET S : Total(S) # Total(A) + Total(S \ A)}
<1> SUFFICES ASSUME B # {} PROVE FALSE
  OBVIOUS
<1>1. PICK A \in B : \A U \in B : U \subseteq A => U = A
  <2>1. B \subseteq SUBSET S
    OBVIOUS
  <2> HIDE DEF B
  <2> QED
    BY <2>1, SmallestSubset DEF Counted
<1>2. A \in SUBSET S /\ Total(S) # Total(A) + Total(S \ A)
  OBVIOUS
<1>3. A # {}
  <2>1. S \ {} = S
    OBVIOUS
  <2> QED
    BY <1>2, <2>1, TotalOfNone, TotalType
<1>4. PICK e \in A : TRUE
  BY <1>3
<1> DEFINE a == A \ {e}
<1>5. a \in SUBSET S /\ a \subseteq A /\ a # A
  BY <1>4
<1>6. Total(S) = Total(a) + Total(S \ a)
  BY <1>1, <1>5
<1>7. Total(A) = e.records + Total(a)
  BY <1>4, CountedSubset, TotalWithout
<1>8. Total(S \ a) = e.records + Total(S \ A)
  <2>1. e \in S \ a /\ Counted(S \ a) /\ (S \ a) \ {e} = S \ A
    BY <1>4, CountedSubset
  <2> HIDE DEF a
  <2>2. Total(S \ a) = e.records + Total((S \ a) \ {e})
    BY <2>1, TotalWithout
  <2> QED
    BY <2>1, <2>2
<1>9. Total(a) \in Nat /\ Total(S \ A) \in Nat /\ e.records \in Nat
  BY <1>4, CountedSubset, TotalType DEF Counted
<1> HIDE DEF a, B
<1> QED
  BY <1>2, <1>6, <1>7, <1>8, <1>9

LEMMA TotalMonotonic ==
  ASSUME NEW S, Counted(S), NEW A \in SUBSET S
  PROVE  Total(A) \in Nat /\ Total(S) \in Nat /\ Total(A) =< Total(S)
<1>1. Total(S) = Total(A) + Total(S \ A)
  BY TotalOfParts
<1> QED
  BY <1>1, CountedSubset, TotalType

-----------------------------------------------------------------------------
(* The counts, and what a collection evicts.                               *)

\* A list that can be summed and whose entries have places in an order.
Ordered(list) == Counted(list) /\ \A e \in list : e.place \in Nat

\* The inductive invariant of the counts.
CountsInv ==
  /\ places \in Nat
  /\ \A a \in made_answers \union made_referrals : a.records \in Nat
  /\ Ordered(m_answer_list) /\ Ordered(m_referral_list)
  /\ CountsExact

\* What EvictsOldest says of the list a collection leaves.
LeavesTheYoungest(map, list, max, left) ==
  \A e \in Live(map, list) \ left :
    /\ \A f \in left : e.place < f.place
    /\ Total({f \in Live(map, list) : f.place >= e.place}) > max

LEMMA CollectionCounts ==
  ASSUME NEW map, NEW list, Ordered(list), NEW max \in Nat
  PROVE  LET c == Collected(map, list, Total(list), max)
         IN  /\ Ordered(c.list)
             /\ c.num = Total(c.list)
             /\ LeavesTheYoungest(map, list, max, c.list)
<1> DEFINE live == Live(map, list)
           rest == Total(list) - Total(list \ live)
           over == Over(live, rest, max)
           c == Collected(map, list, Total(list), max)
<1>1. c.list = live \ over /\ c.num = rest - Total(over)
  BY Zenon DEF Collected
<1>2. live \in SUBSET list /\ over \in SUBSET live
  BY DEF Live, Over
<1>3. Ordered(live) /\ Ordered(live \ over)
  BY <1>2, CountedSubset DEF Ordered
<1>4. rest = Total(live)
  <2>1. Total(list) = Total(live) + Total(list \ live)
    BY <1>2, TotalOfParts DEF Ordered
  <2>2. Total(live) \in Nat /\ Total(list \ live) \in Nat
    BY <1>2, CountedSubset, TotalType DEF Ordered
  <2> HIDE DEF live
  <2> QED
    BY <2>1, <2>2
<1>5. Total(live) = Total(over) + Total(live \ over)
  BY <1>2, <1>3, TotalOfParts DEF Ordered
<1>6. Total(live) \in Nat /\ Total(over) \in Nat /\ Total(live \ over) \in Nat
  BY <1>2, <1>3, CountedSubset, TotalType DEF Ordered
<1>7. over = {e \in live : Total(live) - Total({f \in live : f.place < e.place}) > max}
  BY <1>4 DEF Over
<1> HIDE DEF live, rest, over, c
<1>8. c.num = Total(c.list)
  BY <1>1, <1>4, <1>5, <1>6
<1>9. ASSUME NEW e \in over
      PROVE  /\ \A f \in live \ over : e.place < f.place
             /\ Total({f \in live : f.place >= e.place}) > max
  <2> DEFINE older == {f \in live : f.place < e.place}
             younger == {f \in live : f.place >= e.place}
  <2>1. e.place \in Nat /\ \A f \in live : f.place \in Nat
    BY <1>2, <1>3 DEF Ordered
  <2>2. older \in SUBSET live /\ younger = live \ older
    BY <2>1
  <2>3. Total(live) - Total(older) > max
    BY <1>7
  <2>4. Total(live) = Total(older) + Total(live \ older)
    BY <2>2, <1>3, TotalOfParts DEF Ordered
  <2>5. Total(older) \in Nat /\ Total(live \ older) \in Nat
    BY <2>2, <1>3, CountedSubset, TotalType DEF Ordered
  <2>6. Total(younger) > max
    <3> HIDE DEF older, younger
    <3> QED
      BY <2>2, <2>3, <2>4, <2>5
  <2>7. ASSUME NEW f \in live \ over PROVE e.place < f.place
    <3> DEFINE before == {g \in live : g.place < f.place}
    <3>1. ~ (Total(live) - Total(before) > max)
      BY <1>7
    <3> SUFFICES ASSUME f.place =< e.place PROVE FALSE
      BY <2>1
    <3>2. before \in SUBSET older /\ Counted(older)
      BY <2>1, <2>2, <1>3, CountedSubset DEF Ordered
    <3> HIDE DEF before, older
    <3>3. Total(before) \in Nat /\ Total(before) =< Total(older)
      BY <3>2, TotalMonotonic
    <3> QED
      BY <3>1, <3>3, <2>3, <2>5, <1>6
  <2> QED
    BY <2>6, <2>7
<1>10. LeavesTheYoungest(map, list, max, c.list)
  <2> SUFFICES ASSUME NEW e \in Live(map, list) \ c.list
               PROVE  /\ \A f \in c.list : e.place < f.place
                      /\ Total({f \in Live(map, list) : f.place >= e.place}) > max
    BY DEF LeavesTheYoungest
  <2>1. Live(map, list) = live
    BY DEF live
  <2>2. e \in over
    BY <1>1, <2>1
  <2> QED
    BY <1>1, <1>9, <2>1, <2>2, Zenon
<1> QED
  BY <1>1, <1>3, <1>8, <1>10 DEF c

\* An answer takes its place at the end of its list.
LEMMA AddCounts ==
  ASSUME NEW list, Ordered(list), places \in Nat, NEW a, a.records \in Nat,
         \A e \in list : a.sequence # e.sequence
  PROVE  LET new == list \union {Listed(a, places + 1)}
         IN  Ordered(new) /\ Total(new) = Total(list) + a.records
<1> DEFINE l == Listed(a, places + 1)
<1>1. l.records = a.records /\ l.sequence = a.sequence /\ l.place = places + 1
  BY DEF Listed
<1> HIDE DEF l
<1>2. l \notin list
  BY <1>1
<1>3. Counted(list \union {l}) /\ Total(list \union {l}) = Total(list) + l.records
  BY <1>1, <1>2, TotalWith DEF Ordered
<1> QED
  BY <1>1, <1>3 DEF Ordered, l

LEMMA KeptOnList ==
  ASSUME NEW map, NEW list, NEW max, NEW left, list \subseteq left
  PROVE  LeavesTheYoungest(map, list, max, left)
BY DEF LeavesTheYoungest, Live

LEMMA CountsInit == Init => CountsInv
BY TotalOfNone, FS_EmptySet DEF Init, CountsInv, CountsExact, Ordered, Counted

Evicting == /\ LeavesTheYoungest(m_answers, m_answer_list, MaxAnswerRRs, m_answer_list')
            /\ LeavesTheYoungest(m_referrals, m_referral_list, MaxReferralRRs, m_referral_list')

LEMMA CountsStep ==
  IInv /\ CountsInv /\ [Next]_vars => CountsInv' /\ Evicting
<1> SUFFICES ASSUME IInv, CountsInv, [Next]_vars PROVE CountsInv' /\ Evicting
  OBVIOUS
<1>1. /\ \A a \in made_answers, e \in m_answer_list : a.sequence # e.sequence
      /\ \A a \in made_referrals, e \in m_referral_list : a.sequence # e.sequence
  BY DEF IInv, AnswersSound, ReferralsSound, Sound, Distinct
<1>2. m_num_answer_rrs = Total(m_answer_list) /\ m_num_referral_rrs = Total(m_referral_list)
  BY DEF CountsInv, CountsExact
<1>3. ASSUME UNCHANGED <<places, answerVars, referralVars>>,
             \A a \in made_answers' \union made_referrals' : a.records \in Nat
      PROVE  CountsInv' /\ Evicting
  <2>1. /\ places' = places
        /\ m_answer_list' = m_answer_list /\ m_num_answer_rrs' = m_num_answer_rrs
        /\ m_referral_list' = m_referral_list /\ m_num_referral_rrs' = m_num_referral_rrs
    BY <1>3 DEF answerVars, referralVars
  <2>2. Evicting
    BY <2>1, KeptOnList DEF Evicting
  <2> QED
    BY <1>3, <2>1, <2>2 DEF CountsInv, CountsExact, Ordered, Counted
<1>4. ASSUME NEW q \in Questions, NEW r \in RecordCounts, MakeAnswer(q, r)
      PROVE  CountsInv' /\ Evicting
  <2>1. \A a \in made_answers' \union made_referrals' : a.records \in Nat
    BY <1>4, CacheAssumption DEF MakeAnswer, CountsInv
  <2> QED
    BY <1>3, <1>4, <2>1 DEF MakeAnswer
<1>5. ASSUME NEW n \in Names, NEW r \in RecordCounts, MakeReferral(n, r)
      PROVE  CountsInv' /\ Evicting
  <2>1. \A a \in made_answers' \union made_referrals' : a.records \in Nat
    BY <1>5, CacheAssumption DEF MakeReferral, CountsInv
  <2> QED
    BY <1>3, <1>5, <2>1 DEF MakeReferral
<1>6. ASSUME NEW i \in Sequences, Expire(i)
      PROVE  CountsInv' /\ Evicting
  BY <1>3, <1>6 DEF Expire, making, CountsInv
<1>7. ASSUME NEW a \in made_answers, PassOver(a)
      PROVE  CountsInv' /\ Evicting
  BY <1>3, <1>7 DEF PassOver, CountsInv
<1>8. ASSUME NEW a \in made_answers, AddAnswer(a)
      PROVE  CountsInv' /\ Evicting
  <2>1. /\ places' = places + 1 /\ made_answers' \subseteq made_answers
        /\ m_answer_list' = m_answer_list \union {Listed(a, places + 1)}
        /\ m_num_answer_rrs' = m_num_answer_rrs + a.records
        /\ made_referrals' = made_referrals
        /\ m_referral_list' = m_referral_list /\ m_num_referral_rrs' = m_num_referral_rrs
    BY <1>8 DEF AddAnswer, referralVars
  <2>2. Ordered(m_answer_list') /\ Total(m_answer_list') = Total(m_answer_list) + a.records
    BY <2>1, <1>1, AddCounts DEF CountsInv
  <2>3. Evicting
    BY <2>1, KeptOnList DEF Evicting
  <2> QED
    BY <1>2, <2>1, <2>2, <2>3 DEF CountsInv, CountsExact, Ordered, Counted
<1>9. ASSUME NEW a \in made_referrals, AddReferral(a)
      PROVE  CountsInv' /\ Evicting
  <2>1. CASE a.key = Root
    <3>1. /\ made_referrals' \subseteq made_referrals /\ made_answers' = made_answers
          /\ UNCHANGED <<places, m_referral_list, m_num_referral_rrs, answerVars>>
      BY <1>9, <2>1 DEF AddReferral
    <3>2. Evicting
      BY <3>1, KeptOnList DEF Evicting, answerVars
    <3> QED
      BY <3>1, <3>2 DEF CountsInv, CountsExact, Ordered, Counted, answerVars
  <2>2. CASE a.key # Root
    <3>1. /\ places' = places + 1 /\ made_referrals' \subseteq made_referrals
          /\ m_referral_list' = m_referral_list \union {Listed(a, places + 1)}
          /\ m_num_referral_rrs' = m_num_referral_rrs + a.records
          /\ made_answers' = made_answers
          /\ m_answer_list' = m_answer_list /\ m_num_answer_rrs' = m_num_answer_rrs
      BY <1>9, <2>2 DEF AddReferral, answerVars
    <3>2. /\ Ordered(m_referral_list')
          /\ Total(m_referral_list') = Total(m_referral_list) + a.records
      BY <3>1, <1>1, AddCounts DEF CountsInv
    <3>3. Evicting
      BY <3>1, KeptOnList DEF Evicting
    <3> QED
      BY <1>2, <3>1, <3>2, <3>3 DEF CountsInv, CountsExact, Ordered, Counted
  <2> QED
    BY <2>1, <2>2
<1>10. CASE CollectAnswers
  <2> DEFINE c == Collected(m_answers, m_answer_list, Total(m_answer_list), MaxAnswerRRs)
  <2>1. /\ m_answer_list' = c.list /\ m_num_answer_rrs' = c.num
        /\ UNCHANGED <<making, places, referralVars>>
    BY <1>2, <1>10 DEF CollectAnswers
  <2>2. /\ Ordered(c.list) /\ c.num = Total(c.list)
        /\ LeavesTheYoungest(m_answers, m_answer_list, MaxAnswerRRs, c.list)
    BY CollectionCounts, CacheAssumption DEF CountsInv
  <2> HIDE DEF c
  <2>3. Evicting
    BY <2>1, <2>2, KeptOnList DEF Evicting, referralVars
  <2> QED
    BY <2>1, <2>2, <2>3 DEF CountsInv, CountsExact, Ordered, Counted, making, referralVars
<1>11. CASE CollectReferrals
  <2> DEFINE c == Collected(m_referrals, m_referral_list, Total(m_referral_list),
                            MaxReferralRRs)
  <2>1. /\ m_referral_list' = c.list /\ m_num_referral_rrs' = c.num
        /\ UNCHANGED <<making, places, answerVars>>
    BY <1>2, <1>11 DEF CollectReferrals
  <2>2. /\ Ordered(c.list) /\ c.num = Total(c.list)
        /\ LeavesTheYoungest(m_referrals, m_referral_list, MaxReferralRRs, c.list)
    BY CollectionCounts, CacheAssumption DEF CountsInv
  <2> HIDE DEF c
  <2>3. Evicting
    BY <2>1, <2>2, KeptOnList DEF Evicting, answerVars
  <2> QED
    BY <2>1, <2>2, <2>3 DEF CountsInv, CountsExact, Ordered, Counted, making, answerVars
<1>12. CASE UNCHANGED vars
  BY <1>3, <1>12 DEF vars, making, CountsInv
<1> QED
  BY <1>4, <1>5, <1>6, <1>7, <1>8, <1>9, <1>10, <1>11, <1>12 DEF Next

THEOREM CountsInvariance == Spec => []CountsInv
BY CountsInit, CountsStep, Invariance, PTL DEF Spec

\* The counts that decide what is thrown away are those of the lists.
THEOREM CountedRight == Spec => []CountsExact
<1>1. CountsInv => CountsExact
  BY DEF CountsInv
<1> QED
  BY CountsInvariance, <1>1, PTL

\* A good answer goes only when those younger than it are to stay, and all of
\* them are too many.
THEOREM OldestGoFirst == Spec => CollectionEvictsOldest
<1>1. Evicting =>
        /\ EvictsOldest(m_answers, m_answer_list, MaxAnswerRRs)
        /\ EvictsOldest(m_referrals, m_referral_list, MaxReferralRRs)
  BY Zenon DEF Evicting, LeavesTheYoungest, EvictsOldest
<1>2. IInv /\ CountsInv /\ [Next]_vars =>
        [/\ EvictsOldest(m_answers, m_answer_list, MaxAnswerRRs)
         /\ EvictsOldest(m_referrals, m_referral_list, MaxReferralRRs)]_vars
  BY <1>1, CountsStep
<1> QED
  BY CountsInvariance, Invariance, <1>2, PTL DEF Spec, CollectionEvictsOldest

-----------------------------------------------------------------------------
(* The root's referral in time.  That it has not expired is not inductive. *)
(* What is: while the thread sleeps an hour is left on it, of which a      *)
(* query may use up one round before the thread has looked and one while   *)
(* it waits for an answer.                                                 *)

\* When the thread last put something in the referral: what is left and how
\* long ago the root servers were asked add up to the two days and a round.
AskedOrShort ==
  \/ min_ttl < OneDay /\ unasked <= since
  \/ min_ttl >= OneDay /\ min_ttl - age + unasked <= TwoDays + Round

\* The inductive invariant: HintsTypeOK, what is left of the referral at each
\* place of the thread, and when the root servers were last asked.
HintsInv ==
  /\ HintsTypeOK
  /\ age <= since
  /\ pc \in {"asleep", "exited"} => min_ttl >= OneHour /\ AskedOrShort
  /\ pc = "querying" => min_ttl >= OneHour - Round /\ unasked <= since
  /\ RootAvailable
  /\ AskedDaily

LEMMA HintsInvariantInit == HintsInit => HintsInv
<1> SUFFICES ASSUME HintsInit PROVE HintsInv
  OBVIOUS
<1> USE RootHintsAssumption DEF HintsInit
<1>1. HintsTypeOK
  <2>1. first_pass \in BOOLEAN /\ shutdown \in BOOLEAN
    OBVIOUS
  <2> QED
    BY <2>1 DEF HintsTypeOK
<1>2. AskedOrShort /\ min_ttl >= OneHour
  BY DEF AskedOrShort
<1>3. RootAvailable /\ AskedDaily
  BY DEF RootAvailable, Expired, AskedDaily
<1> QED
  BY <1>1, <1>2, <1>3 DEF HintsInv

LEMMA HintsInvariantStep == HintsInv /\ [HintsNext]_hints => HintsInv'
<1> SUFFICES ASSUME HintsInv, [HintsNext]_hints PROVE HintsInv'
  OBVIOUS
<1> USE RootHintsAssumption
    DEF HintsInv, HintsTypeOK, AskedOrShort, RootAvailable, Expired, AskedDaily
<1>1. CASE Tick
  BY <1>1 DEF Tick
<1>2. CASE Shutdown
  BY <1>2 DEF Shutdown
<1>3. CASE Exit
  BY <1>3 DEF Exit
<1>4. CASE Look
  \* The referral has not expired, so UpdateTtls takes the age off it.
  <2>1. /\ pc = "asleep" /\ ~Expired
        /\ min_ttl' = min_ttl - age /\ age' = 0 /\ since' = 0
        /\ first_pass' = FALSE /\ shutdown' = shutdown
    BY <1>4 DEF Look, UpdateTtls
  <2>2. /\ min_ttl' \in 0 .. TwoDays /\ min_ttl' >= OneHour - Round
    BY <2>1
  <2>3. first_pass' \in BOOLEAN /\ shutdown' \in BOOLEAN
    BY <2>1
  <2>4. CASE pc' = "querying" /\ unasked' = 0
    <3>1. HintsTypeOK'
      BY <2>1, <2>2, <2>3, <2>4
    <3> QED
      BY <2>1, <2>2, <2>4, <3>1
  <2>5. CASE UNCHANGED <<pc, unasked>> /\ min_ttl' >= OneDay
    <3>1. AskedOrShort'
      BY <2>1, <2>2, <2>5
    <3>2. HintsTypeOK'
      BY <2>1, <2>2, <2>3, <2>5
    <3> QED
      BY <2>1, <2>2, <2>5, <3>1, <3>2
  <2> QED
    BY <1>4, <2>1, <2>2, <2>4, <2>5 DEF Look, UpdateTtls
<1>5. ASSUME NEW outcome \in Outcomes, Finish(outcome) PROVE HintsInv'
  <2>1. pc = "querying"
    BY <1>5 DEF Finish
  <2>2. CASE Throw
    BY <2>1, <2>2 DEF Throw
  <2>3. CASE Replace
    BY <2>1, <2>3 DEF Replace
  <2>4. CASE Extend
    BY <2>1, <2>4 DEF Extend
  <2>5. CASE Keep
    BY <2>1, <2>5 DEF Keep
  <2> QED
    BY <1>5, <2>2, <2>3, <2>4, <2>5 DEF Finish, AllOutcomes
<1>6. CASE UNCHANGED hints
  BY <1>6 DEF hints
<1> QED
  BY <1>1, <1>2, <1>3, <1>4, <1>5, <1>6 DEF HintsNext

THEOREM HintsInvariance == HintsSpec => []HintsInv
BY HintsInvariantInit, HintsInvariantStep, PTL DEF HintsSpec

\* The times stay in their ranges, the age of the referral within a round.
THEOREM HintsTypeCorrect == HintsSpec => []HintsTypeOK
<1>1. HintsInv => HintsTypeOK
  BY DEF HintsInv
<1> QED
  BY HintsInvariance, <1>1, PTL

\* get_referral never finds the root's referral expired.
THEOREM NeverWithoutRoot == HintsSpec => []RootAvailable
<1>1. HintsInv => RootAvailable
  BY DEF HintsInv
<1> QED
  BY HintsInvariance, <1>1, PTL

\* The root servers are asked once in every day and two rounds.
THEOREM AskedEveryDay == HintsSpec => []AskedDaily
<1>1. HintsInv => AskedDaily
  BY DEF HintsInv
<1> QED
  BY HintsInvariance, <1>1, PTL
=============================================================================
