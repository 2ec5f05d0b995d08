--------------------------- MODULE ResolverProofs ---------------------------
(***************************************************************************)
(* For any queries, questions, slots and queue lengths: every envelope has *)
(* one owner, the waiters of a question in flight are alive, one query at  *)
(* a time is in flight for a question, and Resolver implements             *)
(* QueryService.                                                           *)
(*                                                                         *)
(* The argument turns on WaitersAlive: send_response takes over the        *)
(* waiters of its question, and owns them, because a query in flight keeps *)
(* them waiting and no other query in flight has the same question.  A     *)
(* refused enqueue leaves a deleted envelope in the table, which does no   *)
(* harm because nothing is in flight for its question any more, and        *)
(* already_resolving lets nothing be.                                      *)
(***************************************************************************)
EXTENDS Resolver, SequenceTheorems, TLAPS

Resolving == {serving[s] : s \in At({"resolving"})}

\* Everybody's envelopes were received, and a question's waiters asked it.
Known ==
  /\ (handing \union Queued \union Served \union BeingSentTo
        \union Answered \union freed) \subseteq received
  /\ \A q \in Questions : \A e \in m_waiters[q] :
       e \in received /\ QuestionOf[e] = q

\* A slot that sends has a response to copy, to queries that asked the same
\* question; and what was sent is right.
RepliesReady ==
  /\ \A s \in Slots : pc[s] # "sending" => todo[s] = {}
  /\ \A s \in Slots : pc[s] = "sending" =>
       /\ response[serving[s]] = ReplyTo(serving[s])
       /\ \A e \in todo[s] : QuestionOf[e] = QuestionOf[serving[s]]
  /\ \A e \in Answered : response[e] = ReplyTo(e)

IInv ==
  TypeOK /\ SingleOwner /\ WaitersAlive /\ OneAtATime /\ Known /\ RepliesReady

-----------------------------------------------------------------------------
(* Queues without repetition *)

LEMMA AppendNew ==
  ASSUME NEW S, NEW s \in Seq(S), NEW e \in S, IsInjective(s), e \notin Range(s)
  PROVE  /\ Append(s, e) \in Seq(S)
         /\ Range(Append(s, e)) = Range(s) \union {e}
         /\ IsInjective(Append(s, e))
BY SMTT(60) DEF Range, IsInjective

LEMMA TakeHead ==
  ASSUME NEW S, NEW s \in Seq(S), s # << >>, IsInjective(s)
  PROVE  /\ Head(s) \in S /\ Tail(s) \in Seq(S)
         /\ Head(s) \in Range(s)
         /\ Range(Tail(s)) = Range(s) \ {Head(s)}
         /\ IsInjective(Tail(s))
<1> DEFINE t == Tail(s)
<1>1. /\ t \in Seq(S) /\ Len(s) \in Nat \ {0} /\ Len(t) = Len(s) - 1
      /\ DOMAIN s = 1..Len(s) /\ DOMAIN t = 1..Len(t)
      /\ \A i \in 1..Len(t) : t[i] = s[i + 1]
      /\ Head(s) = s[1] /\ s[1] \in S
  OBVIOUS
<1>2. IsInjective(t)
  BY <1>1 DEF IsInjective
<1>3. ASSUME NEW x \in Range(t) PROVE x \in Range(s) \ {Head(s)}
  BY <1>1, <1>3 DEF Range, IsInjective
<1>4. ASSUME NEW x \in Range(s), x # Head(s) PROVE x \in Range(t)
  <2>1. PICK i \in 1..Len(s) : x = s[i]
    BY <1>1, <1>4 DEF Range
  <2>2. i - 1 \in 1..Len(t) /\ t[i - 1] = x
    BY <1>1, <1>4, <2>1
  <2>3. QED
    BY <1>1, <2>2 DEF Range
<1>5. Head(s) \in Range(s)
  BY <1>1 DEF Range
<1>6. Range(t) = Range(s) \ {Head(s)}
  BY <1>3, <1>4
<1>7. QED
  BY <1>1, <1>2, <1>5, <1>6

-----------------------------------------------------------------------------
(* The sets the invariant speaks of *)

LEMMA Sets ==
  ASSUME TypeOK
  PROVE  /\ InFlight = handing \union Queued \union Resolving
         /\ Resolving \subseteq Served
         /\ Served \subseteq Envelopes
         /\ BeingSentTo \subseteq Envelopes
         /\ Queued \subseteq Envelopes
         /\ NoEnvelope \notin Served
BY ResolverAssumption
   DEF TypeOK, InFlight, Resolving, Served, BeingSentTo, Queued, At, Range

\* What an out queue that takes or refuses an envelope of its caller does.
LEMMA ReturnEffect ==
  ASSUME TypeOK, NEW e \in Envelopes, IsInjective(m_out_queue),
         e \notin Range(m_out_queue), Return(e)
  PROVE  /\ m_out_queue' \in Seq(Envelopes)
         /\ freed' \subseteq Envelopes
         /\ IsInjective(m_out_queue')
         /\ \/ /\ freed' = freed \union {e}
               /\ m_out_queue' = m_out_queue
            \/ /\ freed' = freed
               /\ Range(m_out_queue') = Range(m_out_queue) \union {e}
<1>1. CASE Len(m_out_queue) > MaxOut
  BY <1>1 DEF Return, TypeOK
<1>2. CASE ~(Len(m_out_queue) > MaxOut)
  <2>1. m_out_queue' = Append(m_out_queue, e) /\ freed' = freed
    BY <1>2 DEF Return
  <2>2. m_out_queue \in Seq(Envelopes) /\ freed \subseteq Envelopes
    BY DEF TypeOK
  <2>3. QED
    BY <2>1, <2>2, AppendNew
<1>3. QED
  BY <1>1, <1>2

-----------------------------------------------------------------------------
(* The invariant holds initially *)

LEMMA InvariantInit == Init => IInv
<1>1. SUFFICES ASSUME Init PROVE IInv
  OBVIOUS
<1>2. TypeOK
  BY <1>1 DEF Init, TypeOK
<1>3. /\ Queued = {} /\ Served = {} /\ BeingSentTo = {} /\ Answered = {}
      /\ InFlight = {} /\ Resolving = {}
  BY <1>1 DEF Init, Queued, Served, BeingSentTo, Answered, InFlight, Resolving,
              At, Range
<1>4. SingleOwner
  <2>1. IsInjective(m_in_queue) /\ IsInjective(m_out_queue)
    BY <1>1 DEF Init, IsInjective
  <2>2. Range(m_out_queue) = {}
    BY <1>3 DEF Answered
  <2>3. QED
    BY <1>1, <1>3, <2>1, <2>2 DEF Init, SingleOwner
<1>5. QED
  BY <1>1, <1>2, <1>3, <1>4
     DEF Init, IInv, WaitersAlive, OneAtATime, Known, RepliesReady

-----------------------------------------------------------------------------
(* Each action keeps the invariant *)

\* A query just arrived is held by nobody and waits for nothing.
LEMMA Fresh ==
  ASSUME IInv, NEW e \in Envelopes, e \notin received
  PROVE  /\ e \notin handing /\ e \notin Queued /\ e \notin Served
         /\ e \notin BeingSentTo /\ e \notin Answered /\ e \notin freed
         /\ e \notin Resolving /\ e \notin InFlight
         /\ \A q \in Questions : e \notin m_waiters[q]
BY Sets DEF IInv, Known

\* Queries in flight wait for their own question.
LEMMA InFlightWaits ==
  ASSUME IInv, NEW e \in InFlight
  PROVE  e \in m_waiters[QuestionOf[e]] /\ QuestionOf[e] \in Questions
BY Sets, ResolverAssumption DEF IInv, WaitersAlive, TypeOK

LEMMA RegisterStep ==
  ASSUME IInv, NEW e \in Envelopes, Register(e)
  PROVE  IInv'
<1> DEFINE q == QuestionOf[e]
<1>1. /\ q \in Questions
      /\ e \notin received /\ received' = received \union {e}
      /\ m_waiters' = [m_waiters EXCEPT ![q] = @ \union {e}]
      /\ handing' = IF Tracked(q) THEN handing ELSE handing \union {e}
      /\ UNCHANGED <<m_in_queue, m_out_queue, pc, serving, todo, response,
                     returned, freed>>
  BY ResolverAssumption DEF Register, slotVars
<1>2. /\ Queued' = Queued /\ Served' = Served /\ BeingSentTo' = BeingSentTo
      /\ Answered' = Answered /\ Resolving' = Resolving
  BY <1>1 DEF Queued, Served, BeingSentTo, Answered, Resolving, At
<1>3. TypeOK /\ SingleOwner /\ WaitersAlive /\ OneAtATime /\ Known
  BY DEF IInv
<1>4. TypeOK'
  BY <1>1, <1>3 DEF TypeOK
<1>5. InFlight' = IF Tracked(q) THEN InFlight ELSE InFlight \union {e}
  BY <1>1, <1>2, <1>3, Sets DEF InFlight, Resolving
<1>6. m_waiters \in [Questions -> SUBSET Envelopes]
  BY <1>3 DEF TypeOK
<1>7. SingleOwner'
  BY <1>1, <1>2, <1>3, Fresh DEF SingleOwner
<1>8. \A f \in InFlight : QuestionOf[f] = q => Tracked(q)
  BY InFlightWaits DEF Tracked
<1>9. WaitersAlive'
  <2>1. SUFFICES ASSUME NEW f \in InFlight'
                 PROVE  m_waiters'[QuestionOf[f]] \intersect
                          (InFlight' \union Served \union BeingSentTo
                             \union Answered \union freed) = {f}
    BY <1>1, <1>2 DEF WaitersAlive
  <2>2. CASE f \in InFlight
    <3>1. m_waiters[QuestionOf[f]] \intersect
            (InFlight \union Served \union BeingSentTo \union Answered
               \union freed) = {f}
      BY <1>3, <2>2 DEF WaitersAlive
    <3>2. QuestionOf[f] \in Questions
      BY <2>2, InFlightWaits
    <3>3. CASE QuestionOf[f] = q
      <4>1. InFlight' = InFlight
        BY <1>5, <1>8, <2>2, <3>3
      <4>2. m_waiters'[QuestionOf[f]] = m_waiters[QuestionOf[f]] \union {e}
        BY <1>1, <1>6, <3>3
      <4>3. QED
        BY <1>1, <3>1, <4>1, <4>2, Fresh
    <3>4. CASE QuestionOf[f] # q
      <4>1. m_waiters'[QuestionOf[f]] = m_waiters[QuestionOf[f]]
        BY <1>1, <1>6, <3>2, <3>4
      <4>2. e \notin m_waiters[QuestionOf[f]]
        BY <1>1, <3>2, Fresh
      <4>3. QED
        BY <1>5, <3>1, <4>1, <4>2
    <3>5. QED
      BY <3>3, <3>4
  <2>3. CASE f \notin InFlight
    <3>1. f = e /\ ~Tracked(q) /\ InFlight' = InFlight \union {e}
      BY <1>5, <2>1, <2>3
    <3>2. m_waiters'[q] = {e}
      BY <1>1, <1>6, <3>1 DEF Tracked
    <3>3. QED
      BY <3>1, <3>2
  <2>4. QED
    BY <2>2, <2>3
<1>10. OneAtATime'
  BY <1>3, <1>5, <1>8 DEF OneAtATime
<1>11. Known'
  <2>1. \A p \in Questions : m_waiters'[p] \subseteq m_waiters[p] \union {e}
    BY <1>1, <1>6
  <2>2. \A p \in Questions : p # q => m_waiters'[p] = m_waiters[p]
    BY <1>1, <1>6
  <2>3. QED
    BY <1>1, <1>2, <1>3, <2>1, <2>2 DEF Known
<1>12. RepliesReady'
  BY <1>1, <1>2 DEF IInv, RepliesReady
<1>13. QED
  BY <1>4, <1>7, <1>9, <1>10, <1>11, <1>12 DEF IInv

LEMMA HandToPoolStep ==
  ASSUME IInv, NEW e \in Envelopes, HandToPool(e)
  PROVE  IInv'
<1>1. /\ e \in handing /\ handing' = handing \ {e}
      /\ UNCHANGED <<received, m_waiters, m_out_queue, pc, serving, todo,
                     response, returned>>
  BY DEF HandToPool, slotVars
<1>2. /\ Served' = Served /\ BeingSentTo' = BeingSentTo
      /\ Answered' = Answered /\ Resolving' = Resolving
  BY <1>1 DEF Served, BeingSentTo, Answered, Resolving, At
<1>3. TypeOK /\ SingleOwner /\ WaitersAlive /\ OneAtATime /\ Known
  BY DEF IInv
<1>4. /\ e \notin Queued /\ e \notin Served /\ e \notin BeingSentTo
      /\ e \notin Answered /\ e \notin freed /\ e \notin Resolving
  BY <1>1, <1>3, Sets DEF SingleOwner
<1>5. RepliesReady'
  BY <1>1, <1>2 DEF IInv, RepliesReady
<1>6. CASE Len(m_in_queue) > MaxIn
  <2>1. freed' = freed \union {e} /\ m_in_queue' = m_in_queue
    BY <1>6 DEF HandToPool
  <2>2. Queued' = Queued
    BY <2>1 DEF Queued
  <2>3. TypeOK'
    BY <1>1, <1>3, <2>1 DEF TypeOK
  <2>4. InFlight' = InFlight \ {e}
    BY <1>1, <1>2, <1>3, <1>4, <2>2, Sets DEF InFlight, Resolving
  <2>5. SingleOwner'
    BY <1>1, <1>2, <1>3, <1>4, <2>1, <2>2 DEF SingleOwner
  <2>6. WaitersAlive'
    <3>1. SUFFICES ASSUME NEW f \in InFlight, f # e
                   PROVE  m_waiters[QuestionOf[f]] \intersect
                            ((InFlight \ {e}) \union Served \union BeingSentTo
                               \union Answered \union freed \union {e}) = {f}
      BY <1>1, <1>2, <2>1, <2>4 DEF WaitersAlive
    <3>2. e \in InFlight
      BY <1>1, <1>3, Sets
    <3>3. m_waiters[QuestionOf[f]] \intersect
            (InFlight \union Served \union BeingSentTo \union Answered
               \union freed) = {f}
      BY <1>3 DEF WaitersAlive
    <3>4. QED
      BY <3>1, <3>2, <3>3
  <2>7. OneAtATime' /\ Known'
    BY <1>1, <1>2, <1>3, <2>1, <2>2, <2>4 DEF OneAtATime, Known
  <2>8. QED
    BY <1>5, <2>3, <2>5, <2>6, <2>7 DEF IInv
<1>7. CASE ~(Len(m_in_queue) > MaxIn)
  <2>1. freed' = freed /\ m_in_queue' = Append(m_in_queue, e)
    BY <1>7 DEF HandToPool
  <2>2. m_in_queue \in Seq(Envelopes) /\ IsInjective(m_in_queue)
    BY <1>3 DEF TypeOK, SingleOwner
  <2>3. /\ m_in_queue' \in Seq(Envelopes) /\ IsInjective(m_in_queue')
        /\ Queued' = Queued \union {e}
    BY <1>4, <2>1, <2>2, AppendNew DEF Queued
  <2>4. TypeOK'
    BY <1>1, <1>3, <2>1, <2>3 DEF TypeOK
  <2>5. InFlight' = InFlight
    BY <1>1, <1>2, <1>3, <2>3, Sets DEF InFlight, Resolving
  <2>6. SingleOwner'
    BY <1>1, <1>2, <1>3, <1>4, <2>1, <2>3 DEF SingleOwner
  <2>7. WaitersAlive' /\ OneAtATime' /\ Known'
    BY <1>1, <1>2, <1>3, <2>1, <2>3, <2>5 DEF WaitersAlive, OneAtATime, Known
  <2>8. QED
    BY <1>5, <2>4, <2>6, <2>7 DEF IInv
<1>8. QED
  BY <1>6, <1>7

\* Serving, resolving and sending slots, when only slot s moves.
LEMMA TakeStep ==
  ASSUME IInv, NEW s \in Slots, Take(s)
  PROVE  IInv'
<1> DEFINE m == Head(m_in_queue)
<1>1. /\ pc[s] = "idle" /\ m_in_queue # << >> /\ m_in_queue' = Tail(m_in_queue)
      /\ pc' = [pc EXCEPT ![s] = "resolving"]
      /\ serving' = [serving EXCEPT ![s] = m]
      /\ UNCHANGED <<received, m_waiters, handing, m_out_queue, todo, response,
                     returned, freed>>
  BY DEF Take
<1>2. TypeOK /\ SingleOwner /\ WaitersAlive /\ OneAtATime /\ Known
  BY DEF IInv
<1>3. /\ m_in_queue \in Seq(Envelopes) /\ IsInjective(m_in_queue)
      /\ pc \in [Slots -> {"idle", "resolving", "sending"}]
      /\ serving \in [Slots -> Envelopes \union {NoEnvelope}]
      /\ serving[s] = NoEnvelope
  BY <1>1, <1>2 DEF TypeOK, SingleOwner
<1>4. /\ m \in Envelopes /\ m_in_queue' \in Seq(Envelopes)
      /\ m \in Queued /\ Queued' = Queued \ {m} /\ IsInjective(m_in_queue')
  BY <1>1, <1>3, TakeHead DEF Queued
<1>5. TypeOK'
  BY <1>1, <1>2, <1>4, ResolverAssumption DEF TypeOK
<1>6. /\ BeingSentTo' = BeingSentTo /\ Answered' = Answered
      /\ Served' = Served \union {m} /\ Resolving' = Resolving \union {m}
  BY <1>1, <1>3, <1>4 DEF BeingSentTo, Answered, Served, Resolving, At
<1>7. InFlight' = InFlight
  BY <1>1, <1>2, <1>4, <1>6, Sets DEF InFlight, Resolving
<1>8. m \notin Served /\ m \in InFlight
  BY <1>2, <1>4, Sets DEF SingleOwner
<1>9. \A t \in Slots : t # s => serving[t] # m
  BY <1>2, <1>4, <1>8, ResolverAssumption DEF TypeOK, Served, At
<1>10. SingleOwner'
  <2>1. \A t, u \in Slots : t # u =>
          /\ (serving'[t] = serving'[u] => serving'[t] = NoEnvelope)
          /\ todo'[t] \intersect todo'[u] = {}
    BY <1>1, <1>2, <1>3, <1>9 DEF SingleOwner
  <2>2. QED
    BY <1>1, <1>2, <1>4, <1>6, <1>8, <2>1 DEF SingleOwner
<1>11. WaitersAlive'
  BY <1>1, <1>2, <1>6, <1>7, <1>8 DEF WaitersAlive
<1>12. OneAtATime' /\ Known'
  BY <1>1, <1>2, <1>4, <1>6, <1>7 DEF OneAtATime, Known
<1>13. RepliesReady'
  BY <1>1, <1>3, <1>6 DEF IInv, RepliesReady
<1>14. QED
  BY <1>5, <1>10, <1>11, <1>12, <1>13 DEF IInv

\* What is served, when a slot that served m serves it no more.
LEMMA Released ==
  ASSUME IInv, NEW s \in Slots, pc[s] # "idle",
         pc' = [pc EXCEPT ![s] = "idle"],
         serving' = [serving EXCEPT ![s] = NoEnvelope]
  PROVE  /\ serving[s] \in Served /\ Served' = Served \ {serving[s]}
         /\ Resolving' = Resolving \ {serving[s]}
         /\ \A t, u \in Slots : t # u =>
              (serving'[t] = serving'[u] => serving'[t] = NoEnvelope)
         /\ \A t \in Slots : pc'[t] = "idle" <=> serving'[t] = NoEnvelope
         /\ serving' \in [Slots -> Envelopes \union {NoEnvelope}]
         /\ pc' \in [Slots -> {"idle", "resolving", "sending"}]
<1>1. /\ pc \in [Slots -> {"idle", "resolving", "sending"}]
      /\ serving \in [Slots -> Envelopes \union {NoEnvelope}]
      /\ \A t \in Slots : pc[t] = "idle" <=> serving[t] = NoEnvelope
      /\ \A t, u \in Slots : t # u =>
           (serving[t] = serving[u] => serving[t] = NoEnvelope)
  BY DEF IInv, TypeOK, SingleOwner
<1>2. \A t \in Slots : t # s => pc'[t] = pc[t] /\ serving'[t] = serving[t]
  BY <1>1
<1>3. pc'[s] = "idle" /\ serving'[s] = NoEnvelope
  BY <1>1
<1>4. \A t \in Slots : t # s /\ pc[t] # "idle" => serving[t] # serving[s]
  BY <1>1
<1>5. serving[s] \in Served /\ Served' = Served \ {serving[s]}
  BY <1>1, <1>2, <1>3, <1>4 DEF Served, At
<1>6. Resolving' = Resolving \ {serving[s]}
  BY <1>1, <1>2, <1>3, <1>4 DEF Resolving, At
<1>7. QED
  BY <1>1, <1>2, <1>3, <1>5, <1>6

LEMMA AbandonStep ==
  ASSUME IInv, NEW s \in Slots, Abandon(s)
  PROVE  IInv'
<1> DEFINE m == serving[s]
<1>1. /\ pc[s] = "resolving"
      /\ pc' = [pc EXCEPT ![s] = "idle"]
      /\ serving' = [serving EXCEPT ![s] = NoEnvelope]
      /\ UNCHANGED <<received, m_waiters, handing, m_in_queue, m_out_queue,
                     todo, response, returned, freed>>
  BY DEF Abandon
<1>2. TypeOK /\ SingleOwner /\ WaitersAlive /\ OneAtATime /\ Known
  BY DEF IInv
<1>3. /\ Served' = Served \ {m} /\ Resolving' = Resolving \ {m} /\ m \in Served
      /\ BeingSentTo' = BeingSentTo /\ Answered' = Answered /\ Queued' = Queued
  <2>1. pc[s] # "idle"
    BY <1>1
  <2>2. /\ Served' = Served \ {m} /\ Resolving' = Resolving \ {m}
        /\ m \in Served
    BY <1>1, <2>1, Released
  <2>3. QED
    BY <1>1, <2>2 DEF BeingSentTo, Answered, Queued
<1>4. TypeOK'
  BY <1>1, <1>2, Released DEF TypeOK
<1>5. InFlight' = InFlight \ {m}
  <2>1. m \notin handing /\ m \notin Queued
    BY <1>2, <1>3 DEF SingleOwner
  <2>2. QED
    BY <1>1, <1>2, <1>3, <2>1, Sets DEF InFlight, Resolving
<1>6. SingleOwner'
  <2>1. \A t, u \in Slots : t # u =>
          /\ (serving'[t] = serving'[u] => serving'[t] = NoEnvelope)
          /\ todo'[t] \intersect todo'[u] = {}
    BY <1>1, <1>2, Released DEF SingleOwner
  <2>2. QED
    BY <1>1, <1>2, <1>3, <2>1 DEF SingleOwner
<1>7. WaitersAlive' /\ OneAtATime' /\ Known'
  BY <1>1, <1>2, <1>3, <1>5 DEF WaitersAlive, OneAtATime, Known
<1>8. RepliesReady'
  BY <1>1, <1>2, <1>3 DEF IInv, RepliesReady, TypeOK
<1>9. QED
  BY <1>4, <1>6, <1>7, <1>8 DEF IInv

LEMMA AnswerStep ==
  ASSUME IInv, NEW s \in Slots, Answer(s)
  PROVE  IInv'
<1> DEFINE m == serving[s]
           q == QuestionOf[m]
           w == m_waiters[q] \ {m}
<1>1. /\ pc[s] = "resolving"
      /\ response' = [response EXCEPT ![m] = ReplyTo(m)]
      /\ todo' = [todo EXCEPT ![s] = w]
      /\ m_waiters' = [m_waiters EXCEPT ![q] = {}]
      /\ pc' = [pc EXCEPT ![s] = "sending"]
      /\ UNCHANGED <<received, handing, m_in_queue, m_out_queue, serving,
                     returned, freed>>
  BY DEF Answer
<1>2. TypeOK /\ SingleOwner /\ WaitersAlive /\ OneAtATime /\ Known /\ RepliesReady
  BY DEF IInv
<1>3. /\ m_waiters \in [Questions -> SUBSET Envelopes]
      /\ pc \in [Slots -> {"idle", "resolving", "sending"}]
      /\ serving \in [Slots -> Envelopes \union {NoEnvelope}]
      /\ todo \in [Slots -> SUBSET Envelopes]
      /\ \A t \in Slots : pc[t] = "idle" <=> serving[t] = NoEnvelope
      /\ \A t, u \in Slots : t # u =>
           (serving[t] = serving[u] => serving[t] = NoEnvelope)
  BY <1>2 DEF TypeOK, SingleOwner
<1>4. /\ m \in Envelopes /\ m # NoEnvelope /\ q \in Questions
      /\ m \in Resolving /\ m \in Served /\ m \in InFlight
  BY <1>1, <1>3, ResolverAssumption DEF Resolving, Served, InFlight, At
<1>5. m_waiters[q] \intersect (InFlight \union Served \union BeingSentTo
                                \union Answered \union freed) = {m}
  BY <1>2, <1>4 DEF WaitersAlive
<1>6. /\ w \subseteq Envelopes
      /\ w \intersect (InFlight \union Served \union BeingSentTo
                       \union Answered \union freed) = {}
  BY <1>3, <1>4, <1>5
<1>7. todo[s] = {}
  BY <1>1, <1>2 DEF RepliesReady
<1>8. /\ todo'[s] = w
      /\ \A t \in Slots : t # s => todo'[t] = todo[t] /\ pc'[t] = pc[t]
  BY <1>1, <1>3
<1>9. BeingSentTo' = BeingSentTo \union w
  BY <1>7, <1>8 DEF BeingSentTo
<1>10. /\ Served' = Served /\ Resolving' = Resolving \ {m}
       /\ Answered' = Answered /\ Queued' = Queued
  <2>1. Served' = Served
    BY <1>1, <1>3 DEF Served, At
  <2>2. \A t \in Slots : t # s /\ pc[t] = "resolving" => serving[t] # m
    BY <1>3, <1>4
  <2>3. Resolving' = Resolving \ {m}
    BY <1>1, <1>3, <2>2 DEF Resolving, At
  <2>4. QED
    BY <1>1, <2>1, <2>3 DEF Answered, Queued
<1>11. InFlight' = InFlight \ {m}
  <2>1. m \notin handing /\ m \notin Queued
    BY <1>2, <1>4 DEF SingleOwner
  <2>2. QED
    BY <1>1, <1>2, <1>10, <2>1, Sets DEF InFlight, Resolving
<1>12. TypeOK'
  <2>1. ReplyTo(m) \in Responses
    BY <1>4 DEF ReplyTo, Responses
  <2>2. QED
    BY <1>1, <1>2, <1>4, <1>6, <2>1 DEF TypeOK
<1>13. SingleOwner'
  <2>1. w \intersect BeingSentTo = {}
    BY <1>6
  <2>2. \A t, u \in Slots : t # u => todo'[t] \intersect todo'[u] = {}
    <3>1. SUFFICES ASSUME NEW t \in Slots, NEW u \in Slots, t # u
                   PROVE  todo'[t] \intersect todo'[u] = {}
      OBVIOUS
    <3>2. todo[t] \subseteq BeingSentTo /\ todo[u] \subseteq BeingSentTo
      BY DEF BeingSentTo
    <3>3. todo[t] \intersect todo[u] = {}
      BY <1>2, <3>1 DEF SingleOwner
    <3>4. QED
      BY <1>8, <2>1, <3>1, <3>2, <3>3
  <2>3. w \intersect (handing \union Queued \union Served \union Answered
                       \union freed) = {}
    BY <1>2, <1>6, Sets
  <2>4. QED
    BY <1>1, <1>2, <1>9, <1>10, <2>2, <2>3 DEF SingleOwner
<1>14. \A f \in InFlight' : QuestionOf[f] \in Questions /\ QuestionOf[f] # q
  BY <1>2, <1>4, <1>11, InFlightWaits DEF OneAtATime
<1>15. WaitersAlive'
  <2>1. SUFFICES ASSUME NEW f \in InFlight'
                 PROVE  m_waiters'[QuestionOf[f]] \intersect
                          (InFlight' \union Served \union BeingSentTo'
                             \union Answered \union freed) = {f}
    BY <1>1, <1>10 DEF WaitersAlive
  <2>2. m_waiters'[QuestionOf[f]] = m_waiters[QuestionOf[f]]
    BY <1>1, <1>3, <1>14
  <2>3. m_waiters[QuestionOf[f]] \intersect w = {}
    BY <1>2, <1>4, <1>14 DEF Known
  <2>4. m_waiters[QuestionOf[f]] \intersect
          (InFlight \union Served \union BeingSentTo \union Answered
             \union freed) = {f}
    BY <1>2, <1>11 DEF WaitersAlive
  <2>5. QED
    BY <1>9, <1>11, <2>2, <2>3, <2>4
<1>16. OneAtATime'
  BY <1>2, <1>11 DEF OneAtATime
<1>17. Known'
  <2>1. w \subseteq received
    BY <1>2, <1>4 DEF Known
  <2>2. \A p \in Questions : m_waiters'[p] \subseteq m_waiters[p]
    BY <1>1, <1>3
  <2>3. QED
    BY <1>1, <1>2, <1>9, <1>10, <2>1, <2>2 DEF Known
<1>18. RepliesReady'
  <2>1. response'[m] = ReplyTo(m)
    BY <1>1, <1>2, <1>4 DEF TypeOK
  <2>2. \A e \in Envelopes : e # m => response'[e] = response[e]
    BY <1>1, <1>2 DEF TypeOK
  <2>3. \A e \in w : QuestionOf[e] = q
    BY <1>2, <1>4 DEF Known
  <2>4. \A e \in Answered : e \in Envelopes /\ e # m
    BY <1>2, <1>4 DEF SingleOwner, Answered, Range, TypeOK
  <2>5. ASSUME NEW t \in Slots, pc'[t] # "sending" PROVE todo'[t] = {}
    BY <1>1, <1>2, <1>3, <1>8, <2>5 DEF RepliesReady
  <2>6. ASSUME NEW t \in Slots, pc'[t] = "sending"
        PROVE  /\ response'[serving'[t]] = ReplyTo(serving'[t])
               /\ \A e \in todo'[t] : QuestionOf[e] = QuestionOf[serving'[t]]
    <3>1. CASE t = s
      BY <1>1, <1>8, <2>1, <2>3, <3>1
    <3>2. CASE t # s
      <4>1. pc[t] = "sending" /\ serving[t] \in Envelopes /\ serving[t] # m
        BY <1>3, <1>4, <1>8, <2>6, <3>2
      <4>2. QED
        BY <1>1, <1>2, <1>8, <2>2, <3>2, <4>1 DEF RepliesReady
    <3>3. QED
      BY <3>1, <3>2
  <2>7. QED
    BY <1>2, <1>10, <2>2, <2>4, <2>5, <2>6 DEF RepliesReady
<1>19. QED
  BY <1>12, <1>13, <1>15, <1>16, <1>17, <1>18 DEF IInv

\* An envelope that leaves a slot for the out queue, or for delete, was held
\* by that slot alone.
LEMMA SendToWaiterStep ==
  ASSUME IInv, NEW s \in Slots, NEW e \in Envelopes, SendToWaiter(s, e)
  PROVE  IInv'
<1> DEFINE m == serving[s]
<1>1. /\ pc[s] = "sending" /\ e \in todo[s]
      /\ response' = [response EXCEPT ![e] = [response[m] EXCEPT !.id = e]]
      /\ todo' = [todo EXCEPT ![s] = @ \ {e}]
      /\ Return(e)
      /\ UNCHANGED <<received, m_waiters, handing, m_in_queue, pc, serving,
                     returned>>
  BY DEF SendToWaiter
<1>2. TypeOK /\ SingleOwner /\ WaitersAlive /\ OneAtATime /\ Known /\ RepliesReady
  BY DEF IInv
<1>3. /\ todo \in [Slots -> SUBSET Envelopes]
      /\ serving \in [Slots -> Envelopes \union {NoEnvelope}]
      /\ m \in Envelopes
      /\ \A t, u \in Slots : t # u => todo[t] \intersect todo[u] = {}
  BY <1>1, <1>2 DEF TypeOK, SingleOwner
<1>4. /\ todo'[s] = todo[s] \ {e}
      /\ \A t \in Slots : t # s => todo'[t] = todo[t] /\ e \notin todo[t]
  BY <1>1, <1>3
<1>5. e \in BeingSentTo /\ BeingSentTo' = BeingSentTo \ {e}
  BY <1>1, <1>4 DEF BeingSentTo
<1>6. /\ e \notin handing /\ e \notin Queued /\ e \notin Served
      /\ e \notin Answered /\ e \notin freed /\ e \notin InFlight
      /\ e \notin Range(m_out_queue) /\ e \notin returned
  BY <1>2, <1>5, Sets DEF SingleOwner, Answered
<1>7. /\ Served' = Served /\ Resolving' = Resolving /\ Queued' = Queued
      /\ InFlight' = InFlight
  BY <1>1 DEF Served, Resolving, Queued, InFlight, At
<1>8. /\ m_out_queue' \in Seq(Envelopes)
      /\ freed' \subseteq Envelopes
      /\ IsInjective(m_out_queue')
      /\ \/ /\ freed' = freed \union {e}
            /\ m_out_queue' = m_out_queue
         \/ /\ freed' = freed
            /\ Range(m_out_queue') = Range(m_out_queue) \union {e}
  BY <1>1, <1>2, <1>6, ReturnEffect DEF SingleOwner
<1>9. [response[m] EXCEPT !.id = e] = ReplyTo(e)
  <2>1. response[m] = [id |-> m, question |-> QuestionOf[m]]
    BY <1>1, <1>2 DEF RepliesReady, ReplyTo
  <2>2. QuestionOf[e] = QuestionOf[m]
    BY <1>1, <1>2 DEF RepliesReady
  <2>3. QED
    BY <2>1, <2>2 DEF ReplyTo
<1>10. TypeOK'
  <2>1. ReplyTo(e) \in Responses
    BY ResolverAssumption DEF ReplyTo, Responses
  <2>2. QED
    BY <1>1, <1>2, <1>8, <1>9, <2>1 DEF TypeOK
<1>11. SingleOwner'
  <2>1. \A t, u \in Slots : t # u => todo'[t] \intersect todo'[u] = {}
    BY <1>3, <1>4
  <2>2. CASE freed' = freed \union {e} /\ m_out_queue' = m_out_queue
    BY <1>1, <1>2, <1>5, <1>6, <1>7, <2>1, <2>2 DEF SingleOwner, Answered
  <2>3. CASE /\ freed' = freed
             /\ Range(m_out_queue') = Range(m_out_queue) \union {e}
    BY <1>1, <1>2, <1>5, <1>6, <1>7, <1>8, <2>1, <2>3 DEF SingleOwner, Answered
  <2>4. QED
    BY <1>8, <2>2, <2>3
<1>12. BeingSentTo' \union Answered' \union freed'
         = BeingSentTo \union Answered \union freed
  BY <1>1, <1>5, <1>8 DEF Answered
<1>13. WaitersAlive'
  BY <1>1, <1>2, <1>7, <1>12 DEF WaitersAlive
<1>14. OneAtATime' /\ Known'
  BY <1>1, <1>2, <1>7, <1>12 DEF OneAtATime, Known
<1>15. RepliesReady'
  <2>1. /\ response'[e] = ReplyTo(e)
        /\ \A f \in Envelopes : f # e => response'[f] = response[f]
    BY <1>1, <1>2, <1>9 DEF TypeOK
  <2>2. \A t \in Slots : pc[t] = "sending" =>
          serving[t] \in Envelopes /\ serving[t] # e
    BY <1>2, <1>6 DEF TypeOK, Served, At
  <2>3. \A f \in Answered' : f = e \/ f \in Answered
    BY <1>1, <1>8 DEF Answered
  <2>4. Answered \subseteq Envelopes
    BY <1>2 DEF Answered, Range, TypeOK
  <2>5. QED
    BY <1>1, <1>2, <1>4, <2>1, <2>2, <2>3, <2>4 DEF RepliesReady
<1>16. QED
  BY <1>10, <1>11, <1>13, <1>14, <1>15 DEF IInv

LEMMA SendOwnStep ==
  ASSUME IInv, NEW s \in Slots, SendOwn(s)
  PROVE  IInv'
<1> DEFINE m == serving[s]
<1>1. /\ pc[s] = "sending" /\ todo[s] = {}
      /\ response' = [response EXCEPT ![m].id = m]
      /\ Return(m)
      /\ pc' = [pc EXCEPT ![s] = "idle"]
      /\ serving' = [serving EXCEPT ![s] = NoEnvelope]
      /\ UNCHANGED <<received, m_waiters, handing, m_in_queue, todo, returned>>
  BY DEF SendOwn
<1>2. TypeOK /\ SingleOwner /\ WaitersAlive /\ OneAtATime /\ Known /\ RepliesReady
  BY DEF IInv
<1>3. /\ pc \in [Slots -> {"idle", "resolving", "sending"}]
      /\ serving \in [Slots -> Envelopes \union {NoEnvelope}]
      /\ \A t \in Slots : pc[t] = "idle" <=> serving[t] = NoEnvelope
      /\ m \in Envelopes
  BY <1>1, <1>2 DEF TypeOK
<1>4. /\ m \in Served /\ Served' = Served \ {m} /\ Resolving' = Resolving \ {m}
  <2>1. pc[s] # "idle"
    BY <1>1
  <2>2. QED
    BY <1>1, <2>1, Released
<1>5. m \notin Resolving
  BY <1>1, <1>2, <1>3 DEF Resolving, At, SingleOwner
<1>6. /\ m \notin handing /\ m \notin Queued /\ m \notin BeingSentTo
      /\ m \notin Answered /\ m \notin freed /\ m \notin InFlight
      /\ m \notin Range(m_out_queue) /\ m \notin returned
  BY <1>2, <1>4, <1>5, Sets DEF SingleOwner, Answered
<1>7. /\ BeingSentTo' = BeingSentTo /\ Queued' = Queued
      /\ Resolving' = Resolving /\ InFlight' = InFlight
  <2>1. Resolving' = Resolving
    BY <1>4, <1>5
  <2>2. BeingSentTo' = BeingSentTo /\ Queued' = Queued
    BY <1>1 DEF BeingSentTo, Queued
  <2>3. QED
    BY <1>1, <2>1, <2>2 DEF InFlight, Resolving
<1>8. /\ m_out_queue' \in Seq(Envelopes)
      /\ freed' \subseteq Envelopes
      /\ IsInjective(m_out_queue')
      /\ \/ /\ freed' = freed \union {m}
            /\ m_out_queue' = m_out_queue
         \/ /\ freed' = freed
            /\ Range(m_out_queue') = Range(m_out_queue) \union {m}
  BY <1>1, <1>2, <1>3, <1>6, ReturnEffect DEF SingleOwner
<1>9. response' = response /\ response[m] = ReplyTo(m)
  <2>1. response[m] = [id |-> m, question |-> QuestionOf[m]]
    BY <1>1, <1>2 DEF RepliesReady, ReplyTo
  <2>2. [response[m] EXCEPT !.id = m] = response[m]
    BY <2>1
  <2>3. response' = [response EXCEPT ![m] = [response[m] EXCEPT !.id = m]]
    BY <1>1
  <2>4. response \in [Envelopes -> Responses \union {NoResponse}]
    BY <1>2 DEF TypeOK
  <2>5. QED
    BY <1>3, <2>1, <2>2, <2>3, <2>4 DEF ReplyTo
<1>10. TypeOK'
  <2>1. pc[s] # "idle"
    BY <1>1
  <2>2. /\ \A t \in Slots : pc'[t] = "idle" <=> serving'[t] = NoEnvelope
        /\ serving' \in [Slots -> Envelopes \union {NoEnvelope}]
        /\ pc' \in [Slots -> {"idle", "resolving", "sending"}]
    BY <1>1, <2>1, Released
  <2>3. QED
    BY <1>1, <1>2, <1>8, <1>9, <2>2 DEF TypeOK
<1>11. SingleOwner'
  <2>1. pc[s] # "idle"
    BY <1>1
  <2>2. \A t, u \in Slots : t # u =>
          (serving'[t] = serving'[u] => serving'[t] = NoEnvelope)
    BY <1>1, <2>1, Released
  <2>3. CASE freed' = freed \union {m} /\ m_out_queue' = m_out_queue
    BY <1>1, <1>2, <1>4, <1>6, <1>7, <2>2, <2>3 DEF SingleOwner, Answered
  <2>4. CASE /\ freed' = freed
             /\ Range(m_out_queue') = Range(m_out_queue) \union {m}
    BY <1>1, <1>2, <1>4, <1>6, <1>7, <1>8, <2>2, <2>4 DEF SingleOwner, Answered
  <2>5. QED
    BY <1>8, <2>3, <2>4
<1>12. /\ Answered' \union freed' = Answered \union freed \union {m}
       /\ Served' \union Answered' \union freed'
            = Served \union Answered \union freed
  BY <1>1, <1>4, <1>8 DEF Answered
<1>13. WaitersAlive'
  BY <1>1, <1>2, <1>7, <1>12 DEF WaitersAlive
<1>14. OneAtATime' /\ Known'
  BY <1>1, <1>2, <1>7, <1>12 DEF OneAtATime, Known
<1>15. RepliesReady'
  <2>1. \A f \in Answered' : f = m \/ f \in Answered
    BY <1>1, <1>8 DEF Answered
  <2>2. \A t \in Slots : t # s => pc'[t] = pc[t] /\ serving'[t] = serving[t]
    BY <1>1, <1>3
  <2>3. pc'[s] = "idle" /\ todo' = todo
    BY <1>1, <1>3
  <2>4. QED
    BY <1>1, <1>2, <1>9, <2>1, <2>2, <2>3 DEF RepliesReady
<1>16. QED
  BY <1>10, <1>11, <1>13, <1>14, <1>15 DEF IInv

LEMMA DequeueStep ==
  ASSUME IInv, Dequeue
  PROVE  IInv'
<1> DEFINE m == Head(m_out_queue)
<1>1. /\ m_out_queue # << >> /\ m_out_queue' = Tail(m_out_queue)
      /\ returned' = returned \union {m}
      /\ UNCHANGED <<received, m_waiters, handing, m_in_queue, pc, serving, todo,
                     response, freed>>
  BY DEF Dequeue, slotVars
<1>2. TypeOK /\ SingleOwner /\ WaitersAlive /\ OneAtATime /\ Known
  BY DEF IInv
<1>3. m_out_queue \in Seq(Envelopes) /\ IsInjective(m_out_queue)
  BY <1>2 DEF TypeOK, SingleOwner
<1>4. /\ m \in Envelopes /\ m_out_queue' \in Seq(Envelopes)
      /\ m \in Range(m_out_queue) /\ IsInjective(m_out_queue')
      /\ Range(m_out_queue') = Range(m_out_queue) \ {m}
  BY <1>1, <1>3, TakeHead
<1>5. /\ Answered' = Answered /\ Served' = Served /\ Queued' = Queued
      /\ BeingSentTo' = BeingSentTo /\ InFlight' = InFlight
  BY <1>1, <1>4 DEF Answered, Served, Queued, BeingSentTo, InFlight, At
<1>6. TypeOK'
  BY <1>1, <1>2, <1>4 DEF TypeOK
<1>7. SingleOwner'
  BY <1>1, <1>2, <1>4, <1>5 DEF SingleOwner
<1>8. WaitersAlive' /\ OneAtATime' /\ Known'
  BY <1>1, <1>2, <1>5 DEF WaitersAlive, OneAtATime, Known
<1>9. RepliesReady'
  BY <1>1, <1>5 DEF IInv, RepliesReady
<1>10. QED
  BY <1>6, <1>7, <1>8, <1>9 DEF IInv

LEMMA InvariantStep == IInv /\ [Next]_vars => IInv'
<1>1. SUFFICES ASSUME IInv, [Next]_vars PROVE IInv'
  OBVIOUS
<1>2. CASE UNCHANGED vars
  <2>1. /\ Served' = Served /\ Queued' = Queued /\ Answered' = Answered
        /\ BeingSentTo' = BeingSentTo /\ InFlight' = InFlight
    BY <1>2 DEF vars, slotVars, Answered, Served, Queued, BeingSentTo,
                InFlight, At
  <2>2. QED
    BY <1>1, <1>2, <2>1 DEF vars, slotVars, IInv, TypeOK, SingleOwner,
       WaitersAlive, OneAtATime, Known, RepliesReady
<1>3. CASE \E e \in Envelopes : Register(e) \/ HandToPool(e)
  BY <1>1, <1>3, RegisterStep, HandToPoolStep
<1>4. ASSUME NEW s \in Slots, Take(s) \/ Abandon(s) \/ Answer(s) \/ SendOwn(s)
      PROVE  IInv'
  BY <1>1, <1>4, TakeStep, AbandonStep, AnswerStep, SendOwnStep
<1>5. ASSUME NEW s \in Slots, NEW e \in Envelopes, SendToWaiter(s, e)
      PROVE  IInv'
  BY <1>1, <1>5, SendToWaiterStep
<1>6. CASE Dequeue
  BY <1>1, <1>6, DequeueStep
<1>7. QED
  BY <1>1, <1>2, <1>3, <1>4, <1>5, <1>6 DEF Next

THEOREM Invariance == Spec => []IInv
BY InvariantInit, InvariantStep, PTL DEF Spec

\* The variables have their types.
THEOREM TypeCorrect == Spec => []TypeOK
BY Invariance, PTL DEF IInv

\* No envelope is used after it was deleted or handed on, none is answered
\* twice, whatever the threads and the full queues do.
THEOREM OwnedOnce == Spec => []SingleOwner
BY Invariance, PTL DEF IInv

\* The pointers send_response takes from the slot manager are good.
THEOREM NoDanglingWaiter == Spec => []WaitersAlive
BY Invariance, PTL DEF IInv

\* The slot manager keeps parallel queries with one question from the slots.
THEOREM Coalesced == Spec => []OneAtATime
BY Invariance, PTL DEF IInv

-----------------------------------------------------------------------------
(* Refinement *)

Status == [e \in Envelopes |->
             IF e \in freed THEN "dropped"
             ELSE IF e \in Answered THEN "answered"
             ELSE IF e \in received THEN "pending"
             ELSE "new"]

Reply == [e \in Envelopes |-> IF e \in Answered THEN response[e] ELSE NoResponse]

\* A step that settles no query, and changes no settled one, is a stutter.
LEMMA Stutter ==
  ASSUME freed' = freed, Answered' = Answered, received' = received,
         \A e \in Answered : response'[e] = response[e]
  PROVE  Status' = Status /\ Reply' = Reply
BY DEF Status, Reply

\* An envelope that a slot lets go of is answered or dropped.
LEMMA Settled ==
  ASSUME IInv, IInv', NEW e \in Envelopes,
         e \in received, e \notin Answered, e \notin freed, e \notin returned,
         received' = received, returned' = returned, Return(e),
         \A f \in Answered : response'[f] = response[f]
  PROVE  Service!Answer(e) \/ Service!Drop(e)
<1>1. Status[e] = "pending"
  BY DEF Status
<1>2. \/ freed' = freed \union {e} /\ Answered' = Answered
      \/ freed' = freed /\ Answered' = Answered \union {e}
  <2>1. /\ IsInjective(m_out_queue) /\ e \notin Range(m_out_queue) /\ TypeOK
    BY DEF IInv, SingleOwner, Answered
  <2>2. \/ freed' = freed \union {e} /\ m_out_queue' = m_out_queue
        \/ /\ freed' = freed
           /\ Range(m_out_queue') = Range(m_out_queue) \union {e}
    BY <2>1, ReturnEffect
  <2>3. QED
    BY <2>2 DEF Answered
<1>3. CASE freed' = freed \union {e} /\ Answered' = Answered
  <2>1. Status' = [Status EXCEPT ![e] = "dropped"] /\ Reply' = Reply
    BY <1>3 DEF Status, Reply
  <2>2. QED
    BY <1>1, <2>1 DEF Service!Drop, Status, Reply
<1>4. CASE freed' = freed /\ Answered' = Answered \union {e}
  <2>1. response'[e] = [id |-> e, question |-> QuestionOf[e]]
    BY <1>4 DEF IInv, RepliesReady, ReplyTo
  <2>2. Status' = [Status EXCEPT ![e] = "answered"]
    BY <1>4 DEF Status
  <2>3. Reply' = [Reply EXCEPT ![e] = [id |-> e, question |-> QuestionOf[e]]]
    BY <1>4, <2>1 DEF Reply
  <2>4. QED
    BY <1>1, <2>2, <2>3 DEF Service!Answer, Status, Reply
<1>5. QED
  BY <1>2, <1>3, <1>4

LEMMA ServiceStep ==
  ASSUME IInv, IInv', [Next]_vars
  PROVE  [Service!Next]_(Service!vars)
<1> USE DEF Service!vars
<1>1. ASSUME Status' = Status, Reply' = Reply
      PROVE  UNCHANGED Service!vars
  BY <1>1 DEF Status, Reply
<1>2. ASSUME NEW e \in Envelopes,
             Service!Accept(e) \/ Service!Answer(e) \/ Service!Drop(e)
      PROVE  Service!Next
  BY <1>2 DEF Service!Next
<1>3. CASE UNCHANGED vars
  BY <1>1, <1>3, Stutter DEF vars, slotVars, Answered
<1>4. ASSUME NEW e \in Envelopes, Register(e) PROVE Service!Accept(e)
  <2>1. /\ e \notin received /\ received' = received \union {e}
        /\ freed' = freed /\ Answered' = Answered /\ response' = response
    BY <1>4 DEF Register, Answered
  <2>2. e \notin Answered /\ e \notin freed
    BY <2>1, Fresh
  <2>3. /\ Status[e] = "new" /\ Reply' = Reply
        /\ Status' = [Status EXCEPT ![e] = "pending"]
    BY <2>1, <2>2 DEF Status, Reply
  <2>4. QED
    BY <2>3 DEF Service!Accept, Status, Reply
<1>5. ASSUME NEW e \in Envelopes, HandToPool(e)
      PROVE  Service!Drop(e) \/ UNCHANGED Service!vars
  <2>1. /\ e \in handing /\ received' = received /\ response' = response
        /\ Answered' = Answered
        /\ freed' = freed \union {e} \/ freed' = freed
    BY <1>5 DEF HandToPool, Answered
  <2>2. e \in received /\ e \notin Answered /\ e \notin freed
    BY <2>1 DEF IInv, Known, SingleOwner
  <2>3. CASE freed' = freed
    BY <1>1, <2>1, <2>3, Stutter
  <2>4. CASE freed' = freed \union {e}
    <3>1. /\ Status[e] = "pending" /\ Reply' = Reply
          /\ Status' = [Status EXCEPT ![e] = "dropped"]
      BY <2>1, <2>2, <2>4 DEF Status, Reply
    <3>2. QED
      BY <3>1 DEF Service!Drop, Status, Reply
  <2>5. QED
    BY <2>1, <2>3, <2>4
<1>6. ASSUME NEW s \in Slots, Take(s) \/ Abandon(s) \/ Answer(s)
      PROVE  UNCHANGED Service!vars
  <2>1. freed' = freed /\ Answered' = Answered /\ received' = received
    BY <1>6 DEF Take, Abandon, Answer, Answered
  <2>2. \A e \in Answered : response'[e] = response[e]
    <3>1. CASE Take(s) \/ Abandon(s)
      BY <3>1 DEF Take, Abandon
    <3>2. CASE Answer(s)
      <4>1. serving[s] \notin Answered
        BY <3>2 DEF IInv, SingleOwner, Served, At, Answer
      <4>2. response' = [response EXCEPT ![serving[s]] = ReplyTo(serving[s])]
        BY <3>2 DEF Answer
      <4>3. Answered \subseteq Envelopes
        BY DEF IInv, TypeOK, Answered, Range
      <4>4. QED
        BY <4>1, <4>2, <4>3 DEF IInv, TypeOK
    <3>3. QED
      BY <1>6, <3>1, <3>2
  <2>3. QED
    BY <1>1, <2>1, <2>2, Stutter
<1>7. ASSUME NEW s \in Slots, NEW e \in Envelopes, SendToWaiter(s, e)
      PROVE  Service!Answer(e) \/ Service!Drop(e)
  <2>1. /\ e \in BeingSentTo /\ received' = received /\ returned' = returned
        /\ Return(e)
        /\ \A f \in Envelopes : f # e => response'[f] = response[f]
    BY <1>7 DEF SendToWaiter, BeingSentTo, IInv, TypeOK
  <2>2. e \in received /\ e \notin Answered /\ e \notin freed
    BY <2>1 DEF IInv, Known, SingleOwner
  <2>3. Answered \subseteq Envelopes
    BY DEF IInv, TypeOK, Answered, Range
  <2>4. QED
    BY <2>1, <2>2, <2>3, Settled DEF Answered
<1>8. ASSUME NEW s \in Slots, SendOwn(s)
      PROVE  \E m \in Envelopes : Service!Answer(m) \/ Service!Drop(m)
  <2>1. serving[s] \in Envelopes
    BY <1>8 DEF SendOwn, IInv, TypeOK
  <2>2. PICK m \in Envelopes : m = serving[s]
    BY <2>1
  <2>3. /\ m \in Served
        /\ received' = received /\ returned' = returned /\ Return(m)
        /\ \A f \in Envelopes : f # m => response'[f] = response[f]
    BY <1>8, <2>2 DEF SendOwn, Served, At, IInv, TypeOK
  <2>4. m \in received /\ m \notin Answered /\ m \notin freed
    BY <2>3 DEF IInv, Known, SingleOwner
  <2>5. Answered \subseteq Envelopes
    BY DEF IInv, TypeOK, Answered, Range
  <2>6. QED
    BY <2>3, <2>4, <2>5, Settled DEF Answered
<1>9. CASE Dequeue
  <2>1. /\ freed' = freed /\ received' = received /\ response' = response
        /\ m_out_queue # << >> /\ m_out_queue' = Tail(m_out_queue)
        /\ returned' = returned \union {Head(m_out_queue)}
    BY <1>9 DEF Dequeue
  <2>2. Answered' = Answered
    BY <2>1, TakeHead DEF Answered, IInv, TypeOK, SingleOwner
  <2>3. QED
    BY <1>1, <2>1, <2>2, Stutter
<1>10. CASE \E e \in Envelopes : Register(e) \/ HandToPool(e)
  BY <1>2, <1>4, <1>5, <1>10
<1>11. CASE \E s \in Slots : Take(s) \/ Abandon(s) \/ Answer(s) \/ SendOwn(s)
  BY <1>2, <1>6, <1>8, <1>11
<1>12. CASE \E s \in Slots : \E e \in Envelopes : SendToWaiter(s, e)
  BY <1>2, <1>7, <1>12
<1>13. QED
  BY <1>3, <1>9, <1>10, <1>11, <1>12 DEF Next

\* Resolver implements QueryService: each query is answered at most once,
\* with its own id and question, and never both answered and dropped.
THEOREM Refinement == Spec => ImplementsQueryService
<1>1. Init => Service!Init
  BY DEF Init, Service!Init, Answered, Range
<1>2. IInv /\ IInv' /\ [Next]_vars => [Service!Next]_(Service!vars)
  BY ServiceStep
<1>3. QED
  BY <1>1, <1>2, Invariance, PTL DEF Spec, ImplementsQueryService, Service!Spec
=============================================================================
