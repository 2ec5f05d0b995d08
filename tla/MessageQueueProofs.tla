------------------------- MODULE MessageQueueProofs -------------------------
(***************************************************************************)
(* For any messages, any finite pool of consumers and any maximum length:  *)
(* the queue is first in first out and loses nothing, it is bounded, and   *)
(* no message waits for a sleeping consumer.  The conjunction is inductive *)
(* as it stands; NoLostWakeup needs no part of the others but the types.   *)
(***************************************************************************)
EXTENDS MessageQueue, FiniteSetTheorems, SequenceTheorems, TLAPS

IInv == TypeOK /\ FirstInFirstOut /\ Bounded /\ NoLostWakeup

-----------------------------------------------------------------------------
(* Sequences and sets *)

\* Taking the head of a queue and recording it moves the border between what
\* was taken and what waits, and nothing else.
LEMMA HeadMoves ==
  ASSUME NEW S, NEW s \in Seq(S), NEW t \in Seq(S), s # << >>
  PROVE  Append(t, Head(s)) \o Tail(s) = t \o s
OBVIOUS

LEMMA AppendAtTheEnd ==
  ASSUME NEW S, NEW s \in Seq(S), NEW t \in Seq(S), NEW m \in S
  PROVE  Append(t \o s, m) = t \o Append(s, m)
OBVIOUS

\* A set of consumers has a cardinality, which grows with the set.
LEMMA InFinite ==
  ASSUME NEW S, NEW T, S \subseteq T, T \subseteq Consumers
  PROVE  /\ IsFiniteSet(S) /\ IsFiniteSet(T)
         /\ Cardinality(S) \in Nat /\ Cardinality(T) \in Nat
         /\ Cardinality(S) <= Cardinality(T)
<1>1. IsFiniteSet(T)
  BY QueueAssumption, FS_Subset
<1>2. QED
  BY <1>1, FS_Subset, FS_CardinalityType

LEMMA ComingIsASet == Coming \subseteq Consumers /\ Coming' \subseteq Consumers
BY DEF Coming, In

-----------------------------------------------------------------------------
(* The invariant *)

LEMMA InvariantInit == Init => IInv
<1>1. Init => TypeOK /\ Len(m_message_queue) = 0 /\ Sleeping = {}
  BY EmptySeq DEF Init, TypeOK, ConsumerState, Sleeping, In
<1>2. QED
  BY <1>1, QueueAssumption
     DEF Init, IInv, FirstInFirstOut, Bounded, NoLostWakeup, TypeOK

LEMMA EnqueueStep ==
  ASSUME IInv, NEW m \in Messages, Enqueue(m)
  PROVE  IInv'
<1>1. CASE Full
  BY <1>1 DEF Enqueue, IInv, TypeOK, FirstInFirstOut, Bounded, NoLostWakeup,
              Sleeping, Coming, In
<1>2. CASE ~Full
  <2>1. TypeOK'
    <3>1. consumer' \in [Consumers -> ConsumerState]
      BY <1>2 DEF Enqueue, NotifyOne, Sleeping, In, IInv, TypeOK, ConsumerState
    <3>2. m_message_queue \in Seq(Messages) /\ accepted \in Seq(Messages)
      BY DEF IInv, TypeOK
    <3>3. /\ m_message_queue' = Append(m_message_queue, m)
          /\ accepted' = Append(accepted, m)
      BY <1>2 DEF Enqueue
    <3>4. m_message_queue' \in Seq(Messages) /\ accepted' \in Seq(Messages)
      BY <3>2, <3>3
    <3>5. QED
      BY <1>2, <3>1, <3>4 DEF Enqueue, IInv, TypeOK
  <2>2. FirstInFirstOut'
    <3>1. /\ m_message_queue' = Append(m_message_queue, m)
          /\ accepted' = Append(accepted, m) /\ taken' = taken
      BY <1>2 DEF Enqueue
    <3>2. /\ m_message_queue \in Seq(Messages) /\ taken \in Seq(Messages)
          /\ accepted = taken \o m_message_queue
      BY DEF IInv, TypeOK, FirstInFirstOut
    <3>3. Append(taken \o m_message_queue, m)
            = taken \o Append(m_message_queue, m)
      BY <3>2, AppendAtTheEnd
    <3>4. QED
      BY <3>1, <3>2, <3>3 DEF FirstInFirstOut
  <2>3. Len(m_message_queue') = Len(m_message_queue) + 1
    BY <1>2 DEF Enqueue, IInv, TypeOK
  <2>4. Bounded'
    BY <1>2, <2>3, QueueAssumption DEF Full, IInv, TypeOK, Bounded
  <2>5. NoLostWakeup'
    <3>1. CASE Sleeping = {} /\ UNCHANGED consumer
      BY <3>1 DEF NoLostWakeup, Sleeping, In
    <3>2. CASE \E c \in Sleeping : consumer' = [consumer EXCEPT ![c] = "awake"]
      <4>1. PICK c \in Sleeping : consumer' = [consumer EXCEPT ![c] = "awake"]
        BY <3>2
      <4>2. Coming' = Coming \union {c} /\ c \notin Coming
        BY <4>1 DEF IInv, TypeOK, Sleeping, Coming, In
      <4>3. Cardinality(Coming') = Cardinality(Coming) + 1
        BY <4>2, ComingIsASet, InFinite, FS_AddElement
      <4>4. shutdown' = shutdown /\ Sleeping # {}
        BY <4>1 DEF Enqueue
      <4>5. Len(m_message_queue) \in Nat /\ Cardinality(Coming) \in Nat
        BY ComingIsASet, InFinite DEF IInv, TypeOK
      <4>6. QED
        BY <2>3, <4>3, <4>4, <4>5 DEF IInv, NoLostWakeup
    <3>3. QED
      BY <1>2, <3>1, <3>2 DEF Enqueue, NotifyOne
  <2>6. QED
    BY <2>1, <2>2, <2>4, <2>5 DEF IInv
<1>3. QED
  BY <1>1, <1>2

LEMMA DequeueStep ==
  ASSUME IInv, NEW c \in Consumers, Dequeue(c)
  PROVE  IInv'
<1>1. CASE m_message_queue = << >>
  BY <1>1, ComingIsASet, InFinite DEF Dequeue, IInv, TypeOK, ConsumerState,
     FirstInFirstOut, Bounded, NoLostWakeup
<1>2. CASE m_message_queue # << >>
  <2>1. TypeOK'
    <3>1. m_message_queue \in Seq(Messages) /\ taken \in Seq(Messages)
      BY DEF IInv, TypeOK
    <3>2. /\ m_message_queue' = Tail(m_message_queue)
          /\ taken' = Append(taken, Head(m_message_queue))
      BY <1>2 DEF Dequeue
    <3>3. /\ Head(m_message_queue) \in Messages
          /\ Tail(m_message_queue) \in Seq(Messages)
      BY <1>2, <3>1
    <3>4. m_message_queue' \in Seq(Messages) /\ taken' \in Seq(Messages)
      BY <3>1, <3>2, <3>3
    <3>5. QED
      BY <1>2, <3>4 DEF Dequeue, IInv, TypeOK, ConsumerState
  <2>2. FirstInFirstOut'
    BY <1>2, HeadMoves DEF Dequeue, IInv, TypeOK, FirstInFirstOut
  <2>3. Len(m_message_queue') = Len(m_message_queue) - 1
    BY <1>2 DEF Dequeue, IInv, TypeOK
  <2>4. Len(m_message_queue) \in Nat /\ Cardinality(Coming) \in Nat
    BY ComingIsASet, InFinite DEF IInv, TypeOK
  <2>5. Bounded'
    BY <2>3, <2>4, QueueAssumption DEF IInv, Bounded
  <2>6. Coming' = Coming \ {c} /\ c \in Coming /\ Sleeping' = Sleeping
    BY <1>2 DEF Dequeue, IInv, TypeOK, Coming, Sleeping, In
  <2>7. Cardinality(Coming') = Cardinality(Coming) - 1
    BY <2>6, ComingIsASet, InFinite, FS_RemoveElement
  <2>8. NoLostWakeup'
    BY <2>3, <2>4, <2>6, <2>7 DEF Dequeue, IInv, NoLostWakeup
  <2>9. QED
    BY <2>1, <2>2, <2>5, <2>8 DEF IInv
<1>3. QED
  BY <1>1, <1>2

\* The steps that only move a consumer never take one away from those coming
\* while another sleeps.
LEMMA ConsumerStep ==
  ASSUME IInv, NEW c \in Consumers,
         SpuriousWakeup(c) \/ Timeout(c) \/ CatchTimeout(c) \/ Finish(c)
  PROVE  IInv'
<1>1. UNCHANGED <<m_message_queue, shutdown, accepted, refused, taken>>
  BY DEF SpuriousWakeup, Timeout, CatchTimeout, Finish
<1>2. TypeOK'
  BY DEF SpuriousWakeup, Timeout, CatchTimeout, Finish, IInv, TypeOK,
         ConsumerState
<1>3. NoLostWakeup'
  <2>1. SUFFICES ASSUME ~shutdown, Sleeping' # {}
                 PROVE  Len(m_message_queue) <= Cardinality(Coming')
    BY <1>1 DEF NoLostWakeup
  <2>2. Coming \subseteq Coming' /\ Sleeping # {}
    BY <2>1 DEF SpuriousWakeup, Timeout, CatchTimeout, Finish, IInv, TypeOK,
                Coming, Sleeping, In
  <2>3. Cardinality(Coming) <= Cardinality(Coming')
    BY <2>2, ComingIsASet, InFinite
  <2>4. /\ Len(m_message_queue) \in Nat
        /\ Cardinality(Coming) \in Nat /\ Cardinality(Coming') \in Nat
    BY ComingIsASet, InFinite DEF IInv, TypeOK
  <2>5. QED
    BY <2>1, <2>2, <2>3, <2>4 DEF IInv, NoLostWakeup
<1>4. QED
  BY <1>1, <1>2, <1>3 DEF IInv, FirstInFirstOut, Bounded

LEMMA InvariantStep == IInv /\ [Next]_vars => IInv'
<1>1. SUFFICES ASSUME IInv, [Next]_vars PROVE IInv'
  OBVIOUS
<1>2. CASE UNCHANGED vars
  BY <1>1, <1>2 DEF vars, IInv, TypeOK, FirstInFirstOut, Bounded,
                    NoLostWakeup, Sleeping, Coming, In
<1>3. CASE Shutdown
  BY <1>1, <1>3 DEF Shutdown, IInv, TypeOK, FirstInFirstOut, Bounded,
                    NoLostWakeup
<1>4. CASE \E m \in Messages : Enqueue(m)
  BY <1>1, <1>4, EnqueueStep
<1>5. ASSUME NEW c \in Consumers,
             Dequeue(c) \/ SpuriousWakeup(c) \/ Timeout(c)
               \/ CatchTimeout(c) \/ Finish(c)
      PROVE  IInv'
  BY <1>1, <1>5, DequeueStep, ConsumerStep
<1>6. QED
  BY <1>1, <1>2, <1>3, <1>4, <1>5 DEF Next

THEOREM Invariance == Spec => []IInv
BY InvariantInit, InvariantStep, PTL DEF Spec

\* The variables have their types.
THEOREM TypeCorrect == Spec => []TypeOK
BY Invariance, PTL DEF IInv

\* Every message whose enqueue returned true is dequeued at most once, in the
\* order of the enqueues, and is in the queue until it is.
THEOREM NothingLostOrOvertaken == Spec => []FirstInFirstOut
BY Invariance, PTL DEF IInv

\* The queue never holds more than one message over its maximum length.
THEOREM QueueBounded == Spec => []Bounded
BY Invariance, PTL DEF IInv

\* notify_one under the lock is enough: a sleeping consumer and more messages
\* than consumers on their way do not meet.
THEOREM WakeupsKept == Spec => []NoLostWakeup
BY Invariance, PTL DEF IInv
=============================================================================
