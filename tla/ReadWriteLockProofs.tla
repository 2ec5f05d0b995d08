------------------------ MODULE ReadWriteLockProofs ------------------------
(***************************************************************************)
(* For any finite set of threads: the counters are exact, writers exclude  *)
(* everyone, nobody sleeps through a wakeup, and the lock implements       *)
(* SharedExclusiveLock.                                                    *)
(*                                                                         *)
(* The waits test the counters, the properties speak of threads.           *)
(* CountsExact bridges the two, so it is part of the invariant: a counter  *)
(* is zero exactly when the set of threads it counts is empty.             *)
(***************************************************************************)
EXTENDS ReadWriteLock, FiniteSetTheorems, TLAPS

IInv == TypeOK /\ CountsExact /\ Exclusion /\ NoLostWakeup

-----------------------------------------------------------------------------
(* Counting *)

\* The set of threads in given states is finite, so it has a cardinality, and
\* that is zero only for the empty set.
LEMMA InFinite ==
  ASSUME NEW states
  PROVE  /\ IsFiniteSet(In(states))
         /\ Cardinality(In(states)) \in Nat
         /\ Cardinality(In(states)) = 0 <=> In(states) = {}
<1>1. IsFiniteSet(In(states))
  BY ThreadsAssumption, FS_Subset DEF In
<1>2. QED
  BY <1>1, FS_CardinalityType, FS_EmptySet

\* What the waits test, in terms of threads.
LEMMA WaitConditions ==
  ASSUME TypeOK, CountsExact
  PROVE  /\ m_num_readers = 0 <=> Readers = {}
         /\ m_num_writers = 0 <=> Writers = {}
         /\ m_num_writers_waiting = 0 <=> WaitingWriters = {}
         /\ m_num_readers \in Nat /\ m_num_writers \in Nat
         /\ m_num_writers_waiting \in Nat
         /\ ReadersHeldOff <=> Writers \union WaitingWriters # {}
         /\ WritersHeldOff <=> Readers \union Writers # {}
<1>1. /\ m_num_readers = 0 <=> Readers = {}
      /\ m_num_writers = 0 <=> Writers = {}
      /\ m_num_writers_waiting = 0 <=> WaitingWriters = {}
      /\ m_num_readers \in Nat /\ m_num_writers \in Nat
      /\ m_num_writers_waiting \in Nat
  BY InFinite DEF CountsExact, Readers, Writers, WaitingWriters
<1>2. QED
  BY <1>1 DEF ReadersHeldOff, WritersHeldOff

\* One thread enters a set of threads, or leaves it.
LEMMA OneMore ==
  ASSUME NEW S, IsFiniteSet(S), NEW t, t \notin S
  PROVE  Cardinality(S \union {t}) = Cardinality(S) + 1
BY FS_AddElement

LEMMA OneLess ==
  ASSUME NEW S, IsFiniteSet(S), NEW t, t \in S
  PROVE  Cardinality(S \ {t}) = Cardinality(S) - 1
BY FS_RemoveElement

-----------------------------------------------------------------------------
(* What each action does to the sets of threads *)

\* lock_read lets one reader in when no writer holds or wants the lock, and
\* otherwise puts it to sleep.
LEMMA LockReadStep ==
  ASSUME TypeOK, CountsExact, NEW t \in Threads, LockRead(t)
  PROVE  /\ Writers' = Writers /\ WaitingWriters' = WaitingWriters
         /\ In({"writer_asleep"})' = In({"writer_asleep"})
         /\ t \notin Readers \union Writers \union WaitingWriters
         /\ \/ /\ Writers \union WaitingWriters # {}
               /\ Readers' = Readers /\ UNCHANGED m_num_readers
            \/ /\ Writers \union WaitingWriters = {}
               /\ Readers' = Readers \union {t}
               /\ m_num_readers' = m_num_readers + 1
               /\ In({"reader_asleep"})' \subseteq In({"reader_asleep"})
<1>1. CASE ReadersHeldOff
  BY <1>1, WaitConditions
     DEF LockRead, TypeOK, In, Readers, Writers, WaitingWriters, ThreadState
<1>2. CASE ~ReadersHeldOff
  BY <1>2, WaitConditions
     DEF LockRead, TypeOK, In, Readers, Writers, WaitingWriters, ThreadState
<1>3. QED
  BY <1>1, <1>2

\* lock_write, on the call and on each return from its wait.
LEMMA LockWriteStep ==
  ASSUME TypeOK, CountsExact, NEW t \in Threads,
         LockWrite(t) \/ ResumeWrite(t)
  PROVE  /\ Readers' = Readers
         /\ In({"reader_asleep"})' = In({"reader_asleep"})
         /\ t \notin Readers \union Writers
         /\ pc[t] = "idle" => t \notin WaitingWriters
         /\ pc[t] # "idle" => t \in WaitingWriters
         /\ \/ /\ Readers \union Writers # {}
               /\ Writers' = Writers /\ UNCHANGED m_num_writers
               /\ WaitingWriters' = WaitingWriters \union {t}
               /\ m_num_writers_waiting' =
                    IF pc[t] = "idle" THEN m_num_writers_waiting + 1
                                      ELSE m_num_writers_waiting
            \/ /\ Readers \union Writers = {}
               /\ Writers' = {t}
               /\ m_num_writers' = m_num_writers + 1
               /\ WaitingWriters' = WaitingWriters \ {t}
               /\ m_num_writers_waiting' =
                    IF pc[t] = "idle" THEN m_num_writers_waiting
                                      ELSE m_num_writers_waiting - 1
               /\ In({"writer_asleep"})' \subseteq In({"writer_asleep"})
<1>1. CASE WritersHeldOff
  BY <1>1, WaitConditions DEF LockWrite, ResumeWrite, TypeOK, In, Readers,
     Writers, WaitingWriters, ThreadState
<1>2. CASE ~WritersHeldOff
  BY <1>2, WaitConditions DEF LockWrite, ResumeWrite, TypeOK, In, Readers,
     Writers, WaitingWriters, ThreadState
<1>3. QED
  BY <1>1, <1>2

\* unlock_read: one reader less; the last one wakes every sleeping writer.
LEMMA UnlockReadStep ==
  ASSUME TypeOK, CountsExact, Exclusion, NEW t \in Threads, UnlockRead(t)
  PROVE  /\ t \in Readers /\ Readers' = Readers \ {t}
         /\ m_num_readers' = m_num_readers - 1
         /\ Writers = {} /\ Writers' = {} /\ WaitingWriters' = WaitingWriters
         /\ In({"reader_asleep"})' = In({"reader_asleep"})
         /\ In({"writer_asleep"})' = IF Readers' = {} THEN {}
                                     ELSE In({"writer_asleep"})
<1>1. /\ t \in Readers /\ Writers = {}
      /\ m_num_writers = 0 /\ m_num_readers \in Nat
  BY WaitConditions DEF UnlockRead, Readers, In, Exclusion, Writers
<1>2. /\ Readers' = Readers \ {t}
      /\ Writers' = {} /\ WaitingWriters' = WaitingWriters
      /\ In({"reader_asleep"})' = In({"reader_asleep"})
  BY <1>1 DEF UnlockRead, LeaveWaking, Awake, TypeOK, ThreadState, In,
              Readers, Writers, WaitingWriters
<1>3. m_num_readers' = 0 <=> Readers' = {}
  <2>1. Cardinality(Readers \ {t}) = m_num_readers - 1
    BY <1>1, InFinite, OneLess DEF Readers, CountsExact
  <2>2. IsFiniteSet(Readers \ {t})
    BY InFinite, FS_RemoveElement DEF Readers
  <2>3. QED
    BY <1>2, <2>1, <2>2, FS_EmptySet DEF UnlockRead
<1>4. In({"writer_asleep"})' = IF Readers' = {} THEN {}
                               ELSE In({"writer_asleep"})
  BY <1>1, <1>3 DEF UnlockRead, LeaveWaking, Awake, TypeOK, ThreadState, In
<1>5. QED
  BY <1>1, <1>2, <1>4 DEF UnlockRead

\* unlock_write: the writer leaves the lock free and wakes everyone.
LEMMA UnlockWriteStep ==
  ASSUME TypeOK, CountsExact, Exclusion, NEW t \in Threads, UnlockWrite(t)
  PROVE  /\ Writers = {t} /\ Writers' = {} /\ m_num_writers' = 0
         /\ Readers = {} /\ Readers' = {} /\ WaitingWriters' = WaitingWriters
         /\ In({"reader_asleep"})' = {} /\ In({"writer_asleep"})' = {}
<1>1. /\ Writers = {t} /\ Readers = {}
  BY DEF UnlockWrite, Readers, Writers, In, Exclusion
<1>2. m_num_writers = 1
  BY <1>1, FS_Singleton DEF CountsExact
<1>3. QED
  BY <1>1, <1>2 DEF UnlockWrite, LeaveWaking, Awake, TypeOK, ThreadState, In,
              Readers, Writers, WaitingWriters

\* A spurious wakeup moves nobody into or out of the lock.
LEMMA SpuriousWakeupStep ==
  ASSUME TypeOK, NEW t \in Threads, SpuriousWakeup(t)
  PROVE  /\ Readers' = Readers /\ Writers' = Writers
         /\ WaitingWriters' = WaitingWriters
         /\ In({"reader_asleep"})' \subseteq In({"reader_asleep"})
         /\ In({"writer_asleep"})' \subseteq In({"writer_asleep"})
BY DEF SpuriousWakeup, Awake, TypeOK, ThreadState, In, Readers, Writers,
       WaitingWriters

-----------------------------------------------------------------------------
(* The invariant *)

LEMMA CountsStep == IInv /\ Next => CountsExact'
<1>1. SUFFICES ASSUME IInv, Next PROVE CountsExact'
  OBVIOUS
<1>2. PICK t \in Threads :
        \/ LockRead(t) \/ LockWrite(t) \/ ResumeWrite(t)
        \/ UnlockRead(t) \/ UnlockWrite(t) \/ SpuriousWakeup(t)
  BY <1>1 DEF Next
<1>3. /\ IsFiniteSet(Readers) /\ IsFiniteSet(Writers)
      /\ IsFiniteSet(WaitingWriters)
  BY InFinite DEF Readers, Writers, WaitingWriters
<1>4. TypeOK /\ CountsExact /\ Exclusion
  BY <1>1 DEF IInv
<1>5. CASE LockRead(t)
  <2>1. UNCHANGED <<m_num_writers, m_num_writers_waiting>>
    BY <1>5 DEF LockRead
  <2>2. QED
    BY <1>3, <1>4, <1>5, <2>1, LockReadStep, OneMore DEF CountsExact
<1>6. CASE LockWrite(t) \/ ResumeWrite(t)
  <2>1. m_num_readers' = m_num_readers
    BY <1>6 DEF LockWrite, ResumeWrite
  <2>2. m_num_writers' = Cardinality(Writers')
    <3>1. CASE Readers \union Writers # {}
      BY <1>4, <1>6, <3>1, LockWriteStep DEF CountsExact
    <3>2. CASE Readers \union Writers = {}
      <4>1. m_num_writers = 0
        BY <1>4, <3>2, WaitConditions
      <4>2. Writers' = {t} /\ m_num_writers' = m_num_writers + 1
        BY <1>4, <1>6, <3>2, LockWriteStep
      <4>3. QED
        BY <4>1, <4>2, FS_Singleton
    <3>3. QED
      BY <3>1, <3>2
  <2>3. m_num_writers_waiting' = Cardinality(WaitingWriters')
    <3>1. CASE pc[t] = "idle"
      <4>1. t \notin WaitingWriters
        BY <1>4, <1>6, <3>1, LockWriteStep
      <4>2. WaitingWriters \ {t} = WaitingWriters
        BY <4>1
      <4>3. QED
        BY <1>3, <1>4, <1>6, <3>1, <4>1, <4>2, LockWriteStep, OneMore
           DEF CountsExact
    <3>2. CASE pc[t] # "idle"
      <4>1. t \in WaitingWriters
        BY <1>4, <1>6, <3>2, LockWriteStep
      <4>2. WaitingWriters \union {t} = WaitingWriters
        BY <4>1
      <4>3. QED
        BY <1>3, <1>4, <1>6, <3>2, <4>1, <4>2, LockWriteStep, OneLess
           DEF CountsExact
    <3>3. QED
      BY <3>1, <3>2
  <2>4. QED
    BY <1>4, <1>6, <2>1, <2>2, <2>3, LockWriteStep DEF CountsExact
<1>7. CASE UnlockRead(t)
  <2>1. UNCHANGED <<m_num_writers, m_num_writers_waiting>>
    BY <1>7 DEF UnlockRead
  <2>2. QED
    BY <1>3, <1>4, <1>7, <2>1, UnlockReadStep, OneLess DEF CountsExact
<1>8. CASE UnlockWrite(t)
  <2>1. UNCHANGED <<m_num_readers, m_num_writers_waiting>>
    BY <1>8 DEF UnlockWrite
  <2>2. QED
    BY <1>4, <1>8, <2>1, UnlockWriteStep, FS_EmptySet DEF CountsExact
<1>9. CASE SpuriousWakeup(t)
  <2>1. UNCHANGED <<m_num_readers, m_num_writers, m_num_writers_waiting>>
    BY <1>9 DEF SpuriousWakeup
  <2>2. QED
    BY <1>4, <1>9, <2>1, SpuriousWakeupStep DEF CountsExact
<1>10. QED
  BY <1>2, <1>5, <1>6, <1>7, <1>8, <1>9

LEMMA ExclusionStep == IInv /\ Next => Exclusion'
<1>1. SUFFICES ASSUME IInv, Next PROVE Exclusion'
  OBVIOUS
<1>2. PICK t \in Threads :
        \/ LockRead(t) \/ LockWrite(t) \/ ResumeWrite(t)
        \/ UnlockRead(t) \/ UnlockWrite(t) \/ SpuriousWakeup(t)
  BY <1>1 DEF Next
<1>3. TypeOK /\ CountsExact /\ Exclusion
  BY <1>1 DEF IInv
<1>4. CASE LockRead(t)
  BY <1>3, <1>4, LockReadStep DEF Exclusion
<1>5. CASE LockWrite(t) \/ ResumeWrite(t)
  BY <1>3, <1>5, LockWriteStep DEF Exclusion
<1>6. CASE UnlockRead(t)
  BY <1>3, <1>6, UnlockReadStep DEF Exclusion
<1>7. CASE UnlockWrite(t)
  BY <1>3, <1>7, UnlockWriteStep DEF Exclusion
<1>8. CASE SpuriousWakeup(t)
  BY <1>3, <1>8, SpuriousWakeupStep DEF Exclusion
<1>9. QED
  BY <1>2, <1>4, <1>5, <1>6, <1>7, <1>8

LEMMA NoLostWakeupStep == IInv /\ Next => NoLostWakeup'
<1>1. SUFFICES ASSUME IInv, Next PROVE NoLostWakeup'
  OBVIOUS
<1>2. PICK t \in Threads :
        \/ LockRead(t) \/ LockWrite(t) \/ ResumeWrite(t)
        \/ UnlockRead(t) \/ UnlockWrite(t) \/ SpuriousWakeup(t)
  BY <1>1 DEF Next
<1>3. TypeOK /\ CountsExact /\ Exclusion /\ NoLostWakeup
  BY <1>1 DEF IInv
<1>4. CASE LockRead(t)
  BY <1>3, <1>4, LockReadStep DEF NoLostWakeup
<1>5. CASE LockWrite(t) \/ ResumeWrite(t)
  BY <1>3, <1>5, LockWriteStep DEF NoLostWakeup
<1>6. CASE UnlockRead(t)
  BY <1>3, <1>6, UnlockReadStep DEF NoLostWakeup
<1>7. CASE UnlockWrite(t)
  BY <1>3, <1>7, UnlockWriteStep DEF NoLostWakeup
<1>8. CASE SpuriousWakeup(t)
  BY <1>3, <1>8, SpuriousWakeupStep DEF NoLostWakeup
<1>9. QED
  BY <1>2, <1>4, <1>5, <1>6, <1>7, <1>8

\* Threads move between the seven states, and a counter that is exact is a
\* natural number.
LEMMA TypeStep == IInv /\ Next /\ CountsExact' => TypeOK'
<1>1. SUFFICES ASSUME IInv, Next, CountsExact' PROVE TypeOK'
  OBVIOUS
<1>2. PICK t \in Threads :
        \/ LockRead(t) \/ LockWrite(t) \/ ResumeWrite(t)
        \/ UnlockRead(t) \/ UnlockWrite(t) \/ SpuriousWakeup(t)
  BY <1>1 DEF Next
<1>3. pc \in [Threads -> ThreadState]
  BY <1>1 DEF IInv, TypeOK
<1>4. pc' \in [Threads -> ThreadState]
  <2>1. CASE LockRead(t) \/ LockWrite(t) \/ ResumeWrite(t)
    BY <1>3, <2>1 DEF ThreadState, LockRead, LockWrite, ResumeWrite
  <2>2. CASE UnlockRead(t) \/ UnlockWrite(t)
    BY <1>3, <2>2 DEF ThreadState, UnlockRead, UnlockWrite, LeaveWaking, Awake
  <2>3. CASE SpuriousWakeup(t)
    BY <1>3, <2>3 DEF ThreadState, SpuriousWakeup, Awake
  <2>4. QED
    BY <1>2, <2>1, <2>2, <2>3
<1>5. /\ Readers' \subseteq Threads /\ Writers' \subseteq Threads
      /\ WaitingWriters' \subseteq Threads
  BY DEF Readers, Writers, WaitingWriters, In
<1>6. /\ Cardinality(Readers') \in Nat /\ Cardinality(Writers') \in Nat
      /\ Cardinality(WaitingWriters') \in Nat
  BY <1>5, ThreadsAssumption, FS_Subset, FS_CardinalityType
<1>7. QED
  BY <1>1, <1>4, <1>6 DEF TypeOK, CountsExact

LEMMA InvariantInit == Init => IInv
<1>1. Init => /\ TypeOK /\ Readers = {} /\ Writers = {}
              /\ WaitingWriters = {} /\ In({"reader_asleep"}) = {}
              /\ In({"writer_asleep"}) = {}
  BY DEF Init, TypeOK, ThreadState, Readers, Writers, WaitingWriters, In
<1>2. QED
  BY <1>1, FS_EmptySet DEF Init, IInv, CountsExact, Exclusion, NoLostWakeup

LEMMA InvariantStep == IInv /\ [Next]_vars => IInv'
<1>1. CASE UNCHANGED vars
  BY <1>1 DEF vars, IInv, TypeOK, CountsExact, Exclusion, NoLostWakeup,
              Readers, Writers, WaitingWriters, In
<1>2. CASE Next
  BY <1>2, TypeStep, CountsStep, ExclusionStep, NoLostWakeupStep DEF IInv
<1>3. QED
  BY <1>1, <1>2

\* The counters, exclusion and wakeups are right in every reachable state.
THEOREM Invariance == Spec => []IInv
BY InvariantInit, InvariantStep, PTL DEF Spec

\* The counters are never decremented below zero.
THEOREM TypeCorrect == Spec => []TypeOK
BY Invariance, PTL DEF IInv

\* m_num_readers, m_num_writers and m_num_writers_waiting never drift from
\* the threads they count, whatever the order of calls and wakeups.
THEOREM CountersExact == Spec => []CountsExact
BY Invariance, PTL DEF IInv

\* A writer is alone with what the lock guards.
THEOREM MutualExclusion == Spec => []Exclusion
BY Invariance, PTL DEF IInv

\* A thread asleep in lock_read or lock_write has somebody whose unlock will
\* wake it.
THEOREM WakeupsKept == Spec => []NoLostWakeup
BY Invariance, PTL DEF IInv

-----------------------------------------------------------------------------
(* Priority and refinement *)

LEMMA AbstractStep == IInv /\ [Next]_vars => [Abstract!Next]_(Abstract!vars)
<1>1. CASE UNCHANGED vars
  BY <1>1 DEF vars, Abstract!vars, Readers, Writers, WaitingWriters, In
<1>2. ASSUME IInv, Next PROVE [Abstract!Next]_(Abstract!vars)
  <2>1. PICK t \in Threads :
          \/ LockRead(t) \/ LockWrite(t) \/ ResumeWrite(t)
          \/ UnlockRead(t) \/ UnlockWrite(t) \/ SpuriousWakeup(t)
    BY <1>2 DEF Next
  <2>2. TypeOK /\ CountsExact /\ Exclusion
    BY <1>2 DEF IInv
  <2>3. CASE LockRead(t)
    <3>1. Abstract!AcquireShared(t) \/ UNCHANGED Abstract!vars
      BY <2>2, <2>3, LockReadStep
         DEF Abstract!AcquireShared, Abstract!Outside, Abstract!vars
    <3>2. QED
      BY <3>1 DEF Abstract!Next
  <2>4. CASE LockWrite(t) \/ ResumeWrite(t)
    <3>1. \/ Abstract!AwaitExclusive(t) \/ Abstract!AcquireExclusive(t)
          \/ UNCHANGED Abstract!vars
      BY <2>2, <2>4, LockWriteStep DEF Abstract!AwaitExclusive,
         Abstract!AcquireExclusive, Abstract!Outside, Abstract!vars
    <3>2. QED
      BY <3>1 DEF Abstract!Next
  <2>5. CASE UnlockRead(t)
    <3>1. Abstract!Release(t)
      BY <2>2, <2>5, UnlockReadStep DEF Abstract!Release
    <3>2. QED
      BY <3>1 DEF Abstract!Next
  <2>6. CASE UnlockWrite(t)
    <3>1. Abstract!Release(t)
      BY <2>2, <2>6, UnlockWriteStep DEF Abstract!Release
    <3>2. QED
      BY <3>1 DEF Abstract!Next
  <2>7. CASE SpuriousWakeup(t)
    BY <2>2, <2>7, SpuriousWakeupStep DEF Abstract!vars
  <2>8. QED
    BY <2>1, <2>3, <2>4, <2>5, <2>6, <2>7
<1>3. QED
  BY <1>1, <1>2

\* read_write_lock is a shared/exclusive lock in which a waiting writer keeps
\* new readers out.
THEOREM Refinement == Spec => ImplementsSharedExclusive
<1>1. Init => Abstract!Init
  BY DEF Init, Abstract!Init, Readers, Writers, WaitingWriters, In
<1>2. QED
  BY <1>1, Invariance, AbstractStep, PTL
     DEF Spec, ImplementsSharedExclusive, Abstract!Spec

\* lock_read lets nobody in while a writer waits.
THEOREM WritersFirst == Spec => WriterPriority
<1> DEFINE Step == \A t \in Threads :
      (pc[t] # "reading" /\ pc'[t] = "reading") => WaitingWriters = {}
<1>1. IInv /\ [Next]_vars => [Step]_vars
  <2>1. SUFFICES ASSUME IInv, Next, NEW u \in Threads,
                        pc[u] # "reading", pc'[u] = "reading"
                 PROVE  WaitingWriters = {}
    OBVIOUS
  <2>2. PICK t \in Threads :
          \/ LockRead(t) \/ LockWrite(t) \/ ResumeWrite(t)
          \/ UnlockRead(t) \/ UnlockWrite(t) \/ SpuriousWakeup(t)
    BY <2>1 DEF Next
  <2>3. LockRead(t)
    BY <2>1, <2>2 DEF IInv, TypeOK, LockWrite, ResumeWrite, UnlockRead,
       UnlockWrite, LeaveWaking, Awake, SpuriousWakeup
  <2>4. u \in Readers' /\ u \notin Readers
    BY <2>1 DEF Readers, In
  <2>5. QED
    BY <2>1, <2>3, <2>4, LockReadStep DEF IInv
<1>2. QED
  BY <1>1, Invariance, PTL DEF Spec, WriterPriority
=============================================================================
