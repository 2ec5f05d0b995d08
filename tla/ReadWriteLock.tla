--------------------------- MODULE ReadWriteLock ---------------------------
(***************************************************************************)
(* acore/read_write_lock: a mutex, two condition variables and three       *)
(* counters.  It guards the zone cache (zone/dns_zone_guard) and both maps *)
(* of the recursive cache.  Each method runs under m_lock from its first   *)
(* statement to its return or its wait, so a method call is one step up to *)
(* that point, and each return from wait is another.                       *)
(*                                                                         *)
(* A thread asleep on a condition variable is woken by notify_all or, as   *)
(* C++ allows, for no reason; woken, it owns the mutex again only when it  *)
(* takes its next step, and re-tests the condition of its loop then.       *)
(***************************************************************************)
EXTENDS Integers, FiniteSets

CONSTANT Threads

ASSUME ThreadsAssumption == IsFiniteSet(Threads)

VARIABLES m_num_readers, m_num_writers, m_num_writers_waiting,
          pc            \* where each thread stands with the lock

vars == <<m_num_readers, m_num_writers, m_num_writers_waiting, pc>>

ThreadState ==
  {"idle",                                      \* outside the lock
   "reader_asleep", "reader_awake", "reading",  \* m_no_writers
   "writer_asleep", "writer_awake", "writing"}  \* m_no_readers_or_writers

In(states) == {t \in Threads : pc[t] \in states}

Readers        == In({"reading"})
Writers        == In({"writing"})
WaitingWriters == In({"writer_asleep", "writer_awake"})

TypeOK ==
  /\ m_num_readers \in Nat
  /\ m_num_writers \in Nat
  /\ m_num_writers_waiting \in Nat
  /\ pc \in [Threads -> ThreadState]

Init ==
  /\ m_num_readers = 0
  /\ m_num_writers = 0
  /\ m_num_writers_waiting = 0
  /\ pc = [t \in Threads |-> "idle"]

-----------------------------------------------------------------------------
(* lock_read *)

ReadersHeldOffByWritersOnly == m_num_writers > 0

ReadersHeldOff == m_num_writers > 0 \/ m_num_writers_waiting > 0

LockRead(t) ==
  /\ pc[t] \in {"idle", "reader_awake"}
  /\ IF ReadersHeldOff
     THEN /\ pc' = [pc EXCEPT ![t] = "reader_asleep"]
          /\ UNCHANGED m_num_readers
     ELSE /\ pc' = [pc EXCEPT ![t] = "reading"]
          /\ m_num_readers' = m_num_readers + 1
  /\ UNCHANGED <<m_num_writers, m_num_writers_waiting>>

-----------------------------------------------------------------------------
(* lock_write *)

WritersHeldOff == m_num_writers > 0 \/ m_num_readers > 0

\* The call: the thread counts itself in as waiting, and out again at once
\* when nobody holds the lock.
LockWrite(t) ==
  /\ pc[t] = "idle"
  /\ IF WritersHeldOff
     THEN /\ pc' = [pc EXCEPT ![t] = "writer_asleep"]
          /\ m_num_writers_waiting' = m_num_writers_waiting + 1
          /\ UNCHANGED m_num_writers
     ELSE /\ pc' = [pc EXCEPT ![t] = "writing"]
          /\ m_num_writers' = m_num_writers + 1
          /\ UNCHANGED m_num_writers_waiting
  /\ UNCHANGED m_num_readers

\* Back from wait: the condition is tested again.
ResumeWrite(t) ==
  /\ pc[t] = "writer_awake"
  /\ IF WritersHeldOff
     THEN /\ pc' = [pc EXCEPT ![t] = "writer_asleep"]
          /\ UNCHANGED <<m_num_writers, m_num_writers_waiting>>
     ELSE /\ pc' = [pc EXCEPT ![t] = "writing"]
          /\ m_num_writers' = m_num_writers + 1
          /\ m_num_writers_waiting' = m_num_writers_waiting - 1
  /\ UNCHANGED m_num_readers

-----------------------------------------------------------------------------
(* unlock_read, unlock_write *)

Awake == [reader_asleep |-> "reader_awake", writer_asleep |-> "writer_awake"]

\* Thread t leaves the lock, and those asleep in one of the states given are
\* notified.
LeaveWaking(t, asleep) ==
  pc' = [u \in Threads |-> IF u = t THEN "idle"
                           ELSE IF pc[u] \in asleep THEN Awake[pc[u]]
                           ELSE pc[u]]

UnlockReadSilently(t) ==
  /\ pc[t] = "reading"
  /\ m_num_readers' = m_num_readers - 1
  /\ LeaveWaking(t, {})
  /\ UNCHANGED <<m_num_writers, m_num_writers_waiting>>

UnlockRead(t) ==
  /\ pc[t] = "reading"
  /\ m_num_readers' = m_num_readers - 1
  /\ LeaveWaking(t, IF m_num_readers' = 0 /\ m_num_writers = 0
                    THEN {"writer_asleep"} ELSE {})
  /\ UNCHANGED <<m_num_writers, m_num_writers_waiting>>

UnlockWriteWakingWritersOnly(t) ==
  /\ pc[t] = "writing"
  /\ m_num_writers' = m_num_writers - 1
  /\ LeaveWaking(t, {"writer_asleep"})
  /\ UNCHANGED <<m_num_readers, m_num_writers_waiting>>

UnlockWrite(t) ==
  /\ pc[t] = "writing"
  /\ m_num_writers' = m_num_writers - 1
  /\ LeaveWaking(t, IF m_num_writers' = 0
                    THEN {"reader_asleep", "writer_asleep"} ELSE {})
  /\ UNCHANGED <<m_num_readers, m_num_writers_waiting>>

\* condition_variable::wait may return without a notification.
SpuriousWakeup(t) ==
  /\ pc[t] \in {"reader_asleep", "writer_asleep"}
  /\ pc' = [pc EXCEPT ![t] = Awake[pc[t]]]
  /\ UNCHANGED <<m_num_readers, m_num_writers, m_num_writers_waiting>>

Next == \E t \in Threads :
  \/ LockRead(t)
  \/ LockWrite(t)
  \/ ResumeWrite(t)
  \/ UnlockRead(t)
  \/ UnlockWrite(t)
  \/ SpuriousWakeup(t)

\* A guard object releases in its destructor, and a woken thread gets the
\* mutex back.  No thread has to ask for the lock, and none is favoured
\* among those that compete for it.
Fairness == \A t \in Threads :
  /\ WF_vars(UnlockRead(t) \/ UnlockWrite(t))
  /\ WF_vars(ResumeWrite(t) \/ (pc[t] = "reader_awake" /\ LockRead(t)))

Spec == Init /\ [][Next]_vars

FairSpec == Spec /\ Fairness

-----------------------------------------------------------------------------
(* Properties *)

\* The three counters, which are all that the waits test, count the threads
\* that read, write and wait to write, on every path in and out of the lock.
CountsExact ==
  /\ m_num_readers = Cardinality(Readers)
  /\ m_num_writers = Cardinality(Writers)
  /\ m_num_writers_waiting = Cardinality(WaitingWriters)

\* A thread that writes the zone data or the cache is alone with it.
Exclusion ==
  \A t \in Writers, u \in Threads : u # t => u \notin Readers \union Writers

\* No thread sleeps through its turn: a sleeping reader has a writer ahead of
\* it, and a sleeping writer has a holder whose release will notify it.
NoLostWakeup ==
  /\ In({"reader_asleep"}) # {} => Writers \union WaitingWriters # {}
  /\ In({"writer_asleep"}) # {} => Readers \union Writers # {}

\* "writer has priority": nobody is let in to read while a writer waits.
WriterPriority ==
  [][\A t \in Threads :
       (pc[t] # "reading" /\ pc'[t] = "reading") => WaitingWriters = {}]_vars

\* The priority is of use: while writers wait, a write is coming.
WriteComes == WaitingWriters # {} ~> Writers # {}

\* The lock does what its header says, and nothing else.
Abstract == INSTANCE SharedExclusiveLock
              WITH shared <- Readers, exclusive <- Writers,
                   waiting <- WaitingWriters

ImplementsSharedExclusive == Abstract!Spec
=============================================================================
