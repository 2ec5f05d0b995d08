---------------------------- MODULE MessageQueue ----------------------------
(***************************************************************************)
(* acore/message_queue, the bounded queue that joins every two stages of   *)
(* the server, with the consumer loop of acore/handler_pool::run (the      *)
(* loops of dns_handler, dns_udp_server and queue_multiplexer have the     *)
(* same form).                                                             *)
(*                                                                         *)
(* enqueue and dequeue run under m_lock, so each is one step up to its     *)
(* return or its wait.  wait_for ends for one of three reasons: a          *)
(* notification, nothing at all, or the passing of two seconds; a notified *)
(* thread that gets the mutex back after the two seconds has timed out as  *)
(* well, and takes its notification with it into the exception.            *)
(***************************************************************************)
EXTENDS Integers, Sequences, FiniteSets

CONSTANTS
  Messages,     \* what producers enqueue, each message once
  Consumers,    \* threads of the pool
  MaxLength,    \* m_max_queue_length
  NoMessage     \* what a dequeue that has nothing would return

ASSUME QueueAssumption ==
  /\ MaxLength \in Nat
  /\ IsFiniteSet(Consumers)
  /\ NoMessage \notin Messages

VARIABLES
  m_message_queue,  \* the queue, next message to leave first;
                    \* m_queue_length is its length
  consumer,         \* where each consumer stands
  shutdown,         \* run_state::o_state = shutdown_e
  accepted,         \* messages whose enqueue returned true, in that order
  refused,          \* messages whose enqueue returned false
  taken             \* messages dequeued, in that order

vars == <<m_message_queue, consumer, shutdown, accepted, refused, taken>>

ConsumerState ==
  {"ready",      \* about to call dequeue
   "asleep",     \* in wait_for
   "awake",      \* out of wait_for, will test the length again
   "timedout",   \* message_queue_timeout_exception on its way
   "busy",       \* in process(m)
   "exited"}     \* run has returned

In(states) == {c \in Consumers : consumer[c] \in states}

Sleeping == In({"asleep"})
Coming   == In({"ready", "awake", "timedout"})

TypeOK ==
  /\ m_message_queue \in Seq(Messages)
  /\ consumer \in [Consumers -> ConsumerState]
  /\ shutdown \in BOOLEAN
  /\ accepted \in Seq(Messages)
  /\ refused \subseteq Messages
  /\ taken \in Seq(Messages)

Init ==
  /\ m_message_queue = << >>
  /\ consumer = [c \in Consumers |-> "ready"]
  /\ shutdown = FALSE
  /\ accepted = << >>
  /\ refused = {}
  /\ taken = << >>

-----------------------------------------------------------------------------
(* enqueue *)

Offered == {accepted[i] : i \in DOMAIN accepted} \union refused

Full == Len(m_message_queue) > MaxLength

NotifyNobody == UNCHANGED consumer

\* m_condition.notify_one()
NotifyOne ==
  \/ Sleeping = {} /\ UNCHANGED consumer
  \/ \E c \in Sleeping : consumer' = [consumer EXCEPT ![c] = "awake"]

EnqueueInFront(m) ==
  /\ m \notin Offered /\ ~Full
  /\ m_message_queue' = <<m>> \o m_message_queue
  /\ accepted' = Append(accepted, m)
  /\ NotifyOne
  /\ UNCHANGED <<shutdown, refused, taken>>

Enqueue(m) ==
  /\ m \notin Offered
  /\ IF Full
     THEN /\ refused' = refused \union {m}
          /\ UNCHANGED <<m_message_queue, accepted, consumer>>
     ELSE /\ m_message_queue' = Append(m_message_queue, m)
          /\ accepted' = Append(accepted, m)
          /\ NotifyOne
          /\ UNCHANGED refused
  /\ UNCHANGED <<shutdown, taken>>

-----------------------------------------------------------------------------
(* dequeue *)

\* The test of the length, on the call and after each wait.
Dequeue(c) ==
  /\ consumer[c] \in {"ready", "awake"}
  /\ IF m_message_queue = << >>
     THEN /\ consumer' = [consumer EXCEPT ![c] = "asleep"]
          /\ UNCHANGED <<m_message_queue, taken>>
     ELSE /\ consumer' = [consumer EXCEPT ![c] = "busy"]
          /\ m_message_queue' = Tail(m_message_queue)
          /\ taken' = Append(taken, Head(m_message_queue))
  /\ UNCHANGED <<shutdown, accepted, refused>>

SpuriousWakeup(c) ==
  /\ consumer[c] = "asleep"
  /\ consumer' = [consumer EXCEPT ![c] = "awake"]
  /\ UNCHANGED <<m_message_queue, shutdown, accepted, refused, taken>>

\* wait_for returns cv_status::timeout: the length is not looked at again.
Timeout(c) ==
  /\ consumer[c] \in {"asleep", "awake"}
  /\ consumer' = [consumer EXCEPT ![c] = "timedout"]
  /\ UNCHANGED <<m_message_queue, shutdown, accepted, refused, taken>>

-----------------------------------------------------------------------------
(* handler_pool::run *)

CatchTimeoutAndLeave(c) ==
  /\ consumer[c] = "timedout"
  /\ consumer' = [consumer EXCEPT ![c] = "exited"]
  /\ UNCHANGED <<m_message_queue, shutdown, accepted, refused, taken>>

\* The thread ends only here, and only during a shutdown.
CatchTimeout(c) ==
  /\ consumer[c] = "timedout"
  /\ consumer' = [consumer EXCEPT ![c] = IF shutdown THEN "exited" ELSE "ready"]
  /\ UNCHANGED <<m_message_queue, shutdown, accepted, refused, taken>>

\* process(m) returns, or throws an adns::exception that run logs.
Finish(c) ==
  /\ consumer[c] = "busy"
  /\ consumer' = [consumer EXCEPT ![c] = "ready"]
  /\ UNCHANGED <<m_message_queue, shutdown, accepted, refused, taken>>

\* run_state::set(shutdown_e), which nothing takes back.
Shutdown ==
  /\ ~shutdown
  /\ shutdown' = TRUE
  /\ UNCHANGED <<m_message_queue, consumer, accepted, refused, taken>>

Next ==
  \/ \E m \in Messages : Enqueue(m)
  \/ \E c \in Consumers :
       \/ Dequeue(c)
       \/ SpuriousWakeup(c)
       \/ Timeout(c)
       \/ CatchTimeout(c)
       \/ Finish(c)
  \/ Shutdown

\* A consumer that can run does: the mutex comes free, the two seconds pass,
\* process returns.  Producers need not come, nor spurious wakeups.
Fairness == \A c \in Consumers :
  WF_vars(Dequeue(c) \/ Timeout(c) \/ CatchTimeout(c) \/ Finish(c))

Spec == Init /\ [][Next]_vars

FairSpec == Spec /\ Fairness

-----------------------------------------------------------------------------
(* Properties *)

\* What producers were told is accepted leaves once, in order, and until then
\* is in the queue: no interleaving loses, repeats or overtakes a message.
FirstInFirstOut == accepted = taken \o m_message_queue

\* The queue is full one message later than its maximum: the test is ">".
Bounded == Len(m_message_queue) <= MaxLength + 1

\* While a consumer sleeps there is for every waiting message another one on
\* its way to dequeue, even when the notified thread timed out: no message
\* waits out the two seconds of a sleeper that could have had it.
NoLostWakeup ==
  (~shutdown /\ Sleeping # {}) => Len(m_message_queue) <= Cardinality(Coming)

\* An accepted message is processed, unless the server shuts down first.
AcceptedIsTaken == \A m \in Messages :
  (\E i \in DOMAIN accepted : accepted[i] = m)
    ~> (shutdown \/ \E i \in DOMAIN taken : taken[i] = m)

=============================================================================
