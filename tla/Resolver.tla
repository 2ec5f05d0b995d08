------------------------------ MODULE Resolver ------------------------------
(***************************************************************************)
(* dns_recursive_resolver and dns_forwarding_resolver, from enqueue to     *)
(* dequeue.  The two share dns_recursive_slot_manager, handler_pool and    *)
(* the text of enqueue and send_response.                                  *)
(*                                                                         *)
(* A query whose question is being worked on is not handed to the pool: it *)
(* is left with the slot manager, and the slot that answers the question   *)
(* answers it too.  The slot manager's mutex covers one look at its table, *)
(* the pool's queues have mutexes of their own, and pointers to the same   *)
(* envelope go through all of them: between any two of these steps every   *)
(* other thread may act.                                                   *)
(*                                                                         *)
(* What a slot does between taking a query and answering it, the walk of   *)
(* the delegations or the forwarder's round trip, is one step here.        *)
(***************************************************************************)
EXTENDS Integers, Sequences, FiniteSets, Functions

CONSTANTS
  Envelopes,      \* dns_message_envelope objects, one for each query
  Questions,
  QuestionOf,     \* the question of each query
  Slots,          \* threads of the slot pool
  MaxIn, MaxOut,  \* max_in_message_queue_length, max_out_message_queue_length
  Unreachable,    \* whether a slot's process may end with no response
  NoEnvelope,
  NoResponse

ASSUME ResolverAssumption ==
  /\ QuestionOf \in [Envelopes -> Questions]
  /\ MaxIn \in Nat /\ MaxOut \in Nat
  /\ Unreachable \in BOOLEAN
  /\ NoEnvelope \notin Envelopes

Responses == [id : Envelopes, question : Questions]

ASSUME NoResponseAssumption == NoResponse \notin Responses

VARIABLES
  received,     \* envelopes enqueue was called with
  m_waiters,    \* dns_recursive_slot_manager::m_waiters; {} is no entry
  handing,      \* in enqueue, between already_resolving and the pool's queue
  m_in_queue,   \* the pool's queues
  m_out_queue,
  pc,           \* where each slot stands
  serving,      \* m, in process(m)
  todo,         \* w, in send_response: the waiters yet to be answered
  response,     \* m_response of each envelope
  returned,     \* envelopes dequeue returned to dns_handler
  freed         \* envelopes deleted

slotVars == <<pc, serving, todo>>
vars == <<received, m_waiters, handing, m_in_queue, m_out_queue, slotVars,
          response, returned, freed>>

TypeOK ==
  /\ received \subseteq Envelopes
  /\ m_waiters \in [Questions -> SUBSET Envelopes]
  /\ handing \subseteq Envelopes
  /\ m_in_queue \in Seq(Envelopes)
  /\ m_out_queue \in Seq(Envelopes)
  /\ pc \in [Slots -> {"idle", "resolving", "sending"}]
  /\ serving \in [Slots -> Envelopes \union {NoEnvelope}]
  /\ \A s \in Slots : pc[s] = "idle" <=> serving[s] = NoEnvelope
  /\ todo \in [Slots -> SUBSET Envelopes]
  /\ response \in [Envelopes -> Responses \union {NoResponse}]
  /\ returned \subseteq Envelopes
  /\ freed \subseteq Envelopes

Init ==
  /\ received = {}
  /\ m_waiters = [q \in Questions |-> {}]
  /\ handing = {}
  /\ m_in_queue = << >>
  /\ m_out_queue = << >>
  /\ pc = [s \in Slots |-> "idle"]
  /\ serving = [s \in Slots |-> NoEnvelope]
  /\ todo = [s \in Slots |-> {}]
  /\ response = [e \in Envelopes |-> NoResponse]
  /\ returned = {}
  /\ freed = {}

-----------------------------------------------------------------------------
(* enqueue *)

TrackedByNobody(q) == FALSE

\* already_resolving finds the question in its table.
Tracked(q) == m_waiters[q] # {}

\* The call of already_resolving.
Register(e) ==
  LET q == QuestionOf[e] IN
  /\ e \notin received
  /\ received' = received \union {e}
  /\ m_waiters' = [m_waiters EXCEPT ![q] = @ \union {e}]
  /\ handing' = IF Tracked(q) THEN handing ELSE handing \union {e}
  /\ UNCHANGED <<m_in_queue, m_out_queue, slotVars, response, returned, freed>>

\* The pool's enqueue, which refuses a query when the queue is full.
HandToPool(e) ==
  /\ e \in handing
  /\ handing' = handing \ {e}
  /\ IF Len(m_in_queue) > MaxIn
     THEN freed' = freed \union {e} /\ UNCHANGED m_in_queue
     ELSE m_in_queue' = Append(m_in_queue, e) /\ UNCHANGED freed
  /\ UNCHANGED <<received, m_waiters, m_out_queue, slotVars, response, returned>>

-----------------------------------------------------------------------------
(* process and send_response of the slots *)

Take(s) ==
  /\ pc[s] = "idle"
  /\ m_in_queue # << >>
  /\ m_in_queue' = Tail(m_in_queue)
  /\ pc' = [pc EXCEPT ![s] = "resolving"]
  /\ serving' = [serving EXCEPT ![s] = Head(m_in_queue)]
  /\ UNCHANGED <<received, m_waiters, handing, m_out_queue, todo, response,
                 returned, freed>>

\* The recursive slot's reset_sockets throws before its try block, or the
\* forwarding slot has no response from the forwarder nor from its cache, or
\* catches an exception: no response is sent.
Abandon(s) ==
  /\ Unreachable
  /\ pc[s] = "resolving"
  /\ pc' = [pc EXCEPT ![s] = "idle"]
  /\ serving' = [serving EXCEPT ![s] = NoEnvelope]
  /\ UNCHANGED <<received, m_waiters, handing, m_in_queue, m_out_queue, todo,
                 response, returned, freed>>

ReplyTo(m) == [id |-> m, question |-> QuestionOf[m]]

AnswerEveryWaiter(s) ==
  LET m == serving[s]  q == QuestionOf[m] IN
  /\ pc[s] = "resolving"
  /\ response' = [response EXCEPT ![m] = ReplyTo(m)]
  /\ todo' = [todo EXCEPT ![s] = m_waiters[q]]
  /\ m_waiters' = [m_waiters EXCEPT ![q] = {}]
  /\ pc' = [pc EXCEPT ![s] = "sending"]
  /\ UNCHANGED <<received, handing, m_in_queue, m_out_queue, serving,
                 returned, freed>>

AnswerForgettingWaiters(s) ==
  LET m == serving[s]  q == QuestionOf[m] IN
  /\ pc[s] = "resolving"
  /\ response' = [response EXCEPT ![m] = ReplyTo(m)]
  /\ m_waiters' = [m_waiters EXCEPT ![q] = {}]
  /\ pc' = [pc EXCEPT ![s] = "sending"]
  /\ UNCHANGED <<received, todo, handing, m_in_queue, m_out_queue, serving,
                 returned, freed>>

\* set_response of m, an answer or a server failure, and clear_waiters.
Answer(s) ==
  LET m == serving[s]  q == QuestionOf[m] IN
  /\ pc[s] = "resolving"
  /\ response' = [response EXCEPT ![m] = ReplyTo(m)]
  /\ todo' = [todo EXCEPT ![s] = m_waiters[q] \ {m}]
  /\ m_waiters' = [m_waiters EXCEPT ![q] = {}]
  /\ pc' = [pc EXCEPT ![s] = "sending"]
  /\ UNCHANGED <<received, handing, m_in_queue, m_out_queue, serving,
                 returned, freed>>

\* m_out_queue.enqueue(e), and delete when it refuses.
Return(e) ==
  IF Len(m_out_queue) > MaxOut
  THEN freed' = freed \union {e} /\ UNCHANGED m_out_queue
  ELSE m_out_queue' = Append(m_out_queue, e) /\ UNCHANGED freed

SendToWaiterAsIs(s, e) ==
  /\ pc[s] = "sending"
  /\ e \in todo[s]
  /\ response' = [response EXCEPT ![e] = response[serving[s]]]
  /\ Return(e)
  /\ todo' = [todo EXCEPT ![s] = @ \ {e}]
  /\ UNCHANGED <<received, m_waiters, handing, m_in_queue, pc, serving, returned>>

\* A round of the loop: the waiter gets a copy of m's response, with its id.
SendToWaiter(s, e) ==
  /\ pc[s] = "sending"
  /\ e \in todo[s]
  /\ response' = [response EXCEPT ![e] = [response[serving[s]] EXCEPT !.id = e]]
  /\ Return(e)
  /\ todo' = [todo EXCEPT ![s] = @ \ {e}]
  /\ UNCHANGED <<received, m_waiters, handing, m_in_queue, pc, serving, returned>>

\* m goes last.
SendOwn(s) ==
  LET m == serving[s] IN
  /\ pc[s] = "sending"
  /\ todo[s] = {}
  /\ response' = [response EXCEPT ![m].id = m]
  /\ Return(m)
  /\ pc' = [pc EXCEPT ![s] = "idle"]
  /\ serving' = [serving EXCEPT ![s] = NoEnvelope]
  /\ UNCHANGED <<received, m_waiters, handing, m_in_queue, todo, returned>>

-----------------------------------------------------------------------------
(* dequeue, called by a response thread of any handler *)

Dequeue ==
  /\ m_out_queue # << >>
  /\ m_out_queue' = Tail(m_out_queue)
  /\ returned' = returned \union {Head(m_out_queue)}
  /\ UNCHANGED <<received, m_waiters, handing, m_in_queue, slotVars, response,
                 freed>>

Next ==
  \/ \E e \in Envelopes : Register(e) \/ HandToPool(e)
  \/ \E s \in Slots :
       \/ Take(s)
       \/ Abandon(s)
       \/ Answer(s)
       \/ \E e \in Envelopes : SendToWaiter(s, e)
       \/ SendOwn(s)
  \/ Dequeue

\* The threads run on, and a slot's work is bounded by its timeout, so it
\* answers or gives up.  No query has to arrive.
Fairness ==
  /\ \A e \in Envelopes : WF_vars(HandToPool(e))
  /\ \A s \in Slots : WF_vars(\/ Take(s) \/ Abandon(s) \/ Answer(s)
                              \/ \E e \in Envelopes : SendToWaiter(s, e)
                              \/ SendOwn(s))
  /\ WF_vars(Dequeue)

Spec == Init /\ [][Next]_vars

FairSpec == Spec /\ Fairness

-----------------------------------------------------------------------------
(* Properties *)

At(states)  == {s \in Slots : pc[s] \in states}
Queued      == Range(m_in_queue)
Served      == {serving[s] : s \in At({"resolving", "sending"})}
BeingSentTo == UNION {todo[s] : s \in Slots}
Answered    == Range(m_out_queue) \union returned

\* Queries a slot is working on or will.
InFlight == handing \union Queued \union {serving[s] : s \in At({"resolving"})}

\* An envelope has one owner at a time, who may still use it: handler, queue,
\* slot and response thread never hold the same pointer, and none of them
\* holds one that was deleted.  In particular a query is answered at most
\* once, and the m whose response send_response copies is there to the end.
SingleOwner ==
  /\ IsInjective(m_in_queue) /\ IsInjective(m_out_queue)
  /\ \A s, t \in Slots : s # t =>
       /\ serving[s] = serving[t] => serving[s] = NoEnvelope
       /\ todo[s] \intersect todo[t] = {}
  /\ handing \intersect (Queued \union Served) = {}
  /\ Queued \intersect Served = {}
  /\ (handing \union Queued \union Served) \intersect BeingSentTo = {}
  /\ Range(m_out_queue) \intersect returned = {}
  /\ Answered \intersect freed = {}
  /\ (handing \union Queued \union Served \union BeingSentTo)
       \intersect (Answered \union freed) = {}

\* The slot manager keeps pointers to envelopes it does not own, and after a
\* refused enqueue even to deleted ones.  No slot is ever handed one of those:
\* while anybody works on a question, each of its waiters is alive and has no
\* other owner.
WaitersAlive == \A e \in InFlight :
  m_waiters[QuestionOf[e]] \intersect
    (InFlight \union Served \union BeingSentTo \union Answered \union freed)
    = {e}

\* "This stops loads of parallel requests to the same external servers with
\* the same question": one query at a time is in flight for a question.
OneAtATime == \A e, f \in InFlight : QuestionOf[e] = QuestionOf[f] => e = f

\* "Keep track of whether a slot is currently handling a specific question":
\* a question is in the table only while a query is in flight for it.
Stuck(q) == Tracked(q) /\ \A e \in InFlight : QuestionOf[e] # q

\* No query is left behind, whenever it came relative to the answer of an
\* equal one: it is returned or dropped, unless the pool's refusal of a query
\* or a slot without a response has left its question in the table.
EveryQueryEnds == \A e \in Envelopes :
  e \in received ~> e \in returned \union freed \/ Stuck(QuestionOf[e])

\* Each query is answered once, under its own id, or dropped.
Service == INSTANCE QueryService
  WITH status <- [e \in Envelopes |->
                    IF e \in freed THEN "dropped"
                    ELSE IF e \in Answered THEN "answered"
                    ELSE IF e \in received THEN "pending"
                    ELSE "new"],
       reply  <- [e \in Envelopes |->
                    IF e \in Answered THEN response[e] ELSE NoResponse]

ImplementsQueryService == Service!Spec
=============================================================================
