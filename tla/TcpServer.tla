----------------------------- MODULE TcpServer -----------------------------
(***************************************************************************)
(* server/dns_tcp_server and all that serves a TCP client: the accepting   *)
(* thread and the pool of connection threads (acore/thread_pool), the      *)
(* connection's own handler pool of one handler (server/dns_handler), the  *)
(* queues to and from the recursive resolver with the multiplexer between  *)
(* them (acore/queue_multiplexer), and the forwarding resolver, which all  *)
(* connections share.                                                      *)
(*                                                                         *)
(* A request is its connection and its number on it.  A handler's queues   *)
(* hold 100 messages and never fill: a connection has few requests that    *)
(* are not answered.  The resolvers' own working is in Resolver and in     *)
(* RecursiveSlot; the pause state is left out.                             *)
(***************************************************************************)
EXTENDS Integers, FiniteSets, Sequences, SequencesExt

CONSTANTS
  Threads,      \* the connection threads
  Connections,  \* the connections clients open
  MaxRequests,  \* by connection: a bound on its requests
  MaxLength,    \* max_in_message_queue_length, max_out_message_queue_length
  NumSlots,     \* num_tcp_recursive_slots
  Routes        \* what handlers do with requests

AllRoutes ==
  {"answer",   \* authoritative answers, and errors
   "drop",     \* no horizon, a response, or a null response
   "recurse", "forward"}

None == "none"

ASSUME TcpServerAssumption ==
  /\ Threads # {} /\ IsFiniteSet(Threads)
  /\ None \notin Connections /\ IsFiniteSet(Connections)
  /\ MaxRequests \in [Connections -> Nat]
  /\ MaxLength \in Nat /\ NumSlots \in Nat \ {0}
  /\ Routes \subseteq AllRoutes

Requests == UNION {[connection : {c}, number : 1..MaxRequests[c]] :
                     c \in Connections}

VARIABLES
  coming,          \* the connections that are still to be made
  acceptor,        \* where accept_inbound stands
  arriving,        \* what is left of accept_many's list
  m_free_threads,  \* of the pool
  pc,              \* by connection thread: where run stands
  m_socket,        \* by connection thread: the connection it serves
  read,            \* by connection: the number of requests read
  answers,         \* by connection: the requests whose answers it was given
  to_handler, from_handler,    \* by connection thread: its handler's queues
  to_resolver, from_resolver,  \* by connection thread: its channel
  slots_in, slots, slots_out,  \* the slot pool: the queues, and the slots
  forwards,        \* by request: what became of it in the forwarding resolver
  forwarder_out,   \* the forwarding resolver's queue of responses
  lost,            \* requests that are not answered
  shutdown         \* run_state::o_state is shutdown_e

pool == <<coming, acceptor, arriving, m_free_threads>>
threads == <<pc, m_socket, read, answers>>
handlers == <<to_handler, from_handler>>
channels == <<to_resolver, from_resolver>>
resolver == <<slots_in, slots, slots_out>>
forwarder == <<forwards, forwarder_out>>
vars == <<pool, threads, handlers, channels, resolver, forwarder, lost,
          shutdown>>

AcceptorStates ==
  {"accepting",
   "waiting",      \* in get, in wait
   "notified",     \* in get, woken and about to wait_for
   "waiting_for",  \* in get, in wait_for
   "woken",        \* in get, about to look at the pool again
   "ended"}

ThreadStates == {"idle", "reading", "asking", "written", "ended"}

Channelled == [request : Requests, channel : Threads]

TypeOK ==
  /\ coming \in Seq(Connections) /\ arriving \in Seq(Connections)
  /\ acceptor \in AcceptorStates
  /\ m_free_threads \in Seq(Threads)
  /\ pc \in [Threads -> ThreadStates]
  /\ m_socket \in [Threads -> Connections \union {None}]
  /\ \A t \in Threads : pc[t] \in {"reading", "asking", "written"}
                        => m_socket[t] # None
  /\ read \in [Connections -> Nat]
  /\ \A c \in Connections : read[c] <= MaxRequests[c]
  /\ answers \in [Connections -> Seq(Requests)]
  /\ to_handler \in [Threads -> Seq(Requests)]
  /\ from_handler \in [Threads -> Seq(Requests)]
  /\ to_resolver \in [Threads -> Seq(Requests)]
  /\ from_resolver \in [Threads -> Seq(Requests)]
  /\ slots_in \in Seq(Channelled) /\ slots_out \in Seq(Channelled)
  /\ slots \subseteq Channelled
  /\ forwards \in [Requests -> {"no", "asking", "answered", "unanswered"}]
  /\ forwarder_out \in Seq(Requests)
  /\ lost \subseteq Requests
  /\ shutdown \in BOOLEAN

Init ==
  /\ coming = SetToSeq(Connections) /\ arriving = <<>>
  /\ acceptor = "accepting"
  /\ m_free_threads = SetToSeq(Threads)
  /\ pc = [t \in Threads |-> "idle"]
  /\ m_socket = [t \in Threads |-> None]
  /\ read = [c \in Connections |-> 0]
  /\ answers = [c \in Connections |-> <<>>]
  /\ to_handler = [t \in Threads |-> <<>>]
  /\ from_handler = [t \in Threads |-> <<>>]
  /\ to_resolver = [t \in Threads |-> <<>>]
  /\ from_resolver = [t \in Threads |-> <<>>]
  /\ slots_in = <<>> /\ slots = {} /\ slots_out = <<>>
  /\ forwards = [r \in Requests |-> "no"] /\ forwarder_out = <<>>
  /\ lost = {} /\ shutdown = FALSE

-----------------------------------------------------------------------------
(* thread_pool, and accept_inbound *)

\* put: notify_one reaches the accepting thread only while it waits.
Put(t) ==
  /\ m_free_threads' = Append(m_free_threads, t)
  /\ acceptor' = CASE acceptor = "waiting" -> "notified"
                   [] acceptor = "waiting_for" -> "woken"
                   [] OTHER -> acceptor
  /\ UNCHANGED <<coming, arriving>>

\* accept_many returns whoever has come.
Accept ==
  /\ acceptor = "accepting" /\ arriving = <<>>
  /\ \E n \in 1..Len(coming) :
       /\ arriving' = SubSeq(coming, 1, n)
       /\ coming' = SubSeq(coming, n + 1, Len(coming))
  /\ UNCHANGED <<acceptor, m_free_threads, threads, handlers, channels,
                 resolver, forwarder, lost, shutdown>>

\* get's look at the list, and serve
Serve ==
  /\ acceptor \in {"accepting", "woken"} /\ arriving # <<>>
  /\ m_free_threads # <<>>
  /\ acceptor' = "accepting"
  /\ m_free_threads' = Front(m_free_threads)
  /\ m_socket' = [m_socket EXCEPT ![Last(m_free_threads)] = Head(arriving)]
  /\ arriving' = Tail(arriving)
  /\ UNCHANGED <<coming, pc, read, answers, handlers, channels, resolver,
                 forwarder, lost, shutdown>>

Wait ==
  /\ acceptor \in {"accepting", "woken"} /\ arriving # <<>>
  /\ m_free_threads = <<>>
  /\ acceptor' = "waiting"
  /\ UNCHANGED <<coming, arriving, m_free_threads, threads, handlers, channels,
                 resolver, forwarder, lost, shutdown>>

\* wait is followed by wait_for, without a look at the list.
WaitFor ==
  /\ acceptor = "notified"
  /\ acceptor' = "waiting_for"
  /\ UNCHANGED <<coming, arriving, m_free_threads, threads, handlers, channels,
                 resolver, forwarder, lost, shutdown>>

SpuriousWakeup ==
  /\ \/ acceptor = "waiting" /\ acceptor' = "notified"
     \/ acceptor = "waiting_for" /\ acceptor' = "woken"
  /\ UNCHANGED <<coming, arriving, m_free_threads, threads, handlers, channels,
                 resolver, forwarder, lost, shutdown>>

\* The exception ends the loop over the list: the rest of it is closed.
Timeout ==
  /\ acceptor \in {"waiting_for", "woken"}
  /\ acceptor' = "accepting" /\ arriving' = <<>>
  /\ UNCHANGED <<coming, m_free_threads, threads, handlers, channels, resolver,
                 forwarder, lost, shutdown>>

EndAccepting ==
  /\ shutdown
  /\ acceptor = "accepting" /\ arriving = <<>>
  /\ acceptor' = "ended"
  /\ UNCHANGED <<coming, arriving, m_free_threads, threads, handlers, channels,
                 resolver, forwarder, lost, shutdown>>

Shutdown ==
  /\ ~shutdown /\ shutdown' = TRUE
  /\ UNCHANGED <<pool, threads, handlers, channels, resolver, forwarder, lost>>

-----------------------------------------------------------------------------
(* dns_tcp_connection::run.  A connection has arrived at a thread when the  *)
(* thread has a socket.                                                     *)

DoneKeepingTheSocket(t) ==
  /\ Put(t)
  /\ UNCHANGED m_socket

\* done, and where run goes on
Done(t) ==
  /\ m_socket' = [m_socket EXCEPT ![t] = None]
  /\ Put(t)

Start(t) ==
  /\ pc[t] = "idle" /\ m_socket[t] # None
  /\ pc' = [pc EXCEPT ![t] = "reading"]
  /\ UNCHANGED <<pool, m_socket, read, answers, handlers, channels, resolver,
                 forwarder, lost, shutdown>>

\* wait_for_connection has timed out.  A connection that arrives before run
\* has seen shutdown_e is left alone.
End(t) ==
  /\ pc[t] = "idle" /\ shutdown
  /\ pc' = [pc EXCEPT ![t] = "ended"]
  /\ UNCHANGED <<pool, m_socket, read, answers, handlers, channels, resolver,
                 forwarder, lost, shutdown>>

Read(t) ==
  /\ pc[t] = "reading"
  /\ LET c == m_socket[t]
     IN  /\ read[c] < MaxRequests[c]
         /\ read' = [read EXCEPT ![c] = @ + 1]
         /\ to_handler' = [to_handler EXCEPT ![t] = Append(@,
                             [connection |-> c, number |-> read'[c]])]
  /\ pc' = [pc EXCEPT ![t] = "asking"]
  /\ UNCHANGED <<pool, m_socket, answers, from_handler, channels, resolver,
                 forwarder, lost, shutdown>>

\* A request that is too short, a timeout (at once after shutdown), the end of
\* the stream, or an error
HangUp(t) ==
  /\ pc[t] = "reading"
  /\ Done(t)
  /\ pc' = [pc EXCEPT ![t] = "idle"]
  /\ UNCHANGED <<read, answers, handlers, channels, resolver, forwarder, lost,
                 shutdown>>

\* The answer is written to the socket, or fails to be.
Answer(t) ==
  /\ pc[t] = "asking" /\ from_handler[t] # <<>>
  /\ from_handler' = [from_handler EXCEPT ![t] = Tail(@)]
  /\ \/ /\ answers' = [answers EXCEPT ![m_socket[t]] =
                         Append(@, Head(from_handler[t]))]
        /\ pc' = [pc EXCEPT ![t] = "written"]
        /\ UNCHANGED <<pool, m_socket>>
     \/ /\ Done(t)
        /\ pc' = [pc EXCEPT ![t] = "idle"]
        /\ UNCHANGED answers
  /\ UNCHANGED <<read, to_handler, channels, resolver, forwarder, lost,
                 shutdown>>

Continue(t) ==
  /\ pc[t] = "written"
  /\ pc' = [pc EXCEPT ![t] = IF shutdown THEN "ended" ELSE "reading"]
  /\ UNCHANGED <<pool, m_socket, read, answers, handlers, channels, resolver,
                 forwarder, lost, shutdown>>

\* The wait for the handler's answer ends with the program only.
StopAsking(t) ==
  /\ pc[t] = "asking" /\ shutdown
  /\ Done(t)
  /\ pc' = [pc EXCEPT ![t] = "ended"]
  /\ UNCHANGED <<read, answers, handlers, channels, resolver, forwarder, lost,
                 shutdown>>

-----------------------------------------------------------------------------
(* The connection's handler: process, handle_request, and its two threads *)

Handle(t) ==
  /\ to_handler[t] # <<>>
  /\ to_handler' = [to_handler EXCEPT ![t] = Tail(@)]
  /\ LET r == Head(to_handler[t])
     IN  \/ /\ "answer" \in Routes
            /\ from_handler' = [from_handler EXCEPT ![t] = Append(@, r)]
            /\ UNCHANGED <<channels, forwards, lost>>
         \/ /\ "drop" \in Routes
            /\ lost' = lost \union {r}
            /\ UNCHANGED <<from_handler, channels, forwards>>
         \/ /\ "recurse" \in Routes
            /\ to_resolver' = [to_resolver EXCEPT ![t] = Append(@, r)]
            /\ UNCHANGED <<from_handler, from_resolver, forwards, lost>>
         \/ /\ "forward" \in Routes
            /\ forwards' = [forwards EXCEPT ![r] = "asking"]
            /\ UNCHANGED <<from_handler, channels, lost>>
  /\ UNCHANGED <<pool, threads, resolver, forwarder_out, shutdown>>

GetResolverResponse(t) ==
  /\ from_resolver[t] # <<>>
  /\ from_resolver' = [from_resolver EXCEPT ![t] = Tail(@)]
  /\ from_handler' = [from_handler EXCEPT ![t] =
                        Append(@, Head(from_resolver[t]))]
  /\ UNCHANGED <<pool, threads, to_handler, to_resolver, resolver, forwarder,
                 lost, shutdown>>

GetForwarderResponse(t) ==
  /\ forwarder_out # <<>>
  /\ forwarder_out' = Tail(forwarder_out)
  /\ from_handler' = [from_handler EXCEPT ![t] = Append(@, Head(forwarder_out))]
  /\ UNCHANGED <<pool, threads, to_handler, channels, resolver, forwards, lost,
                 shutdown>>

-----------------------------------------------------------------------------
(* queue_multiplexer, the slot pool, and the forwarding resolver *)

Full(queue) == Len(queue) > MaxLength

MuxKeepingTheChannel(t) ==
  /\ to_resolver[t] # <<>>
  /\ to_resolver' = [to_resolver EXCEPT ![t] = Tail(@)]
  /\ LET r == Head(to_resolver[t])
     IN  IF Full(slots_in)
         THEN lost' = lost \union {r} /\ UNCHANGED slots_in
         ELSE /\ slots_in' = Append(slots_in,
                   [request |-> r, channel |-> CHOOSE u \in Threads : TRUE])
              /\ UNCHANGED lost
  /\ UNCHANGED <<pool, threads, handlers, from_resolver, slots, slots_out,
                 forwarder, shutdown>>

\* run_mux, which takes no notice when the slots' queue is full
Mux(t) ==
  /\ to_resolver[t] # <<>>
  /\ to_resolver' = [to_resolver EXCEPT ![t] = Tail(@)]
  /\ LET r == Head(to_resolver[t])
     IN  IF Full(slots_in)
         THEN lost' = lost \union {r} /\ UNCHANGED slots_in
         ELSE /\ slots_in' = Append(slots_in, [request |-> r, channel |-> t])
              /\ UNCHANGED lost
  /\ UNCHANGED <<pool, threads, handlers, from_resolver, slots, slots_out,
                 forwarder, shutdown>>

Resolve ==
  /\ slots_in # <<>> /\ Cardinality(slots) < NumSlots
  /\ slots_in' = Tail(slots_in)
  /\ slots' = slots \union {Head(slots_in)}
  /\ UNCHANGED <<pool, threads, handlers, channels, slots_out, forwarder, lost,
                 shutdown>>

\* dns_recursive_slot::send_response, or an exception out of reset_sockets
Resolved(x) ==
  /\ x \in slots
  /\ slots' = slots \ {x}
  /\ \/ /\ ~Full(slots_out)
        /\ slots_out' = Append(slots_out, x)
        /\ UNCHANGED lost
     \/ /\ lost' = lost \union {x.request}
        /\ UNCHANGED slots_out
  /\ UNCHANGED <<pool, threads, handlers, channels, slots_in, forwarder,
                 shutdown>>

DemuxDropping ==
  /\ slots_out # <<>>
  /\ slots_out' = Tail(slots_out)
  /\ UNCHANGED <<pool, threads, handlers, channels, slots_in, slots, forwarder,
                 lost, shutdown>>

\* run_demux
Demux ==
  /\ slots_out # <<>>
  /\ slots_out' = Tail(slots_out)
  /\ LET x == Head(slots_out)
     IN  from_resolver' = [from_resolver EXCEPT ![x.channel] =
                             Append(@, x.request)]
  /\ UNCHANGED <<pool, threads, handlers, to_resolver, slots_in, slots,
                 forwarder, lost, shutdown>>

\* dns_forwarding_slot::process, which may end without an answer
Forwarded(r) ==
  /\ forwards[r] = "asking"
  /\ \/ /\ forwards' = [forwards EXCEPT ![r] = "answered"]
        /\ forwarder_out' = Append(forwarder_out, r)
        /\ UNCHANGED lost
     \/ /\ forwards' = [forwards EXCEPT ![r] = "unanswered"]
        /\ lost' = lost \union {r}
        /\ UNCHANGED forwarder_out
  /\ UNCHANGED <<pool, threads, handlers, channels, resolver, shutdown>>

-----------------------------------------------------------------------------
Acceptor ==
  Accept \/ Serve \/ Wait \/ WaitFor \/ SpuriousWakeup \/ Timeout
    \/ EndAccepting

Connection(t) ==
  \/ Start(t) \/ End(t)
  \/ Read(t) \/ HangUp(t)
  \/ Answer(t) \/ Continue(t) \/ StopAsking(t)

Handler(t) == Handle(t) \/ GetResolverResponse(t)

Next ==
  \/ Acceptor \/ Shutdown
  \/ \E t \in Threads :
       Connection(t) \/ Handler(t) \/ GetForwarderResponse(t) \/ Mux(t)
  \/ Resolve \/ Demux
  \/ \E x \in slots : Resolved(x)
  \/ \E r \in Requests : Forwarded(r)

\* Every thread goes on; a client that says nothing is hung up on in time.
Fairness ==
  /\ \A t \in Threads :
       /\ WF_vars(Connection(t))
       /\ WF_vars(Handle(t)) /\ WF_vars(GetResolverResponse(t))
       /\ WF_vars(Mux(t))
  /\ WF_vars(Resolve) /\ WF_vars(Demux)
  /\ WF_vars(\E x \in slots : Resolved(x))

Spec == Init /\ [][Next]_vars

FairSpec == Spec /\ Fairness
-----------------------------------------------------------------------------
(* Properties *)

\* The pool lends every connection thread to one connection at a time: a thread
\* is in the pool, once, exactly while it serves none, however serving ended.
LentOnce ==
  /\ IsInjective(m_free_threads)
  /\ \A t \in Threads : m_socket[t] = None <=> Contains(m_free_threads, t)
  /\ \A t, u \in Threads : m_socket[t] = m_socket[u] /\ t # u
                             => m_socket[t] = None

\* As long as no request is forwarded, a client is given the answers to its own
\* requests, each at most once and in the order it sent them in.
AnswersOwnUnlessForwarded ==
  (\A r \in Requests : forwards[r] = "no") =>
    \A c \in Connections : \A n \in DOMAIN answers[c] :
      answers[c][n] = [connection |-> c, number |-> n]

\* A connection thread comes back to the pool, as long as no request is
\* forwarded, unless a request of its client was lost: for that request's
\* answer it waits until shutdown.
EveryThreadReturns == \A t \in Threads :
  m_socket[t] # None ~> \/ m_socket[t] = None \/ shutdown
                        \/ \E r \in lost : r.connection = m_socket[t]
                        \/ \E r \in Requests : forwards[r] # "no"

=============================================================================
