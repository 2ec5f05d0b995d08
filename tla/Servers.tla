------------------------------ MODULE Servers ------------------------------
(***************************************************************************)
(* The program from run_servers to its end: server/server_container with   *)
(* its signals, acore/run_state, a UDP server, and one server that accepts *)
(* connections: DNS over TLS or HTTPS, control, or user interface.  Module *)
(* TcpServer has the DNS TCP server, the resolvers and the answers.        *)
(***************************************************************************)
EXTENDS Integers, Sequences, SequencesExt

CONSTANTS
    Threads,        \* the accepting server's connection threads
    MaxBatch        \* a bound on the connections accept_many returns
ASSUME ServersAssumption == IsFiniteSet(Threads)

\* control_server and control_connection are ui_server and ui_connection but for
\* what they answer: "ui" stands for both.
Kinds == {"dot", "doh", "ui"}

VARIABLES
    runState,       \* run_state::o_state
    restart,        \* run_state::o_restart
    signals,        \* signals that have been sent and not been handled
    armed,          \* m_stop_signals.async_wait is outstanding
    main,           \* the main thread
    udp,            \* by its threads: "none", "running" or "ended"
    outgoing,       \* answers in the handler pool's outgoing queue
    kind,           \* of the accepting server
    acceptor,       \* accept_inbound; "none" when the server was not added
    accepted,       \* how many connections of accept_many are still to be served
    free,           \* thread_pool::m_free_threads
    thread,         \* by connection thread: where run stands
    given           \* m_connection_arrived

program == <<runState, restart, signals, armed, main>>
receiving == <<udp, outgoing>>
pooled == <<accepted, free, thread, given>>
servers == <<program, receiving, kind, acceptor, pooled>>

UdpThreads == {"handlers", "receiver", "sender"}
Stopping == runState = "shutdown"

\* run_servers: what is disabled, or throws when it is made, is left out.  One
\* server is added: servers share nothing but the run state and the join.
ServersInit ==
    /\ runState = "run" /\ restart = FALSE /\ signals = {} /\ armed = TRUE /\ main = "polling"
    /\ udp \in {[t \in UdpThreads |-> s] : s \in {"none", "running"}}
    /\ outgoing = 0
    /\ kind \in Kinds
    /\ acceptor = IF udp["sender"] = "none" THEN "looping" ELSE "none"
    /\ accepted = 0
    /\ free = IF acceptor = "none" THEN <<>> ELSE SetToSeq(Threads)
    /\ thread = [t \in Threads |-> IF acceptor = "none" THEN "none" ELSE "idle"]
    /\ given = [t \in Threads |-> FALSE]

-----------------------------------------------------------------------------
(* Signals and the run state                                               *)

\* Nothing takes a signal once the main thread has left its loop.
Signal(s) ==
    /\ main = "polling"
    /\ s \notin signals /\ signals' = signals \cup {s}
    /\ UNCHANGED <<runState, restart, armed, main, receiving, kind, acceptor,
                   pooled>>

\* poll_one, and handle_stop.  Nothing waits for a signal after it.
HandleStop(s) ==
    /\ main = "polling" /\ ~Stopping /\ armed /\ s \in signals
    /\ signals' = signals \ {s} /\ armed' = FALSE
    /\ runState' = IF s = "SIGPIPE" THEN runState ELSE "shutdown"
    /\ UNCHANGED <<restart, main, receiving, kind, acceptor, pooled>>

LeaveLoop ==
    /\ main = "polling" /\ Stopping
    /\ main' = "joining"
    /\ UNCHANGED <<runState, restart, signals, armed, receiving, kind, acceptor,
                   pooled>>

\* A PUT of the run state.  A shutdown is not reversed; a restart may follow it.
SetRunState(s) ==
    /\ main \in {"polling", "joining"}
    /\ s \in {"run", "pause"} => ~Stopping
    /\ restart' = (restart \/ s = "restart")
    /\ runState' = IF s = "restart" THEN "shutdown" ELSE s
    /\ UNCHANGED <<signals, armed, main, receiving, kind, acceptor, pooled>>

\* server_container::join.  The UDP server was the first to be added.
JoinUdp ==
    /\ main = "joining"
    /\ \A t \in UdpThreads : udp[t] # "running"
    /\ main' = "joining the other"
    /\ UNCHANGED <<runState, restart, signals, armed, receiving, kind, acceptor,
                   pooled>>

JoinAcceptor ==
    /\ main = "joining the other"
    /\ acceptor \in {"none", "ended"}
    /\ \A t \in Threads : thread[t] \in {"none", "ended"}
    /\ main' = IF restart THEN "restarted" ELSE "exited"
    /\ UNCHANGED <<runState, restart, signals, armed, receiving, kind, acceptor,
                   pooled>>

-----------------------------------------------------------------------------
(* dns_udp_server                                                          *)

\* A timeout of a queue or of the sockets, after which run_state is looked at.
\* The sender's queue times out when it is empty.
EndUdp(t) ==
    /\ udp[t] = "running" /\ Stopping
    /\ t = "sender" => outgoing = 0
    /\ udp' = [udp EXCEPT ![t] = "ended"]
    /\ UNCHANGED <<program, outgoing, kind, acceptor, pooled>>

Answer ==
    /\ udp["handlers"] = "running" /\ outgoing = 0
    /\ outgoing' = 1
    /\ UNCHANGED <<program, udp, kind, acceptor, pooled>>

\* send_outbound; a failure to send drops the answer.
SendOutbound ==
    /\ udp["sender"] = "running" /\ outgoing > 0
    /\ outgoing' = outgoing - 1
    /\ UNCHANGED <<program, udp, kind, acceptor, pooled>>

\* receive_inbound catches timeouts and nothing else.
ReceiveFails ==
    /\ udp["receiver"] = "running"
    /\ main' = "terminated"
    /\ udp' = [t \in UdpThreads |-> "ended"]
    /\ acceptor' = "ended" /\ thread' = [t \in Threads |-> "ended"]
    /\ UNCHANGED <<runState, restart, signals, armed, outgoing, kind, accepted,
                   free, given>>

-----------------------------------------------------------------------------
(* accept_inbound and thread_pool                                          *)

\* The top of the loop
Look ==
    /\ acceptor = "looping"
    /\ ~(runState = "pause" /\ kind \in {"dot", "doh"})
    /\ acceptor' = IF Stopping THEN "ended" ELSE "listening"
    /\ UNCHANGED <<program, receiving, kind, pooled>>

ListenTimesOut ==
    /\ acceptor = "listening"
    /\ acceptor' = "looping"
    /\ UNCHANGED <<program, receiving, kind, pooled>>

AcceptMany ==
    /\ acceptor = "listening"
    /\ accepted' \in 1..MaxBatch
    /\ acceptor' = "serving"
    /\ UNCHANGED <<program, receiving, kind, free, thread, given>>

\* Anything that is not caught ends the server, and the program with it.
EndAccepting ==
    /\ acceptor' = "ended" /\ runState' = "shutdown"
    /\ UNCHANGED <<restart, signals, armed, main, receiving, kind, pooled>>

AcceptFails == acceptor \in {"looping", "listening"} /\ ~Stopping /\ EndAccepting

\* ssl_accept_failed_exception, which dns_dot_server does not catch
HandshakeFails ==
    /\ acceptor = "listening"
    /\ IF kind = "dot"
       THEN EndAccepting
       ELSE /\ acceptor' = "looping"
            /\ UNCHANGED <<program, receiving, kind, pooled>>

\* get, and serve
Serve ==
    /\ acceptor \in {"serving", "woken"} /\ free # <<>>
    /\ free' = Front(free)
    /\ given' = [given EXCEPT ![Last(free)] = TRUE]
    /\ accepted' = accepted - 1
    /\ acceptor' = IF accepted = 1 THEN "looping" ELSE "serving"
    /\ UNCHANGED <<program, receiving, kind, thread>>

\* get's wait, and its wait_for without a look at the pool
Wait ==
    /\ \/ acceptor \in {"serving", "woken"} /\ free = <<>> /\ acceptor' = "waiting"
       \/ acceptor = "notified" /\ acceptor' = "waiting for"
    /\ UNCHANGED <<program, receiving, kind, pooled>>

\* The rest of what was accepted is closed.
GetTimesOut ==
    /\ acceptor = "waiting for"
    /\ acceptor' = "looping" /\ accepted' = 0
    /\ UNCHANGED <<program, receiving, kind, free, thread, given>>

Put(t) ==
    /\ free' = Append(free, t)
    /\ acceptor' = CASE acceptor = "waiting" -> "notified"
                     [] acceptor = "waiting for" -> "woken"
                     [] OTHER -> acceptor

-----------------------------------------------------------------------------
(* The connection threads' run: dns_tcp_connection, dns_doh_connection,    *)
(* control_connection and ui_connection                                    *)

Done(t) == given' = [given EXCEPT ![t] = FALSE] /\ Put(t)

Goes(t, to) ==
    /\ thread' = [thread EXCEPT ![t] = to]
    /\ UNCHANGED <<program, receiving, kind, accepted>>

Start(t) ==
    /\ thread[t] = "idle" /\ given[t]
    /\ Goes(t, "serving") /\ UNCHANGED <<acceptor, free, given>>

WaitTimesOut(t) ==
    /\ thread[t] = "idle" /\ ~given[t] /\ Stopping
    /\ Goes(t, "leaving") /\ UNCHANGED <<acceptor, free, given>>

\* A look at the run state, after a wait or after done
LeaveAlways(t) ==
    /\ thread[t] = "leaving"
    /\ Goes(t, "ended") /\ UNCHANGED <<acceptor, free, given>>

LeaveNever(t) ==
    /\ thread[t] = "leaving"
    /\ Goes(t, "idle") /\ UNCHANGED <<acceptor, free, given>>

Leave(t) ==
    /\ thread[t] = "leaving"
    /\ Goes(t, IF Stopping THEN "ended" ELSE "idle")
    /\ UNCHANGED <<acceptor, free, given>>

\* The stream has ended or timed out, or its address is not allowed.
HangUp(t) ==
    /\ thread[t] = "serving" /\ kind \in {"dot", "doh"}
    /\ Done(t) /\ Goes(t, "idle")

Refuse(t) ==
    /\ thread[t] = "serving" /\ kind = "ui"
    /\ Done(t) /\ Goes(t, "idle")

\* handle_requests has returned; in the DNS connections, an exception.
Finish(t) ==
    /\ thread[t] = "serving"
    /\ Done(t) /\ Goes(t, "leaving")

\* An exception that handle_requests could not answer.  Shutting down, the thread
\* does not go back to the pool.
Fail(t) ==
    /\ thread[t] = "serving" /\ kind = "ui"
    /\ IF Stopping
       THEN Goes(t, "ended") /\ UNCHANGED <<acceptor, free, given>>
       ELSE Done(t) /\ Goes(t, "idle")

\* Answered, and shutting down: not back to the pool either.
StopServing(t) ==
    /\ thread[t] = "serving" /\ kind \in {"dot", "doh"} /\ Stopping
    /\ Goes(t, "ended") /\ UNCHANGED <<acceptor, free, given>>

\* The wait for the handler's answer sees the shutdown.
StopAsking(t) ==
    /\ thread[t] = "serving" /\ kind \in {"dot", "doh"} /\ Stopping
    /\ Done(t) /\ Goes(t, "ended")

\* An HTTP request that does not keep the connection: dns_doh_connection::run
\* puts its thread into the pool and returns.
LastRequest(t) ==
    /\ thread[t] = "serving" /\ kind = "doh"
    /\ Done(t) /\ Goes(t, "ended")

Serving(t) ==
    \/ HangUp(t) \/ Refuse(t) \/ Finish(t) \/ Fail(t) \/ StopServing(t)
    \/ StopAsking(t) \/ LastRequest(t)

-----------------------------------------------------------------------------
MainThread == (\E s \in signals : HandleStop(s)) \/ LeaveLoop \/ JoinUdp \/ JoinAcceptor
Acceptor == Look \/ ListenTimesOut \/ AcceptMany \/ Serve \/ Wait \/ GetTimesOut
Connection(t) == Start(t) \/ WaitTimesOut(t) \/ Leave(t)

ServersNext ==
    \/ MainThread \/ Acceptor \/ AcceptFails \/ HandshakeFails
    \/ \E s \in {"SIGPIPE", "SIGTERM"} : Signal(s)
    \/ \E s \in {"run", "pause", "shutdown", "restart"} : SetRunState(s)
    \/ \E t \in UdpThreads : EndUdp(t)
    \/ Answer \/ SendOutbound \/ ReceiveFails
    \/ \E t \in Threads : Connection(t) \/ Serving(t)

\* Every thread goes on.  A connection that is served ends when its client wants
\* it to, or when the program is shutting down: reads time out at once then.
ServersFairness ==
    /\ WF_servers(MainThread) /\ WF_servers(Acceptor)
    /\ \A t \in UdpThreads : WF_servers(EndUdp(t))
    /\ WF_servers(SendOutbound)
    /\ \A t \in Threads :
         WF_servers(Connection(t)) /\ WF_servers(Stopping /\ Serving(t))

ServersSpec == ServersInit /\ [][ServersNext]_servers /\ ServersFairness

-----------------------------------------------------------------------------
\* The stop signal was never waited for again (server_container.cpp:93), or the
\* accepting thread waits for a connection thread and the last of them has ended
\* without going back to the pool (thread_pool.hpp:66).
Deaf == ~armed /\ ~Stopping
Stranded == acceptor = "waiting" /\ \A t \in Threads : thread[t] = "ended"

\* A signal to stop, a shutdown ordered over the API, or a server that cannot go
\* on: the program ends, whatever its threads were doing.  What may keep it from
\* ending is one of two things: a SIGPIPE that came before, and the wait for a
\* connection thread that never comes back.
EndsWhenTold ==
    ("SIGTERM" \in signals \/ Stopping) ~>
        (main \in {"exited", "restarted", "terminated"} \/ Deaf \/ Stranded)

\* A connection is given to a thread that serves no other: one in the pool is there
\* once, and has none.  Nor has a connection a thread that has ended, or the pool
\* such a thread for the next, but in the DoH server, whose threads end after a last
\* request, and while the program is shutting down.
GivenToTheLiving ==
    /\ IsInjective(free)
    /\ \A t \in Threads :
         /\ Contains(free, t) => ~given[t] /\ thread[t] # "serving"
         /\ thread[t] = "ended" /\ (given[t] \/ Contains(free, t)) =>
                kind = "doh" \/ Stopping \/ main = "terminated"
=============================================================================
