--------------------------- MODULE ParallelClient ---------------------------
(***************************************************************************)
(* One query after another through dns_parallel_client                     *)
(* (src/client/dns_parallel_client.cpp), each by a client of its own, and  *)
(* what they share: when every server was contacted last and which did not *)
(* answer (src/client/dns_ip_selector.cpp).  Datagrams may arrive late,    *)
(* twice, from anyone, or never; servers may refuse or be silent over TCP. *)
(*                                                                         *)
(* A datagram is what extract_matching_response takes it for: an answer to *)
(* the requests of a round (a server asked, an id sent, the question, and  *)
(* no error), a malformed one or a FORMERR, or anything else, an NXDOMAIN  *)
(* included.  The total timeout is left out: check_timeout compares seconds*)
(* with milliseconds, so that it strikes within no query.                  *)
(***************************************************************************)
EXTENDS Naturals, Sequences, FiniteSets, SequencesExt

CONSTANTS
    Ips,            \* the servers' addresses, by number
    NumParallel,    \* num_parallel_udp
    UdpTicks,       \* udp_timeout_ms, in ticks of the clock
    MaxBuffer,      \* bound: datagrams in the socket, all read at once
    MaxQueries      \* bound: queries made
ASSUME ClientAssumption == IsFiniteSet(Ips) /\ Ips \subseteq Nat /\ UdpTicks \in Nat

VARIABLES
    lastContact,    \* o_last_contact, as the addresses in the order of contact
    deadIps,        \* o_dead_ips, that nothing is ever taken out of
    stage,          \* of the query: "idle", "send", "receive", "tcp", "done"
    useUdp, useTcp, \* the client's configuration
    allIps,         \* m_all_ips
    ips,            \* m_ips
    round,          \* 1 with EDNS, 2 without
    datagrams,      \* in the socket: what they are and the round they answer
    formatError,    \* format_error
    elapsed,        \* ticks since receive_udp began
    remaining,      \* the servers still to be tried over TCP
    outcome,        \* what the query has come to
    queries,        \* how many have been made
    shutdown        \* run_state::o_state is shutdown_e

client == <<lastContact, deadIps, stage, useUdp, useTcp, allIps, ips, round, datagrams,
            formatError, elapsed, remaining, outcome, queries, shutdown>>

----------------------------------------------------------------------------
(* dns_ip_selector                                                         *)

Contacted(ip) == lastContact' = Append(SelectSeq(lastContact, LAMBDA i : i # ip), ip)

\* find_ips
Candidates(all, includeDead) == IF includeDead THEN all ELSE all \ deadIps

\* The passes of find_ips, one after the other, in the order sort gives them:
\* an address found twice is there twice, and one never contacted counts as
\* contacted when it was found.
Ranked(passes) ==
    LET Old(ip) == [i \in 1..Cardinality({p \in DOMAIN passes : ip \in passes[p]}) |-> ip]
        New(p) == SetToSortSeq({ip \in passes[p] : ~Contains(lastContact, ip)}, <)
    IN  FlattenSeq([i \in DOMAIN lastContact |-> Old(lastContact[i])])
        \o FlattenSeq([p \in DOMAIN passes |-> New(p)])

SelectIps(all, includeDead, num) ==
    IF Cardinality(all) <= num THEN all
    ELSE LET found == Candidates(all, includeDead)
             passes == IF Cardinality(found) <= num THEN <<found, all>> ELSE <<found>>
             ranked == Ranked(passes)
         IN  ToSet(SubSeq(ranked, 1, IF num < Len(ranked) THEN num ELSE Len(ranked)))

----------------------------------------------------------------------------
ClientInit ==
    /\ lastContact = <<>> /\ deadIps = {}
    /\ stage = "idle"
    /\ useUdp \in BOOLEAN /\ useTcp \in BOOLEAN
    /\ allIps = {} /\ ips = {} /\ remaining = {}
    /\ round = 1 /\ datagrams = <<>> /\ formatError = FALSE /\ elapsed = 0
    /\ outcome = "none" /\ queries = 0 /\ shutdown = FALSE

\* query, without UDP, is at once where it ends up without an answer by UDP:
\* the servers that were asked are marked dead, and all are tried over TCP.
NoAnswerByUdp ==
    /\ deadIps' = IF useTcp THEN deadIps \cup ips' ELSE deadIps
    /\ stage' = IF useTcp THEN "tcp" ELSE "done"
    /\ remaining' = IF useTcp THEN allIps' ELSE {}

Ask(all) ==
    /\ stage \in {"idle", "done"}
    /\ queries < MaxQueries
    /\ queries' = queries + 1
    /\ allIps' = all /\ ips' = {}
    /\ round' = 1 /\ datagrams' = <<>> /\ outcome' = "none"
    /\ IF useUdp THEN stage' = "send" /\ UNCHANGED <<deadIps, remaining>> ELSE NoAnswerByUdp
    /\ UNCHANGED <<lastContact, useUdp, useTcp, formatError, elapsed, shutdown>>

\* send_udp: one request to every server selected, in the order of addresses
SendUdp ==
    /\ stage = "send"
    /\ ips' = SelectIps(allIps, FALSE, NumParallel)
    /\ lastContact' = SelectSeq(lastContact, LAMBDA i : i \notin ips')
                      \o SetToSortSeq(ips', <)
    /\ stage' = "receive"
    /\ formatError' = FALSE
    /\ elapsed' = 0
    /\ UNCHANGED <<deadIps, useUdp, useTcp, allIps, round, datagrams, remaining,
                   outcome, queries, shutdown>>

\* A request that is larger than the size agreed on falls back to TCP; a send
\* that throws ends the query.
SendNothing ==
    /\ stage = "send"
    /\ \/ UNCHANGED <<allIps, ips, outcome>> /\ NoAnswerByUdp
       \/ /\ stage' = "done" /\ outcome' = "thrown"
          /\ UNCHANGED <<deadIps, allIps, ips, remaining>>
    /\ UNCHANGED <<lastContact, useUdp, useTcp, round, datagrams, formatError,
                   elapsed, queries, shutdown>>

Arrive(kind) ==
    /\ stage \in {"send", "receive", "tcp"}
    /\ useUdp
    /\ kind = "answer" => stage = "receive"
    /\ Len(datagrams) < MaxBuffer
    /\ datagrams' = Append(datagrams, [kind |-> kind, round |-> round])
    /\ UNCHANGED <<lastContact, deadIps, stage, useUdp, useTcp, allIps, ips, round,
                   formatError, elapsed, remaining, outcome, queries, shutdown>>

Tick ==
    /\ stage = "receive"
    /\ elapsed < UdpTicks
    /\ elapsed' = elapsed + 1
    /\ UNCHANGED <<lastContact, deadIps, stage, useUdp, useTcp, allIps, ips, round,
                   datagrams, formatError, remaining, outcome, queries, shutdown>>

\* receive_udp and extract_matching_response: everything in the socket is read,
\* and all of it is gone when one answers; a later batch forgets that an earlier
\* one had a format error.
Matching(d) == d.kind = "answer" /\ d.round = round
Extract ==
    LET answers == {i \in DOMAIN datagrams : Matching(datagrams[i])}
        bad == {i \in DOMAIN datagrams : datagrams[i].kind = "bad"}
    IN  IF answers # {} THEN stage' = "done" /\ outcome' = "answered"
                             /\ UNCHANGED formatError
        ELSE formatError' = (bad # {}) /\ UNCHANGED <<stage, outcome>>
ReceiveUdpAnew ==
    /\ stage = "receive" /\ ~shutdown /\ elapsed < UdpTicks
    /\ datagrams # <<>>
    /\ Extract
    /\ datagrams' = <<>>
    /\ elapsed' = 0
    /\ UNCHANGED <<lastContact, deadIps, useUdp, useTcp, allIps, ips, round,
                   remaining, queries, shutdown>>
ReceiveUdp ==
    /\ stage = "receive" /\ ~shutdown /\ elapsed < UdpTicks
    /\ datagrams # <<>>
    /\ Extract
    /\ datagrams' = <<>>
    /\ UNCHANGED <<lastContact, deadIps, useUdp, useTcp, allIps, ips, round,
                   elapsed, remaining, queries, shutdown>>

\* The end of receive_udp's loop, and the second attempt of query_udp.
GiveUpUdp ==
    /\ stage = "receive"
    /\ elapsed = UdpTicks \/ shutdown
    /\ IF formatError /\ round = 1
       THEN stage' = "send" /\ round' = 2 /\ UNCHANGED <<deadIps, remaining, allIps, ips>>
       ELSE /\ UNCHANGED <<round, allIps, ips>>
            /\ NoAnswerByUdp
    /\ UNCHANGED <<lastContact, useUdp, useTcp, datagrams, formatError, elapsed,
                   outcome, queries, shutdown>>

\* query_tcp: the servers one after the other, each for as long as its own
\* timeouts; an answer is taken by its id alone.
TryTcp ==
    /\ stage = "tcp"
    /\ IF remaining = {} \/ shutdown
       THEN stage' = "done" /\ UNCHANGED <<lastContact, remaining, outcome>>
       ELSE LET ip == CHOOSE i \in remaining : \A j \in remaining : i <= j
            IN  /\ remaining' = remaining \ {ip}
                /\ \/ Contacted(ip) /\ stage' = "done" /\ outcome' = "answered"
                   \/ Contacted(ip) /\ UNCHANGED <<stage, outcome>>
                   \/ UNCHANGED <<lastContact, stage, outcome>>
    /\ UNCHANGED <<deadIps, useUdp, useTcp, allIps, ips, round, datagrams,
                   formatError, elapsed, queries, shutdown>>

Stop ==
    /\ ~shutdown
    /\ shutdown' = TRUE
    /\ UNCHANGED <<lastContact, deadIps, stage, useUdp, useTcp, allIps, ips, round,
                   datagrams, formatError, elapsed, remaining, outcome, queries>>

Working == SendUdp \/ SendNothing \/ GiveUpUdp \/ TryTcp
ClientNext ==
    \/ Working \/ ReceiveUdp \/ Tick \/ Stop
    \/ \E all \in SUBSET Ips : all # {} /\ Ask(all)
    \/ \E kind \in {"answer", "bad", "other"} : Arrive(kind)

\* Time passes, and a thread that has something to do is given its turn.
ClientFairness == WF_client(Tick) /\ WF_client(Working)
ClientSpec == ClientInit /\ [][ClientNext]_client /\ ClientFairness

----------------------------------------------------------------------------
\* A query comes to an end whatever arrives, and however much: datagrams that
\* are no answer do not keep it waiting (src/client/dns_parallel_client.cpp:174).
QueryEnds == stage \in {"send", "receive", "tcp"} ~> stage = "done"
=============================================================================
