--------------------------- MODULE RecursiveSlot ---------------------------
(***************************************************************************)
(* resolver/dns_recursive_slot: the slots of the recursive resolver, each  *)
(* resolving one question at a time by asking name servers, following      *)
(* referrals and aliases, and resolving the names of name servers on the   *)
(* way.  Slots share nothing but the cache, which is two maps here: see    *)
(* RecursiveCache for its insides, and RootHints for the root's referral.  *)
(*                                                                         *)
(* A slot's recursion is a stack with a frame for each call of resolve, so *)
(* that a call's depth is its place on the stack.  A step is what a slot   *)
(* does from one use of the cache, or of the network, to the next; passing *)
(* to another name server and returning are steps of their own.  Addresses *)
(* are of one family (use_ip4 set, use_ip6 not), so that a question is a   *)
(* name, and a name is the sequence of its labels.                         *)
(*                                                                         *)
(* A referral is what is used of it: the zone it refers to, the addresses  *)
(* it has for name servers, and the name servers it has none for.          *)
(***************************************************************************)
EXTENDS Integers, FiniteSets, Sequences, SequencesExt, FiniteSetsExt

CONSTANTS
  Slots, Names, Addresses,
  Asked,              \* the questions clients ask
  RootReferral,
  Replies(_, _),      \* what an address may reply to a question, as
                      \* classify_response sees it
  Faults,             \* what may go wrong
  MaxRecursionDepth   \* max_recursion_depth

Root == <<>>
None == [type |-> "none"]

AnswerTypes == {"data", "no_data", "nxdomain", "fail"}

\* The addresses of an answer are owned by the name it was found at, which
\* is the question's name unless aliases were followed.
Answers   == [type : AnswerTypes, owner : Names, addresses : SUBSET Addresses]
Referrals == [type : {"referral"}, zone : Names, glue : SUBSET Addresses,
              ns : Seq(Names)]
Additional == [type : {"additional"}, owner : Names,
              addresses : SUBSET Addresses]
Aliases   == [type : {"alias"}, target : Names]

Fail(q) == [type |-> "fail", owner |-> q, addresses |-> {}]

AllFaults ==
  {"unopened",  \* the client's sockets cannot be opened anew
   "lost",      \* no name server that was asked answers
   "error",     \* an exception in the client, or from a referral all of
                \* whose NS records have a zero time to live
   "late",      \* recursive_timeout_ms passes
   "uncached",  \* an answer has a zero time to live, or a TKEY record
   "forgotten"} \* the cache's entries expire or are evicted

ASSUME RecursiveSlotAssumption ==
  /\ Root \in Names /\ Asked \subseteq Names
  /\ \A n \in Names \ {Root} : n \in Seq(STRING) /\ Tail(n) \in Names
  /\ RootReferral \in Referrals /\ RootReferral.zone = Root
  /\ \A q \in Names, ip \in Addresses :
       Replies(q, ip) \subseteq Answers \union Additional
                                \union Referrals \union Aliases
  /\ Faults \subseteq AllFaults
  /\ MaxRecursionDepth \in Nat

VARIABLES
  m_answers, m_referrals,  \* the cache
  stack,                   \* by slot: its calls of resolve, the oldest first
  m_query_trail,           \* by slot: what it has asked whom, or is about to
  sent,                    \* by slot: what it really has asked whom
  late,                    \* by slot: has recursive_timeout_ms passed?
  response                 \* by slot: the question it last resolved, and how

cache == <<m_answers, m_referrals>>
vars == <<cache, stack, m_query_trail, sent, late, response>>

\* Where a call of resolve stands.
Places ==
  {"look",      \* about to look for an answer in the cache
   "refer",     \* about to look for a referral
   "ask",       \* about to ask the name servers at its addresses
   "wait",      \* waiting for them
   "next",      \* passing to the next name server without an address
   "server",    \* resolving such a name server's name
   "alias",     \* resolving the name that an alias stands for
   "done"}      \* about to return its result

Frames == [question : Names, at : Places, zone : Names, left : Seq(Names),
           addresses : SUBSET Addresses, try : BOOLEAN,
           result : Answers \union {None}]

Init ==
  /\ m_answers = [n \in Names |-> None]
  /\ m_referrals = [n \in Names |-> IF n = Root THEN RootReferral ELSE None]
  /\ stack = [s \in Slots |-> <<>>]
  /\ m_query_trail = [s \in Slots |-> {}]
  /\ sent = [s \in Slots |-> {}]
  /\ late = [s \in Slots |-> FALSE]
  /\ response = [s \in Slots |-> None]

-----------------------------------------------------------------------------
(* Names and the stack *)

\* dns_name::is_subdomain_of, which a name is not of itself
IsSubdomainOf(n, m) == IsStrictSuffix(m, n)

\* The answer get_referral finds on its way up from a name to the root.
NearestReferral(n) ==
  LET known == {m \in Names : IsSuffix(m, n) /\ m_referrals[m] # None}
  IN  m_referrals[CHOOSE m \in known : \A k \in known : Len(k) <= Len(m)]

Call(q) == [question |-> q, at |-> "look", zone |-> Root, left |-> <<>>,
            addresses |-> {}, try |-> FALSE, result |-> None]

IsAt(s, place) == stack[s] # <<>> /\ Last(stack[s]).at = place

\* The stack, and the last call on it, after a step of that call.
SetStack(s, calls) == stack' = [stack EXCEPT ![s] = calls]
Become(s, call) == SetStack(s, Append(Front(stack[s]), call))

Respond(s, q, answer) ==
  response' = [response EXCEPT ![s] = [question |-> q, answer |-> answer]]

\* An exception goes to the latest call that is inside query_nameserver's try
\* block, which passes to the next name server, or else to process.
Throw(s) ==
  LET trying == {i \in DOMAIN stack[s] : stack[s][i].try}
      i == Max(trying)
  IN  IF trying # {}
      THEN /\ SetStack(s, Append(SubSeq(stack[s], 1, i - 1),
                   [stack[s][i] EXCEPT !.at = "next", !.try = FALSE]))
           /\ UNCHANGED response
      ELSE /\ SetStack(s, <<>>)
           /\ Respond(s, stack[s][1].question, Fail(stack[s][1].question))

CheckLoopForgetting(s, below, call, addresses, try) ==
  LET fresh == {ip \in addresses :
                  <<call.question, ip>> \notin m_query_trail[s]}
  IN  /\ UNCHANGED m_query_trail
      /\ SetStack(s, Append(below,
           [call EXCEPT !.addresses = fresh,
                        !.at = IF fresh = {} THEN "next" ELSE "ask",
                        !.try = try /\ fresh # {}]))

\* check_loop, and what query_nameserver then does with the addresses.  The
\* call comes to stand on top of those below it.
CheckLoop(s, below, call, addresses, try) ==
  LET fresh == {ip \in addresses :
                  <<call.question, ip>> \notin m_query_trail[s]}
  IN  /\ m_query_trail' = [m_query_trail EXCEPT ![s] =
                             @ \union ({call.question} \X fresh)]
      /\ SetStack(s, Append(below,
           [call EXCEPT !.addresses = fresh,
                        !.at = IF fresh = {} THEN "next" ELSE "ask",
                        !.try = try /\ fresh # {}]))

\* query_nameserver with a referral: name servers with an address come first.
QueryNameserver(s, referral) ==
  CheckLoop(s, Front(stack[s]),
            [Last(stack[s]) EXCEPT !.zone = referral.zone,
                                   !.left = referral.ns],
            referral.glue, TRUE)

\* dns_recursive_cache::add_answer
AddAnswer(q, answer) ==
  \/ m_answers' = [m_answers EXCEPT ![q] = answer]
  \/ "uncached" \in Faults /\ UNCHANGED m_answers

-----------------------------------------------------------------------------
(* process, resolve *)

Process(s, q) ==
  /\ stack[s] = <<>>
  /\ SetStack(s, <<Call(q)>>)
  /\ m_query_trail' = [m_query_trail EXCEPT ![s] = {}]
  /\ sent' = [sent EXCEPT ![s] = {}]
  /\ late' = [late EXCEPT ![s] = FALSE]
  /\ response' = [response EXCEPT ![s] = None]
  /\ UNCHANGED cache

\* m_client.reset_sockets throws: that is before the try block, and the query is
\* neither resolved nor responded to.
ResetFails(s) ==
  /\ "unopened" \in Faults
  /\ stack[s] = <<>>
  /\ m_query_trail' = [m_query_trail EXCEPT ![s] = {}]
  /\ sent' = [sent EXCEPT ![s] = {}]
  /\ late' = [late EXCEPT ![s] = FALSE]
  /\ response' = [response EXCEPT ![s] = None]
  /\ UNCHANGED <<cache, stack>>

\* resolve up to get_answer's use of the answers
Look(s) ==
  /\ IsAt(s, "look")
  /\ LET call == Last(stack[s])
         known == m_answers[call.question]
     IN  IF Len(stack[s]) > MaxRecursionDepth
         THEN Throw(s)
         ELSE /\ Become(s, IF known # None
                           THEN [call EXCEPT !.at = "done", !.result = known]
                           ELSE [call EXCEPT !.at = "refer"])
              /\ UNCHANGED response
  /\ UNCHANGED <<cache, m_query_trail, sent, late>>

\* get_referral, and resolve as far as the query
Refer(s) ==
  /\ IsAt(s, "refer")
  /\ QueryNameserver(s, NearestReferral(Last(stack[s]).question))
  /\ UNCHANGED <<cache, sent, late, response>>

-----------------------------------------------------------------------------
(* query_nameserver_ips, with check_timeout before and after the query *)

Send(s) ==
  /\ IsAt(s, "ask")
  /\ LET call == Last(stack[s])
     IN  IF late[s]
         THEN Throw(s) /\ UNCHANGED sent
         ELSE /\ sent' = [sent EXCEPT ![s] =
                            @ \union ({call.question} \X call.addresses)]
              /\ Become(s, [call EXCEPT !.at = "wait"])
              /\ UNCHANGED response
  /\ UNCHANGED <<cache, m_query_trail, late>>

ClassifyAny(call, reply) == reply

\* classify_response: a referral that does not lead further down is a failure.
Classify(call, reply) ==
  IF reply.type = "referral" /\ ~IsSubdomainOf(reply.zone, call.zone)
  THEN Fail(call.question)
  ELSE reply

ReceiveAnswer(s, answer) ==
  LET call == Last(stack[s])
  IN  /\ answer.type \in AnswerTypes
      /\ AddAnswer(call.question, answer)
      /\ Become(s, [call EXCEPT !.at = "done", !.result = answer,
                                !.try = FALSE])
      /\ UNCHANGED <<m_referrals, m_query_trail>>

\* Additional records that match the question are its answer, but not one
\* that is put in the cache.
ReceiveAdditional(s, reply) ==
  /\ reply.type = "additional"
  /\ Become(s, [Last(stack[s]) EXCEPT !.at = "done",
                  !.result = [reply EXCEPT !.type = "data"], !.try = FALSE])
  /\ UNCHANGED <<cache, m_query_trail>>

ReceiveReferral(s, reply) ==
  /\ reply.type = "referral"
  /\ m_referrals' = [m_referrals EXCEPT ![reply.zone] = reply]
  /\ QueryNameserver(s, reply)
  /\ UNCHANGED m_answers

\* query_nameserver_cname and query_nameserver_dname as far as resolve
ReceiveAlias(s, reply) ==
  /\ reply.type = "alias"
  /\ SetStack(s, Append(Front(stack[s]),
                        [Last(stack[s]) EXCEPT !.at = "alias"])
                   \o <<Call(reply.target)>>)
  /\ UNCHANGED <<cache, m_query_trail>>

Receive(s) ==
  /\ IsAt(s, "wait") /\ ~late[s]
  /\ LET call == Last(stack[s])
     IN  \E raw \in UNION {Replies(call.question, ip) : ip \in call.addresses} :
           LET reply == Classify(call, raw)
           IN  \/ ReceiveAnswer(s, reply)
               \/ ReceiveAdditional(s, reply)
               \/ ReceiveReferral(s, reply)
               \/ ReceiveAlias(s, reply)
  /\ UNCHANGED <<sent, late, response>>

\* No answer, or a DNAME that does not stand above the question.
NoReply(s) ==
  /\ IsAt(s, "wait") /\ ~late[s]
  /\ "lost" \in Faults
  /\ Become(s, [Last(stack[s]) EXCEPT !.at = "next", !.try = FALSE])
  /\ UNCHANGED <<cache, m_query_trail, sent, late, response>>

Error(s) ==
  /\ IsAt(s, "wait")
  /\ late[s] \/ "error" \in Faults
  /\ Throw(s)
  /\ UNCHANGED <<cache, m_query_trail, sent, late>>

-----------------------------------------------------------------------------
(* The rest of query_nameserver, and what follows a call of resolve *)

NextNameserverAgain(s) ==
  /\ IsAt(s, "next")
  /\ LET call == Last(stack[s])
     IN  IF call.left = <<>>
         THEN Become(s, [call EXCEPT !.at = "refer"])
         ELSE SetStack(s, Append(Front(stack[s]),
                            [call EXCEPT !.at = "server", !.left = Tail(@)])
                            \o <<Call(Head(call.left))>>)
  /\ UNCHANGED <<cache, m_query_trail, sent, late, response>>

\* resolve_nameserver_ips, or the failure when no name server is left
NextNameserver(s) ==
  /\ IsAt(s, "next")
  /\ LET call == Last(stack[s])
     IN  IF call.left = <<>>
         THEN Become(s, [call EXCEPT !.at = "done",
                                     !.result = Fail(call.question)])
         ELSE SetStack(s, Append(Front(stack[s]),
                            [call EXCEPT !.at = "server", !.left = Tail(@)])
                            \o <<Call(Head(call.left))>>)
  /\ UNCHANGED <<cache, m_query_trail, sent, late, response>>

Caller(s) == stack[s][Len(stack[s]) - 1]

\* Back in resolve_nameserver_ips: of the answer only the addresses of the
\* name server's own name are used.
ReturnToServer(s, result) ==
  /\ Caller(s).at = "server"
  /\ CheckLoop(s, Front(Front(stack[s])), Caller(s),
               IF /\ result.type = "data"
                  /\ result.owner = Last(stack[s]).question
               THEN result.addresses ELSE {},
               FALSE)
  /\ UNCHANGED <<cache, response>>

ReturnToAliasForTopLevel(s, result) ==
  LET call == Caller(s)
  IN  /\ call.at = "alias"
      /\ AddAnswer(stack[s][1].question, result)
      /\ SetStack(s, Append(Front(Front(stack[s])),
                       [call EXCEPT !.at = "done", !.result = result,
                                    !.try = FALSE]))
      /\ UNCHANGED <<m_referrals, m_query_trail, response>>

\* Back in query_nameserver_cname or query_nameserver_dname
ReturnToAlias(s, result) ==
  LET call == Caller(s)
  IN  /\ call.at = "alias"
      /\ AddAnswer(call.question, result)
      /\ SetStack(s, Append(Front(Front(stack[s])),
                       [call EXCEPT !.at = "done", !.result = result,
                                    !.try = FALSE]))
      /\ UNCHANGED <<m_referrals, m_query_trail, response>>

\* Back in process
ReturnToProcess(s, result) ==
  /\ SetStack(s, <<>>)
  /\ Respond(s, stack[s][1].question, result)
  /\ UNCHANGED <<cache, m_query_trail>>

Return(s) ==
  /\ IsAt(s, "done")
  /\ LET result == Last(stack[s]).result
     IN  IF Len(stack[s]) = 1
         THEN ReturnToProcess(s, result)
         ELSE ReturnToServer(s, result) \/ ReturnToAlias(s, result)
  /\ UNCHANGED <<sent, late>>

-----------------------------------------------------------------------------
(* Time, and the cache's own doings *)

Late(s) ==
  /\ "late" \in Faults
  /\ stack[s] # <<>> /\ ~late[s]
  /\ late' = [late EXCEPT ![s] = TRUE]
  /\ UNCHANGED <<cache, stack, m_query_trail, sent, response>>

ForgetAnswer(n) ==
  /\ "forgotten" \in Faults
  /\ m_answers[n] # None
  /\ m_answers' = [m_answers EXCEPT ![n] = None]
  /\ UNCHANGED <<m_referrals, stack, m_query_trail, sent, late, response>>

ForgetReferral(n) ==
  /\ "forgotten" \in Faults
  /\ n # Root /\ m_referrals[n] # None
  /\ m_referrals' = [m_referrals EXCEPT ![n] = None]
  /\ UNCHANGED <<m_answers, stack, m_query_trail, sent, late, response>>

Step(s) ==
  \/ Look(s) \/ Refer(s)
  \/ Send(s) \/ Receive(s) \/ NoReply(s) \/ Error(s)
  \/ NextNameserver(s) \/ Return(s)

Next ==
  \/ \E s \in Slots, q \in Asked : Process(s, q)
  \/ \E s \in Slots : ResetFails(s) \/ Step(s) \/ Late(s)
  \/ \E n \in Names : ForgetAnswer(n) \/ ForgetReferral(n)

\* A slot is a thread of its own, and a query ends by its timeouts.
Fairness == \A s \in Slots : WF_vars(Step(s))

Spec == Init /\ [][Next]_vars

FairSpec == Spec /\ Fairness
-----------------------------------------------------------------------------
(* Properties *)

\* No server is asked one question twice while a query is resolved, however
\* often the question comes up on the way: what is about to be sent was not
\* sent before.
AskedOnce == \A s \in Slots : IsAt(s, "ask") =>
  {Last(stack[s]).question} \X Last(stack[s]).addresses \intersect sent[s] = {}

\* What the cache knows of a zone is replaced only on the word of a server that
\* was asked as one for a zone above it.
ReferralsFromAbove == [][\A n \in Names :
  m_referrals'[n] \notin {m_referrals[n], None} =>
    \E s \in Slots : IsAt(s, "wait") /\ IsSubdomainOf(n, Last(stack[s]).zone)]_vars

\* Every query that a slot begins to resolve is responded to, whatever servers answer:
\* referrals that lead nowhere, aliases in a circle, name servers that need
\* each other to be found.
EveryQueryResponded == \A s \in Slots :
  stack[s] # <<>> ~> response[s] # None
=============================================================================
