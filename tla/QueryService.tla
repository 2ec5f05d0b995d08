---------------------------- MODULE QueryService ----------------------------
(***************************************************************************)
(* What a resolver promises dns_handler: a query it is given is answered   *)
(* once, under the query's own id and about the query's own question, or   *)
(* it is dropped, and after either it is left alone.  Resolver implements  *)
(* this module.                                                            *)
(***************************************************************************)
CONSTANTS Envelopes, Questions, QuestionOf, NoResponse

VARIABLES status,  \* what became of each query
          reply    \* the response to each answered query

vars == <<status, reply>>

Init ==
  /\ status = [e \in Envelopes |-> "new"]
  /\ reply = [e \in Envelopes |-> NoResponse]

Accept(e) ==
  /\ status[e] = "new"
  /\ status' = [status EXCEPT ![e] = "pending"]
  /\ UNCHANGED reply

Answer(e) ==
  /\ status[e] = "pending"
  /\ status' = [status EXCEPT ![e] = "answered"]
  /\ reply' = [reply EXCEPT ![e] = [id |-> e, question |-> QuestionOf[e]]]

Drop(e) ==
  /\ status[e] = "pending"
  /\ status' = [status EXCEPT ![e] = "dropped"]
  /\ UNCHANGED reply

Next == \E e \in Envelopes : Accept(e) \/ Answer(e) \/ Drop(e)

Spec == Init /\ [][Next]_vars
=============================================================================
