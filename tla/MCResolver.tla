----------------------------- MODULE MCResolver -----------------------------
(* Three queries about one question, so that one can be in flight, one wait  *)
(* for it and one come after the answer, and a fourth about another, to keep *)
(* a second slot and the queues busy.                                        *)
EXTENDS Resolver, TLC

CONSTANTS e1, e2, e3, e4, q1, q2

MCEnvelopes == {e1, e2, e3, e4}
MCQuestions == {q1, q2}
MCQuestionOf == [e \in MCEnvelopes |-> IF e = e4 THEN q2 ELSE q1]
=============================================================================
