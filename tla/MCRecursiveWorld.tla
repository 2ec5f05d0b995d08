-------------------------- MODULE MCRecursiveWorld --------------------------
(***************************************************************************)
(* RecursiveSlot among servers that tell the truth.  Both the zones x and  *)
(* y are served by n.z, whose address the root's server knows and sends as *)
(* the answer to a query for it, or with its referral to z.  In x, w.x is  *)
(* an alias of w.y, and n.x, which is given as a name server of y as well,  *)
(* one of n.z; there is no v.x.                                            *)
(***************************************************************************)
EXTENDS RecursiveSlot

x == <<"x">>
y == <<"y">>
z == <<"z">>
n_x == <<"n", "x">>
v_x == <<"v", "x">>
w_x == <<"w", "x">>
w_y == <<"w", "y">>
n_z == <<"n", "z">>

MCNames == {<<>>, x, y, z, n_x, v_x, w_x, w_y, n_z}

MCAsked == {v_x, w_x, w_y}

Referral(zone, glue, ns) ==
  [type |-> "referral", zone |-> zone, glue |-> glue, ns |-> ns]
Answer(type, q, addresses) ==
  [type |-> type, owner |-> q, addresses |-> addresses]
Alias(target) == [type |-> "alias", target |-> target]

MCRootReferral == Referral(<<>>, {"root"}, <<>>)

RootReplies(q) ==
  CASE IsSuffix(x, q) -> {Referral(x, {}, <<n_z>>)}
    [] IsSuffix(y, q) -> {Referral(y, {}, <<n_x, n_z>>)}
    [] q = n_z        -> {Answer("additional", n_z, {"nz"}),
                          Referral(z, {"nz"}, <<>>)}
    [] OTHER          -> {}

NzReplies(q) ==
  CASE q = w_x -> {Alias(w_y)}
    [] q = n_x -> {Alias(n_z)}
    [] q = v_x -> {Answer("nxdomain", v_x, {})}
    [] q = w_y -> {Answer("data", w_y, {"host"})}
    [] q = n_z -> {Answer("data", n_z, {"nz"})}
    [] OTHER   -> {}

MCReplies(q, ip) ==
  CASE ip = "root" -> RootReplies(q)
    [] ip = "nz"   -> NzReplies(q)
    [] OTHER       -> {}

Truth(q) ==
  CASE q \in {w_x, w_y} -> Answer("data", w_y, {"host"})
    [] q \in {n_x, n_z} -> Answer("data", n_z, {"nz"})
    [] OTHER            -> Answer("nxdomain", q, {})

-----------------------------------------------------------------------------
(* Properties *)

\* Where servers tell the truth, the cache holds and clients are told nothing
\* but the truth or that it could not be found, whichever calls of resolve, for
\* whichever question of whichever slot, the cache's answers come from.
NeverWrong ==
  /\ \A n \in MCNames : \/ m_answers[n].type \in {"none", "fail"}
                          \/ m_answers[n] = Truth(n)
  /\ \A s \in Slots : response[s] # None =>
       \/ response[s].answer.type = "fail"
       \/ response[s].answer = Truth(response[s].question)
=============================================================================
