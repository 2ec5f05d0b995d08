-------------------------- MODULE MCRecursiveLoops --------------------------
(***************************************************************************)
(* RecursiveSlot among servers that reply as it pleases them.  There are   *)
(* two zones, each with its name server's name in the other, two names to  *)
(* ask for, and two addresses: the root's server and one for the rest.     *)
(***************************************************************************)
EXTENDS RecursiveSlot

com == <<"com">>
net == <<"net">>
ns_com == <<"ns", "com">>
ns_net == <<"ns", "net">>
sub_com == <<"sub", "com">>

MCNames == {<<>>, com, net, ns_com, ns_net, sub_com}

MCAsked == {ns_com}

Referral(zone, glue, ns) ==
  [type |-> "referral", zone |-> zone, glue |-> glue, ns |-> ns]
Answer(type, q, addresses) ==
  [type |-> type, owner |-> q, addresses |-> addresses]
Alias(target) == [type |-> "alias", target |-> target]

MCRootReferral == Referral(<<>>, {"root"}, <<>>)

RootReplies(q) ==
  IF IsSuffix(com, q)
  THEN {Referral(com, {}, <<ns_net, ns_com>>), Referral(com, {"other"}, <<ns_net>>)}
  ELSE {Referral(net, {}, <<ns_com>>), Answer("additional", q, {"other"})}

OtherReplies(q) ==
  {Answer("data", q, {"other"}), Answer("nxdomain", q, {}),
   Referral(com, {"root"}, <<>>), Referral(sub_com, {"sub"}, <<ns_net>>),
   Alias(ns_com), Alias(ns_net)}

MCReplies(q, ip) == IF ip = "root" THEN RootReplies(q) ELSE OtherReplies(q)
=============================================================================
