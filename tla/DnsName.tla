------------------------------ MODULE DnsName ------------------------------
(***************************************************************************)
(* Domain names (src/message/dns_name.cpp): a name is the sequence of its  *)
(* labels, the most specific first, and the root is the empty sequence.    *)
(* Labels are compared without regard to case (dns_label.cpp) except by    *)
(* operator<, which orders the text of the names: what is kept in a        *)
(* std::map is found in the case it was stored in only.  A label is a      *)
(* string and Folded gives the one it is compared as.                      *)
(***************************************************************************)
EXTENDS Naturals, Sequences

CONSTANT Folded     \* the label in lower case, a function on the labels

Wildcard == "*"

\* The last k labels of a name.
Suffix(n, k) == SubSeq(n, Len(n) - k + 1, Len(n))

\* dns_name::operator==, which the unordered maps use too.
Same(n, m) == /\ Len(n) = Len(m)
              /\ \A i \in DOMAIN n : Folded[n[i]] = Folded[m[i]]

\* The name itself and what remove_first makes of it, step by step.
Ancestors(n) == {Suffix(n, k) : k \in 0..Len(n)}

IsSubdomainOf(n, m) ==
    /\ Len(m) < Len(n)
    /\ Same(Suffix(n, Len(m)), m)

\* this->wildcard_equals(n): a leading * stands for one label or more.
WildcardEquals(this, n) ==
    \/ Same(this, n)
    \/ /\ this # <<>>
       /\ Head(this) = Wildcard
       /\ Len(n) >= Len(this)
       /\ Same(Suffix(n, Len(this) - 1), Tail(this))

\* dns_auth_resolver::apply_dname
ApplyDname(n, from, to) == SubSeq(n, 1, Len(n) - Len(from)) \o to
=============================================================================
