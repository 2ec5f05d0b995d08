---------------------------- MODULE MCAuthority ----------------------------
(***************************************************************************)
(* Two zones, one below the other, which one of the databases forwards:    *)
(* exact and wildcard aliases and addresses, a DNAME, a loop of aliases, a *)
(* cut with glue, names in two cases and a zone without SOA.               *)
(***************************************************************************)
EXTENDS AuthorityCache

CONSTANTS h1, z1, z2

R(t, n, to) == [type |-> t, name |-> n, to |-> to]
Ex == <<"ex">>
At(l) == <<l, "ex">>
Sub == <<"s", "ex">>

Base == {R("SOA", Ex, <<>>), R("NS", Ex, At("a")), R("A", At("a"), <<>>)}
Cut == {R("NS", At("c"), <<"a", "c", "ex">>), R("A", <<"a", "c", "ex">>, <<>>)}
Aliases == {R("CNAME", At("*"), At("a")), R("CNAME", At("b"), <<"b", "s", "ex">>)}
Below == {R("SOA", Sub, <<>>), R("NS", Sub, At("a")), R("CNAME", <<"b", "s", "ex">>, At("b"))}
Renaming == {R("DNAME", At("d"), Sub), R("A", <<"a", "s", "ex">>, <<>>)}
Wild == {R("A", <<"*", "s", "ex">>, <<>>)}
NoSoa == {R("NS", Sub, At("a"))} \cup Wild

MCRecords == Base \cup Cut \cup Aliases \cup Below \cup Renaming \cup NoSoa
MCPayloads == {{}, Base \cup Cut}
MCApexes == {Ex, Sub}
MCWanted == {{"SOA"}, {"NS"}, {"DNAME"}, Types}

Zones(forwarded) ==
    [id \in ZoneIds |->
        IF id = z1 THEN [name |-> Ex, horizon |-> h1, forwarded |-> FALSE]
                   ELSE [name |-> Sub, horizon |-> h1, forwarded |-> forwarded]]
DB(forwarded, top, below) ==
    [zones |-> Zones(forwarded), records |-> [id \in ZoneIds |-> IF id = z1 THEN top ELSE below]]
MCDatabases == {DB(FALSE, Base \cup Cut \cup Aliases, Below \cup Wild),
                DB(FALSE, Base \cup {R("DNAME", At("d"), Sub)}, Below \cup {R("A", <<"a", "s", "ex">>, <<>>)}),
                DB(TRUE, Base \cup Aliases, {}),
                DB(FALSE, Base \cup Aliases, NoSoa)}

MCQuestions ==
    [name : {Ex, Sub, At("a"), At("b"), At("A"), <<"a", "c", "ex">>, <<"b", "d", "ex">>, <<"a", "d", "ex">>,
             <<"b", "s", "ex">>, <<"a", "s", "ex">>, At("B"), <<"a">>},
     type : {"A", "SOA", "NS", "ALL", "DNAME"}]
MCLabels == {"ex", "a", "b", "c", "d", "s", "*", "A", "B"}
MCFolded == [l \in MCLabels |-> CASE l = "A" -> "a" [] l = "B" -> "b" [] OTHER -> l]

\* Lookups, requests that replace the records of a zone, and starts.
MCNext ==
    \/ \E id \in ZoneIds, ts \in Wanted, fails \in Failures : Lookup(h1, id, ts, fails)
    \/ Restart
    \/ \E rs \in Payloads : UpdateZone(z1, [name |-> Ex, horizon |-> h1, forwarded |-> FALSE], rs, {})
    \/ DeleteZone(h1, z2)
MCSpec == AuthorityInit /\ [][MCNext]_vars
============================================================================
