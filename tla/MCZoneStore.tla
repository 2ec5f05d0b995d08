---------------------------- MODULE MCZoneStore ----------------------------
(***************************************************************************)
(* Two horizons, two zones of one name: enough for a zone to be moved, for *)
(* two to come by one name and for lists that are read, unread and partly  *)
(* read.  The records lack an SOA, so that to_json throws as well.         *)
(***************************************************************************)
EXTENDS ZoneStore, TLC

CONSTANTS h1, h2, z1, z2

MCFolded == [l \in {"ex", "a"} |-> l]
MCApexes == {<<"ex">>}
Ns == [type |-> "NS", name |-> <<"ex">>, to |-> <<"a", "ex">>]
Cut == [type |-> "NS", name |-> <<"a", "ex">>, to |-> <<"a", "ex">>]
MCRecords == {Ns, Cut}
MCPayloads == {{}, {Ns, Cut}}
MCWanted == {{"NS"}, Types}
Symmetry == Permutations({z1, z2}) \cup Permutations({h1, h2})
============================================================================
