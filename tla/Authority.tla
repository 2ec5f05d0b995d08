----------------------------- MODULE Authority -----------------------------
(***************************************************************************)
(* What the name server answers from its zones: dns_handler::handle_request*)
(* (src/server/dns_handler.cpp), which chooses between the zones, the      *)
(* forwarder and the recursive resolver, and dns_auth_resolver             *)
(* (src/resolver/dns_auth_resolver.cpp).  An answer is a function of the   *)
(* question and of what the lookups find; the lookups and the changes of   *)
(* the zones are the steps of ZoneStore.                                   *)
(***************************************************************************)
EXTENDS ZoneStore

CONSTANTS
    Databases,      \* the databases the server may start with: zones, records
    Questions,      \* [name, type]: a type of record, or "ALL" or "AXFR"
    Recursive       \* the horizons that allow recursion

Labels == DOMAIN Folded
Names == Seq(Labels)
ResourceRecord == [type : Types, name : Names, to : Names]

\* What the module takes for granted: an asterisk has no case, and the zones of
\* a database were valid when requests brought them.
ASSUME AuthorityAssumption ==
    /\ \A l \in Labels : Folded[l] = Wildcard <=> l = Wildcard
    /\ Apexes \subseteq Names
    /\ IsFiniteSet(Records) /\ Records \subseteq ResourceRecord
    /\ \A q \in Questions : q.name \in Names /\ q.type \in Types \cup {"ALL", "AXFR"}
    /\ \A db \in Databases :
          /\ db.zones \in [ZoneIds -> Zone \cup {NoZone}]
          /\ db.records \in [ZoneIds -> SUBSET Records]
          /\ \A id \in ZoneIds :
                \/ db.records[id] = {}
                \/ db.zones[id] # NoZone /\ Valid(db.zones[id].name, db.records[id])

\* The server starts with a database that requests of the API have made.
AuthorityInit ==
    /\ horizonRows = InitialHorizons
    /\ \E db \in Databases : zoneRows = db.zones /\ recordRows = db.records
    /\ cachedHorizons = horizonRows
    /\ byId = [h \in Horizons |-> RowsOf(zoneRows, h)]
    /\ byName \in [Horizons -> [Apexes -> ZoneIds \cup {NilId}]]
    /\ \A h \in Horizons : byName[h] \in Indexes(byId[h])
    /\ rrCache = [id \in ZoneIds |-> Cold]
    /\ rrLocked = FALSE
    /\ astray = Namesakes(zoneRows)

AuthoritySpec == AuthorityInit /\ [][Next]_vars

----------------------------------------------------------------------------
(* Lookups.  Throws stands for an exception and NoRecord for a null        *)
(* pointer.                                                                *)

Throws == [type |-> "exception", name |-> <<>>, to |-> <<>>]
NoRecord == [type |-> "null", name |-> <<>>, to |-> <<>>]

InCase(n) == [i \in DOMAIN n |-> Folded[n[i]]]
Longest(ns) == CHOOSE n \in ns : \A m \in ns : Len(m) =< Len(n)
\* dns_zone::find(horizon, name): the closest zone at or above a name.
ZoneOf(h, n) ==
    LET above == {m \in Ancestors(InCase(n)) \cap Apexes : byName[h][m] # NilId}
    IN  IF above = {} THEN NilId ELSE byName[h][Longest(above)]

\* The list of a type once read_records has been called for it.
Listed(h, id, t) ==
    IF rrCache[id][t] # Unread THEN rrCache[id][t]
    ELSE IF byId[h][id].forwarded THEN {} ELSE OfType(recordRows[id], t)

Forwarded(h, id) == byId[h][id].forwarded
Apex(h, id) == byId[h][id].name

\* The first read of a type that a zone must have some of ends in an
\* exception when it has none.
Unreadable(h, id, t) ==
    ~Forwarded(h, id) /\ rrCache[id][t] = Unread /\ Listed(h, id, t) = {}

\* dns_zone::get_resource_records(name, type): copies that bear the name
\* asked for.
Renamed(rs, n) == {[r EXCEPT !.name = n] : r \in {s \in rs : WildcardEquals(s.name, n)}}
RecordsForExact(h, id, n, t) ==
    IF t # "ALL" THEN {r \in Listed(h, id, t) : Same(r.name, n)}
    ELSE {r \in UNION {Listed(h, id, u) : u \in Types} : Same(r.name, n)}

RecordsFor(h, id, n, t) ==
    IF t # "ALL" THEN Renamed(Listed(h, id, t), n)
    ELSE IF Unreadable(h, id, "SOA") \/ Unreadable(h, id, "NS") THEN {Throws}
    ELSE UNION {Renamed(Listed(h, id, u), n) : u \in Types}

\* dns_rr_cache::get_SOA and get_NS; the latter fails for ever in a zone
\* that has none at its apex.
GetSOA(h, id) ==
    IF Unreadable(h, id, "SOA") THEN Throws
    ELSE IF Listed(h, id, "SOA") = {} THEN NoRecord
    ELSE CHOOSE r \in Listed(h, id, "SOA") : TRUE
GetNS(h, id) ==
    LET ns == {r \in Listed(h, id, "NS") : Same(r.name, Apex(h, id))}
    IN  IF ns = {} THEN {Throws} ELSE ns

DelegatedNSAtApex(h, id, n) ==
    {r \in Listed(h, id, "NS") : IsSubdomainOf(n, r.name)}
DelegatedNSUnread(h, id, n) ==
    LET list == IF rrCache[id]["NS"] = Unread THEN {} ELSE rrCache[id]["NS"]
    IN  {r \in list : r.name \in Ancestors(n) /\ ~Same(r.name, Apex(h, id))}

\* dns_rr_cache::get_delegated_NS: the lowest cut at or above the name, found
\* in the case it was stored in; at the apex it reads nothing.
DelegatedNS(h, id, n) ==
    LET Cut(m) == {r \in Listed(h, id, "NS") :
                      r.name = m /\ ~Same(m, Apex(h, id))}
        cuts == {m \in Ancestors(n) \ {<<>>} : Cut(m) # {}}
    IN  IF Same(Apex(h, id), n) THEN {}
        ELSE IF Unreadable(h, id, "NS") THEN {Throws}
        ELSE IF cuts = {} THEN {}
        ELSE Cut(Longest(cuts))

GetCNAMEAsStored(h, id, n) ==
    LET wild == {r \in Listed(h, id, "CNAME") : WildcardEquals(r.name, n)}
    IN  IF wild = {} THEN NoRecord ELSE CHOOSE r \in wild : TRUE

\* dns_rr_cache::get_CNAME
GetCNAME(h, id, n) ==
    LET cnames == Listed(h, id, "CNAME")
        exact == {r \in cnames : r.name = n}
        wild == {r \in cnames : WildcardEquals(r.name, n)}
    IN  IF exact # {} THEN CHOOSE r \in exact : TRUE
        ELSE IF wild # {} THEN [(CHOOSE r \in wild : TRUE) EXCEPT !.name = n]
        ELSE NoRecord

\* dns_rr_cache::get_DNAME: it reads the SOA, so that DNAME records are found
\* only when something else has read them; in the zones of whole, the request
\* itself has.
GetDNAME(h, id, n, whole) ==
    LET dnames == IF rrCache[id]["DNAME"] = Unread /\ id \notin whole THEN {}
                  ELSE Listed(h, id, "DNAME")
        above == {m \in Ancestors(n) \ {<<>>, n} : \E r \in dnames : r.name = m}
    IN  IF Unreadable(h, id, "SOA") THEN Throws
        ELSE IF above = {} THEN NoRecord
        ELSE CHOOSE r \in dnames : r.name = Longest(above)

----------------------------------------------------------------------------
(* The chain of CNAME and DNAME records.                                   *)

\* What is found at a name: a CNAME, if there is none a DNAME.
Pointer(h, n, whole) ==
    LET id == ZoneOf(h, n)
        cname == GetCNAME(h, id, n)
    IN  IF id = NilId THEN NoRecord
        ELSE IF cname # NoRecord THEN cname
        ELSE GetDNAME(h, id, n, whole)

\* An end so far has the name reached, the records applied (found again, one
\* is taken for a loop), the records to answer with, and whether to go on.
Alias(end, cname) ==
    [end EXCEPT !.name = cname.to, !.applied = @ \cup {cname}, !.chain = Append(@, cname)]
\* A DNAME is answered with the CNAME made from it.
Made(end, dname, made) ==
    [end EXCEPT !.name = made.to, !.applied = @ \cup {dname}, !.chain = @ \o <<dname, made>>]
Rename(end, dname) ==
    Made(end, dname, [type |-> "CNAME", name |-> end.name,
                      to |-> ApplyDname(end.name, dname.name, dname.to)])
Apply(end, pointer) ==
    CASE pointer = NoRecord     -> [end EXCEPT !.state = "found"]
      [] pointer = Throws       -> [end EXCEPT !.state = "fails"]
      [] pointer \in end.applied -> [end EXCEPT !.state = "loop"]
      [] pointer.type = "CNAME" /\ pointer \notin end.applied -> Alias(end, pointer)
      [] pointer.type = "DNAME" /\ pointer \notin end.applied -> Rename(end, pointer)

Hop(h, whole, end) ==
    IF end.state = "on" THEN Apply(end, Pointer(h, end.name, whole)) ELSE end

\* dns_auth_resolver::traverse_pointer_chain.  Every round but the last applies
\* a pointer at a name it did not have before: the one asked for, one a CNAME
\* leads to or one a DNAME, which is applied once, makes.
Rounds == Cardinality(Records) + 2
PointerChain(h, n, whole) ==
    LET start == [name |-> n, applied |-> {}, chain |-> <<>>, state |-> "on"]
        walk[k \in 0..Rounds] ==
            IF k = 0 THEN start ELSE Hop(h, whole, walk[k - 1])
    IN  walk[Rounds]

----------------------------------------------------------------------------
(* Responses.  A response whose records include Throws is the exception,   *)
(* which handle_request answers with server_failure.                       *)

\* dns_auth_resolver::create_response
Created == [code |-> "no_error", authoritative |-> TRUE, chain |-> <<>>,
            answers |-> {}, nameservers |-> {}, additional |-> {}]
Failed == [Created EXCEPT !.nameservers = {Throws}]

\* dns_auth_resolver::get_glue, for name servers
Glue(h, ns) ==
    UNION {LET id == ZoneOf(h, r.to)
           IN  IF id = NilId THEN {} ELSE RecordsFor(h, id, r.to, "A") : r \in ns}

Referral(h, response, ns) ==
    [response EXCEPT !.authoritative = FALSE, !.nameservers = ns, !.additional = Glue(h, ns)]

\* The answers with the zone's name servers; filter_records leaves out what
\* the answers have already.
Positive(h, id, response, answers) ==
    [response EXCEPT !.answers = answers,
                     !.nameservers = GetNS(h, id) \ answers,
                     !.additional = Glue(h, GetNS(h, id)) \ answers]

\* dns_auth_resolver::resolve for the types that have no function of theirs,
\* resolve_soa and resolve_ns, for a chain with an end in a zone.
ResolveType(h, q, end, id) ==
    LET response == [Created EXCEPT !.chain = end.chain]
        answers == RecordsFor(h, id, end.name, q.type)
        ns == DelegatedNS(h, id, end.name)
    IN  IF id = NilId THEN response
        ELSE IF answers # {} THEN Positive(h, id, response, answers)
        ELSE IF ns # {} THEN Referral(h, response, ns)
        ELSE IF end.state = "loop" THEN response
        ELSE [response EXCEPT !.nameservers = {GetSOA(h, id)}]

\* A zone that has no SOA gives a null one, and the reply does not get as far as
\* the name servers.
ResolveSOA(h, end, id) ==
    LET response == [Created EXCEPT !.chain = end.chain]
        ns == DelegatedNS(h, id, end.name)
        soa == GetSOA(h, id)
        found == RecordsFor(h, id, end.name, "ALL")
    IN  IF end.state = "loop" \/ id = NilId THEN response
        ELSE IF Same(end.name, Apex(h, id))
        THEN [response EXCEPT !.answers = {soa},
                              !.nameservers = IF soa = NoRecord THEN {} ELSE GetNS(h, id),
                              !.additional = Glue(h, GetNS(h, id))]
        ELSE IF found = {Throws} THEN Failed
        ELSE IF ns # {} THEN Referral(h, response, ns)
        ELSE [response EXCEPT !.nameservers = {soa},
                              !.code = IF found = {} THEN "name_error" ELSE @]

ResolveNS(h, end, id) ==
    LET response == [Created EXCEPT !.chain = end.chain]
        ns == DelegatedNS(h, id, end.name)
    IN  IF end.state = "loop" \/ id = NilId THEN response
        ELSE IF Same(end.name, Apex(h, id))
        THEN [response EXCEPT !.answers = GetNS(h, id), !.additional = Glue(h, GetNS(h, id))]
        ELSE IF ns # {} THEN Referral(h, response, ns)
        ELSE [response EXCEPT !.nameservers = {GetSOA(h, id)}, !.code = "name_error"]

ResolveEnd(h, q, end, id) ==
    IF end.state = "fails" THEN Failed
    ELSE CASE q.type = "SOA"             -> ResolveSOA(h, end, id)
           [] q.type = "NS"              -> ResolveNS(h, end, id)
           [] q.type \notin {"SOA", "NS"} -> ResolveType(h, q, end, id)
ResolveChain(h, q, end) == ResolveEnd(h, q, end, ZoneOf(h, end.name))

\* dns_auth_resolver::resolve_all: what the name has itself, and if there is
\* nothing, what the end of its chain has.
ResolveAllAtEnd(h, q, id, end, last) ==
    LET response == [Created EXCEPT !.chain = end.chain]
        there == RecordsFor(h, last, end.name, "ALL")
        denied == [response EXCEPT !.code = "name_error",
                       !.nameservers = IF end.state = "loop" THEN {} ELSE {GetSOA(h, id)}]
    IN  IF end.state = "fails" THEN Failed
        ELSE IF Same(end.name, q.name) THEN denied
        ELSE IF last = NilId THEN response
        ELSE IF there = {} THEN denied
        ELSE Positive(h, id, response, there)
ResolveAllChain(h, q, id, end) == ResolveAllAtEnd(h, q, id, end, ZoneOf(h, end.name))
ResolveAll(h, q, id) ==
    LET ns == DelegatedNS(h, id, q.name)
        own == RecordsFor(h, id, q.name, "ALL")
    IN  IF ns # {} THEN Referral(h, Created, ns)
        ELSE IF own # {} THEN Positive(h, id, Created, own)
        ELSE ResolveAllChain(h, q, id, PointerChain(h, q.name, {id}))

\* dns_auth_resolver::resolve
Resolve(h, q) ==
    IF q.type = "ALL" THEN ResolveAll(h, q, ZoneOf(h, q.name))
    ELSE ResolveChain(h, q, PointerChain(h, q.name, {}))

\* The codes that need no records, and a request that goes elsewhere.
Code(c) == [Created EXCEPT !.code = c, !.authoritative = FALSE]

\* dns_handler::handle_request and its catch clauses, for a question of a
\* client in horizon h that desires recursion or not.  A null pointer is used when
\* it is added to the answers or the name servers (dns_message::update_min_ttl).
Finished(response) ==
    IF Throws \in response.answers \cup response.nameservers \cup response.additional
    THEN Code("server_failure")
    ELSE IF NoRecord \in response.answers \cup response.nameservers THEN Code("crash")
    ELSE response
HandleIn(h, q, desired, id) ==
    IF id = NilId /\ ~(desired /\ h \in Recursive) THEN Code("refused")
    ELSE IF q.type = "AXFR" THEN Code("refused")
    ELSE IF id = NilId THEN Code("to_resolver")
    ELSE IF Forwarded(h, id) THEN Code("to_forwarder")
    ELSE Finished(Resolve(h, q))
HandleRequest(h, q, desired) == HandleIn(h, q, desired, ZoneOf(h, q.name))

----------------------------------------------------------------------------
(* Properties, of every question a client of a horizon the caches have may *)
(* ask at any time, whatever has been read and changed before.             *)

Asked == cachedHorizons \X Questions
Reply(a) == HandleRequest(a[1], a[2], FALSE)

\* The records the database has for a name in the zone it belongs to.
StoredFor(h, n) ==
    LET id == ZoneOf(h, n)
    IN  IF id = NilId \/ Forwarded(h, id) THEN {}
        ELSE {r \in recordRows[id] : WildcardEquals(r.name, n)}

\* The name the first k records of a chain lead to, from the name asked for.
LedTo(n, chain, k) ==
    LET aliases == {i \in 1..k : chain[i].type = "CNAME"}
    IN  IF aliases = {} THEN n
        ELSE chain[CHOOSE i \in aliases : \A j \in aliases : j =< i].to
EndOf(n, reply) == LedTo(n, reply.chain, Len(reply.chain))

\* A chain from a name: each record is of the name that those before it lead to.
ChainLeads(n, c) ==
    \A i \in DOMAIN c :
        IF c[i].type = "DNAME"
        THEN /\ IsSubdomainOf(LedTo(n, c, i - 1), c[i].name)
             /\ i < Len(c) /\ c[i + 1].type = "CNAME"
        ELSE Same(c[i].name, LedTo(n, c, i - 1))
ReplyLeads(n, reply) ==
    /\ ChainLeads(n, reply.chain)
    /\ \A r \in reply.answers : Same(r.name, EndOf(n, reply))

\* A chain is one: every alias starts where the one before it has led, every
\* DNAME is of a name above that and followed by the alias made from it, and
\* the answers are of the name at its end
\* (dns_auth_resolver::traverse_pointer_chain and its four callers).
ChainsLeadToTheAnswers == \A a \in Asked : ReplyLeads(a[2].name, Reply(a))

\* A chain ends, whatever the zones hold, although nothing limits it: no pointer
\* is applied twice, and none at a name that was left by another
\* (dns_auth_resolver::traverse_pointer_chain, pointers_applied).
ChainsEnd ==
    \A a \in Asked, whole \in SUBSET ZoneIds : PointerChain(a[1], a[2].name, whole).state # "on"

\* A chain that comes back to a name, or to one below a DNAME it has.
Loops(chain, end) ==
    \E i \in DOMAIN chain :
        \/ chain[i].name = end
        \/ chain[i].type = "DNAME" /\ IsSubdomainOf(end, chain[i].name)

\* resolve_soa does not look for what it denies when the chain is a loop.
Denies(h, q, reply, end) ==
    /\ q.type # "NS"
    /\ q.type = "SOA" => ~Loops(reply.chain, end)
    /\ reply.code \in {"no_error", "name_error"}
    /\ reply.authoritative /\ reply.answers = {}
    /\ ZoneOf(h, end) \notin astray
TrueDenial(h, q, reply, end) ==
    Denies(h, q, reply, end) =>
        \A r \in StoredFor(h, end) :
            /\ reply.code = "no_error"
            /\ r.type = q.type => r.type = "SOA" /\ Head(r.name) = Wildcard
EndsTruly(h, q, reply) == TrueDenial(h, q, reply, EndOf(q.name, reply))

\* A name is denied, or said to have no record of a type, only when the
\* database has none, for every zone that is not astray.  Questions for NS
\* are another matter: resolve_ns answers name_error where there are records of
\* other types.  The SOA of a zone whose name begins with an asterisk is not
\* taken for that of the names below.
DenialsAreTrue == \A a \in Asked : EndsTruly(a[1], a[2], Reply(a))

ReferralToCut(h, reply, end, id) ==
    (reply.code = "no_error" /\ ~reply.authoritative) =>
        /\ reply.answers = {}
        /\ \E cut \in Ancestors(end) :
              /\ IsSubdomainOf(cut, Apex(h, id))
              /\ id \notin astray =>
                    reply.nameservers = {r \in OfType(recordRows[id], "NS") : r.name = cut}
RefersTo(h, reply, end) == ReferralToCut(h, reply, end, ZoneOf(h, end))
Refers(h, n, reply) == RefersTo(h, reply, EndOf(n, reply))

\* A reply without authority is a referral: to the name servers of one cut
\* below the apex and not below the name, with no answer beside it.
ReferralsAreToACut == \A a \in Asked : Refers(a[1], a[2].name, Reply(a))

=============================================================================
