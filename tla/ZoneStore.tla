----------------------------- MODULE ZoneStore -----------------------------
(***************************************************************************)
(* Zones, their records and the horizons they are seen from: the database, *)
(* which the HTTP API writes (src/api/api_zone_v1.cpp,                     *)
(* api_resource_record_v1.cpp, api_horizon_v1.cpp), and the caches the     *)
(* name server answers from: dns_zone::o_zone_cache, one per horizon, and  *)
(* dns_rr_cache, which reads the records of a zone one type at a time, at  *)
(* the first lookup of that type (src/zone).                               *)
(*                                                                         *)
(* A request of the API holds the zone guard for writing, so that it is    *)
(* one step; a lookup holds it for reading and takes the mutex of the      *)
(* record cache for one call at a time, so that each call is a step of     *)
(* its own.  The database is the one of the repository's configuration,    *)
(* sqlite, which enforces no foreign key.                                  *)
(***************************************************************************)
EXTENDS DnsName, FiniteSets

CONSTANTS
    Horizons,           \* identifiers of horizons
    InitialHorizons,    \* those in the database at first
    ZoneIds,            \* identifiers of zones
    NilId,              \* the nil uuid
    Apexes,             \* names of zones, in lower case
    Records,            \* the resource records: [type, name, to]
    Payloads,           \* the sets of records a request brings
    Wanted,             \* the sets of types a lookup is for
    Fallible,           \* the types a read of which may fail
    NoZone,             \* no zone
    Unread              \* a list of records that is not in the cache

\* dns_rr_dal::rr_types, in its order; "A" stands for the types the caches
\* treat alike.
ReadOrder == [SOA |-> 1, A |-> 2, NS |-> 3, CNAME |-> 4, DNAME |-> 5]
Types == DOMAIN ReadOrder

Zone == [name : Apexes, horizon : Horizons, forwarded : BOOLEAN]

\* What the module takes for granted about its constants.
ASSUME StoreAssumption ==
    /\ NilId \notin ZoneIds
    /\ InitialHorizons \subseteq Horizons
    /\ Payloads \subseteq SUBSET Records
    /\ {} \in Payloads
    /\ Wanted \subseteq SUBSET Types /\ Fallible \subseteq Types
    /\ \A z \in Zone : z # NoZone
    /\ \A rs \in SUBSET Records : rs # Unread

VARIABLES
    horizonRows,        \* database: the horizons
    zoneRows,           \* database: the zones by identifier
    recordRows,         \* database: the records of every zone
    cachedHorizons,     \* the horizons o_zone_cache has an entry for
    byId,               \* m_zones_by_id of every horizon
    byName,             \* m_zones_by_name of every horizon
    rrCache,            \* m_cache: the lists of every zone, by type
    rrLocked,           \* some thread waits for m_lock, which it holds itself
    astray              \* history: the zones a failed read, a move or a
                        \* namesake has touched since the last start

database == <<horizonRows, zoneRows, recordRows>>
zoneCache == <<cachedHorizons, byId, byName>>
vars == <<database, zoneCache, rrCache, rrLocked, astray>>

OfType(rs, t) == {r \in rs : r.type = t}
Cold == [t \in Types |-> Unread]

\* dns_zone::find(id): the horizons whose cache holds the zone.
Holders(id) == {h \in cachedHorizons : id \in ZoneIds /\ byId[h][id] # NoZone}

\* dns_zone_cache(horizon): the zones the database has for a horizon.
RowsOf(rows, h) ==
    [id \in ZoneIds |->
        IF rows[id] # NoZone /\ rows[id].horizon = h THEN rows[id] ELSE NoZone]
Named(zs, n) == {id \in ZoneIds : zs[id] # NoZone /\ zs[id].name = n}
Namesakes(rows) ==
    {id \in ZoneIds :
        /\ rows[id] # NoZone
        /\ \E other \in ZoneIds \ {id} :
              /\ rows[other] # NoZone
              /\ rows[other].name = rows[id].name
              /\ rows[other].horizon = rows[id].horizon}
\* Of two zones with one name the map keeps the one inserted last.
Indexes(zs) ==
    {index \in [Apexes -> ZoneIds \cup {NilId}] :
        \A n \in Apexes :
            IF Named(zs, n) = {} THEN index[n] = NilId
                                 ELSE index[n] \in Named(zs, n)}

TypeOK ==
    /\ horizonRows \in SUBSET Horizons
    /\ zoneRows \in [ZoneIds -> Zone \cup {NoZone}]
    /\ recordRows \in [ZoneIds -> SUBSET Records]
    /\ cachedHorizons \in SUBSET Horizons
    /\ byId \in [Horizons -> [ZoneIds -> Zone \cup {NoZone}]]
    /\ byName \in [Horizons -> [Apexes -> ZoneIds \cup {NilId}]]
    /\ rrCache \in [ZoneIds -> [Types -> (SUBSET Records) \cup {Unread}]]
    /\ rrLocked \in BOOLEAN
    /\ astray \in SUBSET ZoneIds

NoZones == [id \in ZoneIds |-> NoZone]
NoNames == [n \in Apexes |-> NilId]

Init ==
    /\ horizonRows = InitialHorizons
    /\ zoneRows = NoZones
    /\ recordRows = [id \in ZoneIds |-> {}]
    /\ cachedHorizons = InitialHorizons
    /\ byId = [h \in Horizons |-> NoZones]
    /\ byName = [h \in Horizons |-> NoNames]
    /\ rrCache = [id \in ZoneIds |-> Cold]
    /\ rrLocked = FALSE
    /\ astray = {}

----------------------------------------------------------------------------
(* Reading records.                                                        *)

\* The types whose read ends in an exception: the database fails, or a zone
\* has no SOA or no NS.
ThrowsAt(lists, rows, z, fails) ==
    {t \in Types :
        /\ ~z.forwarded
        /\ lists[t] = Unread
        /\ t \in fails \/ (t \in {"SOA", "NS"} /\ OfType(rows, t) = {})}

\* dns_rr_cache::read_records for every type of ts, in the order of the
\* types: what throws leaves an empty list behind and ends it.  A forwarded
\* zone has no records, and the lookup itself makes an empty list.
ReadRecords(lists, rows, z, ts, fails) ==
    LET thrown == ThrowsAt(lists, rows, z, fails) \cap ts
        Reached(t) == \A u \in thrown : ReadOrder[t] =< ReadOrder[u]
    IN  [t \in Types |->
            IF t \notin ts \/ lists[t] # Unread \/ ~Reached(t) THEN lists[t]
            ELSE IF z.forwarded \/ t \in thrown THEN {}
            ELSE OfType(rows, t)]

\* At most one read of a request fails.
Failures == {{}} \cup {{t} : t \in Fallible}

Spoilt(id, fails) == IF fails = {} THEN {} ELSE {id}

\* dns_rr_cache::get_resource_records, get_NS, get_SOA, get_CNAME...: the
\* lookup of one type, or of all, in a zone that a horizon has.
Lookup(h, id, ts, fails) ==
    /\ ~rrLocked
    /\ h \in Holders(id)
    /\ fails \subseteq {t \in ts : rrCache[id][t] = Unread}
    /\ rrCache' = [rrCache EXCEPT ![id] =
                       ReadRecords(@, recordRows[id], byId[h][id], ts, fails)]
    /\ astray' = astray \cup Spoilt(id, fails)
    /\ UNCHANGED <<database, zoneCache, rrLocked>>

\* dns_rr_cache::get_resource_record, for a GET or a DELETE of one record:
\* it holds m_lock and calls get_resource_records, which takes it again.
GetResourceRecord(id) ==
    /\ ~rrLocked
    /\ Holders(id) # {}
    /\ rrLocked' = TRUE
    /\ UNCHANGED <<database, zoneCache, rrCache, astray>>

----------------------------------------------------------------------------
(* Start.                                                                  *)

\* dns_zone::init: the horizons whose zones cannot be read are left out.
Started(rows) ==
    /\ cachedHorizons' \in SUBSET horizonRows
    /\ byId' = [h \in Horizons |->
                   IF h \in cachedHorizons' THEN RowsOf(rows, h) ELSE NoZones]
    /\ byName' \in [Horizons -> [Apexes -> ZoneIds \cup {NilId}]]
    /\ \A h \in Horizons : byName'[h] \in Indexes(byId'[h])
    /\ rrCache' = [id \in ZoneIds |-> Cold]
    /\ rrLocked' = FALSE
    /\ astray' = Namesakes(rows)

\* The process ends, of itself or by a crash, and is started again.  A GET
\* of the records of a zone that does not exist is such a crash: the null
\* pointer is used (api_resource_record_v1.cpp:58).
Restart == Started(zoneRows) /\ UNCHANGED database

----------------------------------------------------------------------------
(* The API: zones.                                                         *)

\* dns_zone_validator::validate_insert
InZone(n, r) == Same(r.name, n) \/ IsSubdomainOf(r.name, n)
Valid(n, rs) ==
    /\ Len(n) >= 1
    /\ \A r \in rs : InZone(n, r)
    /\ \A r, s \in OfType(rs, "SOA") : r = s
    /\ \A r \in OfType(rs, "SOA") : Same(r.name, n)
    /\ \E r \in OfType(rs, "NS") : Same(r.name, n)
    /\ \A r, s \in OfType(rs, "CNAME") \cup OfType(rs, "DNAME") :
          r.name = s.name => r = s

\* dns_rr_cache::insert_record_cache for every record of the request: into
\* a list that was not read it goes all the same.
Inserted(lists, rs) ==
    [t \in Types |->
        IF OfType(rs, t) = {} THEN lists[t]
        ELSE (IF lists[t] = Unread THEN {} ELSE lists[t]) \cup OfType(rs, t)]

\* A new uuid: nothing bears it.
Fresh(id) ==
    /\ zoneRows[id] = NoZone /\ recordRows[id] = {}
    /\ Holders(id) = {}
    /\ rrCache[id] = Cold
    /\ id \notin astray

\* The zone enters the cache of its horizon, which is made from the database
\* when there is none; the reply lists all its records.
ZoneCached(id, z, rs, fails) ==
    LET h == z.horizon
        zs == IF h \in cachedHorizons THEN [byId[h] EXCEPT ![id] = z]
                                      ELSE RowsOf(zoneRows', h)
        others == IF h \in cachedHorizons THEN {} ELSE Namesakes(zoneRows')
    IN  /\ cachedHorizons' = cachedHorizons \cup {h}
        /\ byId' = [byId EXCEPT ![h] = zs]
        /\ \E index \in [Apexes -> ZoneIds \cup {NilId}] :
              /\ IF h \in cachedHorizons THEN index = [byName[h] EXCEPT ![z.name] = id]
                                         ELSE index \in Indexes(zs) /\ index[z.name] = id
              /\ byName' = [byName EXCEPT ![h] = index]
        /\ rrCache' = [rrCache EXCEPT ![id] =
                ReadRecords(Inserted(@, rs), recordRows'[id], z, Types, fails)]
        /\ astray' = astray \cup Spoilt(id, fails) \cup others

\* api_zone_v1::handle_insert_request: what fails before the commit leaves
\* nothing, a failure to read the zones of a new horizon comes after it.
InsertZone(id, z, rs, fails) ==
    /\ ~rrLocked
    /\ Fresh(id)
    /\ z.forwarded => rs = {}
    /\ ~z.forwarded => Valid(z.name, rs)
    /\ z.horizon \in cachedHorizons => byName[z.horizon][z.name] = NilId
    /\ zoneRows' = [zoneRows EXCEPT ![id] = z]
    /\ recordRows' = [recordRows EXCEPT ![id] = rs]
    /\ \/ ZoneCached(id, z, rs, fails)
       \/ /\ z.horizon \notin cachedHorizons
          /\ fails # {}
          /\ UNCHANGED <<zoneCache, rrCache, astray>>
    /\ UNCHANGED <<horizonRows, rrLocked>>

\* api_zone_v1::handle_update_request: the zone of the request replaces the
\* one in the cache; the row it updates has no zone_id, so that the zone's
\* row stays as it was; records are replaced when the request has some.  A
\* horizon without a cache is a null pointer, used after the commit.
UpdateZone(id, z, rs, fails) ==
    /\ ~rrLocked
    /\ \E h \in Holders(id) : byId[h][id].name = z.name
    /\ z.forwarded => rs = {}
    /\ rs # {} => Valid(z.name, rs)
    /\ recordRows' = IF rs = {} THEN recordRows ELSE [recordRows EXCEPT ![id] = rs]
    /\ UNCHANGED <<horizonRows, zoneRows>>
    /\ IF z.horizon \notin cachedHorizons THEN Started(zoneRows)
       ELSE LET h == z.horizon
                other == byName[h][z.name]
            IN  /\ byId' = [byId EXCEPT ![h][id] = z]
                /\ byName' = [byName EXCEPT ![h][z.name] = id]
                /\ rrCache' = [rrCache EXCEPT ![id] =
                        ReadRecords(Inserted(Cold, rs), recordRows'[id], z, Types, fails)]
                /\ astray' = astray \cup Spoilt(id, fails)
                               \cup (IF z = zoneRows[id] THEN {} ELSE {id})
                               \cup ({other} \ {id, NilId})
                /\ UNCHANGED <<cachedHorizons, rrLocked>>

ErasedFromNot(zs, id) == zs

\* dns_zone_cache::delete_zone, of a zone of horizon h
ErasedFrom(zs, id) == [zs EXCEPT ![id] = NoZone]

\* api_zone_v1::handle_delete_request
DeleteZone(h, id) ==
    /\ ~rrLocked
    /\ h \in Holders(id)
    /\ zoneRows[id] # NoZone
    /\ zoneRows' = [zoneRows EXCEPT ![id] = NoZone]
    /\ recordRows' = [recordRows EXCEPT ![id] = {}]
    /\ rrCache' = [rrCache EXCEPT ![id] = Cold]
    /\ byId' = [byId EXCEPT ![h] = ErasedFrom(@, id)]
    /\ byName' = [byName EXCEPT ![h][byId[h][id].name] = NilId]
    /\ astray' = IF Holders(id) = {h} /\ byName[h][byId[h][id].name] = id
                 THEN astray
                 ELSE astray \cup ({id, byName[h][byId[h][id].name]} \ {NilId})
    /\ UNCHANGED <<horizonRows, cachedHorizons, rrLocked>>

----------------------------------------------------------------------------
(* The API: single records and horizons.                                   *)

FromJsonKept(id, r) == [zone |-> id, rr |-> r]

\* dns_rr_parser::from_json: no record it makes has the zone's identifier.
FromJson(id, r) == [zone |-> NilId, rr |-> r]

\* api_resource_record_v1::handle_insert_request and, the checks of an
\* existing record aside, handle_update_request, whose row would have a new key
WriteRecord(id, r) ==
    LET made == FromJson(id, r)
    IN  /\ ~rrLocked
        /\ IF Holders(made.zone) = {} THEN UNCHANGED <<recordRows, rrCache>>
           ELSE /\ recordRows' = [recordRows EXCEPT ![made.zone] = @ \cup {r}]
                /\ rrCache' = [rrCache EXCEPT ![made.zone] = Inserted(@, {r})]
        /\ UNCHANGED <<horizonRows, zoneRows, zoneCache, rrLocked, astray>>

\* api_horizon_v1::handle_insert_request
InsertHorizon(h) ==
    /\ ~rrLocked
    /\ h \notin horizonRows \cup cachedHorizons
    /\ \A id \in ZoneIds : zoneRows[id] # NoZone => zoneRows[id].horizon # h
    /\ horizonRows' = horizonRows \cup {h}
    /\ UNCHANGED <<zoneRows, recordRows, zoneCache, rrCache, rrLocked, astray>>

\* api_horizon_v1::handle_delete_request: with the zones its cache has.
DeleteHorizon(h) ==
    LET gone == {id \in ZoneIds : h \in Holders(id)}
    IN  /\ ~rrLocked
        /\ h \in horizonRows
        /\ \A id \in gone : zoneRows[id] # NoZone
        /\ horizonRows' = horizonRows \ {h}
        /\ zoneRows' = [id \in ZoneIds |-> IF id \in gone THEN NoZone ELSE zoneRows[id]]
        /\ recordRows' = [id \in ZoneIds |-> IF id \in gone THEN {} ELSE recordRows[id]]
        /\ rrCache' = [id \in ZoneIds |-> IF id \in gone THEN Cold ELSE rrCache[id]]
        /\ byId' = [byId EXCEPT ![h] = NoZones]
        /\ byName' = [byName EXCEPT ![h] = NoNames]
        /\ astray' = astray \cup {id \in gone : Holders(id) # {h}}
        /\ UNCHANGED <<cachedHorizons, rrLocked>>

Next ==
    \/ \E h \in Horizons, id \in ZoneIds, ts \in Wanted, fails \in Failures :
          Lookup(h, id, ts, fails)
    \/ \E id \in ZoneIds : GetResourceRecord(id)
    \/ Restart
    \/ \E id \in ZoneIds, z \in Zone, rs \in Payloads, fails \in Failures :
          InsertZone(id, z, rs, fails) \/ UpdateZone(id, z, rs, fails)
    \/ \E h \in Horizons, id \in ZoneIds : DeleteZone(h, id)
    \/ \E id \in ZoneIds, r \in Records : WriteRecord(id, r)
    \/ \E h \in Horizons : InsertHorizon(h) \/ DeleteHorizon(h)

Spec == Init /\ [][Next]_vars

----------------------------------------------------------------------------
(* Properties.  A zone is astray from the moment a database read of it     *)
(* fails, an update gives it another horizon or makes it forwarded or not, *)
(* or a zone of its name takes its place, until the next start.            *)

\* What the cache has of a zone that is not astray is what the database has:
\* a type that was read has all the records of the database and no other,
\* whatever inserts, updates, deletions and restarts came in between
\* (dns_rr_cache.cpp:471 adds records to lists that were never read).
Coherent ==
    \A id \in ZoneIds \ astray : \A h \in Holders(id), t \in Types :
        rrCache[id][t] \in
            {Unread, IF byId[h][id].forwarded THEN {} ELSE OfType(recordRows[id], t)}

\* dns_rr_cache.hpp of get_resource_record: "get a specific records from a
\* zone, return null if the rr doesn't exist".  No thread waits for a mutex it
\* holds itself.
RecordLookupsReturn == ~rrLocked

\* The caches of the horizons have the zones of the database, no others, and
\* find them by name, although every change of api_zone_v1.cpp is made to
\* the database first, committed, and then to the two maps.
ZonesAgree ==
    \A h \in cachedHorizons, id \in ZoneIds \ astray :
        /\ byId[h][id] = RowsOf(zoneRows, h)[id]
        /\ byId[h][id] # NoZone => byName[h][byId[h][id].name] = id
============================================================================
