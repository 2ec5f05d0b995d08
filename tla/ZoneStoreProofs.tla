-------------------------- MODULE ZoneStoreProofs --------------------------
(***************************************************************************)
(* The types of ZoneStore, that the caches of zones and of records agree   *)
(* with the database, and that what Authority answers from them is right,  *)
(* for every set of horizons, zones, names, records and requests.  None of *)
(* these holds by itself: that a list holds what the database has needs    *)
(* the zone to be in one cache only, so that all who read it take it for   *)
(* forwarded or not alike; that needs the caches of zones to agree with    *)
(* the database; and when a horizon's cache is made late, the zones it     *)
(* brings must not have lists yet.  An answer needs more, of the zones     *)
(* that do not agree as well: that every list has records of its type that *)
(* belong to the zone's name, and that what an index finds is there.  The  *)
(* last part compares the name server with one that has read everything.   *)
(***************************************************************************)
EXTENDS AuthorityCache, FiniteSetTheorems, SequenceTheorems, WellFoundedInduction, TLAPS

Lists == [Types -> (SUBSET Records) \cup {Unread}]

\* What a list holds when it agrees with the database.
Content(z, rows, t) == IF z.forwarded THEN {} ELSE OfType(rows, t)

\* One zone: its entries in the caches are the database's, what was read of
\* it is the database's, and nothing was read when no cache holds it.
AgreeingEntries(id) ==
    \A h \in cachedHorizons :
        /\ byId[h][id] = RowsOf(zoneRows, h)[id]
        /\ byId[h][id] # NoZone => byName[h][byId[h][id].name] = id
AgreeingLists(id) ==
    \A h \in Holders(id), t \in Types :
        rrCache[id][t] \in {Unread, Content(byId[h][id], recordRows[id], t)}
ColdUnlessHeld(id) == Holders(id) = {} => rrCache[id] = Cold
Agreeing(id) == AgreeingEntries(id) /\ AgreeingLists(id) /\ ColdUnlessHeld(id)

IInv == TypeOK /\ \A id \in ZoneIds \ astray : Agreeing(id)

\* read_records makes lists of records.
LEMMA ReadRecordsType ==
    ASSUME NEW lists \in Lists, NEW rows \in SUBSET Records, NEW z, NEW ts, NEW fails
    PROVE  ReadRecords(lists, rows, z, ts, fails) \in Lists
BY DEF ReadRecords, Lists, OfType

\* insert_record_cache makes lists of records.
LEMMA InsertedType ==
    ASSUME NEW lists \in Lists, NEW rs \in SUBSET Records
    PROVE  Inserted(lists, rs) \in Lists
<1>1. ASSUME NEW t \in Types
      PROVE  Inserted(lists, rs)[t] \in (SUBSET Records) \cup {Unread}
  <2>1. OfType(rs, t) \in SUBSET Records
    BY DEF OfType
  <2>2. lists[t] \in (SUBSET Records) \cup {Unread}
    BY DEF Lists
  <2>3. (IF lists[t] = Unread THEN {} ELSE lists[t]) \in SUBSET Records
    BY <2>2
  <2>4. Inserted(lists, rs)[t] = lists[t]
        \/ Inserted(lists, rs)[t] =
              (IF lists[t] = Unread THEN {} ELSE lists[t]) \cup OfType(rs, t)
    BY DEF Inserted
  <2> QED BY <2>1, <2>2, <2>3, <2>4
<1> QED BY <1>1 DEF Inserted, Lists

LEMMA ColdType == Cold \in Lists
BY DEF Cold, Lists

\* Reading keeps lists that agree with the database so, when no read fails.
LEMMA ReadRecordsAgrees ==
    ASSUME NEW lists \in Lists, NEW rows \in SUBSET Records, NEW z \in Zone, NEW ts,
           \A t \in Types : lists[t] \in {Unread, Content(z, rows, t)}
    PROVE  \A t \in Types :
              ReadRecords(lists, rows, z, ts, {})[t] \in {Unread, Content(z, rows, t)}
<1>1. ASSUME NEW t \in Types, t \in ThrowsAt(lists, rows, z, {})
      PROVE  Content(z, rows, t) = {}
  BY <1>1 DEF ThrowsAt, Content
<1>2. ASSUME NEW t \in Types
      PROVE  \/ ReadRecords(lists, rows, z, ts, {})[t] = lists[t]
             \/ /\ z.forwarded \/ t \in ThrowsAt(lists, rows, z, {})
                /\ ReadRecords(lists, rows, z, ts, {})[t] = {}
             \/ /\ ~z.forwarded
                /\ ReadRecords(lists, rows, z, ts, {})[t] = OfType(rows, t)
  BY DEF ReadRecords
<1>3. ASSUME NEW t \in Types
      PROVE  ReadRecords(lists, rows, z, ts, {})[t] \in {Unread, Content(z, rows, t)}
  BY <1>1, <1>2 DEF Content
<1> QED BY <1>3

\* In a zone without lists the records of a request agree with the database
\* that has just got them.
LEMMA InsertedAgrees ==
    ASSUME NEW rs \in SUBSET Records
    PROVE  \A t \in Types : Inserted(Cold, rs)[t] \in {Unread, OfType(rs, t)}
BY DEF Inserted, Cold

----------------------------------------------------------------------------
(* Types.                                                                  *)

\* RowsOf and Namesakes pick from the rows.
LEMMA RowsOfType ==
    ASSUME NEW rows \in [ZoneIds -> Zone \cup {NoZone}], NEW h
    PROVE  /\ RowsOf(rows, h) \in [ZoneIds -> Zone \cup {NoZone}]
           /\ Namesakes(rows) \in SUBSET ZoneIds
BY DEF RowsOf, Namesakes

LEMMA StartedType ==
    ASSUME TypeOK, NEW rows \in [ZoneIds -> Zone \cup {NoZone}], Started(rows)
    PROVE  /\ cachedHorizons' \in SUBSET Horizons
           /\ byId' \in [Horizons -> [ZoneIds -> Zone \cup {NoZone}]]
           /\ byName' \in [Horizons -> [Apexes -> ZoneIds \cup {NilId}]]
           /\ rrCache' \in [ZoneIds -> Lists]
           /\ rrLocked' \in BOOLEAN
           /\ astray' \in SUBSET ZoneIds
<1>1. NoZones \in [ZoneIds -> Zone \cup {NoZone}]
  BY DEF NoZones
<1>2. byId' \in [Horizons -> [ZoneIds -> Zone \cup {NoZone}]]
  BY <1>1, RowsOfType DEF Started
<1> QED BY <1>2, RowsOfType, ColdType DEF Started, TypeOK

LEMMA ZoneCachedType ==
    ASSUME TypeOK, zoneRows' \in [ZoneIds -> Zone \cup {NoZone}],
           recordRows' \in [ZoneIds -> SUBSET Records],
           NEW id \in ZoneIds, NEW z \in Zone, NEW rs \in SUBSET Records, NEW fails,
           ZoneCached(id, z, rs, fails)
    PROVE  /\ cachedHorizons' \in SUBSET Horizons
           /\ byId' \in [Horizons -> [ZoneIds -> Zone \cup {NoZone}]]
           /\ byName' \in [Horizons -> [Apexes -> ZoneIds \cup {NilId}]]
           /\ rrCache' \in [ZoneIds -> Lists]
           /\ astray' \in SUBSET ZoneIds
<1> DEFINE h == z.horizon
           zs == IF h \in cachedHorizons THEN [byId[h] EXCEPT ![id] = z]
                                         ELSE RowsOf(zoneRows', h)
           lists == ReadRecords(Inserted(rrCache[id], rs), recordRows'[id], z, Types, fails)
<1>1. h \in Horizons
  BY DEF Zone
<1>2. zs \in [ZoneIds -> Zone \cup {NoZone}]
  <2>1. CASE h \in cachedHorizons
    BY <2>1, <1>1 DEF TypeOK
  <2>2. CASE h \notin cachedHorizons
    BY <2>2, RowsOfType
  <2> QED BY <2>1, <2>2
<1>3. byId' = [byId EXCEPT ![h] = zs]
  BY DEF ZoneCached
<1>4. byId' \in [Horizons -> [ZoneIds -> Zone \cup {NoZone}]]
  <2> HIDE DEF zs, h
  <2> QED BY <1>1, <1>2, <1>3 DEF TypeOK
<1>5. PICK index \in [Apexes -> ZoneIds \cup {NilId}] : byName' = [byName EXCEPT ![h] = index]
  BY DEF ZoneCached
<1>6. byName' \in [Horizons -> [Apexes -> ZoneIds \cup {NilId}]]
  <2> HIDE DEF h
  <2> QED BY <1>1, <1>5 DEF TypeOK
<1>7. lists \in Lists
  <2>1. Inserted(rrCache[id], rs) \in Lists
    BY InsertedType DEF TypeOK, Lists
  <2> QED BY <2>1, ReadRecordsType
<1>8. rrCache' = [rrCache EXCEPT ![id] = lists]
  BY DEF ZoneCached
<1>9. rrCache' \in [ZoneIds -> Lists]
  <2> HIDE DEF lists
  <2> QED BY <1>7, <1>8 DEF TypeOK, Lists
<1>10. astray' \in SUBSET ZoneIds
  BY RowsOfType DEF ZoneCached, Spoilt, TypeOK
<1>11. cachedHorizons' \in SUBSET Horizons
  BY <1>1 DEF ZoneCached, TypeOK
<1> QED BY <1>4, <1>6, <1>9, <1>10, <1>11

LEMMA TypeInit == Init => TypeOK
<1> SUFFICES ASSUME Init PROVE TypeOK
  OBVIOUS
<1>1. horizonRows \in SUBSET Horizons /\ cachedHorizons \in SUBSET Horizons
  BY StoreAssumption DEF Init
<1>2. /\ zoneRows \in [ZoneIds -> Zone \cup {NoZone}]
      /\ byId \in [Horizons -> [ZoneIds -> Zone \cup {NoZone}]]
  BY DEF Init, NoZones
<1>3. byName \in [Horizons -> [Apexes -> ZoneIds \cup {NilId}]]
  BY DEF Init, NoNames
<1>4. recordRows \in [ZoneIds -> SUBSET Records]
  BY DEF Init
<1>5. rrCache \in [ZoneIds -> Lists]
  BY ColdType DEF Init
<1>6. rrLocked \in BOOLEAN /\ astray \in SUBSET ZoneIds
  BY DEF Init
<1> QED BY <1>1, <1>2, <1>3, <1>4, <1>5, <1>6 DEF TypeOK, Lists

LEMMA TypeStep == TypeOK /\ [Next]_vars => TypeOK'
<1> SUFFICES ASSUME TypeOK, [Next]_vars PROVE TypeOK'
  OBVIOUS
<1> USE DEF database, zoneCache
<1>1. ASSUME NEW h \in Horizons, NEW id \in ZoneIds, NEW ts \in Wanted,
             NEW fails \in Failures, Lookup(h, id, ts, fails)
      PROVE  TypeOK'
  <2> DEFINE lists == ReadRecords(rrCache[id], recordRows[id], byId[h][id], ts, fails)
  <2>1. lists \in Lists
    BY ReadRecordsType DEF TypeOK, Lists
  <2>2. rrCache' = [rrCache EXCEPT ![id] = lists]
    BY <1>1 DEF Lookup
  <2>3. rrCache' \in [ZoneIds -> Lists]
    <3> HIDE DEF lists
    <3> QED BY <2>1, <2>2 DEF TypeOK, Lists
  <2> QED BY <1>1, <2>3 DEF Lookup, TypeOK, Lists, Spoilt
<1>2. ASSUME NEW id \in ZoneIds, GetResourceRecord(id)
      PROVE  TypeOK'
  BY <1>2 DEF GetResourceRecord, TypeOK
<1>3. ASSUME Restart
      PROVE  TypeOK'
  <2>1. zoneRows \in [ZoneIds -> Zone \cup {NoZone}] /\ Started(zoneRows)
    BY <1>3 DEF Restart, TypeOK
  <2>2. UNCHANGED <<horizonRows, zoneRows, recordRows>>
    BY <1>3 DEF Restart
  <2> QED BY <2>1, <2>2, StartedType DEF TypeOK, Lists
<1>4. ASSUME NEW id \in ZoneIds, NEW z \in Zone, NEW rs \in Payloads,
             NEW fails \in Failures, InsertZone(id, z, rs, fails)
      PROVE  TypeOK'
  <2>1. rs \in SUBSET Records
    BY StoreAssumption
  <2>2. /\ zoneRows' \in [ZoneIds -> Zone \cup {NoZone}]
        /\ recordRows' \in [ZoneIds -> SUBSET Records]
    BY <1>4, <2>1 DEF InsertZone, TypeOK
  <2>3. CASE ZoneCached(id, z, rs, fails)
    BY <1>4, <2>1, <2>2, <2>3, ZoneCachedType DEF InsertZone, TypeOK, Lists
  <2>4. CASE UNCHANGED <<zoneCache, rrCache, astray>>
    BY <1>4, <2>2, <2>4 DEF InsertZone, TypeOK
  <2> QED BY <1>4, <2>3, <2>4 DEF InsertZone
<1>5. ASSUME NEW id \in ZoneIds, NEW z \in Zone, NEW rs \in Payloads,
             NEW fails \in Failures, UpdateZone(id, z, rs, fails)
      PROVE  TypeOK'
  <2>1. rs \in SUBSET Records
    BY StoreAssumption
  <2>2. /\ zoneRows' = zoneRows /\ horizonRows' = horizonRows
        /\ recordRows' \in [ZoneIds -> SUBSET Records]
    BY <1>5, <2>1 DEF UpdateZone, TypeOK
  <2>3. CASE z.horizon \notin cachedHorizons
    <3>1. Started(zoneRows) /\ zoneRows \in [ZoneIds -> Zone \cup {NoZone}]
      BY <1>5, <2>3 DEF UpdateZone, TypeOK
    <3> QED BY <2>2, <3>1, StartedType DEF TypeOK, Lists
  <2>4. CASE z.horizon \in cachedHorizons
    <3> DEFINE h == z.horizon
               lists == ReadRecords(Inserted(Cold, rs), recordRows'[id], z, Types, fails)
    <3>1. h \in Horizons /\ z.name \in Apexes
      BY DEF Zone
    <3>2. lists \in Lists
      BY <2>1, ColdType, InsertedType, ReadRecordsType, <2>2
    <3>3. /\ byId' = [byId EXCEPT ![h][id] = z]
          /\ byName' = [byName EXCEPT ![h][z.name] = id]
          /\ rrCache' = [rrCache EXCEPT ![id] = lists]
          /\ UNCHANGED <<cachedHorizons, rrLocked>>
      BY <1>5, <2>4 DEF UpdateZone
    <3>4. astray' \in SUBSET ZoneIds
      <4>1. byName[h][z.name] \in ZoneIds \cup {NilId}
        BY <3>1 DEF TypeOK
      <4>2. astray' \subseteq astray \cup {id} \cup ({byName[h][z.name]} \ {id, NilId})
        BY <1>5, <2>4 DEF UpdateZone, Spoilt
      <4> HIDE DEF h
      <4> QED BY <4>1, <4>2 DEF TypeOK
    <3>5. byId' \in [Horizons -> [ZoneIds -> Zone \cup {NoZone}]]
      <4> HIDE DEF h
      <4> QED BY <3>1, <3>3 DEF TypeOK
    <3>6. byName' \in [Horizons -> [Apexes -> ZoneIds \cup {NilId}]]
      <4> HIDE DEF h
      <4> QED BY <3>1, <3>3 DEF TypeOK
    <3>7. rrCache' \in [ZoneIds -> Lists]
      <4> HIDE DEF lists
      <4> QED BY <3>2, <3>3 DEF TypeOK, Lists
    <3> QED BY <2>2, <3>3, <3>4, <3>5, <3>6, <3>7 DEF TypeOK, Lists
  <2> QED BY <2>3, <2>4
<1>6. ASSUME NEW h \in Horizons, NEW id \in ZoneIds, DeleteZone(h, id)
      PROVE  TypeOK'
  <2> DEFINE n == byId[h][id].name
  <2>1. byId[h][id] \in Zone
    BY <1>6 DEF DeleteZone, Holders, TypeOK
  <2>2. n \in Apexes /\ byName[h][n] \in ZoneIds \cup {NilId}
    BY <2>1 DEF Zone, TypeOK
  <2>3. astray' \in SUBSET ZoneIds
    <3>1. astray' \subseteq astray \cup ({id, byName[h][n]} \ {NilId})
      BY <1>6 DEF DeleteZone
    <3> HIDE DEF n
    <3> QED BY <3>1, <2>2 DEF TypeOK
  <2>4. byName' \in [Horizons -> [Apexes -> ZoneIds \cup {NilId}]]
    <3>1. byName' = [byName EXCEPT ![h][n] = NilId]
      BY <1>6 DEF DeleteZone
    <3> HIDE DEF n
    <3> QED BY <3>1, <2>2 DEF TypeOK
  <2>5. /\ zoneRows' \in [ZoneIds -> Zone \cup {NoZone}]
        /\ recordRows' \in [ZoneIds -> SUBSET Records]
        /\ byId' \in [Horizons -> [ZoneIds -> Zone \cup {NoZone}]]
    BY <1>6 DEF DeleteZone, ErasedFrom, TypeOK
  <2>6. rrCache' \in [ZoneIds -> Lists]
    BY <1>6, ColdType DEF DeleteZone, TypeOK, Lists
  <2> QED BY <1>6, <2>3, <2>4, <2>5, <2>6 DEF DeleteZone, TypeOK, Lists
<1>7. ASSUME NEW id \in ZoneIds, NEW r \in Records, WriteRecord(id, r)
      PROVE  TypeOK'
  <2>1. Holders(FromJson(id, r).zone) = {}
    BY StoreAssumption DEF Holders, FromJson
  <2>2. UNCHANGED <<recordRows, rrCache>>
    BY <1>7, <2>1 DEF WriteRecord
  <2> QED BY <1>7, <2>2 DEF WriteRecord, TypeOK
<1>8. ASSUME NEW h \in Horizons, InsertHorizon(h)
      PROVE  TypeOK'
  BY <1>8 DEF InsertHorizon, TypeOK
<1>9. ASSUME NEW h \in Horizons, DeleteHorizon(h)
      PROVE  TypeOK'
  <2>1. /\ NoZones \in [ZoneIds -> Zone \cup {NoZone}]
        /\ NoNames \in [Apexes -> ZoneIds \cup {NilId}]
    BY DEF NoZones, NoNames
  <2>2. rrCache' \in [ZoneIds -> Lists]
    BY <1>9, ColdType DEF DeleteHorizon, TypeOK, Lists
  <2>3. /\ zoneRows' \in [ZoneIds -> Zone \cup {NoZone}]
        /\ recordRows' \in [ZoneIds -> SUBSET Records]
    BY <1>9 DEF DeleteHorizon, TypeOK
  <2>4. /\ byId' \in [Horizons -> [ZoneIds -> Zone \cup {NoZone}]]
        /\ byName' \in [Horizons -> [Apexes -> ZoneIds \cup {NilId}]]
    BY <1>9, <2>1 DEF DeleteHorizon, TypeOK
  <2> QED BY <1>9, <2>2, <2>3, <2>4 DEF DeleteHorizon, TypeOK, Lists
<1>10. CASE UNCHANGED vars
  BY <1>10 DEF TypeOK, vars
<1> QED BY <1>1, <1>2, <1>3, <1>4, <1>5, <1>6, <1>7, <1>8, <1>9, <1>10 DEF Next

\* Every variable of ZoneStore keeps its type.
THEOREM TypeCorrect == Spec => []TypeOK
BY TypeInit, TypeStep, PTL DEF Spec

----------------------------------------------------------------------------
(* The caches agree with the database.                                     *)

\* A zone that agrees is in the cache of its own horizon only.
LEMMA OneHolder ==
    ASSUME TypeOK, NEW id \in ZoneIds, AgreeingEntries(id), NEW h \in Holders(id)
    PROVE  /\ h \in cachedHorizons /\ h \in Horizons
           /\ byId[h][id] = zoneRows[id] /\ zoneRows[id] # NoZone
           /\ zoneRows[id].horizon = h
           /\ \A g \in cachedHorizons \ {h} : byId[g][id] = NoZone
           /\ Holders(id) = {h}
<1>1. h \in cachedHorizons /\ byId[h][id] # NoZone
  BY DEF Holders
<1>2. byId[h][id] = RowsOf(zoneRows, h)[id]
  BY <1>1 DEF AgreeingEntries
<1>3. byId[h][id] = zoneRows[id] /\ zoneRows[id] # NoZone /\ zoneRows[id].horizon = h
  BY <1>1, <1>2 DEF RowsOf
<1>4. \A g \in cachedHorizons \ {h} : byId[g][id] = NoZone
  BY <1>3 DEF AgreeingEntries, RowsOf
<1> QED BY <1>1, <1>3, <1>4 DEF Holders, TypeOK

\* What a step leaves alone of a zone that agrees agrees after it.
LEMMA Untouched ==
    ASSUME NEW id \in ZoneIds, Agreeing(id),
           cachedHorizons' = cachedHorizons,
           \A h \in cachedHorizons :
              /\ byId'[h][id] = byId[h][id]
              /\ byId[h][id] # NoZone => byName'[h][byId[h][id].name] = id,
           zoneRows'[id] = zoneRows[id],
           recordRows'[id] = recordRows[id],
           rrCache'[id] = rrCache[id]
    PROVE  Agreeing(id)'
<1>1. Holders(id)' = Holders(id)
  BY DEF Holders
<1>2. \A h : RowsOf(zoneRows, h)'[id] = RowsOf(zoneRows, h)[id]
  BY DEF RowsOf
<1>3. AgreeingEntries(id)'
  BY <1>2 DEF Agreeing, AgreeingEntries
<1>4. AgreeingLists(id)'
  BY <1>1 DEF Agreeing, AgreeingLists, Holders
<1>5. ColdUnlessHeld(id)'
  BY <1>1 DEF Agreeing, ColdUnlessHeld
<1> QED BY <1>3, <1>4, <1>5 DEF Agreeing

\* Two zones of one horizon whose names the index has once: one is astray.
LEMMA IndexedOnce ==
    ASSUME NEW rows, NEW h, NEW index \in Indexes(RowsOf(rows, h)), NEW id \in ZoneIds,
           RowsOf(rows, h)[id] # NoZone, RowsOf(rows, h)[id].name \in Apexes,
           id \notin Namesakes(rows)
    PROVE  index[RowsOf(rows, h)[id].name] = id
<1> DEFINE n == RowsOf(rows, h)[id].name
<1>1. index[n] \in Named(RowsOf(rows, h), n)
  BY DEF Indexes, Named
<1>2. /\ index[n] \in ZoneIds /\ RowsOf(rows, h)[index[n]] # NoZone
      /\ RowsOf(rows, h)[index[n]].name = n
  BY <1>1 DEF Named
<1>3. /\ rows[id] # NoZone /\ rows[id].horizon = h /\ rows[id].name = n
      /\ rows[index[n]] # NoZone /\ rows[index[n]].horizon = h /\ rows[index[n]].name = n
  BY <1>2 DEF RowsOf
<1> HIDE DEF n
<1>4. index[n] = id
  BY <1>2, <1>3 DEF Namesakes
<1> QED BY <1>4 DEF n

\* After a start everything that is not a namesake agrees.
LEMMA StartedAgrees ==
    ASSUME TypeOK, TypeOK', Started(zoneRows), zoneRows' = zoneRows,
           NEW id \in ZoneIds \ astray'
    PROVE  Agreeing(id)'
<1>1. rrCache'[id] = Cold
  BY DEF Started
<1>2. AgreeingLists(id)' /\ ColdUnlessHeld(id)'
  BY <1>1 DEF AgreeingLists, ColdUnlessHeld, Cold
<1>3. ASSUME NEW h \in cachedHorizons'
      PROVE  /\ byId'[h][id] = RowsOf(zoneRows, h)[id]
             /\ byId'[h][id] # NoZone => byName'[h][byId'[h][id].name] = id
  <2>1. h \in Horizons
    BY <1>3 DEF TypeOK
  <2>2. byId'[h] = RowsOf(zoneRows, h) /\ byName'[h] \in Indexes(byId'[h])
    BY <1>3, <2>1 DEF Started
  <2>3. byId'[h][id] # NoZone => byId'[h][id].name \in Apexes
    BY <2>1 DEF TypeOK, Zone
  <2>4. id \notin Namesakes(zoneRows)
    BY DEF Started
  <2> QED BY <2>2, <2>3, <2>4, IndexedOnce
<1>4. AgreeingEntries(id)'
  BY <1>3 DEF AgreeingEntries
<1> QED BY <1>2, <1>4 DEF Agreeing

\* A zone whose lists a request has just filled, and whose entry is the row.
LEMMA FilledAgrees ==
    ASSUME TypeOK', NEW id \in ZoneIds, NEW z \in Zone, NEW rs \in SUBSET Records,
           z.forwarded => rs = {}, rs = {} \/ recordRows'[id] = rs,
           z.horizon \in cachedHorizons', zoneRows'[id] = z,
           \A h \in cachedHorizons' : byId'[h][id] = IF h = z.horizon THEN z ELSE NoZone,
           byName'[z.horizon][z.name] = id,
           rrCache'[id] = ReadRecords(Inserted(Cold, rs), recordRows'[id], z, Types, {})
    PROVE  Agreeing(id)'
<1>1. z # NoZone /\ z.horizon \in Horizons /\ recordRows'[id] \in SUBSET Records
  BY StoreAssumption DEF Zone, TypeOK
<1>2. Holders(id)' = {z.horizon} /\ byId'[z.horizon][id] = z
  BY <1>1 DEF Holders
<1>3. AgreeingEntries(id)'
  BY <1>1 DEF AgreeingEntries, RowsOf
<1>4. \A t \in Types : Inserted(Cold, rs)[t] \in {Unread, Content(z, recordRows'[id], t)}
  <2>1. CASE rs = {}
    BY <2>1 DEF Inserted, Cold, OfType
  <2>2. CASE rs # {}
    BY <2>2, InsertedAgrees DEF Content
  <2> QED BY <2>1, <2>2
<1>5. Inserted(Cold, rs) \in Lists
  BY ColdType, InsertedType
<1>6. \A t \in Types : rrCache'[id][t] \in {Unread, Content(z, recordRows'[id], t)}
  BY <1>1, <1>4, <1>5, ReadRecordsAgrees
<1>7. AgreeingLists(id)' /\ ColdUnlessHeld(id)'
  BY <1>2, <1>6 DEF AgreeingLists, ColdUnlessHeld
<1> QED BY <1>3, <1>7 DEF Agreeing

LEMMA LookupAgrees ==
    ASSUME IInv, TypeOK', NEW h \in Horizons, NEW id \in ZoneIds, NEW ts, NEW fails,
           Lookup(h, id, ts, fails), NEW i \in ZoneIds \ astray'
    PROVE  Agreeing(i)'
<1>1. /\ UNCHANGED <<database, zoneCache>> /\ i \notin astray /\ Agreeing(i)
      /\ i = id => fails = {}
  BY DEF Lookup, IInv, Spoilt
<1>2. CASE i # id
  <2>1. rrCache'[i] = rrCache[i]
    BY <1>2 DEF Lookup, IInv, TypeOK
  <2> QED BY <1>1, <2>1, Untouched DEF database, zoneCache, Agreeing, AgreeingEntries
<1>3. CASE i = id
  <2>1. h \in Holders(id) /\ AgreeingEntries(id) /\ AgreeingLists(id)
    BY <1>1, <1>3 DEF Lookup, Agreeing
  <2>2. Holders(id) = {h}
    BY <2>1, OneHolder DEF IInv
  <2>3. byId[h][id] \in Zone
    BY <2>1 DEF Holders, IInv, TypeOK
  <2>4. /\ rrCache[id] \in Lists /\ recordRows[id] \in SUBSET Records
        /\ rrCache'[id] = ReadRecords(rrCache[id], recordRows[id], byId[h][id], ts, {})
    BY <1>1, <1>3 DEF Lookup, IInv, TypeOK, Lists
  <2>5. \A t \in Types : rrCache'[id][t] \in {Unread, Content(byId[h][id], recordRows[id], t)}
    BY <2>1, <2>3, <2>4, ReadRecordsAgrees DEF AgreeingLists
  <2>6. Holders(id)' = Holders(id)
    BY <1>1 DEF Holders, zoneCache
  <2>7. AgreeingEntries(id)'
    BY <1>1, <2>1 DEF AgreeingEntries, RowsOf, zoneCache, database
  <2>8. AgreeingLists(id)' /\ ColdUnlessHeld(id)'
    BY <1>1, <2>2, <2>5, <2>6 DEF AgreeingLists, ColdUnlessHeld, zoneCache, database
  <2> QED BY <1>3, <2>7, <2>8 DEF Agreeing
<1> QED BY <1>2, <1>3

LEMMA InsertZoneAgrees ==
    ASSUME IInv, TypeOK', NEW id \in ZoneIds, NEW z \in Zone, NEW rs \in SUBSET Records,
           NEW fails, InsertZone(id, z, rs, fails), NEW i \in ZoneIds \ astray'
    PROVE  Agreeing(i)'
<1> DEFINE h == z.horizon
<1>1. /\ zoneRows' = [zoneRows EXCEPT ![id] = z]
      /\ recordRows' = [recordRows EXCEPT ![id] = rs]
      /\ Fresh(id) /\ (z.forwarded => rs = {})
      /\ h \in cachedHorizons => byName[h][z.name] = NilId
  BY DEF InsertZone
<1>2. h \in Horizons /\ z.name \in Apexes /\ z # NoZone
  BY StoreAssumption DEF Zone
<1>3. \A g \in cachedHorizons : byId[g][id] = NoZone
  BY <1>1 DEF Fresh, Holders
<1>4. CASE UNCHANGED <<zoneCache, rrCache, astray>> /\ h \notin cachedHorizons
  <2>1. Agreeing(i)
    BY <1>4 DEF IInv
  <2>2. CASE i # id
    <3>1. zoneRows'[i] = zoneRows[i] /\ recordRows'[i] = recordRows[i]
      BY <1>1, <2>2 DEF IInv, TypeOK
    <3> QED BY <1>4, <2>1, <3>1, Untouched DEF zoneCache, Agreeing, AgreeingEntries
  <2>3. CASE i = id
    <3>1. Holders(id)' = {} /\ rrCache'[id] = Cold
      BY <1>1, <1>4 DEF Fresh, Holders, zoneCache
    <3>2. zoneRows'[id] = z
      BY <1>1 DEF IInv, TypeOK
    <3>3. AgreeingEntries(id)'
      BY <1>3, <1>4, <3>2 DEF AgreeingEntries, RowsOf, zoneCache
    <3> QED BY <2>3, <3>1, <3>3 DEF Agreeing, AgreeingLists, ColdUnlessHeld
  <2> QED BY <2>2, <2>3
<1>5. CASE ZoneCached(id, z, rs, fails)
  <2> DEFINE zs == IF h \in cachedHorizons THEN [byId[h] EXCEPT ![id] = z]
                                           ELSE RowsOf(zoneRows', h)
  <2>1. cachedHorizons' = cachedHorizons \cup {h} /\ byId' = [byId EXCEPT ![h] = zs]
    BY <1>5 DEF ZoneCached
  <2>2. PICK index \in [Apexes -> ZoneIds \cup {NilId}] :
           /\ IF h \in cachedHorizons THEN index = [byName[h] EXCEPT ![z.name] = id]
                                      ELSE index \in Indexes(zs) /\ index[z.name] = id
           /\ byName' = [byName EXCEPT ![h] = index]
    BY <1>5 DEF ZoneCached
  <2>3. /\ i \notin astray
        /\ i = id => fails = {}
        /\ h \notin cachedHorizons => i \notin Namesakes(zoneRows')
    BY <1>5 DEF ZoneCached, Spoilt
  <2>4. Agreeing(i)
    BY <2>3 DEF IInv
  <2>5. /\ byId'[h] = zs /\ byName'[h] = index
        /\ \A g \in cachedHorizons \ {h} : byId'[g] = byId[g] /\ byName'[g] = byName[g]
    <3> HIDE DEF zs, h
    <3> QED BY <1>2, <2>1, <2>2 DEF IInv, TypeOK
  <2>6. CASE i = id
    <3>1. zoneRows'[id] = z /\ recordRows'[id] = rs
      BY <1>1 DEF IInv, TypeOK
    <3>2. zs[id] = z
      BY <1>2, <3>1 DEF IInv, TypeOK, RowsOf
    <3>3. \A g \in cachedHorizons' : byId'[g][id] = IF g = z.horizon THEN z ELSE NoZone
      <4> HIDE DEF zs
      <4> QED BY <1>3, <2>1, <2>5, <3>2
    <3>4. byName'[h][z.name] = id
      BY <1>2, <2>2, <2>5 DEF IInv, TypeOK
    <3>5. rrCache'[id] = ReadRecords(Inserted(Cold, rs), recordRows'[id], z, Types, {})
      BY <1>1, <1>5, <2>3, <2>6 DEF ZoneCached, Fresh, IInv, TypeOK
    <3>6. Agreeing(id)'
      <4> HIDE DEF zs
      <4> QED BY <1>1, <2>1, <3>1, <3>3, <3>4, <3>5, FilledAgrees
    <3> QED BY <2>6, <3>6
  <2>7. CASE i # id
    <3>1. zoneRows'[i] = zoneRows[i] /\ recordRows'[i] = recordRows[i]
      BY <1>1, <2>7 DEF IInv, TypeOK
    <3>2. rrCache'[i] = rrCache[i]
      BY <1>5, <2>7 DEF ZoneCached, IInv, TypeOK
    <3>3. CASE h \in cachedHorizons
      <4>1. zs[i] = byId[h][i]
        BY <1>2, <2>7, <3>3 DEF IInv, TypeOK
      <4>2. \A n \in Apexes \ {z.name} : index[n] = byName[h][n]
        BY <1>2, <2>2, <3>3 DEF IInv, TypeOK
      <4>3. byName[h][z.name] # i
        BY <1>1, <3>3, StoreAssumption
      <4>4. \A g \in cachedHorizons :
               /\ byId'[g][i] = byId[g][i]
               /\ byId[g][i] # NoZone => byName'[g][byId[g][i].name] = i
        <5> SUFFICES ASSUME NEW g \in cachedHorizons
                     PROVE  /\ byId'[g][i] = byId[g][i]
                            /\ byId[g][i] # NoZone => byName'[g][byId[g][i].name] = i
          OBVIOUS
        <5>1. byId[g][i] # NoZone => byName[g][byId[g][i].name] = i /\ byId[g][i].name \in Apexes
          BY <2>4 DEF Agreeing, AgreeingEntries, IInv, TypeOK, Zone
        <5> HIDE DEF zs, h
        <5>2. CASE g # h
          BY <2>5, <5>1, <5>2
        <5>3. CASE g = h
          BY <2>5, <4>1, <4>2, <4>3, <5>1, <5>3
        <5> QED BY <5>2, <5>3
      <4>5. cachedHorizons' = cachedHorizons
        BY <2>1, <3>3
      <4> QED BY <2>4, <3>1, <3>2, <4>4, <4>5, Untouched
    <3>4. CASE h \notin cachedHorizons
      <4>1. /\ zs = RowsOf(zoneRows', h) /\ index \in Indexes(zs)
            /\ zs[i] = RowsOf(zoneRows, h)[i]
        BY <2>2, <3>1, <3>4 DEF RowsOf
      <4>2. zs[i] # NoZone => zs[i] = zoneRows[i] /\ zs[i].horizon = h /\ zs[i].name \in Apexes
        BY <4>1 DEF RowsOf, IInv, TypeOK, Zone
      <4>3. zs[i] # NoZone => index[zs[i].name] = i
        BY <2>3, <3>4, <4>1, <4>2, IndexedOnce
      <4>4. zs[i] # NoZone => Holders(i) = {}
        BY <2>4, <3>4, <4>2, OneHolder DEF Agreeing, IInv
      <4>5. AgreeingEntries(i)'
        <5> SUFFICES ASSUME NEW g \in cachedHorizons'
                     PROVE  /\ byId'[g][i] = RowsOf(zoneRows', g)[i]
                            /\ byId'[g][i] # NoZone => byName'[g][byId'[g][i].name] = i
          BY DEF AgreeingEntries
        <5>1. RowsOf(zoneRows', g)[i] = RowsOf(zoneRows, g)[i]
          BY <3>1 DEF RowsOf
        <5>2. CASE g = h
          BY <2>5, <4>1, <4>3, <5>2
        <5>3. CASE g # h
          BY <2>1, <2>4, <2>5, <5>1, <5>3 DEF Agreeing, AgreeingEntries
        <5> QED BY <5>2, <5>3
      <4>6. Holders(i)' = Holders(i) \cup (IF zs[i] # NoZone THEN {h} ELSE {})
        <5> HIDE DEF zs, h
        <5> QED BY <2>1, <2>5, <3>4 DEF Holders
      <4>7. ColdUnlessHeld(i)'
        BY <2>4, <3>2, <4>6 DEF Agreeing, ColdUnlessHeld
      <4>8. AgreeingLists(i)'
        <5>1. CASE zs[i] # NoZone
          <6>1. rrCache'[i] = Cold
            BY <2>4, <3>2, <4>4, <5>1 DEF Agreeing, ColdUnlessHeld
          <6> QED BY <6>1 DEF AgreeingLists, Cold
        <5>2. CASE zs[i] = NoZone
          <6>1. Holders(i)' = Holders(i) /\ \A g \in Holders(i) : byId'[g][i] = byId[g][i]
            <7> HIDE DEF zs, h
            <7> QED BY <2>5, <3>4, <4>6, <5>2 DEF Holders
          <6> QED BY <2>4, <3>1, <3>2, <6>1 DEF Agreeing, AgreeingLists
        <5> QED BY <5>1, <5>2
      <4> QED BY <4>5, <4>7, <4>8 DEF Agreeing
    <3> QED BY <3>3, <3>4
  <2> QED BY <2>6, <2>7
<1> QED BY <1>4, <1>5 DEF InsertZone

LEMMA UpdateZoneAgrees ==
    ASSUME IInv, TypeOK', NEW id \in ZoneIds, NEW z \in Zone, NEW rs \in SUBSET Records,
           NEW fails, UpdateZone(id, z, rs, fails), NEW i \in ZoneIds \ astray'
    PROVE  Agreeing(i)'
<1> DEFINE h == z.horizon
           other == byName[h][z.name]
<1>1. /\ zoneRows' = zoneRows /\ (z.forwarded => rs = {})
      /\ recordRows' = IF rs = {} THEN recordRows ELSE [recordRows EXCEPT ![id] = rs]
  BY DEF UpdateZone
<1>2. h \in Horizons /\ z.name \in Apexes
  BY DEF Zone
<1>3. CASE h \notin cachedHorizons
  BY <1>1, <1>3, StartedAgrees DEF UpdateZone, IInv
<1>4. CASE h \in cachedHorizons
  <2>1. /\ byId' = [byId EXCEPT ![h][id] = z]
        /\ byName' = [byName EXCEPT ![h][z.name] = id]
        /\ rrCache' = [rrCache EXCEPT ![id] =
                ReadRecords(Inserted(Cold, rs), recordRows'[id], z, Types, fails)]
        /\ cachedHorizons' = cachedHorizons
    BY <1>4 DEF UpdateZone
  <2>2. astray' = astray \cup Spoilt(id, fails)
                     \cup (IF z = zoneRows[id] THEN {} ELSE {id})
                     \cup ({other} \ {id, NilId})
    BY <1>4 DEF UpdateZone
  <2>3. i \notin astray /\ (i = id => fails = {} /\ z = zoneRows[id])
        /\ (i # id => other # i)
    BY <2>2, StoreAssumption DEF Spoilt
  <2>4. Agreeing(i)
    BY <2>3 DEF IInv
  <2>5. /\ \A g \in cachedHorizons, j \in ZoneIds :
              byId'[g][j] = IF g = h /\ j = id THEN z ELSE byId[g][j]
        /\ \A g \in cachedHorizons, n \in Apexes :
              byName'[g][n] = IF g = h /\ n = z.name THEN id ELSE byName[g][n]
    <3> HIDE DEF h
    <3> QED BY <1>2, <2>1 DEF IInv, TypeOK
  <2>6. CASE i = id
    <3>1. z.horizon \in cachedHorizons' /\ zoneRows'[id] = z
      BY <1>1, <1>4, <2>1, <2>3, <2>6
    <3>2. \A g \in cachedHorizons' : byId'[g][id] = IF g = z.horizon THEN z ELSE NoZone
      BY <2>1, <2>3, <2>4, <2>5, <2>6 DEF Agreeing, AgreeingEntries, RowsOf
    <3>3. byName'[z.horizon][z.name] = id
      BY <1>2, <1>4, <2>5
    <3>4. rrCache'[id] = ReadRecords(Inserted(Cold, rs), recordRows'[id], z, Types, {})
      BY <2>1, <2>3, <2>6 DEF IInv, TypeOK
    <3>5. rs = {} \/ recordRows'[id] = rs
      BY <1>1 DEF IInv, TypeOK
    <3> QED BY <1>1, <2>6, <3>1, <3>2, <3>3, <3>4, <3>5, FilledAgrees
  <2>7. CASE i # id
    <3>1. recordRows'[i] = recordRows[i] /\ rrCache'[i] = rrCache[i]
      BY <1>1, <2>1, <2>7 DEF IInv, TypeOK
    <3>2. \A g \in cachedHorizons :
             /\ byId'[g][i] = byId[g][i]
             /\ byId[g][i] # NoZone => byName'[g][byId[g][i].name] = i
      <4> SUFFICES ASSUME NEW g \in cachedHorizons
                   PROVE  /\ byId'[g][i] = byId[g][i]
                          /\ byId[g][i] # NoZone => byName'[g][byId[g][i].name] = i
        OBVIOUS
      <4>1. byId[g][i] # NoZone => byName[g][byId[g][i].name] = i /\ byId[g][i].name \in Apexes
        BY <2>4 DEF Agreeing, AgreeingEntries, IInv, TypeOK, Zone
      <4> QED BY <2>3, <2>5, <2>7, <4>1
    <3> QED BY <1>1, <2>1, <2>4, <3>1, <3>2, Untouched
  <2> QED BY <2>6, <2>7
<1> QED BY <1>3, <1>4

LEMMA DeleteZoneAgrees ==
    ASSUME IInv, TypeOK', NEW h \in Horizons, NEW id \in ZoneIds, DeleteZone(h, id),
           NEW i \in ZoneIds \ astray'
    PROVE  Agreeing(i)'
<1> DEFINE n == byId[h][id].name
<1>1. /\ zoneRows' = [zoneRows EXCEPT ![id] = NoZone]
      /\ recordRows' = [recordRows EXCEPT ![id] = {}]
      /\ rrCache' = [rrCache EXCEPT ![id] = Cold]
      /\ byId' = [byId EXCEPT ![h] = ErasedFrom(@, id)]
      /\ byName' = [byName EXCEPT ![h][n] = NilId]
      /\ cachedHorizons' = cachedHorizons
      /\ h \in Holders(id)
  BY DEF DeleteZone
<1>2. /\ i \notin astray
      /\ i = id => Holders(id) = {h} /\ byName[h][n] = id
      /\ i # id => byName[h][n] # i
  <2>1. CASE Holders(id) = {h} /\ byName[h][n] = id
    BY <2>1 DEF DeleteZone
  <2>2. CASE ~(Holders(id) = {h} /\ byName[h][n] = id)
    <3>1. astray' = astray \cup ({id, byName[h][n]} \ {NilId})
      BY <2>2 DEF DeleteZone
    <3> QED BY <3>1, StoreAssumption
  <2> QED BY <2>1, <2>2
<1>3. Agreeing(i) /\ n \in Apexes
  BY <1>1, <1>2 DEF IInv, TypeOK, Holders, Zone
<1>4. /\ \A g \in cachedHorizons, j \in ZoneIds :
            byId'[g][j] = IF g = h /\ j = id THEN NoZone ELSE byId[g][j]
      /\ \A g \in cachedHorizons, m \in Apexes :
            byName'[g][m] = IF g = h /\ m = n THEN NilId ELSE byName[g][m]
  <2>1. byId'[h] = [byId[h] EXCEPT ![id] = NoZone] /\ \A g \in cachedHorizons \ {h} : byId'[g] = byId[g]
    BY <1>1 DEF IInv, TypeOK, ErasedFrom
  <2> HIDE DEF n
  <2>2. \A g \in cachedHorizons, m \in Apexes :
            byName'[g][m] = IF g = h /\ m = n THEN NilId ELSE byName[g][m]
    BY <1>1, <1>3 DEF IInv, TypeOK
  <2> QED BY <2>1, <2>2 DEF IInv, TypeOK
<1>5. CASE i = id
  <2>1. \A g \in cachedHorizons : byId'[g][id] = NoZone
    BY <1>2, <1>4, <1>5 DEF Holders
  <2>2. Holders(id)' = {} /\ rrCache'[id] = Cold /\ zoneRows'[id] = NoZone
    BY <1>1, <2>1 DEF Holders, IInv, TypeOK
  <2>3. AgreeingEntries(id)'
    BY <1>1, <2>1, <2>2 DEF AgreeingEntries, RowsOf
  <2> QED BY <1>5, <2>2, <2>3 DEF Agreeing, AgreeingLists, ColdUnlessHeld
<1>6. CASE i # id
  <2>1. /\ zoneRows'[i] = zoneRows[i] /\ recordRows'[i] = recordRows[i]
        /\ rrCache'[i] = rrCache[i]
    BY <1>1, <1>6 DEF IInv, TypeOK
  <2>2. \A g \in cachedHorizons :
           /\ byId'[g][i] = byId[g][i]
           /\ byId[g][i] # NoZone => byName'[g][byId[g][i].name] = i
    <3> SUFFICES ASSUME NEW g \in cachedHorizons
                 PROVE  /\ byId'[g][i] = byId[g][i]
                        /\ byId[g][i] # NoZone => byName'[g][byId[g][i].name] = i
      OBVIOUS
    <3>1. byId[g][i] # NoZone => byName[g][byId[g][i].name] = i /\ byId[g][i].name \in Apexes
      BY <1>3 DEF Agreeing, AgreeingEntries, IInv, TypeOK, Zone
    <3> HIDE DEF n
    <3> QED BY <1>2, <1>4, <1>6, <3>1
  <2> QED BY <1>1, <1>3, <2>1, <2>2, Untouched
<1> QED BY <1>5, <1>6

LEMMA DeleteHorizonAgrees ==
    ASSUME IInv, TypeOK', NEW h \in Horizons, DeleteHorizon(h), NEW i \in ZoneIds \ astray'
    PROVE  Agreeing(i)'
<1> DEFINE gone == {id \in ZoneIds : h \in Holders(id)}
<1>1. /\ zoneRows' = [id \in ZoneIds |-> IF id \in gone THEN NoZone ELSE zoneRows[id]]
      /\ recordRows' = [id \in ZoneIds |-> IF id \in gone THEN {} ELSE recordRows[id]]
      /\ rrCache' = [id \in ZoneIds |-> IF id \in gone THEN Cold ELSE rrCache[id]]
      /\ byId' = [byId EXCEPT ![h] = NoZones]
      /\ byName' = [byName EXCEPT ![h] = NoNames]
      /\ astray' = astray \cup {id \in gone : Holders(id) # {h}}
      /\ cachedHorizons' = cachedHorizons
  BY DEF DeleteHorizon
<1>2. i \notin astray /\ (i \in gone => Holders(i) = {h})
  BY <1>1
<1>3. Agreeing(i)
  BY <1>2 DEF IInv
<1>4. /\ \A g \in cachedHorizons :
            byId'[g][i] = IF g = h THEN NoZone ELSE byId[g][i]
      /\ \A g \in cachedHorizons \ {h} : byName'[g] = byName[g]
  BY <1>1 DEF IInv, TypeOK, NoZones
<1>5. CASE i \in gone
  <2>1. \A g \in cachedHorizons : byId'[g][i] = NoZone
    BY <1>2, <1>4, <1>5 DEF Holders
  <2>2. Holders(i)' = {} /\ rrCache'[i] = Cold /\ zoneRows'[i] = NoZone
    BY <1>1, <1>5, <2>1 DEF Holders
  <2>3. AgreeingEntries(i)'
    BY <1>1, <2>1, <2>2 DEF AgreeingEntries, RowsOf
  <2> QED BY <2>2, <2>3 DEF Agreeing, AgreeingLists, ColdUnlessHeld
<1>6. CASE i \notin gone
  <2>1. /\ zoneRows'[i] = zoneRows[i] /\ recordRows'[i] = recordRows[i]
        /\ rrCache'[i] = rrCache[i]
    BY <1>1, <1>6
  <2>2. h \in cachedHorizons => byId[h][i] = NoZone
    BY <1>6 DEF Holders
  <2>3. \A g \in cachedHorizons :
           /\ byId'[g][i] = byId[g][i]
           /\ byId[g][i] # NoZone => byName'[g][byId[g][i].name] = i
    BY <1>3, <1>4, <2>2 DEF Agreeing, AgreeingEntries
  <2> QED BY <1>1, <1>3, <2>1, <2>3, Untouched
<1> QED BY <1>5, <1>6

LEMMA InvInit == Init => IInv
<1> SUFFICES ASSUME Init PROVE IInv
  OBVIOUS
<1>1. TypeOK
  BY TypeInit
<1>2. ASSUME NEW id \in ZoneIds
      PROVE  Agreeing(id)
  <2>1. rrCache[id] = Cold /\ zoneRows[id] = NoZone
    BY DEF Init, NoZones
  <2>2. \A h \in cachedHorizons : byId[h][id] = NoZone
    BY <1>1 DEF Init, NoZones, TypeOK
  <2>3. Holders(id) = {}
    BY <2>2 DEF Holders
  <2> QED BY <2>1, <2>2, <2>3
          DEF Agreeing, AgreeingEntries, AgreeingLists, ColdUnlessHeld, RowsOf
<1> QED BY <1>1, <1>2 DEF IInv

LEMMA InvStep == IInv /\ [Next]_vars => IInv'
<1> SUFFICES ASSUME IInv, [Next]_vars PROVE IInv'
  OBVIOUS
<1>1. TypeOK'
  BY TypeStep DEF IInv
<1>2. \A rs \in Payloads : rs \in SUBSET Records
  BY StoreAssumption
<1> SUFFICES ASSUME NEW i \in ZoneIds \ astray' PROVE Agreeing(i)'
  BY <1>1 DEF IInv
<1>3. ASSUME UNCHANGED <<zoneRows, recordRows, zoneCache, rrCache, astray>>
      PROVE  Agreeing(i)'
  <2>1. Agreeing(i)
    BY <1>3 DEF IInv
  <2> QED BY <1>3, <2>1, Untouched DEF zoneCache, Agreeing, AgreeingEntries
<1>4. ASSUME NEW h \in Horizons, NEW id \in ZoneIds, NEW ts \in Wanted,
             NEW fails \in Failures, Lookup(h, id, ts, fails)
      PROVE  Agreeing(i)'
  BY <1>1, <1>4, LookupAgrees
<1>5. ASSUME NEW id \in ZoneIds, GetResourceRecord(id)
      PROVE  Agreeing(i)'
  BY <1>3, <1>5 DEF GetResourceRecord, database
<1>6. ASSUME Restart
      PROVE  Agreeing(i)'
  BY <1>1, <1>6, StartedAgrees DEF Restart, database, IInv
<1>7. ASSUME NEW id \in ZoneIds, NEW z \in Zone, NEW rs \in Payloads,
             NEW fails \in Failures, InsertZone(id, z, rs, fails)
      PROVE  Agreeing(i)'
  BY <1>1, <1>2, <1>7, InsertZoneAgrees
<1>8. ASSUME NEW id \in ZoneIds, NEW z \in Zone, NEW rs \in Payloads,
             NEW fails \in Failures, UpdateZone(id, z, rs, fails)
      PROVE  Agreeing(i)'
  BY <1>1, <1>2, <1>8, UpdateZoneAgrees
<1>9. ASSUME NEW h \in Horizons, NEW id \in ZoneIds, DeleteZone(h, id)
      PROVE  Agreeing(i)'
  BY <1>1, <1>9, DeleteZoneAgrees
<1>10. ASSUME NEW id \in ZoneIds, NEW r \in Records, WriteRecord(id, r)
       PROVE  Agreeing(i)'
  <2>1. Holders(FromJson(id, r).zone) = {}
    BY StoreAssumption DEF Holders, FromJson
  <2> QED BY <1>3, <1>10, <2>1 DEF WriteRecord
<1>11. ASSUME NEW h \in Horizons, InsertHorizon(h)
       PROVE  Agreeing(i)'
  BY <1>3, <1>11 DEF InsertHorizon
<1>12. ASSUME NEW h \in Horizons, DeleteHorizon(h)
       PROVE  Agreeing(i)'
  BY <1>1, <1>12, DeleteHorizonAgrees
<1>13. CASE UNCHANGED vars
  BY <1>3, <1>13 DEF vars, database
<1> QED BY <1>4, <1>5, <1>6, <1>7, <1>8, <1>9, <1>10, <1>11, <1>12, <1>13 DEF Next

\* What the record cache has of a zone is what the database has, whatever
\* lookups, requests and restarts come in between.
THEOREM CacheCoherent == Spec => []Coherent
<1>1. IInv => Coherent
  BY DEF IInv, Coherent, Agreeing, AgreeingLists, Content
<1> QED BY <1>1, InvInit, InvStep, PTL DEF Spec

\* The caches of zones have the zones of the database and find them by name.
THEOREM ZoneCachesAgree == Spec => []ZonesAgree
<1>1. IInv => ZonesAgree
  BY DEF IInv, ZonesAgree, Agreeing, AgreeingEntries
<1> QED BY <1>1, InvInit, InvStep, PTL DEF Spec

----------------------------------------------------------------------------
(* The zones themselves, astray or not.  A zone has one name for as long   *)
(* as anything is known of it, and its records are of that name.           *)

Belongs(n, r) == InZone(n, r) /\ (r.type = "SOA" => Same(r.name, n))
Fits(n, lists, rows) ==
    /\ \A r \in rows : Belongs(n, r)
    /\ \A t \in Types : lists[t] # Unread => \A r \in lists[t] : Belongs(n, r)
Typed(lists) == \A t \in Types : lists[t] # Unread => \A r \in lists[t] : r.type = t

KeptBy(id, n) ==
    /\ zoneRows[id] # NoZone => zoneRows[id].name = n
    /\ \A h \in Holders(id) : byId[h][id].name = n
    /\ Fits(n, rrCache[id], recordRows[id])
    /\ Typed(rrCache[id])
Kept == \A id \in ZoneIds : \E n : KeptBy(id, n)

\* What the index of a horizon finds is there, under that name.
Findable(h) ==
    \A n \in Apexes : byName[h][n] # NilId =>
        byId[h][byName[h][n]] # NoZone /\ byId[h][byName[h][n]].name = n
Found == \A h \in cachedHorizons : Findable(h)

ZonesInv == IInv /\ Kept /\ Found

LEMMA ReadRecordsFits ==
    ASSUME NEW n, NEW lists, NEW rows, NEW z, NEW ts, NEW fails
    PROVE  /\ Fits(n, lists, rows) => Fits(n, ReadRecords(lists, rows, z, ts, fails), rows)
           /\ Typed(lists) => Typed(ReadRecords(lists, rows, z, ts, fails))
<1> DEFINE new == ReadRecords(lists, rows, z, ts, fails)
<1>1. \A t \in Types : new[t] = lists[t] \/ new[t] = {} \/ new[t] = OfType(rows, t)
  BY DEF ReadRecords
<1>2. \A t \in Types : \A r \in OfType(rows, t) : r \in rows /\ r.type = t
  BY DEF OfType
<1> HIDE DEF new
<1>3. Fits(n, lists, rows) => Fits(n, new, rows)
  BY <1>1, <1>2 DEF Fits
<1>4. Typed(lists) => Typed(new)
  BY <1>1, <1>2 DEF Typed
<1> QED BY <1>3, <1>4 DEF new

LEMMA InsertedFits ==
    ASSUME NEW n, NEW lists, NEW rows, NEW rs, \A r \in rs : Belongs(n, r)
    PROVE  /\ Fits(n, lists, rows) => Fits(n, Inserted(lists, rs), rows)
           /\ Typed(lists) => Typed(Inserted(lists, rs))
<1> DEFINE new == Inserted(lists, rs)
<1>1. \A t \in Types :
         \/ new[t] = lists[t]
         \/ new[t] = (IF lists[t] = Unread THEN {} ELSE lists[t]) \cup OfType(rs, t)
  BY DEF Inserted
<1>2. \A t \in Types : \A r \in OfType(rs, t) : r \in rs /\ r.type = t
  BY DEF OfType
<1> HIDE DEF new
<1>3. Fits(n, lists, rows) => Fits(n, new, rows)
  BY <1>1, <1>2 DEF Fits
<1>4. Typed(lists) => Typed(new)
  BY <1>1, <1>2 DEF Typed
<1> QED BY <1>3, <1>4 DEF new

LEMMA ColdFits ==
    ASSUME NEW n, NEW rows, \A r \in rows : Belongs(n, r)
    PROVE  Fits(n, Cold, rows) /\ Typed(Cold)
BY DEF Fits, Typed, Cold

LEMMA ValidBelongs ==
    ASSUME NEW n, NEW rs, Valid(n, rs)
    PROVE  \A r \in rs : Belongs(n, r)
BY DEF Valid, Belongs, OfType

\* The lists of a zone after a request has brought records for it.
LEMMA BroughtFits ==
    ASSUME NEW n, NEW rs, NEW rows, NEW z, NEW fails,
           \A r \in rs : Belongs(n, r), \A r \in rows : Belongs(n, r)
    PROVE  LET lists == ReadRecords(Inserted(Cold, rs), rows, z, Types, fails)
           IN  Fits(n, lists, rows) /\ Typed(lists)
<1>1. Fits(n, Cold, rows) /\ Typed(Cold)
  BY ColdFits
<1>2. Fits(n, Inserted(Cold, rs), rows) /\ Typed(Inserted(Cold, rs))
  BY <1>1, InsertedFits
<1> QED BY <1>2, ReadRecordsFits

LEMMA IndexesFound ==
    ASSUME NEW zs, NEW index \in Indexes(zs)
    PROVE  \A n \in Apexes : index[n] # NilId =>
              zs[index[n]] # NoZone /\ zs[index[n]].name = n
BY DEF Indexes, Named

\* After a start.
LEMMA StartedKept ==
    ASSUME ZonesInv, Started(zoneRows), zoneRows' = zoneRows,
           NEW id \in ZoneIds, NEW n,
           zoneRows[id] # NoZone => zoneRows[id].name = n,
           \A r \in recordRows'[id] : Belongs(n, r)
    PROVE  KeptBy(id, n)' /\ Found'
<1>1. cachedHorizons' \subseteq Horizons
  BY DEF Started, ZonesInv, IInv, TypeOK
<1>2. \A h \in cachedHorizons' : byId'[h] = RowsOf(zoneRows, h)
  BY <1>1 DEF Started
<1>3. \A h \in Holders(id)' : byId'[h][id].name = n
  BY <1>2 DEF Holders, RowsOf
<1>4. rrCache'[id] = Cold
  BY DEF Started
<1>5. Found'
  BY <1>1, IndexesFound DEF Started, Found, Findable
<1> QED BY <1>3, <1>4, <1>5, ColdFits DEF KeptBy

\* What a step leaves alone, or loses.
LEMMA LeftAlone ==
    ASSUME NEW id \in ZoneIds, NEW n, KeptBy(id, n),
           zoneRows'[id] \in {zoneRows[id], NoZone},
           \A h \in Holders(id)' : h \in Holders(id) /\ byId'[h][id] = byId[h][id],
           \/ rrCache'[id] = rrCache[id] /\ recordRows'[id] = recordRows[id]
           \/ rrCache'[id] = Cold /\ recordRows'[id] = {}
    PROVE  KeptBy(id, n)'
BY ColdFits DEF KeptBy

LEMMA LookupKept ==
    ASSUME ZonesInv, NEW h \in Horizons, NEW i \in ZoneIds, NEW ts, NEW fails,
           Lookup(h, i, ts, fails)
    PROVE  Kept' /\ Found'
<1>1. /\ rrCache' = [rrCache EXCEPT ![i] =
                        ReadRecords(@, recordRows[i], byId[h][i], ts, fails)]
      /\ UNCHANGED <<zoneRows, recordRows, cachedHorizons, byId, byName>>
  BY DEF Lookup, database, zoneCache
<1>2. Found'
  BY <1>1 DEF ZonesInv, Found, Findable
<1>3. ASSUME NEW id \in ZoneIds PROVE \E n : KeptBy(id, n)'
  <2>1. PICK n : KeptBy(id, n)
    BY DEF ZonesInv, Kept
  <2>2. Holders(id)' = Holders(id)
    BY <1>1 DEF Holders
  <2>3. CASE id # i
    <3>1. rrCache'[id] = rrCache[id]
      BY <1>1, <2>3 DEF ZonesInv, IInv, TypeOK
    <3> QED BY <1>1, <2>1, <2>2, <3>1, LeftAlone
  <2>4. CASE id = i
    <3>1. rrCache'[id] = ReadRecords(rrCache[id], recordRows[id], byId[h][id], ts, fails)
      BY <1>1, <2>4 DEF ZonesInv, IInv, TypeOK
    <3>2. Fits(n, rrCache'[id], recordRows[id]) /\ Typed(rrCache'[id])
      BY <2>1, <3>1, ReadRecordsFits DEF KeptBy
    <3> QED BY <1>1, <2>1, <2>2, <3>2 DEF KeptBy
  <2> QED BY <2>3, <2>4
<1> QED BY <1>2, <1>3 DEF Kept

LEMMA InsertZoneKept ==
    ASSUME ZonesInv, NEW i \in ZoneIds, NEW z \in Zone, NEW rs \in SUBSET Records,
           NEW fails, InsertZone(i, z, rs, fails)
    PROVE  Kept' /\ Found'
<1> DEFINE g == z.horizon
<1>1. /\ zoneRows' = [zoneRows EXCEPT ![i] = z]
      /\ recordRows' = [recordRows EXCEPT ![i] = rs]
      /\ zoneRows[i] = NoZone /\ Holders(i) = {} /\ rrCache[i] = Cold
  BY DEF InsertZone, Fresh
<1>2. \A r \in rs : Belongs(z.name, r)
  BY ValidBelongs DEF InsertZone
<1>3. z # NoZone /\ g \in Horizons /\ z.name \in Apexes
  BY StoreAssumption DEF Zone
<1>4. zoneRows'[i] = z /\ recordRows'[i] = rs
  BY <1>1 DEF ZonesInv, IInv, TypeOK
<1>5. \A id \in ZoneIds \ {i} : zoneRows'[id] = zoneRows[id] /\ recordRows'[id] = recordRows[id]
  BY <1>1 DEF ZonesInv, IInv, TypeOK
<1>6. CASE UNCHANGED <<zoneCache, rrCache>>
  <2>1. Found'
    BY <1>6 DEF zoneCache, Found, Findable, ZonesInv
  <2>2. ASSUME NEW id \in ZoneIds PROVE \E n : KeptBy(id, n)'
    <3>1. PICK n : KeptBy(id, n)
      BY DEF ZonesInv, Kept
    <3>2. Holders(id)' = Holders(id)
      BY <1>6 DEF Holders, zoneCache
    <3>3. CASE id # i
      BY <1>5, <1>6, <3>1, <3>2, <3>3, LeftAlone DEF zoneCache
    <3>4. CASE id = i
      <4>1. Fits(z.name, rrCache'[id], recordRows'[id]) /\ Typed(rrCache'[id])
        BY <1>1, <1>2, <1>4, <1>6, <3>4, ColdFits
      <4> QED BY <1>1, <1>4, <3>2, <3>4, <4>1 DEF KeptBy
    <3> QED BY <3>3, <3>4
  <2> QED BY <2>1, <2>2 DEF Kept
<1>7. CASE ZoneCached(i, z, rs, fails)
  <2> DEFINE zs == IF g \in cachedHorizons THEN [byId[g] EXCEPT ![i] = z]
                                           ELSE RowsOf(zoneRows', g)
  <2>1. /\ cachedHorizons' = cachedHorizons \cup {g}
        /\ byId' = [byId EXCEPT ![g] = zs]
        /\ rrCache' = [rrCache EXCEPT ![i] =
                ReadRecords(Inserted(@, rs), recordRows'[i], z, Types, fails)]
    BY <1>7 DEF ZoneCached
  <2>2. PICK index \in [Apexes -> ZoneIds \cup {NilId}] :
           /\ IF g \in cachedHorizons THEN index = [byName[g] EXCEPT ![z.name] = i]
                                      ELSE index \in Indexes(zs) /\ index[z.name] = i
           /\ byName' = [byName EXCEPT ![g] = index]
    BY <1>7 DEF ZoneCached
  <2>3. /\ byId'[g] = zs /\ byName'[g] = index
        /\ \A h \in Horizons \ {g} : byId'[h] = byId[h] /\ byName'[h] = byName[h]
    <3> HIDE DEF zs, g
    <3> QED BY <1>3, <2>1, <2>2 DEF ZonesInv, IInv, TypeOK
  <2>4. cachedHorizons \subseteq Horizons
    BY DEF ZonesInv, IInv, TypeOK
  <2>5. /\ zs[i] = z
        /\ \A id \in ZoneIds \ {i} : zs[id] # NoZone =>
             \/ g \in cachedHorizons /\ zs[id] = byId[g][id]
             \/ zoneRows[id] # NoZone /\ zs[id] = zoneRows[id]
    <3>1. CASE g \in cachedHorizons
      <4>1. byId[g] \in [ZoneIds -> Zone \cup {NoZone}]
        BY <1>3 DEF ZonesInv, IInv, TypeOK
      <4> QED BY <3>1, <4>1
    <3>2. CASE g \notin cachedHorizons
      BY <1>4, <1>5, <3>2, <1>3 DEF RowsOf
    <3> QED BY <3>1, <3>2
  <2> HIDE DEF zs
  <2>6. ASSUME NEW id \in ZoneIds PROVE \E n : KeptBy(id, n)'
    <3>1. PICK n : KeptBy(id, n)
      BY DEF ZonesInv, Kept
    <3>2. CASE id # i
      <4>1. rrCache'[id] = rrCache[id]
        BY <2>1, <3>2 DEF ZonesInv, IInv, TypeOK
      <4>2. ASSUME NEW h \in Holders(id)' PROVE byId'[h][id].name = n
        <5>1. h \in cachedHorizons \cup {g} /\ byId'[h][id] # NoZone
          BY <2>1 DEF Holders
        <5>2. CASE h = g
          BY <5>1, <5>2, <3>1, <3>2, <2>3, <2>5 DEF KeptBy, Holders
        <5>3. CASE h # g
          BY <5>1, <5>3, <3>1, <2>3, <2>4 DEF KeptBy, Holders
        <5> QED BY <5>2, <5>3
      <4> QED BY <3>1, <3>2, <4>1, <4>2, <1>5 DEF KeptBy
    <3>3. CASE id = i
      <4>1. rrCache'[i] = ReadRecords(Inserted(Cold, rs), rs, z, Types, fails)
        BY <1>1, <1>4, <2>1 DEF ZonesInv, IInv, TypeOK
      <4>2. Fits(z.name, rrCache'[i], rs) /\ Typed(rrCache'[i])
        BY <4>1, <1>2, BroughtFits
      <4>3. ASSUME NEW h \in Holders(i)' PROVE byId'[h][i].name = z.name
        <5>1. h \in cachedHorizons \cup {g} /\ byId'[h][i] # NoZone
          BY <2>1 DEF Holders
        <5>2. CASE h # g
          BY <5>1, <5>2, <1>1, <2>3, <2>4 DEF Holders
        <5>3. CASE h = g
          BY <5>3, <2>3, <2>5
        <5> QED BY <5>2, <5>3
      <4> QED BY <1>4, <3>3, <4>2, <4>3 DEF KeptBy
    <3> QED BY <3>2, <3>3
  <2>7. ASSUME NEW h \in cachedHorizons' PROVE Findable(h)'
    <3>1. CASE h # g
      <4>1. h \in cachedHorizons /\ byId'[h] = byId[h] /\ byName'[h] = byName[h]
        BY <2>1, <2>3, <2>4, <2>7, <3>1
      <4> QED BY <4>1 DEF ZonesInv, Found, Findable
    <3>2. CASE h = g /\ g \notin cachedHorizons
      <4>1. index \in Indexes(zs)
        BY <2>2, <3>2
      <4> QED BY <2>3, <3>2, <4>1, IndexesFound DEF Findable
    <3>3. CASE h = g /\ g \in cachedHorizons
      <4>1. byName[g] \in [Apexes -> ZoneIds \cup {NilId}]
        BY <1>3 DEF ZonesInv, IInv, TypeOK
      <4>2. index = [byName[g] EXCEPT ![z.name] = i]
        BY <2>2, <3>3
      <4>3. zs = [byId[g] EXCEPT ![i] = z]
        BY <3>3 DEF zs
      <4>4. byId[g] \in [ZoneIds -> Zone \cup {NoZone}]
        BY <1>3 DEF ZonesInv, IInv, TypeOK
      <4>5. byId[g][i] = NoZone
        BY <1>1, <3>3 DEF Holders
      <4>6. Findable(g)
        BY <3>3 DEF ZonesInv, Found
      <4> SUFFICES ASSUME NEW n \in Apexes, index[n] # NilId
                   PROVE  zs[index[n]] # NoZone /\ zs[index[n]].name = n
        BY <2>3, <3>3 DEF Findable
      <4>7. CASE n = z.name
        BY <4>1, <4>2, <4>7, <2>5, <1>3
      <4>8. CASE n # z.name
        <5>1. index[n] = byName[g][n] /\ byName[g][n] \in ZoneIds
          BY <4>1, <4>2, <4>8
        <5>2. byId[g][index[n]] # NoZone /\ byId[g][index[n]].name = n
          BY <5>1, <4>6 DEF Findable
        <5>3. zs[index[n]] = byId[g][index[n]]
          BY <4>3, <4>4, <4>5, <5>1, <5>2
        <5> QED BY <5>2, <5>3
      <4> QED BY <4>7, <4>8
    <3> QED BY <3>1, <3>2, <3>3
  <2> QED BY <2>6, <2>7 DEF Kept, Found
<1> QED BY <1>6, <1>7 DEF InsertZone

LEMMA UpdateZoneKept ==
    ASSUME ZonesInv, NEW i \in ZoneIds, NEW z \in Zone, NEW rs \in SUBSET Records,
           NEW fails, UpdateZone(i, z, rs, fails)
    PROVE  Kept' /\ Found'
<1> DEFINE g == z.horizon
<1>1. /\ recordRows' = IF rs = {} THEN recordRows ELSE [recordRows EXCEPT ![i] = rs]
      /\ zoneRows' = zoneRows
      /\ rs # {} => Valid(z.name, rs)
      /\ \E h \in Holders(i) : byId[h][i].name = z.name
  BY DEF UpdateZone
<1>2. z # NoZone /\ g \in Horizons /\ z.name \in Apexes
  BY StoreAssumption DEF Zone
<1>3. KeptBy(i, z.name)
  BY <1>1 DEF ZonesInv, Kept, KeptBy
<1>4. \A r \in recordRows'[i] : Belongs(z.name, r)
  <2>1. CASE rs = {}
    BY <1>1, <1>3, <2>1 DEF KeptBy, Fits
  <2>2. CASE rs # {}
    <3>1. recordRows'[i] = rs
      BY <1>1, <2>2 DEF ZonesInv, IInv, TypeOK
    <3> QED BY <1>1, <2>2, <3>1, ValidBelongs
  <2> QED BY <2>1, <2>2
<1>5. \A r \in rs : Belongs(z.name, r)
  BY <1>1, ValidBelongs
<1>6. \A id \in ZoneIds \ {i} : recordRows'[id] = recordRows[id]
  BY <1>1 DEF ZonesInv, IInv, TypeOK
<1>7. CASE g \notin cachedHorizons
  <2>1. Started(zoneRows)
    BY <1>7 DEF UpdateZone
  <2>2. ASSUME NEW id \in ZoneIds PROVE (\E n : KeptBy(id, n)') /\ Found'
    <3>1. PICK n : KeptBy(id, n)
      BY DEF ZonesInv, Kept
    <3>2. CASE id = i
      <4>1. zoneRows[id] # NoZone => zoneRows[id].name = z.name
        BY <1>3, <3>2 DEF KeptBy
      <4>2. KeptBy(id, z.name)' /\ Found'
        BY <1>1, <1>4, <2>1, <3>2, <4>1, StartedKept
      <4> QED BY <4>2
    <3>3. CASE id # i
      <4>1. \A r \in recordRows'[id] : Belongs(n, r)
        BY <1>6, <3>1, <3>3 DEF KeptBy, Fits
      <4>2. KeptBy(id, n)' /\ Found'
        BY <1>1, <2>1, <3>1, <4>1, StartedKept DEF KeptBy
      <4> QED BY <4>2
    <3> QED BY <3>2, <3>3
  <2> QED BY <2>2 DEF Kept
<1>8. CASE g \in cachedHorizons
  <2>1. /\ byId' = [byId EXCEPT ![g][i] = z]
        /\ byName' = [byName EXCEPT ![g][z.name] = i]
        /\ rrCache' = [rrCache EXCEPT ![i] =
                ReadRecords(Inserted(Cold, rs), recordRows'[i], z, Types, fails)]
        /\ cachedHorizons' = cachedHorizons
    BY <1>8 DEF UpdateZone
  <2>2. \A h \in Horizons, id \in ZoneIds :
           byId'[h][id] = IF h = g /\ id = i THEN z ELSE byId[h][id]
    BY <1>2, <2>1 DEF ZonesInv, IInv, TypeOK
  <2>3. \A h \in Horizons, n \in Apexes :
           byName'[h][n] = IF h = g /\ n = z.name THEN i ELSE byName[h][n]
    BY <1>2, <2>1 DEF ZonesInv, IInv, TypeOK
  <2>4. cachedHorizons \subseteq Horizons
    BY DEF ZonesInv, IInv, TypeOK
  <2>5. ASSUME NEW id \in ZoneIds PROVE \E n : KeptBy(id, n)'
    <3>1. PICK n : KeptBy(id, n)
      BY DEF ZonesInv, Kept
    <3>2. CASE id # i
      <4>1. rrCache'[id] = rrCache[id]
        BY <2>1, <3>2 DEF ZonesInv, IInv, TypeOK
      <4>2. \A h \in Holders(id)' : h \in Holders(id) /\ byId'[h][id] = byId[h][id]
        BY <2>1, <2>2, <2>4, <3>2 DEF Holders
      <4> QED BY <1>1, <1>6, <3>1, <3>2, <4>1, <4>2, LeftAlone
    <3>3. CASE id = i
      <4>1. rrCache'[i] = ReadRecords(Inserted(Cold, rs), recordRows'[i], z, Types, fails)
        BY <2>1 DEF ZonesInv, IInv, TypeOK
      <4>2. Fits(z.name, rrCache'[i], recordRows'[i]) /\ Typed(rrCache'[i])
        BY <4>1, <1>4, <1>5, BroughtFits
      <4>3. \A h \in Holders(i)' : byId'[h][i].name = z.name
        BY <1>3, <2>1, <2>2, <2>4 DEF Holders, KeptBy
      <4> QED BY <1>1, <1>3, <3>3, <4>2, <4>3 DEF KeptBy
    <3> QED BY <3>2, <3>3
  <2>6. ASSUME NEW h \in cachedHorizons', NEW n \in Apexes, byName'[h][n] # NilId
        PROVE  byId'[h][byName'[h][n]] # NoZone /\ byId'[h][byName'[h][n]].name = n
    <3>1. h \in cachedHorizons /\ h \in Horizons
      BY <2>1, <2>4
    <3>2. CASE h = g /\ n = z.name
      BY <1>2, <2>2, <2>3, <3>2
    <3>3. CASE ~(h = g /\ n = z.name)
      <4>1. byName'[h][n] = byName[h][n] /\ byName[h][n] \in ZoneIds
        BY <2>3, <2>6, <3>1, <3>3 DEF ZonesInv, IInv, TypeOK
      <4>2. byId[h][byName[h][n]] # NoZone /\ byId[h][byName[h][n]].name = n
        BY <2>6, <3>1, <4>1 DEF ZonesInv, Found, Findable
      <4>3. ~(h = g /\ byName[h][n] = i)
        <5>1. byName[h][n] = i => h \in Holders(i) /\ n = z.name
          BY <3>1, <4>2, <1>3 DEF Holders, KeptBy
        <5> QED BY <3>3, <5>1
      <4> QED BY <2>2, <3>1, <4>1, <4>2, <4>3
    <3> QED BY <3>2, <3>3
  <2> QED BY <2>5, <2>6 DEF Kept, Found, Findable
<1> QED BY <1>7, <1>8

LEMMA DeleteZoneKept ==
    ASSUME ZonesInv, NEW g \in Horizons, NEW i \in ZoneIds, DeleteZone(g, i)
    PROVE  Kept' /\ Found'
<1> DEFINE m == byId[g][i].name
<1>1. /\ zoneRows' = [zoneRows EXCEPT ![i] = NoZone]
      /\ recordRows' = [recordRows EXCEPT ![i] = {}]
      /\ rrCache' = [rrCache EXCEPT ![i] = Cold]
      /\ byId' = [byId EXCEPT ![g] = [@ EXCEPT ![i] = NoZone]]
      /\ byName' = [byName EXCEPT ![g][m] = NilId]
      /\ cachedHorizons' = cachedHorizons /\ g \in Holders(i)
  BY DEF DeleteZone, ErasedFrom
<1>2. \A h \in Horizons, id \in ZoneIds :
         byId'[h][id] = IF h = g /\ id = i THEN NoZone ELSE byId[h][id]
  <2> HIDE DEF m
  <2> QED BY <1>1 DEF ZonesInv, IInv, TypeOK
<1>3. \A h \in Horizons, n \in Apexes :
         byName'[h][n] = IF h = g /\ n = m THEN NilId ELSE byName[h][n]
  <2> HIDE DEF m
  <2> QED BY <1>1 DEF ZonesInv, IInv, TypeOK
<1>4. cachedHorizons \subseteq Horizons
  BY DEF ZonesInv, IInv, TypeOK
<1>5. ASSUME NEW id \in ZoneIds PROVE \E n : KeptBy(id, n)'
  <2>1. PICK n : KeptBy(id, n)
    BY DEF ZonesInv, Kept
  <2>2. \A h \in Holders(id)' : h \in Holders(id) /\ byId'[h][id] = byId[h][id]
    BY <1>1, <1>2, <1>4 DEF Holders
  <2>3. /\ zoneRows'[id] \in {zoneRows[id], NoZone}
        /\ \/ rrCache'[id] = rrCache[id] /\ recordRows'[id] = recordRows[id]
           \/ rrCache'[id] = Cold /\ recordRows'[id] = {}
    BY <1>1 DEF ZonesInv, IInv, TypeOK
  <2> QED BY <2>1, <2>2, <2>3, LeftAlone
<1>6. ASSUME NEW h \in cachedHorizons', NEW n \in Apexes, byName'[h][n] # NilId
      PROVE  byId'[h][byName'[h][n]] # NoZone /\ byId'[h][byName'[h][n]].name = n
  <2>1. h \in cachedHorizons /\ h \in Horizons /\ ~(h = g /\ n = m)
    BY <1>1, <1>3, <1>4, <1>6
  <2>2. byName'[h][n] = byName[h][n] /\ byName[h][n] \in ZoneIds
    BY <1>3, <1>6, <2>1 DEF ZonesInv, IInv, TypeOK
  <2>3. byId[h][byName[h][n]] # NoZone /\ byId[h][byName[h][n]].name = n
    BY <1>6, <2>1, <2>2 DEF ZonesInv, Found, Findable
  <2>4. ~(h = g /\ byName[h][n] = i)
    BY <2>1, <2>3
  <2> QED BY <1>2, <2>1, <2>2, <2>3, <2>4
<1> QED BY <1>5, <1>6 DEF Kept, Found, Findable

LEMMA DeleteHorizonKept ==
    ASSUME ZonesInv, NEW g \in Horizons, DeleteHorizon(g)
    PROVE  Kept' /\ Found'
<1> DEFINE gone == {id \in ZoneIds : g \in Holders(id)}
<1>1. /\ zoneRows' = [id \in ZoneIds |-> IF id \in gone THEN NoZone ELSE zoneRows[id]]
      /\ recordRows' = [id \in ZoneIds |-> IF id \in gone THEN {} ELSE recordRows[id]]
      /\ rrCache' = [id \in ZoneIds |-> IF id \in gone THEN Cold ELSE rrCache[id]]
      /\ byId' = [byId EXCEPT ![g] = NoZones]
      /\ byName' = [byName EXCEPT ![g] = NoNames]
      /\ cachedHorizons' = cachedHorizons
  BY DEF DeleteHorizon
<1>2. \A h \in Horizons : /\ byId'[h] = IF h = g THEN NoZones ELSE byId[h]
                          /\ byName'[h] = IF h = g THEN NoNames ELSE byName[h]
  BY <1>1 DEF ZonesInv, IInv, TypeOK
<1>3. cachedHorizons \subseteq Horizons
  BY DEF ZonesInv, IInv, TypeOK
<1> HIDE DEF gone
<1>4. ASSUME NEW id \in ZoneIds PROVE \E n : KeptBy(id, n)'
  <2>1. PICK n : KeptBy(id, n)
    BY DEF ZonesInv, Kept
  <2>2. \A h \in Holders(id)' : h \in Holders(id) /\ byId'[h][id] = byId[h][id]
    BY <1>1, <1>2, <1>3 DEF Holders, NoZones
  <2>3. /\ zoneRows'[id] \in {zoneRows[id], NoZone}
        /\ \/ rrCache'[id] = rrCache[id] /\ recordRows'[id] = recordRows[id]
           \/ rrCache'[id] = Cold /\ recordRows'[id] = {}
    BY <1>1
  <2> QED BY <2>1, <2>2, <2>3, LeftAlone
<1>5. ASSUME NEW h \in cachedHorizons' PROVE Findable(h)'
  <2>1. CASE h = g
    BY <1>1, <1>2, <1>3, <1>5, <2>1 DEF Findable, NoNames
  <2>2. CASE h # g
    BY <1>1, <1>2, <1>3, <1>5, <2>2 DEF ZonesInv, Found, Findable
  <2> QED BY <2>1, <2>2
<1> QED BY <1>4, <1>5 DEF Kept, Found

LEMMA NothingOfZones ==
    ASSUME ZonesInv, UNCHANGED <<zoneRows, recordRows, zoneCache, rrCache>>
    PROVE  Kept' /\ Found'
<1>1. UNCHANGED <<cachedHorizons, byId, byName>>
  BY DEF zoneCache
<1>2. Found'
  BY <1>1 DEF ZonesInv, Found, Findable
<1>3. \A id \in ZoneIds : Holders(id)' = Holders(id)
  BY <1>1 DEF Holders
<1>4. ASSUME NEW id \in ZoneIds PROVE \E n : KeptBy(id, n)'
  <2>1. PICK n : KeptBy(id, n)
    BY DEF ZonesInv, Kept
  <2> QED BY <1>1, <1>3, <2>1 DEF KeptBy
<1> QED BY <1>2, <1>4 DEF Kept

LEMMA ZonesStep == ZonesInv /\ [Next]_vars => ZonesInv'
<1> SUFFICES ASSUME ZonesInv, [Next]_vars PROVE Kept' /\ Found'
  BY InvStep DEF ZonesInv
<1>1. \A rs \in Payloads : rs \in SUBSET Records
  BY StoreAssumption
<1>2. ASSUME NEW h \in Horizons, NEW id \in ZoneIds, NEW ts \in Wanted,
             NEW fails \in Failures, Lookup(h, id, ts, fails)
      PROVE  Kept' /\ Found'
  BY <1>2, LookupKept
<1>3. ASSUME NEW id \in ZoneIds, GetResourceRecord(id)
      PROVE  Kept' /\ Found'
  BY <1>3, NothingOfZones DEF GetResourceRecord, database
<1>4. ASSUME Restart
      PROVE  Kept' /\ Found'
  <2>1. Started(zoneRows) /\ zoneRows' = zoneRows /\ recordRows' = recordRows
    BY <1>4 DEF Restart, database
  <2>2. ASSUME NEW id \in ZoneIds PROVE (\E n : KeptBy(id, n)') /\ Found'
    <3>1. PICK n : KeptBy(id, n)
      BY DEF ZonesInv, Kept
    <3>2. KeptBy(id, n)' /\ Found'
      BY <2>1, <3>1, StartedKept DEF KeptBy, Fits
    <3> QED BY <3>2
  <2>3. Found'
    <3>1. cachedHorizons' \subseteq Horizons
      BY <2>1 DEF Started, ZonesInv, IInv, TypeOK
    <3> QED BY <2>1, <3>1, IndexesFound DEF Started, Found, Findable
  <2> QED BY <2>2, <2>3 DEF Kept
<1>5. ASSUME NEW id \in ZoneIds, NEW z \in Zone, NEW rs \in Payloads,
             NEW fails \in Failures, InsertZone(id, z, rs, fails)
      PROVE  Kept' /\ Found'
  BY <1>1, <1>5, InsertZoneKept
<1>6. ASSUME NEW id \in ZoneIds, NEW z \in Zone, NEW rs \in Payloads,
             NEW fails \in Failures, UpdateZone(id, z, rs, fails)
      PROVE  Kept' /\ Found'
  BY <1>1, <1>6, UpdateZoneKept
<1>7. ASSUME NEW h \in Horizons, NEW id \in ZoneIds, DeleteZone(h, id)
      PROVE  Kept' /\ Found'
  BY <1>7, DeleteZoneKept
<1>8. ASSUME NEW id \in ZoneIds, NEW r \in Records, WriteRecord(id, r)
      PROVE  Kept' /\ Found'
  <2>1. Holders(FromJson(id, r).zone) = {}
    BY StoreAssumption DEF Holders, FromJson
  <2> QED BY <1>8, <2>1, NothingOfZones DEF WriteRecord
<1>9. ASSUME NEW h \in Horizons, InsertHorizon(h)
      PROVE  Kept' /\ Found'
  BY <1>9, NothingOfZones DEF InsertHorizon
<1>10. ASSUME NEW h \in Horizons, DeleteHorizon(h)
       PROVE  Kept' /\ Found'
  BY <1>10, DeleteHorizonKept
<1>11. CASE UNCHANGED vars
  BY <1>11, NothingOfZones DEF vars, database
<1> QED BY <1>2, <1>3, <1>4, <1>5, <1>6, <1>7, <1>8, <1>9, <1>10, <1>11 DEF Next

LEMMA ZonesInit == AuthorityInit => ZonesInv
<1> SUFFICES ASSUME AuthorityInit PROVE ZonesInv
  OBVIOUS
<1>1. PICK db \in Databases : zoneRows = db.zones /\ recordRows = db.records
  BY DEF AuthorityInit
<1>2. TypeOK
  <2>1. zoneRows \in [ZoneIds -> Zone \cup {NoZone}] /\ recordRows \in [ZoneIds -> SUBSET Records]
    BY <1>1, AuthorityAssumption
  <2>2. byId \in [Horizons -> [ZoneIds -> Zone \cup {NoZone}]]
    BY <2>1, RowsOfType DEF AuthorityInit
  <2> QED BY <2>1, <2>2, RowsOfType, ColdType, StoreAssumption DEF AuthorityInit, TypeOK, Lists
<1>3. \A h \in cachedHorizons : h \in Horizons /\ byId[h] = RowsOf(zoneRows, h)
  BY <1>2 DEF AuthorityInit, TypeOK
<1>4. \A id \in ZoneIds : rrCache[id] = Cold
  BY DEF AuthorityInit
<1>5. ASSUME NEW id \in ZoneIds \ astray PROVE Agreeing(id)
  <2>1. AgreeingLists(id) /\ ColdUnlessHeld(id)
    BY <1>4 DEF AgreeingLists, ColdUnlessHeld, Cold
  <2>2. ASSUME NEW h \in cachedHorizons, byId[h][id] # NoZone
        PROVE  byName[h][byId[h][id].name] = id
    <3>1. byName[h] \in Indexes(RowsOf(zoneRows, h)) /\ id \notin Namesakes(zoneRows)
      BY <1>3, <2>2 DEF AuthorityInit
    <3>2. byId[h][id].name \in Apexes
      BY <1>2, <1>3, <2>2 DEF TypeOK, Zone
    <3> QED BY <1>3, <2>2, <3>1, <3>2, IndexedOnce
  <2>3. AgreeingEntries(id)
    BY <1>3, <2>2 DEF AgreeingEntries
  <2> QED BY <2>1, <2>3 DEF Agreeing
<1>6. Found
  BY <1>3, IndexesFound DEF AuthorityInit, Found, Findable
<1>7. ASSUME NEW id \in ZoneIds PROVE \E n : KeptBy(id, n)
  <2> DEFINE n == zoneRows[id].name
  <2>1. \A r \in recordRows[id] : Belongs(n, r)
    <3>1. recordRows[id] = {} \/ Valid(n, recordRows[id])
      BY <1>1, AuthorityAssumption
    <3> HIDE DEF n
    <3> QED BY <3>1, ValidBelongs
  <2>2. ASSUME NEW h \in Holders(id) PROVE byId[h][id].name = n
    <3>1. byId[h] = RowsOf(zoneRows, h) /\ byId[h][id] # NoZone
      BY <1>3 DEF Holders
    <3>2. byId[h][id] = zoneRows[id]
      BY <3>1 DEF RowsOf
    <3> QED BY <3>2
  <2>3. Fits(n, rrCache[id], recordRows[id]) /\ Typed(rrCache[id])
    BY <1>4, <2>1, ColdFits
  <2>4. KeptBy(id, n)
    BY <2>2, <2>3 DEF KeptBy
  <2> QED BY <2>4
<1> QED BY <1>2, <1>5, <1>6, <1>7 DEF ZonesInv, IInv, Kept

----------------------------------------------------------------------------
(* Numbers, and the names of which one is a suffix of the other.           *)

LEMMA Least ==
    ASSUME NEW T, T \subseteq Nat, T # {}
    PROVE  \E m \in T : \A i \in T : m =< i
<1>1. PICK m \in T : \A i \in T : <<i, m>> \notin OpToRel(<, Nat)
  BY WFMin, NatLessThanWellFounded
<1>2. \A i \in T : ~(i < m)
  BY <1>1 DEF OpToRel
<1> QED BY <1>2

LEMMA Greatest ==
    ASSUME NEW k \in Nat, NEW T, T \subseteq 0..k, T # {}
    PROVE  \E m \in T : \A i \in T : i =< m
<1> DEFINE B == {k - i : i \in T}
<1>1. B \subseteq Nat /\ B # {}
  <2>1. \A i \in T : i \in 0..k /\ k - i \in Nat
    OBVIOUS
  <2> QED BY <2>1
<1>2. \A i \in T : k - i \in B
  OBVIOUS
<1> HIDE DEF B
<1>3. PICK b \in B : \A i \in B : b =< i
  BY <1>1, Least
<1>4. PICK m \in T : b = k - m
  BY <1>3 DEF B
<1> QED BY <1>2, <1>3, <1>4

LEMMA SuffixProperties ==
    ASSUME NEW S, NEW n \in Seq(S), NEW k \in 0..Len(n)
    PROVE  /\ Suffix(n, k) \in Seq(S)
           /\ Len(Suffix(n, k)) = k
           /\ \A i \in 1..k : Suffix(n, k)[i] = n[Len(n) - k + i]
<1> DEFINE m == Len(n) - k + 1
<1>1. Len(n) \in Nat /\ m \in Int /\ m =< Len(n) + 1
  BY LenProperties
<1>2. \A i \in m..Len(n) : n[i] \in S
  BY <1>1, ElementOfSeq
<1> HIDE DEF m
<1>3. /\ SubSeq(n, m, Len(n)) \in Seq(S)
      /\ Len(SubSeq(n, m, Len(n))) = IF m =< Len(n) THEN Len(n) - m + 1 ELSE 0
      /\ \A i \in 1..(Len(n) - m + 1) : SubSeq(n, m, Len(n))[i] = n[m + i - 1]
  BY <1>1, <1>2, SubSeqProperties
<1> QED BY <1>1, <1>3 DEF Suffix, m

LEMMA SuffixFull ==
    ASSUME NEW S, NEW n \in Seq(S)
    PROVE  Suffix(n, Len(n)) = n
<1>1. Len(n) \in Nat /\ Len(n) - Len(n) + 1 = 1
  BY LenProperties
<1> QED BY <1>1, SubSeqFull DEF Suffix

LEMMA SameRefl == ASSUME NEW n PROVE Same(n, n)
BY DEF Same

LEMMA SameSym ==
    ASSUME NEW S, NEW n \in Seq(S), NEW m \in Seq(S), Same(n, m) PROVE Same(m, n)
BY LenProperties DEF Same

LEMMA SameTrans ==
    ASSUME NEW S, NEW n \in Seq(S), NEW m \in Seq(S), NEW l \in Seq(S),
           Same(n, m), Same(m, l)
    PROVE  Same(n, l)
BY LenProperties DEF Same

LEMMA SameSuffix ==
    ASSUME NEW S, NEW n \in Seq(S), NEW m \in Seq(S), Same(n, m), NEW k \in 0..Len(n)
    PROVE  Same(Suffix(n, k), Suffix(m, k))
<1>1. Len(n) = Len(m) /\ Len(n) \in Nat /\ \A i \in 1..Len(n) : Folded[n[i]] = Folded[m[i]]
  BY LenProperties DEF Same
<1>2. /\ Suffix(n, k) \in Seq(S) /\ Len(Suffix(n, k)) = k
      /\ \A i \in 1..k : Suffix(n, k)[i] = n[Len(n) - k + i]
  BY SuffixProperties
<1>3. /\ Suffix(m, k) \in Seq(S) /\ Len(Suffix(m, k)) = k
      /\ \A i \in 1..k : Suffix(m, k)[i] = m[Len(m) - k + i]
  <2>1. k \in 0..Len(m)
    BY <1>1
  <2> QED BY <2>1, SuffixProperties
<1>4. DOMAIN Suffix(n, k) = 1..k
  BY <1>2, LenProperties
<1>5. ASSUME NEW i \in 1..k PROVE Folded[Suffix(n, k)[i]] = Folded[Suffix(m, k)[i]]
  <2>1. Len(n) - k + i \in 1..Len(n) /\ Len(n) - k + i = Len(m) - k + i
    BY <1>1
  <2>2. Folded[n[Len(n) - k + i]] = Folded[m[Len(m) - k + i]]
    BY <1>1, <2>1
  <2> QED BY <1>2, <1>3, <2>2
<1> QED BY <1>2, <1>3, <1>4, <1>5 DEF Same

\* What holds of a name holds of it in another case.
LEMMA WildcardSame ==
    ASSUME NEW S, NEW this \in Seq(S), NEW n \in Seq(S), NEW m \in Seq(S),
           Same(n, m), WildcardEquals(this, n)
    PROVE  WildcardEquals(this, m)
<1>1. CASE Same(this, n)
  BY <1>1, SameTrans DEF WildcardEquals
<1>2. CASE /\ this # <<>> /\ Head(this) = Wildcard /\ Len(n) >= Len(this)
           /\ Same(Suffix(n, Len(this) - 1), Tail(this))
  <2> DEFINE k == Len(this) - 1
  <2>1. Len(n) = Len(m) /\ Len(n) \in Nat /\ k \in 0..Len(n)
    BY <1>2, LenProperties, EmptySeq DEF Same
  <2> HIDE DEF k
  <2>2. Same(Suffix(m, k), Suffix(n, k))
    BY <2>1, SameSuffix, SameSym
  <2>3. Suffix(m, k) \in Seq(S) /\ Suffix(n, k) \in Seq(S) /\ Tail(this) \in Seq(S)
    BY <1>2, <2>1, SuffixProperties, HeadTailProperties
  <2>4. Same(Suffix(m, k), Tail(this))
    <3>1. Same(Suffix(n, k), Tail(this))
      BY <1>2 DEF k
    <3> QED BY <2>2, <2>3, <3>1, SameTrans
  <2> QED BY <1>2, <2>1, <2>4 DEF WildcardEquals, k
<1> QED BY <1>1, <1>2 DEF WildcardEquals

\* A proper ancestor is above.
LEMMA AncestorAbove ==
    ASSUME NEW S, NEW n \in Seq(S), NEW a \in Ancestors(n)
    PROVE  /\ a \in Seq(S) /\ Len(a) \in 0..Len(n)
           /\ a # n => IsSubdomainOf(n, a)
<1>1. PICK k \in 0..Len(n) : a = Suffix(n, k)
  BY DEF Ancestors
<1>2. a \in Seq(S) /\ Len(a) = k /\ Len(n) \in Nat
  BY <1>1, SuffixProperties, LenProperties
<1>3. a # n => k # Len(n)
  BY <1>1, SuffixFull
<1> QED BY <1>1, <1>2, <1>3, SameRefl DEF IsSubdomainOf

LEMMA LongestIn ==
    ASSUME NEW S, NEW n \in Seq(S), NEW ns, ns \subseteq Ancestors(n), ns # {}
    PROVE  Longest(ns) \in ns
<1> DEFINE T == {Len(a) : a \in ns}
<1>1. Len(n) \in Nat /\ T \subseteq 0..Len(n) /\ T # {}
  <2>1. \A a \in ns : Len(a) \in 0..Len(n)
    BY AncestorAbove
  <2>2. Len(n) \in Nat
    BY LenProperties
  <2> QED BY <2>1, <2>2, Zenon
<1>2. \A a \in ns : Len(a) \in T
  OBVIOUS
<1>3. \A m \in T : \E a \in ns : m = Len(a)
  OBVIOUS
<1> HIDE DEF T
<1>4. PICK m \in T : \A i \in T : i =< m
  BY <1>1, Greatest
<1>5. PICK a \in ns : m = Len(a)
  BY <1>3
<1>6. \A b \in ns : Len(b) =< Len(a)
  BY <1>2, <1>4, <1>5
<1> QED BY <1>6 DEF Longest

----------------------------------------------------------------------------
(* Where a chain leads.                                                    *)

LEMMA LedToLast ==
    ASSUME NEW n, NEW c, NEW k \in Nat \ {0}, c[k].type = "CNAME"
    PROVE  LedTo(n, c, k) = c[k].to
<1> DEFINE A == {i \in 1..k : c[i].type = "CNAME"}
           m == CHOOSE i \in A : \A j \in A : j =< i
<1>1. k \in A /\ \A j \in A : j =< k
  OBVIOUS
<1>2. A # {} /\ m \in A /\ (\A j \in A : j =< m)
  BY <1>1
<1>3. m = k
  <2>1. m \in 1..k /\ k =< m
    BY <1>1, <1>2
  <2> QED BY <2>1
<1> QED BY <1>2, <1>3 DEF LedTo

\* Of two chains that begin alike the beginnings lead alike.
LEMMA LedToAlike ==
    ASSUME NEW n, NEW c, NEW d, NEW k \in Nat, \A i \in 1..k : c[i] = d[i]
    PROVE  LedTo(n, c, k) = LedTo(n, d, k)
<1> DEFINE A == {i \in 1..k : c[i].type = "CNAME"}
           B == {i \in 1..k : d[i].type = "CNAME"}
           last(s) == CHOOSE i \in s : \A j \in s : j =< i
<1>1. A = B /\ A \subseteq 0..k
  OBVIOUS
<1>2. /\ LedTo(n, c, k) = IF A = {} THEN n ELSE c[last(A)].to
      /\ LedTo(n, d, k) = IF B = {} THEN n ELSE d[last(B)].to
  BY DEF LedTo
<1>3. A # {} => c[last(A)] = d[last(A)]
  <2>1. A # {} => last(A) \in A
    <3> HIDE DEF A
    <3> QED BY <1>1, Greatest
  <2> HIDE DEF last
  <2> QED BY <2>1
<1> HIDE DEF A, B, last
<1> QED BY <1>1, <1>2, <1>3

\* A record that is no alias leads nowhere else.
LEMMA LedToPast ==
    ASSUME NEW n, NEW c, NEW k \in Nat \ {0}, c[k].type # "CNAME"
    PROVE  LedTo(n, c, k) = LedTo(n, c, k - 1)
<1> DEFINE A == {i \in 1..k : c[i].type = "CNAME"}
           B == {i \in 1..(k - 1) : c[i].type = "CNAME"}
           last(s) == CHOOSE i \in s : \A j \in s : j =< i
<1>1. A = B
  OBVIOUS
<1>2. /\ LedTo(n, c, k) = IF A = {} THEN n ELSE c[last(A)].to
      /\ LedTo(n, c, k - 1) = IF B = {} THEN n ELSE c[last(B)].to
  BY DEF LedTo
<1> HIDE DEF A, B, last
<1> QED BY <1>1, <1>2

LEMMA LedToNone == ASSUME NEW n, NEW c PROVE LedTo(n, c, 0) = n
<1>1. {i \in 1..0 : c[i].type = "CNAME"} = {}
  OBVIOUS
<1> QED BY <1>1 DEF LedTo

\* What is known of the end of a chain that began at n.
Led(n, end) ==
    /\ end.name \in Names
    /\ end.chain \in Seq(ResourceRecord)
    /\ LedTo(n, end.chain, Len(end.chain)) = end.name
    /\ ChainLeads(n, end.chain)
    /\ \A r \in end.applied : \E i \in DOMAIN end.chain : end.chain[i] = r
    /\ end.state = "loop" => Loops(end.chain, end.name)

\* A pointer at a name.
PointsFrom(n, r) ==
    \/ r \in {NoRecord, Throws}
    \/ /\ r \in ResourceRecord
       /\ \/ r.type = "CNAME" /\ r.name = n
          \/ r.type = "DNAME" /\ r.name \in Names /\ IsSubdomainOf(n, r.name)

End == [name : Names, applied : SUBSET ResourceRecord, chain : Seq(ResourceRecord),
        state : {"on", "found", "fails", "loop"}]

LEMMA AliasLed ==
    ASSUME NEW n, NEW end \in End, Led(n, end),
           NEW r \in ResourceRecord, r.type = "CNAME", r.name = end.name,
           end.state # "loop"
    PROVE  Alias(end, r) \in End /\ Led(n, Alias(end, r))
<1> DEFINE c == end.chain
           d == Append(c, r)
           new == Alias(end, r)
<1>1. /\ new.name = r.to /\ new.applied = end.applied \cup {r}
      /\ new.chain = d /\ new.state = end.state /\ new \in End
  <2>1. new = [end EXCEPT !.name = r.to, !.applied = @ \cup {r}, !.chain = Append(@, r)]
    BY DEF Alias
  <2>2. r.to \in Names /\ end.applied \cup {r} \in SUBSET ResourceRecord
    BY DEF End, ResourceRecord
  <2>3. d \in Seq(ResourceRecord)
    BY DEF End
  <2> HIDE DEF d, new
  <2>4. Append(end.chain, r) = d
    BY DEF d
  <2> QED BY <2>1, <2>2, <2>3, <2>4 DEF End
<1>2. c \in Seq(ResourceRecord) /\ Len(c) \in Nat
  BY LenProperties DEF End
<1>3. /\ d \in Seq(ResourceRecord) /\ Len(d) = Len(c) + 1 /\ d[Len(c) + 1] = r
      /\ DOMAIN d = 1..(Len(c) + 1) /\ DOMAIN c = 1..Len(c)
      /\ \A i \in 1..Len(c) : d[i] = c[i]
  BY <1>2, LenProperties
<1> HIDE DEF c, d, new
<1>4. \A k \in 0..Len(c) : LedTo(n, d, k) = LedTo(n, c, k)
  BY <1>2, <1>3, LedToAlike
<1>5. LedTo(n, d, Len(d)) = r.to
  BY <1>2, <1>3, LedToLast
<1>6. LedTo(n, c, Len(c)) = r.name /\ ChainLeads(n, c)
  BY DEF Led, c
<1>7. ChainLeads(n, d)
  <2> SUFFICES ASSUME NEW i \in 1..(Len(c) + 1)
               PROVE  IF d[i].type = "DNAME"
                      THEN /\ IsSubdomainOf(LedTo(n, d, i - 1), d[i].name)
                           /\ i < Len(d) /\ d[i + 1].type = "CNAME"
                      ELSE Same(d[i].name, LedTo(n, d, i - 1))
    BY <1>3 DEF ChainLeads
  <2>1. CASE i = Len(c) + 1
    <3>1. LedTo(n, d, i - 1) = r.name /\ d[i] = r
      BY <1>2, <1>3, <1>4, <1>6, <2>1
    <3> QED BY <3>1, SameRefl
  <2>2. CASE i \in 1..Len(c)
    <3>1. d[i] = c[i] /\ LedTo(n, d, i - 1) = LedTo(n, c, i - 1)
      BY <1>2, <1>3, <1>4, <2>2
    <3>2. i < Len(c) => d[i + 1] = c[i + 1] /\ i < Len(d)
      BY <1>2, <1>3, <2>2
    <3> QED BY <1>3, <1>6, <2>2, <3>1, <3>2 DEF ChainLeads
  <2> QED BY <1>2, <2>1, <2>2
<1>8. \A s \in new.applied : \E i \in DOMAIN d : d[i] = s
  <2>1. \A s \in end.applied : \E i \in 1..Len(c) : c[i] = s
    BY <1>3 DEF Led, c
  <2> QED BY <1>1, <1>2, <1>3, <2>1
<1> QED BY <1>1, <1>3, <1>5, <1>7, <1>8 DEF Led, ResourceRecord, new

LEMMA ApplyDnameName ==
    ASSUME NEW n \in Names, NEW from \in Names, NEW to \in Names
    PROVE  ApplyDname(n, from, to) \in Names
<1> DEFINE m == Len(n) - Len(from)
<1>1. Len(n) \in Nat /\ Len(from) \in Nat /\ m \in Int /\ m =< Len(n)
  BY LenProperties DEF Names
<1>2. \A i \in 1..m : n[i] \in Labels
  BY <1>1, ElementOfSeq DEF Names
<1> HIDE DEF m
<1>3. SubSeq(n, 1, m) \in Seq(Labels)
  BY <1>1, <1>2, SubSeqProperties
<1> QED BY <1>3, ConcatProperties DEF ApplyDname, Names, m

LEMMA RenameLed ==
    ASSUME NEW n, NEW end \in End, Led(n, end),
           NEW r \in ResourceRecord, r.type = "DNAME", IsSubdomainOf(end.name, r.name),
           end.state # "loop"
    PROVE  Rename(end, r) \in End /\ Led(n, Rename(end, r))
<1> DEFINE c == end.chain
           made == [type |-> "CNAME", name |-> end.name,
                    to |-> ApplyDname(end.name, r.name, r.to)]
           d == c \o <<r, made>>
           new == Rename(end, r)
<1>0. made \in ResourceRecord /\ made.type = "CNAME" /\ made.name = end.name /\ made.to \in Names
  <2>1. ApplyDname(end.name, r.name, r.to) \in Names /\ end.name \in Names
    BY ApplyDnameName DEF End, ResourceRecord
  <2>2. "CNAME" \in Types
    BY DEF Types, ReadOrder
  <2> QED BY <2>1, <2>2 DEF ResourceRecord
<1>1. new = [end EXCEPT !.name = made.to, !.applied = @ \cup {r}, !.chain = @ \o <<r, made>>]
  BY DEF Rename, Made
<1> HIDE DEF made, new
<1>2. c \in Seq(ResourceRecord) /\ Len(c) \in Nat
  BY LenProperties DEF End
<1>3. /\ <<r, made>> \in Seq(ResourceRecord) /\ Len(<<r, made>>) = 2
      /\ <<r, made>>[1] = r /\ <<r, made>>[2] = made
  BY <1>0
<1>4. /\ d \in Seq(ResourceRecord) /\ Len(d) = Len(c) + 2
      /\ d[Len(c) + 1] = r /\ d[Len(c) + 2] = made
      /\ DOMAIN d = 1..(Len(c) + 2) /\ DOMAIN c = 1..Len(c)
      /\ \A i \in 1..Len(c) : d[i] = c[i]
  <2> DEFINE e == <<r, made>>
  <2>1. e \in Seq(ResourceRecord) /\ Len(e) = 2 /\ e[1] = r /\ e[2] = made
    BY <1>3
  <2> HIDE DEF e, c
  <2>2. /\ c \o e \in Seq(ResourceRecord) /\ Len(c \o e) = Len(c) + Len(e)
        /\ \A i \in 1..(Len(c) + Len(e)) : (c \o e)[i] = IF i <= Len(c) THEN c[i] ELSE e[i - Len(c)]
    BY <1>2, <2>1, ConcatProperties
  <2>3. DOMAIN (c \o e) = 1..Len(c \o e) /\ DOMAIN c = 1..Len(c)
    BY <1>2, <2>2, LenProperties
  <2>4. (c \o e)[Len(c) + 1] = e[1] /\ (c \o e)[Len(c) + 2] = e[2]
    BY <1>2, <2>1, <2>2
  <2>5. \A i \in 1..Len(c) : (c \o e)[i] = c[i]
    BY <1>2, <2>1, <2>2
  <2> QED BY <2>1, <2>2, <2>3, <2>4, <2>5 DEF e
<1>5. /\ new.name = made.to /\ new.applied = end.applied \cup {r}
      /\ new.chain = d /\ new.state = end.state /\ new \in End
  BY <1>0, <1>1, <1>4 DEF End
<1> HIDE DEF c, d
<1>6. \A k \in 0..Len(c) : LedTo(n, d, k) = LedTo(n, c, k)
  BY <1>2, <1>4, LedToAlike
<1>7. LedTo(n, d, Len(d)) = made.to
  BY <1>0, <1>2, <1>4, LedToLast
<1>8. LedTo(n, c, Len(c)) = end.name /\ ChainLeads(n, c)
  BY DEF Led, c
<1>9. LedTo(n, d, Len(c) + 1) = end.name
  <2>1. LedTo(n, d, Len(c) + 1) = LedTo(n, d, (Len(c) + 1) - 1)
    BY <1>2, <1>4, LedToPast
  <2> QED BY <1>2, <1>6, <1>8, <2>1
<1>10. ChainLeads(n, d)
  <2> SUFFICES ASSUME NEW i \in 1..(Len(c) + 2)
               PROVE  IF d[i].type = "DNAME"
                      THEN /\ IsSubdomainOf(LedTo(n, d, i - 1), d[i].name)
                           /\ i < Len(d) /\ d[i + 1].type = "CNAME"
                      ELSE Same(d[i].name, LedTo(n, d, i - 1))
    BY <1>4 DEF ChainLeads
  <2>1. CASE i = Len(c) + 2
    <3>1. LedTo(n, d, i - 1) = end.name /\ d[i] = made
      BY <1>2, <1>4, <1>9, <2>1
    <3> QED BY <1>0, <3>1, SameRefl
  <2>2. CASE i = Len(c) + 1
    <3>1. LedTo(n, d, i - 1) = end.name /\ d[i] = r /\ d[i + 1] = made /\ i < Len(d)
      BY <1>2, <1>4, <1>6, <1>8, <2>2
    <3> QED BY <1>0, <3>1
  <2>3. CASE i \in 1..Len(c)
    <3>1. d[i] = c[i] /\ LedTo(n, d, i - 1) = LedTo(n, c, i - 1)
      BY <1>2, <1>4, <1>6, <2>3
    <3>2. i < Len(c) => d[i + 1] = c[i + 1] /\ i < Len(d)
      BY <1>2, <1>4, <2>3
    <3> QED BY <1>4, <1>8, <2>3, <3>1, <3>2 DEF ChainLeads
  <2> QED BY <1>2, <2>1, <2>2, <2>3
<1>11. \A s \in new.applied : \E i \in DOMAIN d : d[i] = s
  <2>1. \A s \in end.applied : \E i \in 1..Len(c) : c[i] = s
    BY <1>4 DEF Led, c
  <2> QED BY <1>2, <1>4, <1>5, <2>1
<1> QED BY <1>0, <1>4, <1>5, <1>7, <1>10, <1>11 DEF Led, new

LEMMA ApplyLed ==
    ASSUME NEW n, NEW end \in End, Led(n, end), end.state = "on",
           NEW r, PointsFrom(end.name, r)
    PROVE  Apply(end, r) \in End /\ Led(n, Apply(end, r))
<1>0. NoRecord \notin end.applied /\ Throws \notin end.applied /\ NoRecord # Throws
  <2>1. NoRecord.type \notin Types /\ Throws.type \notin Types /\ NoRecord # Throws
    BY DEF NoRecord, Throws, Types, ReadOrder
  <2>2. \A s \in end.applied : s.type \in Types
    BY DEF End, ResourceRecord
  <2> QED BY <2>1, <2>2
<1>1. CASE r = NoRecord
  <2>1. Apply(end, r) = [end EXCEPT !.state = "found"]
    <3>1. r.type # "CNAME" /\ r.type # "DNAME" /\ r # Throws /\ r \notin end.applied
      BY <1>0, <1>1 DEF NoRecord
    <3> QED BY <1>1, <3>1 DEF Apply
  <2> QED BY <2>1 DEF End, Led
<1>2. CASE r = Throws
  <2>1. Apply(end, r) = [end EXCEPT !.state = "fails"]
    <3>1. r.type # "CNAME" /\ r.type # "DNAME" /\ r # NoRecord /\ r \notin end.applied
      BY <1>0, <1>2 DEF Throws
    <3> QED BY <1>2, <3>1 DEF Apply
  <2> QED BY <2>1 DEF End, Led
<1>3. CASE r \in end.applied /\ r \notin {NoRecord, Throws}
  <2>1. Apply(end, r) = [end EXCEPT !.state = "loop"]
    BY <1>3 DEF Apply
  <2>2. PICK i \in DOMAIN end.chain : end.chain[i] = r
    BY <1>3 DEF Led
  <2>3. Loops(end.chain, end.name)
    BY <1>3, <2>2 DEF PointsFrom, Loops
  <2> QED BY <2>1, <2>3 DEF End, Led
<1>4. CASE r \notin end.applied /\ r \notin {NoRecord, Throws}
  <2>1. CASE r.type = "CNAME"
    <3>1. Apply(end, r) = Alias(end, r)
      BY <1>4, <2>1 DEF Apply
    <3> QED BY <1>4, <2>1, <3>1, AliasLed DEF PointsFrom
  <2>2. CASE r.type = "DNAME"
    <3>1. Apply(end, r) = Rename(end, r)
      BY <1>4, <2>2 DEF Apply
    <3> QED BY <1>4, <2>2, <3>1, RenameLed DEF PointsFrom
  <2> QED BY <1>4, <2>1, <2>2 DEF PointsFrom
<1> QED BY <1>1, <1>2, <1>3, <1>4

----------------------------------------------------------------------------
(* What the lookups find.                                                  *)

LEMMA InCaseName ==
    ASSUME NEW n \in Names
    PROVE  /\ InCase(n) \in Seq({Folded[l] : l \in Labels})
           /\ Len(InCase(n)) = Len(n)
<1>1. Len(n) \in Nat /\ DOMAIN n = 1..Len(n) /\ \A i \in 1..Len(n) : n[i] \in Labels
  BY LenProperties DEF Names
<1>2. InCase(n) \in [1..Len(n) -> {Folded[l] : l \in Labels}]
  BY <1>1 DEF InCase
<1>3. InCase(n) \in Seq({Folded[l] : l \in Labels})
  BY <1>1, <1>2, SeqDef
<1>4. DOMAIN InCase(n) = 1..Len(n) /\ DOMAIN InCase(n) = 1..Len(InCase(n)) /\ Len(InCase(n)) \in Nat
  BY <1>2, <1>3, LenProperties
<1> QED BY <1>1, <1>3, <1>4

\* The zone found for a name is one that the horizon has.
LEMMA ZoneOfHeld ==
    ASSUME ZonesInv, NEW h \in cachedHorizons, NEW n \in Names
    PROVE  \/ ZoneOf(h, n) = NilId
           \/ ZoneOf(h, n) \in ZoneIds /\ h \in Holders(ZoneOf(h, n))
<1> DEFINE above == {m \in Ancestors(InCase(n)) \cap Apexes : byName[h][m] # NilId}
<1>1. CASE above = {}
  BY <1>1 DEF ZoneOf
<1>2. CASE above # {}
  <2>1. above \subseteq Ancestors(InCase(n)) /\ above \subseteq Apexes
    OBVIOUS
  <2>2. Longest(above) \in above
    <3> HIDE DEF above
    <3> QED BY <1>2, <2>1, InCaseName, LongestIn
  <2>3. ZoneOf(h, n) = byName[h][Longest(above)]
    BY <1>2 DEF ZoneOf
  <2> DEFINE m == Longest(above)
  <2>4. m \in Apexes /\ byName[h][m] # NilId
    BY <2>2
  <2> HIDE DEF m
  <2>5. h \in Horizons /\ byName[h][m] \in ZoneIds
    BY <2>4 DEF ZonesInv, IInv, TypeOK
  <2>6. byId[h][byName[h][m]] # NoZone
    BY <2>4 DEF ZonesInv, Found, Findable
  <2> QED BY <2>3, <2>5, <2>6 DEF Holders, m
<1> QED BY <1>1, <1>2

\* The lists of a zone: records of its type that belong to it.
LEMMA ListedBelongs ==
    ASSUME ZonesInv, NEW id \in ZoneIds, NEW h \in Holders(id), NEW t \in Types,
           NEW r \in Listed(h, id, t)
    PROVE  /\ r \in Records /\ r \in ResourceRecord /\ r.type = t
           /\ Belongs(Apex(h, id), r)
<1>1. PICK n : KeptBy(id, n)
  BY DEF ZonesInv, Kept
<1>2. Apex(h, id) = n
  BY <1>1 DEF Apex, KeptBy
<1>3. CASE rrCache[id][t] # Unread
  <2>1. r \in rrCache[id][t] /\ rrCache[id][t] \in SUBSET Records
    BY <1>3 DEF Listed, ZonesInv, IInv, TypeOK
  <2> QED BY <1>1, <1>2, <1>3, <2>1, AuthorityAssumption DEF KeptBy, Fits, Typed
<1>4. CASE rrCache[id][t] = Unread
  <2>1. r \in recordRows[id] /\ r.type = t /\ recordRows[id] \in SUBSET Records
    BY <1>4 DEF Listed, OfType, ZonesInv, IInv, TypeOK
  <2> QED BY <1>1, <1>2, <2>1, AuthorityAssumption DEF KeptBy, Fits
<1> QED BY <1>3, <1>4

\* For a zone that is not astray they are what the database has.
LEMMA ListedRight ==
    ASSUME ZonesInv, NEW id \in ZoneIds \ astray, NEW h \in Holders(id), NEW t \in Types
    PROVE  Listed(h, id, t) = IF Forwarded(h, id) THEN {} ELSE OfType(recordRows[id], t)
BY DEF ZonesInv, IInv, Agreeing, AgreeingLists, Content, Listed, Forwarded

LEMMA GetCNAMEPoints ==
    ASSUME ZonesInv, NEW id \in ZoneIds, NEW h \in Holders(id), NEW n \in Names,
           GetCNAME(h, id, n) # NoRecord
    PROVE  /\ GetCNAME(h, id, n) \in ResourceRecord
           /\ GetCNAME(h, id, n).type = "CNAME" /\ GetCNAME(h, id, n).name = n
<1> DEFINE cnames == Listed(h, id, "CNAME")
           exact == {r \in cnames : r.name = n}
           wild == {r \in cnames : WildcardEquals(r.name, n)}
           one == CHOOSE r \in exact : TRUE
           other == CHOOSE r \in wild : TRUE
<1>1. "CNAME" \in Types
  BY DEF Types, ReadOrder
<1>2. \A r \in cnames : r \in ResourceRecord /\ r.type = "CNAME"
  BY <1>1, ListedBelongs
<1>3. CASE exact # {}
  <2>1. one \in exact
    BY <1>3
  <2>2. GetCNAME(h, id, n) = one
    BY <1>3 DEF GetCNAME
  <2> HIDE DEF one
  <2> QED BY <1>2, <2>1, <2>2
<1>4. CASE exact = {} /\ wild # {}
  <2>1. other \in wild
    BY <1>4
  <2>2. GetCNAME(h, id, n) = [other EXCEPT !.name = n]
    BY <1>4 DEF GetCNAME
  <2> HIDE DEF other
  <2>3. other \in ResourceRecord /\ other.type = "CNAME"
    BY <1>2, <2>1
  <2> QED BY <2>2, <2>3 DEF ResourceRecord
<1>5. CASE exact = {} /\ wild = {}
  BY <1>5 DEF GetCNAME
<1> QED BY <1>3, <1>4, <1>5

LEMMA GetDNAMEPoints ==
    ASSUME ZonesInv, NEW id \in ZoneIds, NEW h \in Holders(id), NEW n \in Names,
           NEW whole, NEW r, r = GetDNAME(h, id, n, whole), r \notin {NoRecord, Throws}
    PROVE  /\ r \in ResourceRecord /\ r.type = "DNAME" /\ r.name \in Names
           /\ IsSubdomainOf(n, r.name)
<1> DEFINE dnames == IF rrCache[id]["DNAME"] = Unread /\ id \notin whole THEN {}
                     ELSE Listed(h, id, "DNAME")
           above == {m \in Ancestors(n) \ {<<>>, n} : \E d \in dnames : d.name = m}
<1>1. "DNAME" \in Types
  BY DEF Types, ReadOrder
<1>2. \A d \in dnames : d \in ResourceRecord /\ d.type = "DNAME"
  BY <1>1, ListedBelongs
<1>3. above # {} /\ r = CHOOSE d \in dnames : d.name = Longest(above)
  BY DEF GetDNAME
<1>4. above \subseteq Ancestors(n) /\ \A m \in above : m # n /\ \E d \in dnames : d.name = m
  OBVIOUS
<1> HIDE DEF above, dnames
<1>5. Longest(above) \in above
  BY <1>3, <1>4, LongestIn DEF Names
<1>6. PICK d \in dnames : d.name = Longest(above)
  BY <1>4, <1>5
<1>7. r \in dnames /\ r.name = Longest(above)
  BY <1>3, <1>6
<1>8. r.name \in Ancestors(n) /\ r.name # n
  BY <1>4, <1>5, <1>7
<1>9. IsSubdomainOf(n, r.name)
  BY <1>8, AncestorAbove DEF Names
<1> QED BY <1>2, <1>7, <1>9 DEF ResourceRecord

LEMMA PointerPoints ==
    ASSUME ZonesInv, NEW h \in cachedHorizons, NEW n \in Names, NEW whole
    PROVE  PointsFrom(n, Pointer(h, n, whole))
<1> DEFINE id == ZoneOf(h, n)
           cname == GetCNAME(h, id, n)
           dname == GetDNAME(h, id, n, whole)
<1>1. Pointer(h, n, whole) = IF id = NilId THEN NoRecord
                             ELSE IF cname # NoRecord THEN cname ELSE dname
  BY DEF Pointer
<1>2. id = NilId \/ (id \in ZoneIds /\ h \in Holders(id))
  BY ZoneOfHeld
<1> HIDE DEF id
<1>3. CASE id = NilId
  BY <1>1, <1>3 DEF PointsFrom
<1>4. CASE id # NilId /\ cname # NoRecord
  BY <1>1, <1>2, <1>4, GetCNAMEPoints DEF PointsFrom
<1>5. CASE id # NilId /\ cname = NoRecord
  <2>1. dname \in {NoRecord, Throws} \/
          (/\ dname \in ResourceRecord /\ dname.type = "DNAME" /\ dname.name \in Names
           /\ IsSubdomainOf(n, dname.name))
    <3> HIDE DEF dname
    <3> QED BY <1>2, <1>5, GetDNAMEPoints DEF dname
  <2> HIDE DEF dname, cname
  <2> QED BY <1>1, <1>5, <2>1 DEF PointsFrom
<1> QED BY <1>3, <1>4, <1>5

----------------------------------------------------------------------------
(* The chain, round by round.                                              *)

Start(n) == [name |-> n, applied |-> {}, chain |-> <<>>, state |-> "on"]
Walks(h, n, whole, k, f) ==
    f = [i \in 0..k |-> IF i = 0 THEN Start(n) ELSE Hop(h, whole, f[i - 1])]

\* The recursion defines a function, for every number of rounds.
LEMMA WalkExists ==
    ASSUME NEW h, NEW n, NEW whole, NEW k \in Nat
    PROVE  \E f : Walks(h, n, whole, k, f)
<1> DEFINE T == {i \in Nat : ~ \E f : Walks(h, n, whole, i, f)}
<1> SUFFICES ASSUME T # {} PROVE FALSE
  OBVIOUS
<1>1. T \subseteq Nat
  OBVIOUS
<1>2. PICK m \in T : \A i \in T : m =< i
  <2> HIDE DEF T
  <2> QED BY <1>1, Least
<1>3. CASE m = 0
  <2> DEFINE f == [i \in 0..0 |-> Start(n)]
  <2>1. f = [i \in 0..0 |-> IF i = 0 THEN Start(n) ELSE Hop(h, whole, f[i - 1])]
    OBVIOUS
  <2> HIDE DEF f
  <2> QED BY <1>3, <2>1 DEF Walks
<1>4. CASE m # 0
  <2>1. m \in Nat /\ m - 1 \in Nat /\ m - 1 \notin T
    BY <1>2, <1>4
  <2>2. PICK f : Walks(h, n, whole, m - 1, f)
    BY <2>1
  <2> DEFINE g == [i \in 0..m |-> IF i = m THEN Hop(h, whole, f[m - 1]) ELSE f[i]]
  <2>3. ASSUME NEW i \in 0..m
        PROVE  g[i] = IF i = 0 THEN Start(n) ELSE Hop(h, whole, g[i - 1])
    <3>1. CASE i = m
      <4>1. g[i] = Hop(h, whole, f[m - 1]) /\ g[i - 1] = f[m - 1]
        BY <2>1, <3>1
      <4> QED BY <1>4, <3>1, <4>1
    <3>2. CASE i = 0
      <4>1. f[0] = Start(n)
        BY <2>1, <2>2 DEF Walks
      <4> QED BY <1>4, <2>1, <3>2, <4>1
    <3>3. CASE i # 0 /\ i # m
      <4>1. i \in 0..(m - 1) /\ i - 1 \in 0..m /\ i - 1 # m
        BY <2>1, <3>3
      <4>2. f[i] = Hop(h, whole, f[i - 1])
        BY <2>2, <3>3, <4>1 DEF Walks
      <4> QED BY <3>3, <4>1, <4>2
    <3> QED BY <3>1, <3>2, <3>3
  <2>4. g = [i \in 0..m |-> g[i]]
    OBVIOUS
  <2> HIDE DEF g
  <2>5. g = [i \in 0..m |-> IF i = 0 THEN Start(n) ELSE Hop(h, whole, g[i - 1])]
    BY <2>3, <2>4
  <2> QED BY <2>5 DEF Walks
<1> QED BY <1>3, <1>4

LEMMA StartLed == ASSUME NEW n \in Names PROVE Start(n) \in End /\ Led(n, Start(n))
<1>1. Start(n) \in End
  BY DEF Start, End
<1>2. LedTo(n, <<>>, Len(<<>>)) = n
  BY LedToNone
<1>3. ChainLeads(n, <<>>)
  BY DEF ChainLeads
<1> QED BY <1>1, <1>2, <1>3 DEF Start, Led

LEMMA HopLed ==
    ASSUME ZonesInv, NEW h \in cachedHorizons, NEW n, NEW whole, NEW end \in End, Led(n, end)
    PROVE  Hop(h, whole, end) \in End /\ Led(n, Hop(h, whole, end))
<1>1. CASE end.state = "on"
  <2>1. PointsFrom(end.name, Pointer(h, end.name, whole))
    BY PointerPoints DEF End
  <2> QED BY <1>1, <2>1, ApplyLed DEF Hop
<1>2. CASE end.state # "on"
  BY <1>2 DEF Hop
<1> QED BY <1>1, <1>2

LEMMA WalkLed ==
    ASSUME ZonesInv, NEW h \in cachedHorizons, NEW n \in Names, NEW whole,
           NEW k \in Nat, NEW f, Walks(h, n, whole, k, f)
    PROVE  \A i \in 0..k : f[i] \in End /\ Led(n, f[i])
<1>1. f[0] = Start(n) /\ \A i \in 1..k : f[i] = Hop(h, whole, f[i - 1])
  BY DEF Walks
<1> DEFINE T == {i \in 0..k : ~(f[i] \in End /\ Led(n, f[i]))}
<1> SUFFICES ASSUME T # {} PROVE FALSE
  BY Zenon
<1>2. T \subseteq Nat
  OBVIOUS
<1>3. PICK m \in T : \A i \in T : m =< i
  <2> HIDE DEF T
  <2> QED BY <1>2, Least
<1>4. m # 0
  BY <1>1, <1>3, StartLed
<1>5. m - 1 \in 0..k /\ m - 1 \notin T /\ m \in 1..k
  BY <1>3, <1>4
<1>6. f[m - 1] \in End /\ Led(n, f[m - 1])
  BY <1>5
<1>7. f[m] \in End /\ Led(n, f[m])
  BY <1>1, <1>5, <1>6, HopLed
<1> QED BY <1>3, <1>7

LEMMA PointerChainLed ==
    ASSUME ZonesInv, NEW h \in cachedHorizons, NEW n \in Names, NEW whole
    PROVE  /\ PointerChain(h, n, whole) \in End
           /\ Led(n, PointerChain(h, n, whole))
<1> DEFINE f == CHOOSE f : Walks(h, n, whole, Rounds, f)
<1>1. Rounds \in Nat
  BY AuthorityAssumption, FS_CardinalityType DEF Rounds
<1>2. Walks(h, n, whole, Rounds, f)
  BY <1>1, WalkExists
<1>3. PointerChain(h, n, whole) = f[Rounds]
  BY DEF PointerChain, Walks, Start
<1> HIDE DEF f
<1>4. Rounds \in 0..Rounds
  BY <1>1
<1> QED BY <1>1, <1>2, <1>3, <1>4, WalkLed

----------------------------------------------------------------------------
(* Responses.                                                              *)

RightReply(h, q, reply) ==
    /\ ReplyLeads(q.name, reply)
    /\ EndsTruly(h, q, reply)
    /\ Refers(h, q.name, reply)

With(c) == [Created EXCEPT !.chain = c]
\* A chain from n that leads to e.
Reaches(n, c, e) == ChainLeads(n, c) /\ LedTo(n, c, Len(c)) = e

LEMMA NothingReached == ASSUME NEW n PROVE Reaches(n, <<>>, n) /\ With(<<>>) = Created
<1>1. LedTo(n, <<>>, Len(<<>>)) = n
  BY LedToNone
<1>2. ChainLeads(n, <<>>)
  BY DEF ChainLeads
<1> QED BY <1>1, <1>2 DEF Reaches, With, Created

LEMMA CodeRight ==
    ASSUME NEW h, NEW q, NEW c, c # "no_error" PROVE RightReply(h, q, Code(c))
<1>1. /\ Code(c).chain = <<>> /\ Code(c).answers = {} /\ ~Code(c).authoritative
      /\ Code(c).code = c
  BY DEF Code, Created
<1>2. ReplyLeads(q.name, Code(c))
  BY <1>1, NothingReached DEF ReplyLeads, Reaches
<1>3. EndsTruly(h, q, Code(c))
  BY <1>1 DEF EndsTruly, TrueDenial, Denies
<1>4. Refers(h, q.name, Code(c))
  BY <1>1 DEF Refers, RefersTo, ReferralToCut
<1> QED BY <1>2, <1>3, <1>4 DEF RightReply

LEMMA FinishedRight ==
    ASSUME NEW h, NEW q, NEW response,
           \/ Throws \in response.answers \cup response.nameservers \cup response.additional
           \/ NoRecord \in response.answers \cup response.nameservers
           \/ RightReply(h, q, response)
    PROVE  RightReply(h, q, Finished(response))
BY CodeRight DEF Finished

\* The records found bear the name asked for.
LEMMA RecordsForNamed ==
    ASSUME ZonesInv, NEW id \in ZoneIds, NEW h \in Holders(id), NEW n \in Names,
           NEW t \in Types \cup {"ALL"}, NEW r \in RecordsFor(h, id, n, t)
    PROVE  r = Throws \/ (r \in ResourceRecord /\ r.name = n)
<1>1. ASSUME NEW u \in Types, NEW s \in Renamed(Listed(h, id, u), n)
      PROVE  s \in ResourceRecord /\ s.name = n
  <2>1. PICK x \in Listed(h, id, u) : s = [x EXCEPT !.name = n]
    BY <1>1 DEF Renamed
  <2>2. x \in ResourceRecord
    BY <2>1, ListedBelongs
  <2> QED BY <2>1, <2>2 DEF ResourceRecord
<1>2. CASE t # "ALL"
  BY <1>1, <1>2 DEF RecordsFor
<1>3. CASE t = "ALL" /\ RecordsFor(h, id, n, t) # {Throws}
  <2>1. r \in UNION {Renamed(Listed(h, id, u), n) : u \in Types}
    BY <1>3 DEF RecordsFor
  <2> QED BY <1>1, <2>1
<1>4. CASE RecordsFor(h, id, n, t) = {Throws}
  BY <1>4
<1> QED BY <1>2, <1>3, <1>4

\* None is found only when the database has none.
LEMMA RecordsForNone ==
    ASSUME ZonesInv, NEW id \in ZoneIds \ astray, NEW h \in Holders(id), NEW n,
           NEW t \in Types \cup {"ALL"}, RecordsFor(h, id, n, t) = {}, ~Forwarded(h, id),
           NEW r \in recordRows[id], WildcardEquals(r.name, n)
    PROVE  t # "ALL" /\ r.type # t
<1>1. r \in Records /\ r.type \in Types
  BY AuthorityAssumption DEF ZonesInv, IInv, TypeOK, ResourceRecord
<1>2. r \in Listed(h, id, r.type)
  BY <1>1, ListedRight DEF OfType
<1>3. Renamed(Listed(h, id, r.type), n) # {}
  BY <1>2 DEF Renamed
<1>4. CASE t = "ALL"
  <2>1. RecordsFor(h, id, n, t) \in
          {{Throws}, UNION {Renamed(Listed(h, id, u), n) : u \in Types}}
    BY <1>4 DEF RecordsFor
  <2> QED BY <1>1, <1>3, <2>1
<1>5. CASE t # "ALL" /\ r.type = t
  BY <1>3, <1>5 DEF RecordsFor
<1> QED BY <1>4, <1>5

\* What is delegated is delegated at one cut.
LEMMA DelegatedAtCut ==
    ASSUME ZonesInv, NEW id \in ZoneIds, NEW h \in Holders(id), NEW n \in Names,
           DelegatedNS(h, id, n) # {}, Throws \notin DelegatedNS(h, id, n)
    PROVE  \E cut \in Ancestors(n) :
              /\ IsSubdomainOf(cut, Apex(h, id))
              /\ id \notin astray =>
                    DelegatedNS(h, id, n) = {r \in OfType(recordRows[id], "NS") : r.name = cut}
<1> DEFINE Cut(m) == {r \in Listed(h, id, "NS") : r.name = m /\ ~Same(m, Apex(h, id))}
           cuts == {m \in Ancestors(n) \ {<<>>} : Cut(m) # {}}
           cut == Longest(cuts)
<1>1. cuts # {} /\ DelegatedNS(h, id, n) = Cut(cut)
  BY DEF DelegatedNS
<1>2. cuts \subseteq Ancestors(n) /\ \A m \in cuts : Cut(m) # {}
  OBVIOUS
<1>3. cut \in cuts
  <2> HIDE DEF cuts
  <2> QED BY <1>1, <1>2, LongestIn DEF Names
<1>4. cut \in Ancestors(n) /\ Cut(cut) # {}
  BY <1>2, <1>3
<1> HIDE DEF cut, cuts
<1>5. PICK r \in Listed(h, id, "NS") : r.name = cut /\ ~Same(cut, Apex(h, id))
  BY <1>4
<1>6. "NS" \in Types
  BY DEF Types, ReadOrder
<1>7. IsSubdomainOf(cut, Apex(h, id))
  BY <1>5, <1>6, ListedBelongs DEF Belongs, InZone
<1>8. ASSUME id \notin astray
      PROVE  DelegatedNS(h, id, n) = {s \in OfType(recordRows[id], "NS") : s.name = cut}
  <2>1. Listed(h, id, "NS") = OfType(recordRows[id], "NS")
    BY <1>5, <1>6, <1>8, ListedRight
  <2> QED BY <1>1, <1>5, <2>1
<1> QED BY <1>4, <1>7, <1>8

LEMMA ReferralRight ==
    ASSUME ZonesInv, NEW h \in cachedHorizons, NEW q, NEW e \in Names, NEW c,
           Reaches(q.name, c, e), ZoneOf(h, e) # NilId,
           DelegatedNS(h, ZoneOf(h, e), e) # {}, Throws \notin DelegatedNS(h, ZoneOf(h, e), e)
    PROVE  RightReply(h, q, Referral(h, With(c), DelegatedNS(h, ZoneOf(h, e), e)))
<1> DEFINE id == ZoneOf(h, e)
           ns == DelegatedNS(h, id, e)
           reply == Referral(h, With(c), ns)
<1>1. id \in ZoneIds /\ h \in Holders(id)
  BY ZoneOfHeld
<1>2. /\ reply.chain = c /\ reply.answers = {} /\ reply.nameservers = ns
      /\ reply.code = "no_error" /\ reply.authoritative = FALSE
  <2> HIDE DEF ns
  <2> QED BY DEF Referral, With, Created
<1>3. EndOf(q.name, reply) = e
  BY <1>2 DEF EndOf, Reaches
<1>4. \E cut \in Ancestors(e) :
        /\ IsSubdomainOf(cut, Apex(h, id))
        /\ id \notin astray => ns = {r \in OfType(recordRows[id], "NS") : r.name = cut}
  <2> HIDE DEF id
  <2> QED BY <1>1, DelegatedAtCut DEF id
<1> HIDE DEF reply, ns, id
<1>5. ReplyLeads(q.name, reply)
  BY <1>2 DEF ReplyLeads, Reaches
<1>6. EndsTruly(h, q, reply)
  BY <1>2 DEF EndsTruly, TrueDenial, Denies
<1>7. Refers(h, q.name, reply)
  BY <1>2, <1>3, <1>4 DEF Refers, RefersTo, ReferralToCut, id
<1> QED BY <1>5, <1>6, <1>7 DEF RightReply, reply, ns, id

\* An answer to the name at the end of the chain.
LEMMA AnswersRight ==
    ASSUME NEW h, NEW q, NEW e, NEW reply, Reaches(q.name, reply.chain, e),
           reply.authoritative, reply.answers # {},
           \A r \in reply.answers : Same(r.name, e)
    PROVE  RightReply(h, q, reply)
<1>1. EndOf(q.name, reply) = e
  BY DEF EndOf, Reaches
<1>2. ReplyLeads(q.name, reply)
  BY <1>1 DEF ReplyLeads, Reaches
<1>3. EndsTruly(h, q, reply)
  BY DEF EndsTruly, TrueDenial, Denies
<1>4. Refers(h, q.name, reply)
  BY DEF Refers, RefersTo, ReferralToCut
<1> QED BY <1>2, <1>3, <1>4 DEF RightReply

\* An answer that there is nothing.
LEMMA DenialRight ==
    ASSUME NEW h, NEW q, NEW e, NEW reply, Reaches(q.name, reply.chain, e),
           reply.authoritative, reply.answers = {}, TrueDenial(h, q, reply, e)
    PROVE  RightReply(h, q, reply)
<1>1. EndOf(q.name, reply) = e
  BY DEF EndOf, Reaches
<1>2. ReplyLeads(q.name, reply)
  BY <1>1 DEF ReplyLeads, Reaches
<1>3. EndsTruly(h, q, reply)
  BY <1>1 DEF EndsTruly
<1>4. Refers(h, q.name, reply)
  BY DEF Refers, RefersTo, ReferralToCut
<1> QED BY <1>2, <1>3, <1>4 DEF RightReply

LEMMA PositiveRight ==
    ASSUME NEW h, NEW id, NEW q, NEW e, NEW c, NEW answers,
           Reaches(q.name, c, e), answers # {},
           \A r \in answers : r = Throws \/ Same(r.name, e)
    PROVE  RightReply(h, q, Finished(Positive(h, id, With(c), answers)))
<1> DEFINE reply == Positive(h, id, With(c), answers)
<1>1. reply.chain = c /\ reply.answers = answers /\ reply.authoritative
  BY DEF Positive, With, Created
<1> HIDE DEF reply
<1>2. CASE Throws \in answers
  BY <1>1, <1>2, FinishedRight DEF reply
<1>3. CASE Throws \notin answers
  <2>1. RightReply(h, q, reply)
    BY <1>1, <1>3, AnswersRight
  <2> QED BY <2>1, FinishedRight DEF reply
<1> QED BY <1>2, <1>3

----------------------------------------------------------------------------
(* The functions that resolve.                                             *)

\* Where no zone is, nothing is stored.
LEMMA NowhereRight ==
    ASSUME NEW h, NEW q, NEW e, NEW c, Reaches(q.name, c, e), ZoneOf(h, e) = NilId
    PROVE  RightReply(h, q, With(c))
<1>1. With(c).chain = c /\ With(c).authoritative /\ With(c).answers = {}
  BY DEF With, Created
<1>2. StoredFor(h, e) = {}
  BY DEF StoredFor
<1>3. TrueDenial(h, q, With(c), e)
  BY <1>2 DEF TrueDenial
<1> QED BY <1>1, <1>3, DenialRight

\* Nothing of the type was found.
LEMMA NoneRight ==
    ASSUME ZonesInv, NEW h \in cachedHorizons, NEW q, NEW e \in Names, NEW c, NEW reply,
           Reaches(q.name, c, e), ZoneOf(h, e) # NilId, q.type \in Types,
           RecordsFor(h, ZoneOf(h, e), e, q.type) = {},
           reply.chain = c, reply.answers = {}, reply.authoritative, reply.code = "no_error"
    PROVE  RightReply(h, q, reply)
<1>1. ZoneOf(h, e) \in ZoneIds /\ h \in Holders(ZoneOf(h, e))
  BY ZoneOfHeld
<1>2. ASSUME Denies(h, q, reply, e), NEW r \in StoredFor(h, e)
      PROVE  r.type # q.type
  <2>1. ZoneOf(h, e) \notin astray
    BY <1>2 DEF Denies
  <2>2. ~Forwarded(h, ZoneOf(h, e)) /\ r \in recordRows[ZoneOf(h, e)] /\ WildcardEquals(r.name, e)
    BY <1>2 DEF StoredFor
  <2> QED BY <1>1, <2>1, <2>2, RecordsForNone
<1>3. TrueDenial(h, q, reply, e)
  BY <1>2 DEF TrueDenial
<1> QED BY <1>3, DenialRight

\* Nothing at all was found.
LEMMA NothingRight ==
    ASSUME ZonesInv, NEW h \in cachedHorizons, NEW q, NEW e \in Names, NEW c, NEW reply,
           Reaches(q.name, c, e), ZoneOf(h, e) # NilId,
           RecordsFor(h, ZoneOf(h, e), e, "ALL") = {},
           reply.chain = c, reply.answers = {}, reply.authoritative
    PROVE  RightReply(h, q, reply)
<1>1. ZoneOf(h, e) \in ZoneIds /\ h \in Holders(ZoneOf(h, e))
  BY ZoneOfHeld
<1>2. ASSUME Denies(h, q, reply, e), NEW r \in StoredFor(h, e)
      PROVE  FALSE
  <2>1. ZoneOf(h, e) \notin astray
    BY <1>2 DEF Denies
  <2>2. ~Forwarded(h, ZoneOf(h, e)) /\ r \in recordRows[ZoneOf(h, e)] /\ WildcardEquals(r.name, e)
    BY <1>2 DEF StoredFor
  <2> QED BY <1>1, <2>1, <2>2, RecordsForNone
<1>3. TrueDenial(h, q, reply, e)
  BY <1>2 DEF TrueDenial
<1> QED BY <1>3, DenialRight

LEMMA ResolveTypeRight ==
    ASSUME ZonesInv, NEW h \in cachedHorizons, NEW q, NEW end \in End, Led(q.name, end),
           q.type \in Types
    PROVE  RightReply(h, q, Finished(ResolveType(h, q, end, ZoneOf(h, end.name))))
<1> DEFINE e == end.name
           c == end.chain
           id == ZoneOf(h, e)
           answers == RecordsFor(h, id, e, q.type)
           ns == DelegatedNS(h, id, e)
           last == [With(c) EXCEPT !.nameservers = {GetSOA(h, id)}]
           reply == ResolveType(h, q, end, id)
<1>1. e \in Names /\ Reaches(q.name, c, e)
  BY DEF Led, Reaches
<1>2. reply = IF id = NilId THEN With(c)
              ELSE IF answers # {} THEN Positive(h, id, With(c), answers)
              ELSE IF ns # {} THEN Referral(h, With(c), ns)
              ELSE IF end.state = "loop" THEN With(c) ELSE last
  BY Zenon DEF ResolveType, With
<1>3. id = NilId \/ (id \in ZoneIds /\ h \in Holders(id))
  BY <1>1, ZoneOfHeld
<1>4. /\ With(c).chain = c /\ With(c).answers = {} /\ With(c).authoritative
      /\ With(c).code = "no_error"
      /\ last.chain = c /\ last.answers = {} /\ last.authoritative /\ last.code = "no_error"
  BY DEF With, Created
<1> HIDE DEF e, c, last, reply
<1>5. CASE id = NilId
  <2>1. RightReply(h, q, With(c))
    BY <1>1, <1>5, NowhereRight
  <2> QED BY <1>2, <1>5, <2>1, FinishedRight DEF reply, e
<1>6. CASE id # NilId /\ answers # {}
  <2>1. \A r \in answers : r = Throws \/ Same(r.name, e)
    BY <1>1, <1>3, <1>6, RecordsForNamed, SameRefl
  <2> HIDE DEF id, answers
  <2>2. RightReply(h, q, Finished(Positive(h, id, With(c), answers)))
    BY <1>1, <1>6, <2>1, PositiveRight
  <2>3. reply = Positive(h, id, With(c), answers)
    BY <1>2, <1>6
  <2> QED BY <2>2, <2>3 DEF reply, id, e
<1>7. CASE id # NilId /\ answers = {} /\ ns # {}
  <2>1. reply = Referral(h, With(c), ns)
    BY <1>2, <1>7
  <2>2. reply.nameservers = ns
    <3> HIDE DEF ns
    <3> QED BY <2>1 DEF Referral, With, Created
  <2>3. Throws \notin ns => RightReply(h, q, reply)
    BY <1>1, <1>7, <2>1, ReferralRight
  <2>4. RightReply(h, q, Finished(reply))
    BY <2>2, <2>3, FinishedRight
  <2> QED BY <2>4 DEF reply, e
<1>8. CASE id # NilId /\ answers = {} /\ ns = {}
  <2>1. reply \in {With(c), last}
    BY <1>2, <1>8
  <2>2. RightReply(h, q, reply)
    BY <1>1, <1>4, <1>8, <2>1, NoneRight
  <2>3. RightReply(h, q, Finished(reply))
    BY <2>2, FinishedRight
  <2> QED BY <2>3 DEF reply, e
<1> QED BY <1>5, <1>6, <1>7, <1>8

\* The records of the SOA and NS lists are of the apex where they should be.
LEMMA GetSOAApex ==
    ASSUME ZonesInv, NEW id \in ZoneIds, NEW h \in Holders(id)
    PROVE  \/ GetSOA(h, id) \in {Throws, NoRecord}
           \/ Same(GetSOA(h, id).name, Apex(h, id)) /\ GetSOA(h, id) \in ResourceRecord
<1>1. "SOA" \in Types
  BY DEF Types, ReadOrder
<1> DEFINE soa == CHOOSE r \in Listed(h, id, "SOA") : TRUE
<1>2. CASE ~Unreadable(h, id, "SOA") /\ Listed(h, id, "SOA") # {}
  <2>1. soa \in Listed(h, id, "SOA") /\ GetSOA(h, id) = soa
    BY <1>2 DEF GetSOA
  <2> HIDE DEF soa
  <2> QED BY <1>1, <2>1, ListedBelongs DEF Belongs
<1>3. CASE Unreadable(h, id, "SOA") \/ Listed(h, id, "SOA") = {}
  BY <1>3 DEF GetSOA
<1> QED BY <1>2, <1>3

LEMMA GetNSApex ==
    ASSUME ZonesInv, NEW id \in ZoneIds, NEW h \in Holders(id)
    PROVE  /\ GetNS(h, id) # {}
           /\ \A r \in GetNS(h, id) : r = Throws \/
                 (Same(r.name, Apex(h, id)) /\ r \in ResourceRecord)
<1>1. "NS" \in Types
  BY DEF Types, ReadOrder
<1>2. \A r \in Listed(h, id, "NS") : r \in ResourceRecord
  BY <1>1, ListedBelongs
<1> QED BY <1>2 DEF GetNS

LEMMA ApexName ==
    ASSUME ZonesInv, NEW id \in ZoneIds, NEW h \in Holders(id)
    PROVE  Apex(h, id) \in Names
<1>1. byId[h][id] \in Zone
  BY DEF Holders, ZonesInv, IInv, TypeOK
<1> QED BY <1>1, AuthorityAssumption DEF Apex, Zone

\* A wildcard SOA aside, no SOA is of a name that is not the apex.
LEMMA SOAElsewhere ==
    ASSUME ZonesInv, NEW id \in ZoneIds, NEW h \in Holders(id), NEW e \in Names,
           ~Same(e, Apex(h, id)),
           NEW r \in recordRows[id], r.type = "SOA", WildcardEquals(r.name, e)
    PROVE  Head(r.name) = Wildcard
<1>1. PICK n : KeptBy(id, n)
  BY DEF ZonesInv, Kept
<1>2. Apex(h, id) = n /\ Same(r.name, n)
  BY <1>1 DEF Apex, KeptBy, Fits, Belongs
<1>3. r.name \in Names
  BY AuthorityAssumption DEF ZonesInv, IInv, TypeOK, ResourceRecord
<1>4. n \in Names
  BY <1>2, ApexName
<1>5. ~Same(r.name, e)
  <2>1. Same(r.name, e) => Same(e, r.name)
    BY <1>3, SameSym DEF Names
  <2>2. Same(e, r.name) => Same(e, n)
    BY <1>2, <1>3, <1>4, SameTrans DEF Names
  <2> QED BY <1>2, <2>1, <2>2
<1> QED BY <1>5 DEF WildcardEquals

LEMMA ResolveSOARight ==
    ASSUME ZonesInv, NEW h \in cachedHorizons, NEW q, NEW end \in End, Led(q.name, end),
           q.type = "SOA"
    PROVE  RightReply(h, q, Finished(ResolveSOA(h, end, ZoneOf(h, end.name))))
<1> DEFINE e == end.name
           c == end.chain
           id == ZoneOf(h, e)
           ns == DelegatedNS(h, id, e)
           soa == GetSOA(h, id)
           found == RecordsFor(h, id, e, "ALL")
           apex == [With(c) EXCEPT !.answers = {soa},
                                   !.nameservers = IF soa = NoRecord THEN {} ELSE GetNS(h, id),
                                   !.additional = Glue(h, GetNS(h, id))]
           other == [With(c) EXCEPT !.nameservers = {soa},
                                    !.code = IF found = {} THEN "name_error" ELSE @]
           reply == ResolveSOA(h, end, id)
<1>1. e \in Names /\ Reaches(q.name, c, e)
  BY DEF Led, Reaches
<1>2. reply = IF end.state = "loop" \/ id = NilId THEN With(c)
              ELSE IF Same(e, Apex(h, id)) THEN apex
              ELSE IF found = {Throws} THEN Failed
              ELSE IF ns # {} THEN Referral(h, With(c), ns)
              ELSE other
  BY Zenon DEF ResolveSOA, With
<1>3. id = NilId \/ (id \in ZoneIds /\ h \in Holders(id))
  BY <1>1, ZoneOfHeld
<1> HIDE DEF e, c, reply, found
<1>4. CASE id = NilId
  <2>1. RightReply(h, q, With(c))
    BY <1>1, <1>4, NowhereRight
  <2> QED BY <1>2, <1>4, <2>1, FinishedRight DEF reply, e
<1>5. CASE end.state = "loop"
  <2>1. With(c).chain = c /\ With(c).answers = {} /\ With(c).authoritative
    BY DEF With, Created
  <2>2. Loops(c, e)
    BY <1>5 DEF Led, c, e
  <2>3. TrueDenial(h, q, With(c), e)
    BY <2>1, <2>2 DEF TrueDenial, Denies
  <2>4. RightReply(h, q, With(c))
    BY <1>1, <2>1, <2>3, DenialRight
  <2> QED BY <1>2, <1>5, <2>4, FinishedRight DEF reply, e
<1>6. CASE end.state # "loop" /\ id # NilId /\ Same(e, Apex(h, id))
  <2>1. reply = apex
    BY <1>2, <1>6
  <2>2. apex.chain = c /\ apex.authoritative /\ apex.answers = {soa}
    BY DEF With, Created
  <2>3. soa \in {Throws, NoRecord} \/ (Same(soa.name, Apex(h, id)) /\ soa \in ResourceRecord)
    BY <1>3, <1>6, GetSOAApex
  <2>4. Apex(h, id) \in Names
    BY <1>3, <1>6, ApexName
  <2> HIDE DEF soa, apex
  <2>5. CASE soa \in {Throws, NoRecord}
    <3>1. RightReply(h, q, Finished(apex))
      BY <2>2, <2>5, FinishedRight
    <3> QED BY <2>1, <3>1 DEF reply, e
  <2>6. CASE Same(soa.name, Apex(h, id)) /\ soa \in ResourceRecord
    <3>1. soa.name \in Names /\ Same(Apex(h, id), e)
      BY <1>1, <1>6, <2>4, <2>6, SameSym DEF Names, ResourceRecord
    <3>2. Same(soa.name, e)
      BY <1>1, <2>4, <2>6, <3>1, SameTrans DEF Names
    <3>3. RightReply(h, q, apex)
      BY <1>1, <2>2, <3>2, AnswersRight
    <3>4. RightReply(h, q, Finished(apex))
      BY <3>3, FinishedRight
    <3> QED BY <2>1, <3>4 DEF reply, e
  <2> QED BY <2>3, <2>5, <2>6
<1>7. CASE /\ end.state # "loop" /\ id # NilId /\ ~Same(e, Apex(h, id))
           /\ found # {Throws} /\ ns # {}
  <2>1. reply = Referral(h, With(c), ns)
    BY <1>2, <1>7
  <2>2. reply.nameservers = ns
    <3> HIDE DEF ns
    <3> QED BY <2>1 DEF Referral, With, Created
  <2>3. Throws \notin ns => RightReply(h, q, reply)
    BY <1>1, <1>7, <2>1, ReferralRight
  <2>4. RightReply(h, q, Finished(reply))
    BY <2>2, <2>3, FinishedRight
  <2> QED BY <2>4 DEF reply, e
<1>8. CASE end.state # "loop" /\ id # NilId /\ ~Same(e, Apex(h, id)) /\ found = {Throws}
  <2>1. reply = Failed /\ Throws \in Failed.nameservers
    BY <1>2, <1>8 DEF Failed, Created
  <2> QED BY <2>1, FinishedRight DEF reply, e
<1>9. CASE /\ end.state # "loop" /\ id # NilId /\ ~Same(e, Apex(h, id))
           /\ found # {Throws} /\ ns = {}
  <2>1. reply = other
    BY <1>2, <1>9
  <2>2. other.chain = c /\ other.authoritative /\ other.answers = {}
    BY DEF With, Created
  <2>3. CASE found = {}
    <3>1. RightReply(h, q, other)
      <4> HIDE DEF other, id
      <4> QED BY <1>1, <1>3, <1>9, <2>2, <2>3, NothingRight DEF found, id
    <3> QED BY <2>1, <3>1, FinishedRight DEF reply, e
  <2>4. CASE found # {}
    <3>1. other.code = "no_error"
      BY <2>4 DEF With, Created
    <3>2. ASSUME NEW r \in StoredFor(h, e), r.type = "SOA"
          PROVE  Head(r.name) = Wildcard
      <4>1. r \in recordRows[id] /\ WildcardEquals(r.name, e)
        BY <3>2 DEF StoredFor
      <4> HIDE DEF id
      <4> QED BY <1>1, <1>3, <1>9, <3>2, <4>1, SOAElsewhere
    <3> HIDE DEF other
    <3>3. TrueDenial(h, q, other, e)
      BY <2>2, <3>1, <3>2 DEF TrueDenial
    <3>4. RightReply(h, q, other)
      BY <1>1, <2>2, <3>3, DenialRight
    <3> QED BY <2>1, <3>4, FinishedRight DEF reply, e
  <2> QED BY <2>3, <2>4
<1> QED BY <1>4, <1>5, <1>6, <1>7, <1>8, <1>9

LEMMA ResolveNSRight ==
    ASSUME ZonesInv, NEW h \in cachedHorizons, NEW q, NEW end \in End, Led(q.name, end),
           q.type = "NS"
    PROVE  RightReply(h, q, Finished(ResolveNS(h, end, ZoneOf(h, end.name))))
<1> DEFINE e == end.name
           c == end.chain
           id == ZoneOf(h, e)
           ns == DelegatedNS(h, id, e)
           apex == [With(c) EXCEPT !.answers = GetNS(h, id),
                                   !.additional = Glue(h, GetNS(h, id))]
           none == [With(c) EXCEPT !.nameservers = {GetSOA(h, id)}, !.code = "name_error"]
           reply == ResolveNS(h, end, id)
<1>1. e \in Names /\ Reaches(q.name, c, e)
  BY DEF Led, Reaches
<1>2. reply = IF end.state = "loop" \/ id = NilId THEN With(c)
              ELSE IF Same(e, Apex(h, id)) THEN apex
              ELSE IF ns # {} THEN Referral(h, With(c), ns)
              ELSE none
  BY Zenon DEF ResolveNS, With
<1>3. id = NilId \/ (id \in ZoneIds /\ h \in Holders(id))
  BY <1>1, ZoneOfHeld
<1>4. \A r : TrueDenial(h, q, r, e)
  BY DEF TrueDenial, Denies
<1> HIDE DEF e, c, reply
<1>5. CASE end.state = "loop" \/ id = NilId
  <2>1. With(c).chain = c /\ With(c).answers = {} /\ With(c).authoritative
    BY DEF With, Created
  <2>2. RightReply(h, q, With(c))
    BY <1>1, <1>4, <2>1, DenialRight
  <2> QED BY <1>2, <1>5, <2>2, FinishedRight DEF reply, e
<1>6. CASE ~(end.state = "loop" \/ id = NilId) /\ Same(e, Apex(h, id))
  <2>1. reply = apex
    BY <1>2, <1>6
  <2>2. apex.chain = c /\ apex.authoritative /\ apex.answers = GetNS(h, id)
    BY DEF With, Created
  <2>3. /\ GetNS(h, id) # {}
        /\ \A r \in GetNS(h, id) : r = Throws \/
              (Same(r.name, Apex(h, id)) /\ r \in ResourceRecord)
    BY <1>3, <1>6, GetNSApex
  <2>4. Apex(h, id) \in Names
    BY <1>3, <1>6, ApexName
  <2> HIDE DEF apex
  <2>5. CASE Throws \in GetNS(h, id)
    <3>1. RightReply(h, q, Finished(apex))
      BY <2>2, <2>5, FinishedRight
    <3> QED BY <2>1, <3>1 DEF reply, e
  <2>6. CASE Throws \notin GetNS(h, id)
    <3>1. ASSUME NEW r \in GetNS(h, id) PROVE Same(r.name, e)
      <4>1. r.name \in Names /\ Same(r.name, Apex(h, id))
        BY <2>3, <2>6, <3>1 DEF ResourceRecord
      <4>2. Same(Apex(h, id), e)
        BY <1>1, <1>6, <2>4, SameSym DEF Names
      <4> QED BY <1>1, <2>4, <4>1, <4>2, SameTrans DEF Names
    <3>2. RightReply(h, q, apex)
      BY <1>1, <2>2, <2>3, <3>1, AnswersRight
    <3>3. RightReply(h, q, Finished(apex))
      BY <3>2, FinishedRight
    <3> QED BY <2>1, <3>3 DEF reply, e
  <2> QED BY <2>5, <2>6
<1>7. CASE ~(end.state = "loop" \/ id = NilId) /\ ~Same(e, Apex(h, id)) /\ ns # {}
  <2>1. reply = Referral(h, With(c), ns)
    BY <1>2, <1>7
  <2>2. reply.nameservers = ns
    <3> HIDE DEF ns
    <3> QED BY <2>1 DEF Referral, With, Created
  <2>3. Throws \notin ns => RightReply(h, q, reply)
    BY <1>1, <1>7, <2>1, ReferralRight
  <2>4. RightReply(h, q, Finished(reply))
    BY <2>2, <2>3, FinishedRight
  <2> QED BY <2>4 DEF reply, e
<1>8. CASE ~(end.state = "loop" \/ id = NilId) /\ ~Same(e, Apex(h, id)) /\ ns = {}
  <2>1. reply = none
    BY <1>2, <1>8
  <2>2. none.chain = c /\ none.authoritative /\ none.answers = {}
    BY DEF With, Created
  <2> HIDE DEF none
  <2>3. RightReply(h, q, none)
    BY <1>1, <1>4, <2>2, DenialRight
  <2>4. RightReply(h, q, Finished(none))
    BY <2>3, FinishedRight
  <2> QED BY <2>1, <2>4 DEF reply, e
<1> QED BY <1>5, <1>6, <1>7, <1>8

\* A name has one zone in whatever case it is written.
LEMMA ZoneOfSame ==
    ASSUME NEW h, NEW n \in Names, NEW m \in Names, Same(n, m)
    PROVE  ZoneOf(h, n) = ZoneOf(h, m)
<1>1. DOMAIN n = DOMAIN m /\ \A i \in DOMAIN n : Folded[n[i]] = Folded[m[i]]
  BY LenProperties DEF Same, Names
<1>2. InCase(n) = InCase(m)
  BY <1>1 DEF InCase
<1> QED BY <1>2 DEF ZoneOf

LEMMA RecordsForSame ==
    ASSUME ZonesInv, NEW id \in ZoneIds, NEW h \in Holders(id),
           NEW n \in Names, NEW m \in Names, Same(n, m), RecordsFor(h, id, n, "ALL") = {}
    PROVE  RecordsFor(h, id, m, "ALL") = {}
<1>1. /\ ~(Unreadable(h, id, "SOA") \/ Unreadable(h, id, "NS"))
      /\ RecordsFor(h, id, n, "ALL") = UNION {Renamed(Listed(h, id, u), n) : u \in Types}
      /\ RecordsFor(h, id, m, "ALL") = UNION {Renamed(Listed(h, id, u), m) : u \in Types}
  BY DEF RecordsFor
<1>2. ASSUME NEW u \in Types, NEW r \in Renamed(Listed(h, id, u), m)
      PROVE  FALSE
  <2>1. PICK s \in Listed(h, id, u) : WildcardEquals(s.name, m)
    BY <1>2 DEF Renamed
  <2>2. s.name \in Names
    BY <2>1, ListedBelongs DEF ResourceRecord
  <2>3. Same(m, n)
    BY SameSym DEF Names
  <2>4. WildcardEquals(s.name, n)
    BY <2>1, <2>2, <2>3, WildcardSame DEF Names
  <2>5. [s EXCEPT !.name = n] \in Renamed(Listed(h, id, u), n)
    BY <2>4 DEF Renamed
  <2> QED BY <1>1, <2>5
<1> QED BY <1>1, <1>2

LEMMA ResolveAllRight ==
    ASSUME ZonesInv, NEW h \in cachedHorizons, NEW q, q.name \in Names, q.type = "ALL",
           ZoneOf(h, q.name) # NilId
    PROVE  RightReply(h, q, Finished(ResolveAll(h, q, ZoneOf(h, q.name))))
<1> DEFINE id == ZoneOf(h, q.name)
           ns == DelegatedNS(h, id, q.name)
           own == RecordsFor(h, id, q.name, "ALL")
           end == PointerChain(h, q.name, {id})
           reply == ResolveAll(h, q, id)
<1>1. reply = IF ns # {} THEN Referral(h, With(<<>>), ns)
              ELSE IF own # {} THEN Positive(h, id, With(<<>>), own)
              ELSE ResolveAllChain(h, q, id, end)
  BY NothingReached, Zenon DEF ResolveAll
<1>2. id \in ZoneIds /\ h \in Holders(id)
  BY ZoneOfHeld
<1>3. Reaches(q.name, <<>>, q.name)
  BY NothingReached
<1> HIDE DEF reply
<1>4. CASE ns # {}
  <2>1. reply = Referral(h, With(<<>>), ns)
    BY <1>1, <1>4
  <2>2. reply.nameservers = ns
    <3> HIDE DEF ns
    <3> QED BY <2>1 DEF Referral, With, Created
  <2>3. Throws \notin ns => RightReply(h, q, reply)
    BY <1>3, <1>4, <2>1, ReferralRight
  <2>4. RightReply(h, q, Finished(reply))
    BY <2>2, <2>3, FinishedRight
  <2> QED BY <2>4 DEF reply
<1>5. CASE ns = {} /\ own # {}
  <2>1. \A r \in own : r = Throws \/ Same(r.name, q.name)
    BY <1>2, RecordsForNamed, SameRefl
  <2> HIDE DEF own, id
  <2>2. RightReply(h, q, Finished(Positive(h, id, With(<<>>), own)))
    BY <1>3, <1>5, <2>1, PositiveRight
  <2> QED BY <1>1, <1>5, <2>2 DEF reply, id
<1>6. CASE ns = {} /\ own = {}
  <2> DEFINE e == end.name
             c == end.chain
             last == ZoneOf(h, e)
             there == RecordsFor(h, last, e, "ALL")
             denied == [With(c) EXCEPT !.code = "name_error",
                           !.nameservers = IF end.state = "loop" THEN {} ELSE {GetSOA(h, id)}]
  <2>1. reply = IF end.state = "fails" THEN Failed
                ELSE IF Same(e, q.name) THEN denied
                ELSE IF last = NilId THEN With(c)
                ELSE IF there = {} THEN denied ELSE Positive(h, id, With(c), there)
    <3>1. reply = ResolveAllChain(h, q, id, end)
      BY <1>1, <1>6
    <3> HIDE DEF id, end
    <3> QED BY <3>1, Zenon DEF ResolveAllChain, ResolveAllAtEnd, With
  <2>2. end \in End /\ Led(q.name, end)
    BY PointerChainLed
  <2> HIDE DEF end
  <2>3. e \in Names /\ Reaches(q.name, c, e)
    BY <2>2 DEF Led, Reaches
  <2>4. last = NilId \/ (last \in ZoneIds /\ h \in Holders(last))
    BY <2>3, ZoneOfHeld
  <2>5. denied.chain = c /\ denied.authoritative /\ denied.answers = {}
    BY DEF With, Created
  <2> HIDE DEF e, c, denied
  <2>6. last # NilId /\ there = {} => RightReply(h, q, denied)
    BY <2>3, <2>5, NothingRight
  <2>7. CASE end.state = "fails"
    <3>1. Throws \in Failed.nameservers
      BY DEF Failed, Created
    <3> QED BY <2>1, <2>7, <3>1, FinishedRight DEF reply
  <2>8. CASE end.state # "fails" /\ Same(e, q.name)
    <3>1. Same(q.name, e)
      BY <2>3, <2>8, SameSym DEF Names
    <3>2. last = id
      BY <2>3, <2>8, ZoneOfSame
    <3>3. there = {}
      BY <1>2, <1>6, <2>3, <3>1, <3>2, RecordsForSame
    <3>4. RightReply(h, q, denied)
      BY <2>6, <3>2, <3>3
    <3>5. reply = denied
      BY <2>1, <2>8
    <3> QED BY <3>4, <3>5, FinishedRight DEF reply
  <2>9. CASE end.state # "fails" /\ ~Same(e, q.name) /\ last = NilId
    <3>1. RightReply(h, q, With(c))
      BY <2>3, <2>9, NowhereRight
    <3>2. reply = With(c)
      BY <2>1, <2>9
    <3> QED BY <3>1, <3>2, FinishedRight DEF reply
  <2>10. CASE end.state # "fails" /\ ~Same(e, q.name) /\ last # NilId /\ there = {}
    <3>1. reply = denied
      BY <2>1, <2>10
    <3> QED BY <2>6, <2>10, <3>1, FinishedRight DEF reply
  <2>11. CASE end.state # "fails" /\ ~Same(e, q.name) /\ last # NilId /\ there # {}
    <3>1. \A r \in there : r = Throws \/ Same(r.name, e)
      BY <2>3, <2>4, <2>11, RecordsForNamed, SameRefl
    <3>2. reply = Positive(h, id, With(c), there)
      BY <2>1, <2>11
    <3> HIDE DEF there, id
    <3>3. RightReply(h, q, Finished(Positive(h, id, With(c), there)))
      BY <2>3, <2>11, <3>1, PositiveRight
    <3> QED BY <3>2, <3>3 DEF reply, id
  <2> QED BY <2>7, <2>8, <2>9, <2>10, <2>11
<1> QED BY <1>4, <1>5, <1>6

LEMMA ResolveRight ==
    ASSUME ZonesInv, NEW h \in cachedHorizons, NEW q \in Questions,
           ZoneOf(h, q.name) # NilId, q.type # "AXFR"
    PROVE  RightReply(h, q, Finished(Resolve(h, q)))
<1>1. q.name \in Names /\ q.type \in Types \cup {"ALL", "AXFR"}
  BY AuthorityAssumption
<1>2. CASE q.type = "ALL"
  BY <1>1, <1>2, ResolveAllRight DEF Resolve
<1>3. CASE q.type # "ALL"
  <2> DEFINE end == PointerChain(h, q.name, {})
  <2>1. end \in End /\ Led(q.name, end)
    BY <1>1, PointerChainLed
  <2>2. Resolve(h, q) = ResolveEnd(h, q, end, ZoneOf(h, end.name))
    BY <1>3 DEF Resolve, ResolveChain
  <2> HIDE DEF end
  <2>3. CASE end.state = "fails"
    <3>1. Throws \in Failed.nameservers
      BY DEF Failed, Created
    <3>2. Resolve(h, q) = Failed
      BY <2>2, <2>3 DEF ResolveEnd
    <3> QED BY <3>1, <3>2, FinishedRight
  <2>4. CASE end.state # "fails" /\ q.type = "SOA"
    <3>1. Resolve(h, q) = ResolveSOA(h, end, ZoneOf(h, end.name))
      BY <2>2, <2>4 DEF ResolveEnd
    <3> QED BY <2>1, <2>4, <3>1, ResolveSOARight
  <2>5. CASE end.state # "fails" /\ q.type = "NS"
    <3>1. Resolve(h, q) = ResolveNS(h, end, ZoneOf(h, end.name))
      BY <2>2, <2>5 DEF ResolveEnd
    <3> QED BY <2>1, <2>5, <3>1, ResolveNSRight
  <2>6. CASE end.state # "fails" /\ q.type \notin {"SOA", "NS"}
    <3>1. Resolve(h, q) = ResolveType(h, q, end, ZoneOf(h, end.name))
      BY <2>2, <2>6 DEF ResolveEnd
    <3> QED BY <1>1, <1>3, <2>1, <2>6, <3>1, ResolveTypeRight
  <2> QED BY <2>3, <2>4, <2>5, <2>6
<1> QED BY <1>2, <1>3

\* Every reply is right in each of the three ways.
LEMMA RepliesRight ==
    ASSUME ZonesInv, NEW a \in Asked PROVE RightReply(a[1], a[2], Reply(a))
<1> DEFINE h == a[1]
           q == a[2]
<1>1. h \in cachedHorizons /\ q \in Questions
  BY DEF Asked
<1> HIDE DEF h, q
<1>2. RightReply(h, q, HandleIn(h, q, FALSE, ZoneOf(h, q.name)))
  <2>1. \A c \in {"refused", "to_resolver", "to_forwarder"} : RightReply(h, q, Code(c))
    BY CodeRight
  <2>2. ZoneOf(h, q.name) # NilId /\ q.type # "AXFR" =>
           RightReply(h, q, Finished(Resolve(h, q)))
    BY <1>1, ResolveRight
  <2> QED BY <2>1, <2>2 DEF HandleIn
<1> QED BY <1>2 DEF Reply, HandleRequest, h, q

\* What is kept of the zones, agreeing or not, in every state.
THEOREM AuthorityInvariant == AuthoritySpec => []ZonesInv
<1> QED BY ZonesInit, ZonesStep, PTL DEF AuthoritySpec

\* The records of an answer lead from the name asked for to the name answered
\* (dns_auth_resolver::traverse_pointer_chain and its four callers).
THEOREM ChainsLead == AuthoritySpec => []ChainsLeadToTheAnswers
<1>1. ZonesInv => ChainsLeadToTheAnswers
  BY RepliesRight DEF ChainsLeadToTheAnswers, RightReply
<1> QED BY <1>1, AuthorityInvariant, PTL

\* What is denied is not in the database (the negative branches of
\* dns_auth_resolver::resolve, resolve_soa and resolve_all).
THEOREM DenialsTrue == AuthoritySpec => []DenialsAreTrue
<1>1. ZonesInv => DenialsAreTrue
  BY RepliesRight DEF DenialsAreTrue, RightReply
<1> QED BY <1>1, AuthorityInvariant, PTL

\* What is referred is referred to the name servers of one cut, all of them
\* (dns_rr_cache::get_delegated_NS and the four branches that answer with it).
THEOREM ReferralsToACut == AuthoritySpec => []ReferralsAreToACut
<1>1. ZonesInv => ReferralsAreToACut
  BY RepliesRight DEF ReferralsAreToACut, RightReply
<1> QED BY <1>1, AuthorityInvariant, PTL

----------------------------------------------------------------------------
(* The chain has an end.                                                   *)

\* Every pointer comes of a record: an alias of one that leads to the same
\* name, a DNAME is one.
LEMMA PointerSource ==
    ASSUME ZonesInv, NEW h \in cachedHorizons, NEW n \in Names, NEW whole,
           NEW p, p = Pointer(h, n, whole), p \notin {NoRecord, Throws}
    PROVE  \E r \in Records : /\ r.type = p.type /\ r.to = p.to
                              /\ p.type = "DNAME" => r = p
<1> DEFINE id == ZoneOf(h, n)
           cname == GetCNAME(h, id, n)
           dname == GetDNAME(h, id, n, whole)
<1>1. p = IF id = NilId THEN NoRecord ELSE IF cname # NoRecord THEN cname ELSE dname
  BY DEF Pointer
<1>2. id \in ZoneIds /\ h \in Holders(id)
  BY <1>1, ZoneOfHeld
<1> HIDE DEF id
<1>3. "CNAME" \in Types /\ "DNAME" \in Types
  BY DEF Types, ReadOrder
<1>4. \A t \in Types : \A r \in Listed(h, id, t) : r \in Records /\ r \in ResourceRecord
  BY <1>2, ListedBelongs
<1>5. CASE cname # NoRecord
  <2>1. p = cname /\ p.type = "CNAME"
    BY <1>1, <1>2, <1>5, GetCNAMEPoints, StoreAssumption
  <2>2. PICK r \in Listed(h, id, "CNAME") : cname \in {r, [r EXCEPT !.name = n]}
    BY <1>5 DEF GetCNAME
  <2>3. r \in Records /\ r \in ResourceRecord /\ r.type = "CNAME"
    BY <1>2, <1>3, ListedBelongs
  <2>4. r.to = p.to
    BY <2>1, <2>2, <2>3 DEF ResourceRecord
  <2> QED BY <2>1, <2>3, <2>4
<1>6. CASE cname = NoRecord
  <2>1. p = dname
    BY <1>1, <1>2, <1>6, StoreAssumption
  <2>2. p \in Listed(h, id, "DNAME")
    <3> DEFINE dnames == IF rrCache[id]["DNAME"] = Unread /\ id \notin whole THEN {}
                         ELSE Listed(h, id, "DNAME")
               above == {m \in Ancestors(n) \ {<<>>, n} : \E d \in dnames : d.name = m}
    <3>1. above # {} /\ p = CHOOSE d \in dnames : d.name = Longest(above)
      BY <2>1 DEF GetDNAME
    <3>2. above \subseteq Ancestors(n) /\ \A m \in above : \E d \in dnames : d.name = m
      OBVIOUS
    <3> HIDE DEF above, dnames
    <3>3. \E d \in dnames : d.name = Longest(above)
      BY <3>1, <3>2, LongestIn DEF Names
    <3>4. p \in dnames
      BY <3>1, <3>3
    <3> QED BY <3>4 DEF dnames
  <2> QED BY <1>3, <1>4, <2>2
<1> QED BY <1>5, <1>6

\* A round after which the chain goes on has applied a pointer that was not.
LEMMA HopOn ==
    ASSUME ZonesInv, NEW h \in cachedHorizons, NEW whole, NEW end \in End,
           Hop(h, whole, end).state = "on"
    PROVE  LET p == Pointer(h, end.name, whole)
           IN  /\ end.state = "on" /\ p \notin {NoRecord, Throws} /\ p \notin end.applied
               /\ p.type \in {"CNAME", "DNAME"}
               /\ p.type = "CNAME" => Hop(h, whole, end).name = p.to
               /\ Hop(h, whole, end).applied = end.applied \cup {p}
<1> DEFINE p == Pointer(h, end.name, whole)
<1>1. end.state = "on" /\ Hop(h, whole, end) = Apply(end, p)
  BY DEF Hop
<1>2. PointsFrom(end.name, p)
  BY PointerPoints DEF End
<1>3. NoRecord \notin end.applied /\ Throws \notin end.applied /\ NoRecord # Throws
  <2>1. NoRecord.type \notin Types /\ Throws.type \notin Types /\ NoRecord # Throws
    BY DEF NoRecord, Throws, Types, ReadOrder
  <2>2. \A s \in end.applied : s.type \in Types
    BY DEF End, ResourceRecord
  <2> QED BY <2>1, <2>2
<1> HIDE DEF p
<1>4. p # NoRecord
  <2> SUFFICES ASSUME p = NoRecord PROVE FALSE
    OBVIOUS
  <2>1. p.type # "CNAME" /\ p.type # "DNAME" /\ p # Throws /\ p \notin end.applied
    BY <1>3 DEF NoRecord
  <2>2. Apply(end, p) = [end EXCEPT !.state = "found"]
    BY <2>1 DEF Apply
  <2> QED BY <1>1, <2>2 DEF End
<1>5. p # Throws
  <2> SUFFICES ASSUME p = Throws PROVE FALSE
    OBVIOUS
  <2>1. p.type # "CNAME" /\ p.type # "DNAME" /\ p # NoRecord /\ p \notin end.applied
    BY <1>3 DEF Throws
  <2>2. Apply(end, p) = [end EXCEPT !.state = "fails"]
    BY <2>1 DEF Apply
  <2> QED BY <1>1, <2>2 DEF End
<1>6. p \notin end.applied
  <2> SUFFICES ASSUME p \in end.applied PROVE FALSE
    OBVIOUS
  <2>1. Apply(end, p) = [end EXCEPT !.state = "loop"]
    BY <1>4, <1>5 DEF Apply
  <2> QED BY <1>1, <2>1 DEF End
<1>7. CASE p.type = "CNAME"
  <2>1. Apply(end, p) = Alias(end, p)
    BY <1>4, <1>5, <1>6, <1>7 DEF Apply
  <2>2. Alias(end, p).name = p.to /\ Alias(end, p).applied = end.applied \cup {p}
    BY DEF Alias, End
  <2> QED BY <1>1, <1>4, <1>5, <1>6, <1>7, <2>1, <2>2 DEF p
<1>8. CASE p.type = "DNAME"
  <2>1. Apply(end, p) = Rename(end, p)
    BY <1>4, <1>5, <1>6, <1>8 DEF Apply
  <2>2. Rename(end, p).applied = end.applied \cup {p}
    BY DEF Rename, Made, End
  <2> QED BY <1>1, <1>4, <1>5, <1>6, <1>8, <2>1, <2>2 DEF p
<1> QED BY <1>2, <1>4, <1>5, <1>7, <1>8 DEF PointsFrom

LEMMA WalkEnds ==
    ASSUME ZonesInv, NEW h \in cachedHorizons, NEW n \in Names, NEW whole,
           NEW f, Walks(h, n, whole, Rounds, f)
    PROVE  f[Rounds].state # "on"
<1> DEFINE N == Cardinality(Records)
           p(i) == Pointer(h, f[i].name, whole)
<1>1. N \in Nat /\ Rounds = N + 2 /\ IsFiniteSet(Records)
  BY AuthorityAssumption, FS_CardinalityType DEF Rounds
<1> HIDE DEF N
<1>2. \A i \in 0..(N + 2) : f[i] \in End
  BY <1>1, WalkLed
<1>3. \A i \in 0..(N + 1) : f[i + 1] = Hop(h, whole, f[i])
  <2> SUFFICES ASSUME NEW i \in 0..(N + 1) PROVE f[i + 1] = Hop(h, whole, f[i])
    OBVIOUS
  <2>1. i + 1 \in 0..Rounds /\ i + 1 # 0 /\ (i + 1) - 1 = i
    BY <1>1
  <2> QED BY <2>1 DEF Walks
<1> SUFFICES ASSUME f[N + 2].state = "on" PROVE FALSE
  BY <1>1
\* It went on in every round.
<1>4. \A i \in 0..(N + 2) : f[i].state = "on"
  <2> DEFINE T == {i \in 0..(N + 2) : f[i].state # "on"}
  <2> SUFFICES ASSUME T # {} PROVE FALSE
    OBVIOUS
  <2>1. T \subseteq 0..(N + 2)
    OBVIOUS
  <2>2. PICK m \in T : \A i \in T : i =< m
    <3>1. N + 2 \in Nat
      BY <1>1
    <3> HIDE DEF T
    <3> QED BY <2>1, <3>1, Greatest
  <2>3. m \in 0..(N + 1) /\ m + 1 \in 0..(N + 2) /\ m + 1 \notin T
    BY <1>1, <2>2
  <2>4. f[m + 1] = Hop(h, whole, f[m]) /\ f[m + 1].state = "on" /\ f[m].state # "on"
    BY <1>3, <2>2, <2>3
  <2> QED BY <2>4 DEF Hop
<1>5. ASSUME NEW i \in 0..(N + 1)
      PROVE  /\ p(i) \notin {NoRecord, Throws} /\ p(i) \notin f[i].applied
             /\ p(i).type \in {"CNAME", "DNAME"}
             /\ p(i).type = "CNAME" => f[i + 1].name = p(i).to
             /\ f[i + 1].applied = f[i].applied \cup {p(i)}
  <2>1. f[i] \in End /\ f[i + 1] = Hop(h, whole, f[i]) /\ f[i + 1].state = "on"
    <3>1. i \in 0..(N + 2) /\ i + 1 \in 0..(N + 2)
      BY <1>1
    <3> QED BY <1>2, <1>3, <1>4, <3>1
  <2> QED BY <2>1, HopOn
<1> HIDE DEF p
\* What is applied stays so, and no pointer is applied twice.
<1>6. ASSUME NEW i \in 0..(N + 1), NEW j \in 0..(N + 1), i < j
      PROVE  p(i) \in f[j].applied
  <2> DEFINE T == {k \in Nat : i < k /\ k =< j /\ p(i) \notin f[k].applied}
  <2> SUFFICES ASSUME T # {} PROVE FALSE
    BY <1>6
  <2>1. T \subseteq Nat
    OBVIOUS
  <2>2. PICK m \in T : \A k \in T : m =< k
    <3> HIDE DEF T
    <3> QED BY <2>1, Least
  <2>3. m - 1 \in 0..(N + 1) /\ (m - 1) + 1 = m /\ i =< m - 1 /\ m - 1 \notin T
    BY <1>1, <2>2
  <2>4. f[m].applied = f[m - 1].applied \cup {p(m - 1)}
    BY <1>5, <2>3
  <2>5. CASE i = m - 1
    BY <2>2, <2>4, <2>5
  <2>6. CASE i < m - 1
    <3>1. p(i) \in f[m - 1].applied
      BY <1>1, <1>6, <2>2, <2>3, <2>6
    <3> QED BY <2>2, <2>4, <3>1
  <2> QED BY <2>3, <2>5, <2>6
<1>7. ASSUME NEW i \in 0..(N + 1), NEW j \in 0..(N + 1), p(i) = p(j)
      PROVE  i = j
  <2>1. i < j => FALSE
    BY <1>5, <1>6, <1>7
  <2>2. j < i => FALSE
    BY <1>5, <1>6, <1>7
  <2> QED BY <1>1, <2>1, <2>2
\* Every round but the last has a record of its own.
<1> DEFINE Source(i, r) == /\ r.type = p(i - 1).type /\ r.to = p(i - 1).to
                           /\ p(i - 1).type = "DNAME" => r = p(i - 1)
           g == [i \in 1..(N + 1) |-> CHOOSE r \in Records : Source(i, r)]
<1>8. ASSUME NEW i \in 1..(N + 1) PROVE g[i] \in Records /\ Source(i, g[i])
  <2>1. i - 1 \in 0..(N + 1)
    BY <1>1
  <2>2. f[i - 1].name \in Names
    BY <1>1, <1>2, <2>1 DEF End
  <2>3. \E r \in Records : Source(i, r)
    BY <1>5, <2>1, <2>2, PointerSource DEF p
  <2> HIDE DEF Source
  <2> QED BY <2>3
<1>9. g \in [1..(N + 1) -> Records]
  BY <1>8
<1>10. IsFiniteSet(1..(N + 1)) /\ Cardinality(1..(N + 1)) = N + 1
  BY <1>1, FS_Interval
<1>11. PICK i \in 1..(N + 1) : \E j \in 1..(N + 1) : i # j /\ g[i] = g[j]
  <2> HIDE DEF g
  <2> QED BY <1>1, <1>9, <1>10, FS_PigeonHole DEF N
<1>12. PICK j \in 1..(N + 1) : i # j /\ g[i] = g[j]
  BY <1>11
<1>13. Source(i, g[i]) /\ Source(j, g[i])
  BY <1>8, <1>12
<1> HIDE DEF g
<1>14. i - 1 \in 0..(N + 1) /\ j - 1 \in 0..(N + 1) /\ i \in 0..(N + 1) /\ j \in 0..(N + 1)
       /\ (i - 1) + 1 = i /\ (j - 1) + 1 = j /\ i - 1 # j - 1
  BY <1>1, <1>12
<1>15. CASE g[i].type = "DNAME"
  <2>1. p(i - 1) = p(j - 1)
    BY <1>13, <1>15
  <2> QED BY <1>7, <1>14, <2>1
<1>16. CASE g[i].type = "CNAME"
  <2>1. f[i].name = p(i - 1).to /\ f[j].name = p(j - 1).to
    BY <1>5, <1>13, <1>14, <1>16
  <2>2. p(i) = p(j)
    BY <1>13, <2>1 DEF p
  <2> QED BY <1>7, <1>12, <1>14, <2>2
<1> QED BY <1>5, <1>13, <1>14, <1>15, <1>16

\* dns_auth_resolver::traverse_pointer_chain ends for every name and all that
\* zones may hold: it goes on only with a pointer it has not applied at a name
\* it has not been at, and there are no more of these than records.
THEOREM AllChainsEnd == AuthoritySpec => []ChainsEnd
<1>1. ASSUME ZonesInv, NEW a \in Asked, NEW whole
      PROVE  PointerChain(a[1], a[2].name, whole).state # "on"
  <2> DEFINE h == a[1]
             n == a[2].name
             f == CHOOSE f : Walks(h, n, whole, Rounds, f)
  <2>1. Rounds \in Nat
    BY AuthorityAssumption, FS_CardinalityType DEF Rounds
  <2>2. h \in cachedHorizons /\ n \in Names
    BY AuthorityAssumption DEF Asked
  <2>3. PointerChain(h, n, whole) = f[Rounds]
    BY DEF PointerChain, Walks, Start
  <2> HIDE DEF h, n
  <2>4. Walks(h, n, whole, Rounds, f)
    BY <2>1, WalkExists
  <2> HIDE DEF f
  <2>5. f[Rounds].state # "on"
    BY <1>1, <2>2, <2>4, WalkEnds
  <2> QED BY <2>3, <2>5 DEF h, n
<1>2. ZonesInv => ChainsEnd
  BY <1>1 DEF ChainsEnd
<1> QED BY <1>2, AuthorityInvariant, PTL

----------------------------------------------------------------------------
(* The resolver with all lists read, function by function.  What does not  *)
(* look at the lists is the same.                                          *)

LEMMA WarmNames ==
    /\ \A n, k : Warm!Suffix(n, k) = Suffix(n, k)
    /\ \A n, m : Warm!Same(n, m) <=> Same(n, m)
    /\ \A n : Warm!Ancestors(n) = Ancestors(n)
    /\ \A n, m : Warm!IsSubdomainOf(n, m) <=> IsSubdomainOf(n, m)
    /\ \A n, m : Warm!WildcardEquals(n, m) <=> WildcardEquals(n, m)
    /\ \A n, m, l : Warm!ApplyDname(n, m, l) = ApplyDname(n, m, l)
    /\ Warm!Wildcard = Wildcard
    /\ \A ns : Warm!Longest(ns) = Longest(ns)
    /\ \A rs, t : Warm!OfType(rs, t) = OfType(rs, t)
<1>1. \A n, k : Warm!Suffix(n, k) = Suffix(n, k)
  BY DEF Warm!Suffix, Suffix
<1>2. \A n, m : Warm!Same(n, m) <=> Same(n, m)
  BY DEF Warm!Same, Same
<1>3. \A n : Warm!Ancestors(n) = Ancestors(n)
  BY <1>1 DEF Warm!Ancestors, Ancestors
<1>4. \A n, m : Warm!IsSubdomainOf(n, m) <=> IsSubdomainOf(n, m)
  BY <1>1, <1>2 DEF Warm!IsSubdomainOf, IsSubdomainOf
<1>5. \A n, m : Warm!WildcardEquals(n, m) <=> WildcardEquals(n, m)
  BY <1>1, <1>2 DEF Warm!WildcardEquals, WildcardEquals, Warm!Wildcard, Wildcard
<1>6. \A n, m, l : Warm!ApplyDname(n, m, l) = ApplyDname(n, m, l)
  BY DEF Warm!ApplyDname, ApplyDname
<1>7. \A ns : Warm!Longest(ns) = Longest(ns)
  BY DEF Warm!Longest, Longest
<1>8. \A rs, t : Warm!OfType(rs, t) = OfType(rs, t)
  BY DEF Warm!OfType, OfType
<1> QED BY <1>1, <1>2, <1>3, <1>4, <1>5, <1>6, <1>7, <1>8 DEF Warm!Wildcard, Wildcard

LEMMA WarmZones ==
    /\ \A h, n : Warm!ZoneOf(h, n) = ZoneOf(h, n)
    /\ \A h, id : Warm!Apex(h, id) = Apex(h, id)
    /\ \A h, id : Warm!Forwarded(h, id) = Forwarded(h, id)
    /\ Warm!Throws = Throws /\ Warm!NoRecord = NoRecord
    /\ Warm!Types = Types
<1>1. \A h, n : Warm!ZoneOf(h, n) = ZoneOf(h, n)
  BY WarmNames DEF Warm!ZoneOf, ZoneOf, Warm!InCase, InCase
<1> QED BY <1>1 DEF Warm!Apex, Apex, Warm!Forwarded, Forwarded, Warm!Throws, Throws,
                    Warm!NoRecord, NoRecord, Warm!Types, Types, Warm!ReadOrder, ReadOrder

\* Every list is the same, and one that has been read.
LEMMA WarmListed ==
    ASSUME ZonesInv, NEW id \in ZoneIds, OneMind(id), NEW h \in Holders(id), NEW t \in Types
    PROVE  /\ Warm!Listed(h, id, t) = Listed(h, id, t)
           /\ AllRead[id][t] # Unread
<1> DEFINE g == CHOOSE g \in Holders(id) : TRUE
<1>1. g \in Holders(id)
  OBVIOUS
<1>2. AllRead[id][t] = Listed(g, id, t)
  BY DEF AllRead
<1> HIDE DEF g
<1>3. Listed(g, id, t) = Listed(h, id, t)
  BY <1>1 DEF Listed, OneMind, Forwarded
<1>4. Listed(h, id, t) \in SUBSET Records
  BY ListedBelongs
<1>5. AllRead[id][t] # Unread
  BY <1>2, <1>3, <1>4, StoreAssumption
<1> QED BY <1>2, <1>3, <1>5 DEF Warm!Listed

----------------------------------------------------------------------------
(* The lookups.                                                            *)

LEMMA WarmUnreadable ==
    ASSUME ZonesInv, NEW id \in ZoneIds, Readable(id), NEW h \in Holders(id), NEW t \in {"SOA", "NS"}
    PROVE  ~Unreadable(h, id, t) /\ ~Warm!Unreadable(h, id, t)
<1>1. t \in Types
  BY DEF Types, ReadOrder
<1>2. AllRead[id][t] # Unread
  BY <1>1, WarmListed DEF Readable
<1> QED BY <1>2 DEF Readable, Warm!Unreadable

LEMMA WarmRecordsFor ==
    ASSUME ZonesInv, NEW id \in ZoneIds, Readable(id), NEW h \in Holders(id), NEW n,
           NEW t \in Types \cup {"ALL"}
    PROVE  Warm!RecordsFor(h, id, n, t) = RecordsFor(h, id, n, t)
<1>1. \A u \in Types : Warm!Listed(h, id, u) = Listed(h, id, u)
  BY WarmListed DEF Readable
<1>2. \A rs : Warm!Renamed(rs, n) = Renamed(rs, n)
  BY WarmNames DEF Warm!Renamed, Renamed
<1>3. \A u \in Types : Warm!Renamed(Warm!Listed(h, id, u), n) = Renamed(Listed(h, id, u), n)
  BY <1>1, <1>2
<1>4. CASE t # "ALL"
  BY <1>3, <1>4 DEF Warm!RecordsFor, RecordsFor
<1>5. CASE t = "ALL"
  <2>1. ~Unreadable(h, id, "SOA") /\ ~Unreadable(h, id, "NS")
    BY WarmUnreadable
  <2>2. ~Warm!Unreadable(h, id, "SOA") /\ ~Warm!Unreadable(h, id, "NS")
    BY WarmUnreadable
  <2>3. Warm!RecordsFor(h, id, n, t) =
           UNION {Warm!Renamed(Warm!Listed(h, id, u), n) : u \in Types}
    BY <1>5, <2>2, WarmZones DEF Warm!RecordsFor
  <2>4. RecordsFor(h, id, n, t) = UNION {Renamed(Listed(h, id, u), n) : u \in Types}
    BY <1>5, <2>1 DEF RecordsFor
  <2> QED BY <1>3, <2>3, <2>4
<1> QED BY <1>4, <1>5

LEMMA WarmLookups ==
    ASSUME ZonesInv, NEW id \in ZoneIds, Readable(id), NEW h \in Holders(id), NEW n
    PROVE  /\ Warm!GetSOA(h, id) = GetSOA(h, id)
           /\ Warm!GetNS(h, id) = GetNS(h, id)
           /\ Warm!DelegatedNS(h, id, n) = DelegatedNS(h, id, n)
           /\ Warm!GetCNAME(h, id, n) = GetCNAME(h, id, n)
<1>1. "SOA" \in Types /\ "NS" \in Types /\ "CNAME" \in Types
  BY DEF Types, ReadOrder
<1>2. /\ Warm!Listed(h, id, "SOA") = Listed(h, id, "SOA")
      /\ Warm!Listed(h, id, "NS") = Listed(h, id, "NS")
      /\ Warm!Listed(h, id, "CNAME") = Listed(h, id, "CNAME")
  BY <1>1, WarmListed DEF Readable
<1>3. /\ ~Unreadable(h, id, "SOA") /\ ~Unreadable(h, id, "NS")
      /\ ~Warm!Unreadable(h, id, "SOA") /\ ~Warm!Unreadable(h, id, "NS")
  BY WarmUnreadable
<1>4. Warm!GetSOA(h, id) = GetSOA(h, id)
  <2> DEFINE one(rs) == CHOOSE r \in rs : TRUE
  <2>1. GetSOA(h, id) = IF Listed(h, id, "SOA") = {} THEN NoRecord ELSE one(Listed(h, id, "SOA"))
    BY <1>3 DEF GetSOA
  <2>2. Warm!GetSOA(h, id) = IF Warm!Listed(h, id, "SOA") = {} THEN Warm!NoRecord
                             ELSE one(Warm!Listed(h, id, "SOA"))
    BY <1>3 DEF Warm!GetSOA
  <2> HIDE DEF one
  <2> QED BY <1>2, <2>1, <2>2, WarmZones
<1>5. Warm!GetNS(h, id) = GetNS(h, id)
  BY <1>2, WarmZones, WarmNames DEF Warm!GetNS, GetNS
<1>6. Warm!GetCNAME(h, id, n) = GetCNAME(h, id, n)
  <2> DEFINE one(rs) == CHOOSE r \in rs : TRUE
             exact(rs) == {r \in rs : r.name = n}
             wild(rs) == {r \in rs : WildcardEquals(r.name, n)}
             wwild(rs) == {r \in rs : Warm!WildcardEquals(r.name, n)}
             found(rs, ws) == IF exact(rs) # {} THEN one(exact(rs))
                              ELSE IF ws # {} THEN [one(ws) EXCEPT !.name = n]
                              ELSE NoRecord
  <2>1. GetCNAME(h, id, n) = found(Listed(h, id, "CNAME"), wild(Listed(h, id, "CNAME")))
    BY DEF GetCNAME
  <2>2. Warm!GetCNAME(h, id, n) =
           found(Warm!Listed(h, id, "CNAME"), wwild(Warm!Listed(h, id, "CNAME")))
    BY WarmZones DEF Warm!GetCNAME
  <2>3. \A rs : wwild(rs) = wild(rs)
    BY WarmNames
  <2> HIDE DEF found, wild, wwild
  <2> QED BY <1>2, <2>1, <2>2, <2>3
<1>7. Warm!DelegatedNS(h, id, n) = DelegatedNS(h, id, n)
  <2> DEFINE Cut(m) == {r \in Listed(h, id, "NS") : r.name = m /\ ~Same(m, Apex(h, id))}
             WCut(m) == {r \in Warm!Listed(h, id, "NS") :
                           r.name = m /\ ~Warm!Same(m, Warm!Apex(h, id))}
             cuts == {m \in Ancestors(n) \ {<<>>} : Cut(m) # {}}
             wcuts == {m \in Warm!Ancestors(n) \ {<<>>} : WCut(m) # {}}
  <2>1. \A m : WCut(m) = Cut(m)
    BY <1>2, WarmZones, WarmNames
  <2>2. DelegatedNS(h, id, n) =
           IF Same(Apex(h, id), n) \/ cuts = {} THEN {} ELSE Cut(Longest(cuts))
    BY <1>3 DEF DelegatedNS
  <2>3. Warm!DelegatedNS(h, id, n) =
           IF Warm!Same(Warm!Apex(h, id), n) \/ wcuts = {} THEN {}
           ELSE WCut(Warm!Longest(wcuts))
    BY <1>3 DEF Warm!DelegatedNS
  <2> HIDE DEF Cut, WCut
  <2>4. wcuts = cuts
    BY <2>1, WarmNames
  <2> HIDE DEF cuts, wcuts
  <2> QED BY <2>1, <2>2, <2>3, <2>4, WarmZones, WarmNames
<1> QED BY <1>4, <1>5, <1>6, <1>7

\* The DNAME records not read yet, which get_DNAME does not find, are none.
LEMMA WarmDNAME ==
    ASSUME ZonesInv, NEW id \in ZoneIds, Readable(id), NEW h \in Holders(id), NEW n, NEW whole
    PROVE  Warm!GetDNAME(h, id, n, whole) = GetDNAME(h, id, n, whole)
<1>1. "DNAME" \in Types
  BY DEF Types, ReadOrder
<1>2. Warm!Listed(h, id, "DNAME") = Listed(h, id, "DNAME") /\ AllRead[id]["DNAME"] # Unread
  BY <1>1, WarmListed DEF Readable
<1>3. ~Unreadable(h, id, "SOA") /\ ~Warm!Unreadable(h, id, "SOA")
  BY WarmUnreadable
<1> DEFINE dnames == IF rrCache[id]["DNAME"] = Unread /\ id \notin whole THEN {}
                     ELSE Listed(h, id, "DNAME")
           wdnames == IF AllRead[id]["DNAME"] = Unread /\ id \notin whole THEN {}
                      ELSE Warm!Listed(h, id, "DNAME")
           above == {m \in Ancestors(n) \ {<<>>, n} : \E r \in dnames : r.name = m}
           wabove == {m \in Warm!Ancestors(n) \ {<<>>, n} : \E r \in wdnames : r.name = m}
<1>4. wdnames = dnames
  <2>1. rrCache[id]["DNAME"] = Unread => Listed(h, id, "DNAME") = {}
    BY DEF Readable, Listed
  <2> QED BY <1>2, <2>1
<1> DEFINE named(rs, m) == CHOOSE r \in rs : r.name = m
<1>5. GetDNAME(h, id, n, whole) =
         IF above = {} THEN NoRecord ELSE named(dnames, Longest(above))
  BY <1>3 DEF GetDNAME
<1>6. Warm!GetDNAME(h, id, n, whole) =
         IF wabove = {} THEN Warm!NoRecord ELSE named(wdnames, Warm!Longest(wabove))
  BY <1>3 DEF Warm!GetDNAME
<1> HIDE DEF dnames, wdnames, named
<1>7. wabove = above
  BY <1>4, WarmNames
<1> HIDE DEF above, wabove
<1> QED BY <1>4, <1>5, <1>6, <1>7, WarmZones, WarmNames

----------------------------------------------------------------------------
(* The chain.                                                              *)

AllReadable == \A id \in ZoneIds : Readable(id)

LEMMA WarmPointer ==
    ASSUME ZonesInv, AllReadable, NEW h \in cachedHorizons, NEW n \in Names, NEW whole
    PROVE  Warm!Pointer(h, n, whole) = Pointer(h, n, whole)
<1> DEFINE id == ZoneOf(h, n)
<1>1. id = NilId \/ (id \in ZoneIds /\ h \in Holders(id))
  BY ZoneOfHeld
<1>2. Warm!ZoneOf(h, n) = id
  BY WarmZones
<1>3. id # NilId => /\ Warm!GetCNAME(h, id, n) = GetCNAME(h, id, n)
                    /\ Warm!GetDNAME(h, id, n, whole) = GetDNAME(h, id, n, whole)
  <2> HIDE DEF id
  <2> QED BY <1>1, WarmLookups, WarmDNAME DEF AllReadable
<1>4. /\ Pointer(h, n, whole) = IF id = NilId THEN NoRecord
                                ELSE IF GetCNAME(h, id, n) # NoRecord THEN GetCNAME(h, id, n)
                                ELSE GetDNAME(h, id, n, whole)
      /\ Warm!Pointer(h, n, whole) = IF id = NilId THEN Warm!NoRecord
                                ELSE IF Warm!GetCNAME(h, id, n) # Warm!NoRecord
                                THEN Warm!GetCNAME(h, id, n)
                                ELSE Warm!GetDNAME(h, id, n, whole)
  BY <1>2 DEF Pointer, Warm!Pointer
<1> HIDE DEF id
<1> QED BY <1>3, <1>4, WarmZones

LEMMA WarmApply == ASSUME NEW end, NEW p PROVE Warm!Apply(end, p) = Apply(end, p)
<1>1. Warm!Alias(end, p) = Alias(end, p)
  BY DEF Warm!Alias, Alias
<1>2. Warm!Rename(end, p) = Rename(end, p)
  BY WarmNames DEF Warm!Rename, Rename, Warm!Made, Made
<1> QED BY <1>1, <1>2, WarmZones DEF Warm!Apply, Apply

LEMMA WarmHop ==
    ASSUME ZonesInv, AllReadable, NEW h \in cachedHorizons, NEW whole, NEW end \in End
    PROVE  Warm!Hop(h, whole, end) = Hop(h, whole, end)
<1>1. Warm!Pointer(h, end.name, whole) = Pointer(h, end.name, whole)
  BY WarmPointer DEF End
<1> QED BY <1>1, WarmApply DEF Warm!Hop, Hop

WarmWalks(h, n, whole, k, f) ==
    f = [i \in 0..k |-> IF i = 0 THEN Start(n) ELSE Warm!Hop(h, whole, f[i - 1])]

\* The two walks are one: there is no first round at which they differ.
LEMMA WarmPointerChain ==
    ASSUME ZonesInv, AllReadable, NEW h \in cachedHorizons, NEW n \in Names, NEW whole
    PROVE  Warm!PointerChain(h, n, whole) = PointerChain(h, n, whole)
<1> DEFINE f == CHOOSE f : Walks(h, n, whole, Rounds, f)
           g == CHOOSE g : WarmWalks(h, n, whole, Rounds, g)
<1>1. Rounds \in Nat
  BY AuthorityAssumption, FS_CardinalityType DEF Rounds
<1>2. Walks(h, n, whole, Rounds, f)
  BY <1>1, WalkExists
<1>3. PointerChain(h, n, whole) = f[Rounds] /\ Warm!PointerChain(h, n, whole) = g[Rounds]
  <2>1. PointerChain(h, n, whole) = f[Rounds]
    BY DEF PointerChain, Walks, Start
  <2>2. Warm!Rounds = Rounds
    BY DEF Warm!Rounds, Rounds, Cardinality, Warm!Cardinality
  <2>3. Warm!PointerChain(h, n, whole)
           = (CHOOSE w : WarmWalks(h, n, whole, Warm!Rounds, w))[Warm!Rounds]
    BY DEF Warm!PointerChain, WarmWalks, Start
  <2> QED BY <2>1, <2>2, <2>3
<1> HIDE DEF f
<1>4. \A i \in 0..Rounds : f[i] \in End
  BY <1>1, <1>2, WalkLed
<1>5. WarmWalks(h, n, whole, Rounds, f)
  <2>1. \A i \in 1..Rounds : Warm!Hop(h, whole, f[i - 1]) = Hop(h, whole, f[i - 1])
    <3>1. \A i \in 1..Rounds : i - 1 \in 0..Rounds
      BY <1>1
    <3> QED BY <1>4, <3>1, WarmHop
  <2>2. \A i \in 0..Rounds : i # 0 => i \in 1..Rounds
    BY <1>1
  <2>3. [i \in 0..Rounds |-> IF i = 0 THEN Start(n) ELSE Hop(h, whole, f[i - 1])]
        = [i \in 0..Rounds |-> IF i = 0 THEN Start(n) ELSE Warm!Hop(h, whole, f[i - 1])]
    BY <2>1, <2>2
  <2> QED BY <1>2, <2>3 DEF Walks, WarmWalks
<1>6. WarmWalks(h, n, whole, Rounds, g)
  BY <1>5
<1> HIDE DEF g
<1>7. f[Rounds] = g[Rounds]
  <2> DEFINE T == {i \in 0..Rounds : f[i] # g[i]}
  <2> SUFFICES ASSUME T # {} PROVE FALSE
    BY <1>1
  <2>1. T \subseteq Nat
    OBVIOUS
  <2>2. PICK m \in T : \A i \in T : m =< i
    <3> HIDE DEF T
    <3> QED BY <2>1, Least
  <2>3. m # 0
    BY <1>1, <1>5, <1>6, <2>2 DEF WarmWalks
  <2>4. m - 1 \in 0..Rounds /\ m - 1 \notin T
    BY <1>1, <2>2, <2>3
  <2>5. f[m] = Warm!Hop(h, whole, f[m - 1]) /\ g[m] = Warm!Hop(h, whole, g[m - 1])
    BY <1>5, <1>6, <2>2, <2>3 DEF WarmWalks
  <2> QED BY <2>2, <2>4, <2>5
<1> QED BY <1>3, <1>7

----------------------------------------------------------------------------
(* The responses.                                                          *)

LEMMA WarmGlue ==
    ASSUME ZonesInv, AllReadable, NEW h \in cachedHorizons, NEW ns, \A r \in ns : r.to \in Names
    PROVE  Warm!Glue(h, ns) = Glue(h, ns)
<1> DEFINE At(r) == IF ZoneOf(h, r.to) = NilId THEN {}
                    ELSE RecordsFor(h, ZoneOf(h, r.to), r.to, "A")
           WarmAt(r) == IF Warm!ZoneOf(h, r.to) = NilId THEN {}
                        ELSE Warm!RecordsFor(h, Warm!ZoneOf(h, r.to), r.to, "A")
<1>1. ASSUME NEW r \in ns PROVE WarmAt(r) = At(r)
  <2>1. ZoneOf(h, r.to) = NilId \/ (ZoneOf(h, r.to) \in ZoneIds /\ h \in Holders(ZoneOf(h, r.to)))
    BY ZoneOfHeld
  <2>2. "A" \in Types
    BY DEF Types, ReadOrder
  <2>3. ZoneOf(h, r.to) # NilId => Warm!RecordsFor(h, ZoneOf(h, r.to), r.to, "A")
                                   = RecordsFor(h, ZoneOf(h, r.to), r.to, "A")
    BY <2>1, <2>2, WarmRecordsFor DEF AllReadable
  <2> QED BY <2>3, WarmZones
<1>2. Glue(h, ns) = UNION {At(r) : r \in ns} /\ Warm!Glue(h, ns) = UNION {WarmAt(r) : r \in ns}
  BY DEF Glue, Warm!Glue
<1> HIDE DEF At, WarmAt
<1> QED BY <1>1, <1>2

\* Name servers are found at names.
LEMMA NameServersAt ==
    ASSUME ZonesInv, NEW id \in ZoneIds, Readable(id), NEW h \in Holders(id), NEW n
    PROVE  /\ \A r \in GetNS(h, id) : r.to \in Names
           /\ \A r \in DelegatedNS(h, id, n) : r.to \in Names
<1>1. "NS" \in Types
  BY DEF Types, ReadOrder
<1>2. \A r \in Listed(h, id, "NS") : r.to \in Names
  BY <1>1, ListedBelongs DEF ResourceRecord
<1>3. Throws.to \in Names
  BY DEF Throws, Names
<1>4. ~Unreadable(h, id, "NS")
  BY WarmUnreadable
<1>5. \A r \in GetNS(h, id) : r \in Listed(h, id, "NS") \/ r = Throws
  BY DEF GetNS
<1>6. \A r \in DelegatedNS(h, id, n) : r \in Listed(h, id, "NS")
  BY <1>4 DEF DelegatedNS
<1> QED BY <1>2, <1>3, <1>5, <1>6

LEMMA WarmReferral ==
    ASSUME ZonesInv, AllReadable, NEW h \in cachedHorizons, NEW response,
           NEW ns, \A r \in ns : r.to \in Names
    PROVE  Warm!Referral(h, response, ns) = Referral(h, response, ns)
<1>1. Warm!Glue(h, ns) = Glue(h, ns)
  BY WarmGlue
<1> QED BY <1>1 DEF Warm!Referral, Referral

LEMMA WarmPositive ==
    ASSUME ZonesInv, AllReadable, NEW id \in ZoneIds, NEW h \in Holders(id), NEW response, NEW answers
    PROVE  Warm!Positive(h, id, response, answers) = Positive(h, id, response, answers)
<1>1. Warm!GetNS(h, id) = GetNS(h, id)
  BY WarmLookups DEF AllReadable
<1>2. h \in cachedHorizons /\ \A r \in GetNS(h, id) : r.to \in Names
  BY NameServersAt DEF AllReadable, Holders
<1>3. Warm!Glue(h, GetNS(h, id)) = Glue(h, GetNS(h, id))
  BY <1>2, WarmGlue
<1> QED BY <1>1, <1>3 DEF Warm!Positive, Positive

\* What the lookups of a zone find, and what is made of it, is the same.
LEMMA WarmZone ==
    ASSUME ZonesInv, AllReadable, NEW id \in ZoneIds, NEW h \in Holders(id), NEW n, NEW response, NEW answers
    PROVE  /\ Warm!GetSOA(h, id) = GetSOA(h, id)
           /\ Warm!GetNS(h, id) = GetNS(h, id)
           /\ Warm!DelegatedNS(h, id, n) = DelegatedNS(h, id, n)
           /\ Warm!Glue(h, GetNS(h, id)) = Glue(h, GetNS(h, id))
           /\ Warm!Referral(h, response, DelegatedNS(h, id, n))
              = Referral(h, response, DelegatedNS(h, id, n))
           /\ Warm!Positive(h, id, response, answers) = Positive(h, id, response, answers)
<1>1. /\ Warm!GetSOA(h, id) = GetSOA(h, id)
      /\ Warm!GetNS(h, id) = GetNS(h, id)
      /\ Warm!DelegatedNS(h, id, n) = DelegatedNS(h, id, n)
  BY WarmLookups DEF AllReadable
<1>2. /\ h \in cachedHorizons
      /\ \A r \in GetNS(h, id) : r.to \in Names
      /\ \A r \in DelegatedNS(h, id, n) : r.to \in Names
  BY NameServersAt DEF AllReadable, Holders
<1>3. Warm!Glue(h, GetNS(h, id)) = Glue(h, GetNS(h, id))
  BY <1>2, WarmGlue
<1>4. Warm!Referral(h, response, DelegatedNS(h, id, n)) = Referral(h, response, DelegatedNS(h, id, n))
  BY <1>2, WarmReferral
<1>5. Warm!Positive(h, id, response, answers) = Positive(h, id, response, answers)
  BY WarmPositive
<1> QED BY <1>1, <1>3, <1>4, <1>5

LEMMA WarmCreated ==
    /\ \A c : [Warm!Created EXCEPT !.chain = c] = With(c)
    /\ Warm!Created = Created
    /\ Warm!Failed = Failed
    /\ \A c : Warm!Code(c) = Code(c)
    /\ \A response : Warm!Finished(response) = Finished(response)
<1>1. Warm!Created = Created
  BY DEF Warm!Created, Created
<1>2. \A c : [Warm!Created EXCEPT !.chain = c] = With(c)
  BY <1>1 DEF With
<1>3. Warm!Failed = Failed
  BY <1>1, WarmZones DEF Warm!Failed, Failed
<1>4. \A c : Warm!Code(c) = Code(c)
  BY <1>1 DEF Warm!Code, Code
<1>5. \A response : Warm!Finished(response) = Finished(response)
  BY <1>4, WarmZones DEF Warm!Finished, Finished
<1> QED BY <1>1, <1>2, <1>3, <1>4, <1>5

LEMMA WarmResolveType ==
    ASSUME ZonesInv, AllReadable, NEW h \in cachedHorizons, NEW q, q.type \in Types \cup {"ALL"},
           NEW end, NEW id, id = NilId \/ (id \in ZoneIds /\ h \in Holders(id))
    PROVE  Warm!ResolveType(h, q, end, id) = ResolveType(h, q, end, id)
<1> DEFINE response == With(end.chain)
           answers == RecordsFor(h, id, end.name, q.type)
           wanswers == Warm!RecordsFor(h, id, end.name, q.type)
           ns == DelegatedNS(h, id, end.name)
           wns == Warm!DelegatedNS(h, id, end.name)
<1>1. ResolveType(h, q, end, id) =
        IF id = NilId THEN response
        ELSE IF answers # {} THEN Positive(h, id, response, answers)
        ELSE IF ns # {} THEN Referral(h, response, ns)
        ELSE IF end.state = "loop" THEN response
        ELSE [response EXCEPT !.nameservers = {GetSOA(h, id)}]
  BY Zenon DEF ResolveType, With
<1>2. Warm!ResolveType(h, q, end, id) =
        IF id = NilId THEN response
        ELSE IF wanswers # {} THEN Warm!Positive(h, id, response, wanswers)
        ELSE IF wns # {} THEN Warm!Referral(h, response, wns)
        ELSE IF end.state = "loop" THEN response
        ELSE [response EXCEPT !.nameservers = {Warm!GetSOA(h, id)}]
  BY WarmCreated, Zenon DEF Warm!ResolveType, With
<1>3. CASE id = NilId
  BY <1>1, <1>2, <1>3
<1>4. CASE id \in ZoneIds /\ h \in Holders(id)
  <2>1. wanswers = answers
    BY <1>4, WarmRecordsFor DEF AllReadable
  <2> HIDE DEF response, answers, wanswers
  <2>2. /\ wns = ns
        /\ Warm!GetSOA(h, id) = GetSOA(h, id)
        /\ Warm!Referral(h, response, ns) = Referral(h, response, ns)
        /\ Warm!Positive(h, id, response, answers) = Positive(h, id, response, answers)
    BY <1>4, WarmZone
  <2> HIDE DEF ns, wns
  <2> QED BY <1>1, <1>2, <2>1, <2>2
<1> QED BY <1>3, <1>4

LEMMA WarmResolveSOA ==
    ASSUME ZonesInv, AllReadable, NEW h \in cachedHorizons,
           NEW end, NEW id, id = NilId \/ (id \in ZoneIds /\ h \in Holders(id))
    PROVE  Warm!ResolveSOA(h, end, id) = ResolveSOA(h, end, id)
<1> DEFINE response == With(end.chain)
           found == RecordsFor(h, id, end.name, "ALL")
           wfound == Warm!RecordsFor(h, id, end.name, "ALL")
           ns == DelegatedNS(h, id, end.name)
           wns == Warm!DelegatedNS(h, id, end.name)
           soa == GetSOA(h, id)
           wsoa == Warm!GetSOA(h, id)
<1>1. ResolveSOA(h, end, id) =
        IF end.state = "loop" \/ id = NilId THEN response
        ELSE IF Same(end.name, Apex(h, id))
        THEN [response EXCEPT !.answers = {soa},
                              !.nameservers = IF soa = NoRecord THEN {} ELSE GetNS(h, id),
                              !.additional = Glue(h, GetNS(h, id))]
        ELSE IF found = {Throws} THEN Failed
        ELSE IF ns # {} THEN Referral(h, response, ns)
        ELSE [response EXCEPT !.nameservers = {soa},
                              !.code = IF found = {} THEN "name_error" ELSE @]
  BY Zenon DEF ResolveSOA, With
<1>2. Warm!ResolveSOA(h, end, id) =
        IF end.state = "loop" \/ id = NilId THEN response
        ELSE IF Warm!Same(end.name, Warm!Apex(h, id))
        THEN [response EXCEPT !.answers = {wsoa},
                              !.nameservers = IF wsoa = Warm!NoRecord THEN {}
                                              ELSE Warm!GetNS(h, id),
                              !.additional = Warm!Glue(h, Warm!GetNS(h, id))]
        ELSE IF wfound = {Warm!Throws} THEN Warm!Failed
        ELSE IF wns # {} THEN Warm!Referral(h, response, wns)
        ELSE [response EXCEPT !.nameservers = {wsoa},
                              !.code = IF wfound = {} THEN "name_error" ELSE @]
  BY WarmCreated, Zenon DEF Warm!ResolveSOA, With
<1>3. CASE id = NilId
  BY <1>1, <1>2, <1>3
<1>4. CASE id \in ZoneIds /\ h \in Holders(id)
  <2>1. wfound = found
    BY <1>4, WarmRecordsFor DEF AllReadable
  <2> HIDE DEF response, found, wfound
  <2>2. /\ wns = ns /\ wsoa = soa
        /\ Warm!GetNS(h, id) = GetNS(h, id)
        /\ Warm!Glue(h, GetNS(h, id)) = Glue(h, GetNS(h, id))
        /\ Warm!Referral(h, response, ns) = Referral(h, response, ns)
    BY <1>4, WarmZone
  <2>3. /\ Warm!Same(end.name, Warm!Apex(h, id)) <=> Same(end.name, Apex(h, id))
        /\ Warm!NoRecord = NoRecord /\ Warm!Throws = Throws /\ Warm!Failed = Failed
    BY WarmNames, WarmZones, WarmCreated
  <2> HIDE DEF ns, wns, soa, wsoa
  <2> QED BY <1>1, <1>2, <2>1, <2>2, <2>3
<1> QED BY <1>3, <1>4

LEMMA WarmResolveNS ==
    ASSUME ZonesInv, AllReadable, NEW h \in cachedHorizons,
           NEW end, NEW id, id = NilId \/ (id \in ZoneIds /\ h \in Holders(id))
    PROVE  Warm!ResolveNS(h, end, id) = ResolveNS(h, end, id)
<1> DEFINE response == With(end.chain)
           ns == DelegatedNS(h, id, end.name)
           wns == Warm!DelegatedNS(h, id, end.name)
           soa == GetSOA(h, id)
           wsoa == Warm!GetSOA(h, id)
<1>1. ResolveNS(h, end, id) =
        IF end.state = "loop" \/ id = NilId THEN response
        ELSE IF Same(end.name, Apex(h, id))
        THEN [response EXCEPT !.answers = GetNS(h, id), !.additional = Glue(h, GetNS(h, id))]
        ELSE IF ns # {} THEN Referral(h, response, ns)
        ELSE [response EXCEPT !.nameservers = {soa}, !.code = "name_error"]
  BY Zenon DEF ResolveNS, With
<1>2. Warm!ResolveNS(h, end, id) =
        IF end.state = "loop" \/ id = NilId THEN response
        ELSE IF Warm!Same(end.name, Warm!Apex(h, id))
        THEN [response EXCEPT !.answers = Warm!GetNS(h, id),
                              !.additional = Warm!Glue(h, Warm!GetNS(h, id))]
        ELSE IF wns # {} THEN Warm!Referral(h, response, wns)
        ELSE [response EXCEPT !.nameservers = {wsoa}, !.code = "name_error"]
  BY WarmCreated, Zenon DEF Warm!ResolveNS, With
<1>3. CASE id = NilId
  BY <1>1, <1>2, <1>3
<1>4. CASE id \in ZoneIds /\ h \in Holders(id)
  <2> HIDE DEF response
  <2>2. /\ wns = ns /\ wsoa = soa
        /\ Warm!GetNS(h, id) = GetNS(h, id)
        /\ Warm!Glue(h, GetNS(h, id)) = Glue(h, GetNS(h, id))
        /\ Warm!Referral(h, response, ns) = Referral(h, response, ns)
    BY <1>4, WarmZone
  <2>3. Warm!Same(end.name, Warm!Apex(h, id)) <=> Same(end.name, Apex(h, id))
    BY WarmNames, WarmZones
  <2> HIDE DEF ns, wns, soa, wsoa
  <2> QED BY <1>1, <1>2, <2>2, <2>3
<1> QED BY <1>3, <1>4

LEMMA WarmResolveChain ==
    ASSUME ZonesInv, AllReadable, NEW h \in cachedHorizons, NEW q, q.type \in Types \cup {"ALL"},
           NEW end \in End
    PROVE  Warm!ResolveChain(h, q, end) = ResolveChain(h, q, end)
<1> DEFINE id == ZoneOf(h, end.name)
<1>1. id = NilId \/ (id \in ZoneIds /\ h \in Holders(id))
  BY ZoneOfHeld DEF End
<1>2. Warm!ZoneOf(h, end.name) = id
  BY WarmZones
<1> HIDE DEF id
<1>3. /\ Warm!ResolveSOA(h, end, id) = ResolveSOA(h, end, id)
      /\ Warm!ResolveNS(h, end, id) = ResolveNS(h, end, id)
      /\ Warm!ResolveType(h, q, end, id) = ResolveType(h, q, end, id)
  BY <1>1, WarmResolveSOA, WarmResolveNS, WarmResolveType
<1>4. Warm!ResolveEnd(h, q, end, id) = ResolveEnd(h, q, end, id)
  BY <1>3, WarmCreated DEF Warm!ResolveEnd, ResolveEnd
<1> QED BY <1>2, <1>4 DEF Warm!ResolveChain, ResolveChain, id

LEMMA WarmResolveAllChain ==
    ASSUME ZonesInv, AllReadable, NEW id \in ZoneIds, NEW h \in Holders(id), NEW q, NEW end \in End
    PROVE  Warm!ResolveAllChain(h, q, id, end) = ResolveAllChain(h, q, id, end)
<1> DEFINE last == ZoneOf(h, end.name)
           response == With(end.chain)
           there == RecordsFor(h, last, end.name, "ALL")
           wthere == Warm!RecordsFor(h, last, end.name, "ALL")
           denied(soa) == [response EXCEPT !.code = "name_error",
                       !.nameservers = IF end.state = "loop" THEN {} ELSE {soa}]
<1>1. h \in cachedHorizons
  BY DEF Holders
<1>2. last = NilId \/ (last \in ZoneIds /\ h \in Holders(last))
  BY <1>1, ZoneOfHeld DEF End
<1>3. Warm!ZoneOf(h, end.name) = last
  BY WarmZones
<1> HIDE DEF last
<1>4. last # NilId => wthere = there
  BY <1>2, WarmRecordsFor DEF AllReadable
<1>5. ResolveAllAtEnd(h, q, id, end, last) =
        IF end.state = "fails" THEN Failed
        ELSE IF Same(end.name, q.name) THEN denied(GetSOA(h, id))
        ELSE IF last = NilId THEN response
        ELSE IF there = {} THEN denied(GetSOA(h, id))
        ELSE Positive(h, id, response, there)
  BY Zenon DEF ResolveAllAtEnd, With
<1>6. Warm!ResolveAllAtEnd(h, q, id, end, last) =
        IF end.state = "fails" THEN Warm!Failed
        ELSE IF Warm!Same(end.name, q.name) THEN denied(Warm!GetSOA(h, id))
        ELSE IF last = NilId THEN response
        ELSE IF wthere = {} THEN denied(Warm!GetSOA(h, id))
        ELSE Warm!Positive(h, id, response, wthere)
  BY WarmCreated, Zenon DEF Warm!ResolveAllAtEnd, With
<1> HIDE DEF response, there, wthere
<1>7. /\ Warm!GetSOA(h, id) = GetSOA(h, id)
      /\ Warm!Positive(h, id, response, there) = Positive(h, id, response, there)
  BY WarmZone
<1>8. Warm!Same(end.name, q.name) <=> Same(end.name, q.name)
  BY WarmNames
<1> HIDE DEF denied
<1>9. Warm!ResolveAllAtEnd(h, q, id, end, last) = ResolveAllAtEnd(h, q, id, end, last)
  BY <1>4, <1>5, <1>6, <1>7, <1>8, WarmCreated
<1> QED BY <1>3, <1>9 DEF Warm!ResolveAllChain, ResolveAllChain, last

LEMMA WarmResolveAll ==
    ASSUME ZonesInv, AllReadable, NEW id \in ZoneIds, NEW h \in Holders(id),
           NEW q, q.name \in Names
    PROVE  Warm!ResolveAll(h, q, id) = ResolveAll(h, q, id)
<1> DEFINE own == RecordsFor(h, id, q.name, "ALL")
           wown == Warm!RecordsFor(h, id, q.name, "ALL")
           ns == DelegatedNS(h, id, q.name)
           wns == Warm!DelegatedNS(h, id, q.name)
           end == PointerChain(h, q.name, {id})
           wend == Warm!PointerChain(h, q.name, {id})
<1>1. h \in cachedHorizons
  BY DEF Holders
<1>2. wown = own
  BY WarmRecordsFor DEF AllReadable
<1>3. wend = end /\ end \in End
  BY <1>1, WarmPointerChain, PointerChainLed
<1>4. ResolveAll(h, q, id) =
        IF ns # {} THEN Referral(h, Created, ns)
        ELSE IF own # {} THEN Positive(h, id, Created, own)
        ELSE ResolveAllChain(h, q, id, end)
  BY Zenon DEF ResolveAll
<1>5. Warm!ResolveAll(h, q, id) =
        IF wns # {} THEN Warm!Referral(h, Warm!Created, wns)
        ELSE IF wown # {} THEN Warm!Positive(h, id, Warm!Created, wown)
        ELSE Warm!ResolveAllChain(h, q, id, wend)
  BY Zenon DEF Warm!ResolveAll
<1> HIDE DEF own, wown, end, wend
<1>6. /\ wns = ns
      /\ Warm!Referral(h, Created, ns) = Referral(h, Created, ns)
      /\ Warm!Positive(h, id, Created, own) = Positive(h, id, Created, own)
  BY WarmZone
<1>7. Warm!ResolveAllChain(h, q, id, end) = ResolveAllChain(h, q, id, end)
  BY <1>3, WarmResolveAllChain
<1> HIDE DEF ns, wns
<1> QED BY <1>2, <1>3, <1>4, <1>5, <1>6, <1>7, WarmCreated

LEMMA WarmReply ==
    ASSUME ZonesInv, AllReadable, NEW h \in cachedHorizons, NEW q \in Questions, NEW desired
    PROVE  Warm!HandleRequest(h, q, desired) = HandleRequest(h, q, desired)
<1> DEFINE id == ZoneOf(h, q.name)
<1>1. q.name \in Names /\ q.type \in Types \cup {"ALL", "AXFR"}
  BY AuthorityAssumption
<1>2. id = NilId \/ (id \in ZoneIds /\ h \in Holders(id))
  BY <1>1, ZoneOfHeld
<1>3. Warm!ZoneOf(h, q.name) = id
  BY WarmZones
<1>4. ASSUME id # NilId, q.type # "AXFR" PROVE Warm!Resolve(h, q) = Resolve(h, q)
  <2>1. Warm!ResolveAll(h, q, id) = ResolveAll(h, q, id)
    BY <1>1, <1>2, <1>4, WarmResolveAll
  <2>2. /\ Warm!PointerChain(h, q.name, {}) = PointerChain(h, q.name, {})
        /\ PointerChain(h, q.name, {}) \in End
    BY <1>1, WarmPointerChain, PointerChainLed
  <2>3. Warm!ResolveChain(h, q, PointerChain(h, q.name, {}))
        = ResolveChain(h, q, PointerChain(h, q.name, {}))
    BY <1>1, <1>4, <2>2, WarmResolveChain
  <2> QED BY <1>3, <2>1, <2>2, <2>3 DEF Warm!Resolve, Resolve
<1> HIDE DEF id
<1>5. Warm!HandleIn(h, q, desired, id) = HandleIn(h, q, desired, id)
  BY <1>4, WarmCreated, WarmZones DEF Warm!HandleIn, HandleIn
<1> QED BY <1>3, <1>5 DEF Warm!HandleRequest, HandleRequest, id

\* What was asked before does not matter to a reply: whichever lists dns_rr_cache
\* has read, every function of dns_auth_resolver finds what it would find if it
\* had read them all, for zones that are Readable.
THEOREM RepliesIgnore == AuthoritySpec => []RepliesIgnoreTheCache
<1>1. ASSUME ZonesInv, AllReadable, NEW a \in Asked
      PROVE  Reply(a) = Warm!HandleRequest(a[1], a[2], FALSE)
  <2>1. a[1] \in cachedHorizons /\ a[2] \in Questions
    BY DEF Asked
  <2> QED BY <1>1, <2>1, WarmReply DEF Reply
<1>2. ZonesInv => RepliesIgnoreTheCache
  BY <1>1 DEF RepliesIgnoreTheCache, AllReadable
<1> QED BY <1>2, AuthorityInvariant, PTL

=============================================================================
