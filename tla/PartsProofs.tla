---------------------------- MODULE PartsProofs ----------------------------
(***************************************************************************)
(* What holds of the database classes, of the configuration while it is    *)
(* changed, of the first start, of the resolving client and of the thread  *)
(* pools of the servers, and of names in messages, for any number of       *)
(* operations, records, servers, threads and octets.                       *)
(*                                                                         *)
(* RowStore.  Every one of the 45 generated classes lists its columns, its *)
(* setters and its getters in one order, once each (Agrees).  So a row that*)
(* was written reads as the object it was written from, whichever database *)
(* wrote it, and the store is a table of objects.                          *)
(*                                                                         *)
(* Servers.  A thread is idle in the pool once, or serves one connection,  *)
(* or has ended (PoolInv), so a connection is never given to one that went.*)
(*                                                                         *)
(* Configuration.  Three operations may run at once, one for each lock.    *)
(* For every list that was inserted, what is left of the one that has the  *)
(* zone guard does not touch it, or touches entries of a list that is not  *)
(* there, or deletes the list first, or inserts it last, and what is left  *)
(* of the others does not touch it (ListsInv): what is in the table when   *)
(* any statement of any operation fails is the whole list.                 *)
(*                                                                         *)
(* Startup.  A program serves only what could be read (StartupInv), and the*)
(* last thing reading insists on is made after all that is not optional.   *)
(*                                                                         *)
(* ParallelClient.  The steps a query may still take are a number that no  *)
(* arrival raises (WorkLeft).                                              *)
(*                                                                         *)
(* NameWire.  A name is at an offset when its labels and its end are at    *)
(* places each of which follows from the one before, or is where a pointer *)
(* there points (Path).  Whatever has been written is a name at every      *)
(* offset that is remembered, in octets that nothing changes (MessageInv). *)
(***************************************************************************)
EXTENDS RowStore, Configuration, Startup, ParallelClient, Servers, NameWire, FiniteSetTheorems, SequenceTheorems, TLAPS

(***************************************************************************)
(* RowStore                                                                *)
(***************************************************************************)

\* A class whose columns, getters and setters agree by position, with its key
\* at position k.
Agrees(c, k) ==
    /\ c.set = c.columns /\ c.get = c.columns
    /\ DOMAIN c.columns = 1..Len(c.columns) /\ Len(c.columns) \in Nat
    /\ k \in DOMAIN c.columns /\ Name(c.columns[k]) = c.key
    /\ Kind(c.columns[k]) \notin Nullable \cup {"octet"}
    /\ c.named = {Name(c.columns[i]) : i \in DOMAIN c.columns}
    /\ \A i, j \in DOMAIN c.columns : Name(c.columns[i]) = Name(c.columns[j]) => i = j
    /\ \A n \in DOMAIN c.by : c.by[n] \in DOMAIN c.columns /\ Name(c.columns[c.by[n]]) = n

\* The generated classes do, all of them: the four lists of each are one.
LEMMA AllAgree == \A c \in Classes : \E k : Agrees(c, k)
<1> USE DEF Agrees, Class, Name, Kind, Nullable
<1>1. Agrees(rr_a, 3)
  BY DEF rr_a, rr_a_columns, rr_a_get, rr_a_set, rr_a_by, rr_a_named, Id, S, U
<1>2. Agrees(rr_aaaa, 3)
  BY DEF rr_aaaa, rr_aaaa_columns, rr_aaaa_get, rr_aaaa_set, rr_aaaa_by, rr_aaaa_named, Id, S, U
<1>3. Agrees(rr_afsdb, 3)
  BY DEF rr_afsdb, rr_afsdb_columns, rr_afsdb_get, rr_afsdb_set, rr_afsdb_by, rr_afsdb_named, Id, S, U
<1>4. Agrees(rr_caa, 4)
  BY DEF rr_caa, rr_caa_columns, rr_caa_get, rr_caa_set, rr_caa_by, rr_caa_named, Id, O, S, U
<1>5. Agrees(rr_cert, 6)
  BY DEF rr_cert, rr_cert_columns, rr_cert_get, rr_cert_set, rr_cert_by, rr_cert_named, Id, O, S, U
<1>6. Agrees(rr_cname, 3)
  BY DEF rr_cname, rr_cname_columns, rr_cname_get, rr_cname_set, rr_cname_by, rr_cname_named, Id, S, U
<1>7. Agrees(rr_csync, 3)
  BY DEF rr_csync, rr_csync_columns, rr_csync_get, rr_csync_set, rr_csync_by, rr_csync_named, Id, S, U
<1>8. Agrees(rr_dhcid, 3)
  BY DEF rr_dhcid, rr_dhcid_columns, rr_dhcid_get, rr_dhcid_set, rr_dhcid_by, rr_dhcid_named, Id, S, U
<1>9. Agrees(rr_dname, 3)
  BY DEF rr_dname, rr_dname_columns, rr_dname_get, rr_dname_set, rr_dname_by, rr_dname_named, Id, S, U
<1>10. Agrees(rr_eui48, 3)
  BY DEF rr_eui48, rr_eui48_columns, rr_eui48_get, rr_eui48_set, rr_eui48_by, rr_eui48_named, Id, S, U
<1>11. Agrees(rr_eui64, 3)
  BY DEF rr_eui64, rr_eui64_columns, rr_eui64_get, rr_eui64_set, rr_eui64_by, rr_eui64_named, Id, S, U
<1>12. Agrees(rr_generic, 3)
  BY DEF rr_generic, rr_generic_columns, rr_generic_get, rr_generic_set, rr_generic_by, rr_generic_named, Id, S, U
<1>13. Agrees(rr_hinfo, 4)
  BY DEF rr_hinfo, rr_hinfo_columns, rr_hinfo_get, rr_hinfo_set, rr_hinfo_by, rr_hinfo_named, Id, S, U
<1>14. Agrees(rr_https, 3)
  BY DEF rr_https, rr_https_columns, rr_https_get, rr_https_set, rr_https_by, rr_https_named, Id, S, U
<1>15. Agrees(rr_ipseckey, 3)
  BY DEF rr_ipseckey, rr_ipseckey_columns, rr_ipseckey_get, rr_ipseckey_set, rr_ipseckey_by, rr_ipseckey_named, Id, S, U
<1>16. Agrees(rr_kx, 4)
  BY DEF rr_kx, rr_kx_columns, rr_kx_get, rr_kx_set, rr_kx_by, rr_kx_named, Id, S, U
<1>17. Agrees(rr_loc, 6)
  BY DEF rr_loc, rr_loc_columns, rr_loc_get, rr_loc_set, rr_loc_by, rr_loc_named, Id, O, S, U
<1>18. Agrees(rr_mx, 4)
  BY DEF rr_mx, rr_mx_columns, rr_mx_get, rr_mx_set, rr_mx_by, rr_mx_named, I, Id, S, U
<1>19. Agrees(rr_naptr, 7)
  BY DEF rr_naptr, rr_naptr_columns, rr_naptr_get, rr_naptr_set, rr_naptr_by, rr_naptr_named, Id, S, U
<1>20. Agrees(rr_ns, 3)
  BY DEF rr_ns, rr_ns_columns, rr_ns_get, rr_ns_set, rr_ns_by, rr_ns_named, Id, S, U
<1>21. Agrees(rr_openpgpkey, 3)
  BY DEF rr_openpgpkey, rr_openpgpkey_columns, rr_openpgpkey_get, rr_openpgpkey_set, rr_openpgpkey_by, rr_openpgpkey_named, Id, S, U
<1>22. Agrees(rr_ptr, 3)
  BY DEF rr_ptr, rr_ptr_columns, rr_ptr_get, rr_ptr_set, rr_ptr_by, rr_ptr_named, Id, S, U
<1>23. Agrees(rr_soa, 8)
  BY DEF rr_soa, rr_soa_columns, rr_soa_get, rr_soa_set, rr_soa_by, rr_soa_named, I, Id, S, U
<1>24. Agrees(rr_srv, 4)
  BY DEF rr_srv, rr_srv_columns, rr_srv_get, rr_srv_set, rr_srv_by, rr_srv_named, Id, S, U
<1>25. Agrees(rr_sshfp, 5)
  BY DEF rr_sshfp, rr_sshfp_columns, rr_sshfp_get, rr_sshfp_set, rr_sshfp_by, rr_sshfp_named, Id, O, S, U
<1>26. Agrees(rr_svcb, 3)
  BY DEF rr_svcb, rr_svcb_columns, rr_svcb_get, rr_svcb_set, rr_svcb_by, rr_svcb_named, Id, S, U
<1>27. Agrees(rr_tlsa, 5)
  BY DEF rr_tlsa, rr_tlsa_columns, rr_tlsa_get, rr_tlsa_set, rr_tlsa_by, rr_tlsa_named, Id, O, S, U
<1>28. Agrees(rr_txt, 2)
  BY DEF rr_txt, rr_txt_columns, rr_txt_get, rr_txt_set, rr_txt_by, rr_txt_named, Id, S, U
<1>29. Agrees(rr_uri, 3)
  BY DEF rr_uri, rr_uri_columns, rr_uri_get, rr_uri_set, rr_uri_by, rr_uri_named, Id, S, U
<1>30. Agrees(rr_zonemd, 4)
  BY DEF rr_zonemd, rr_zonemd_columns, rr_zonemd_get, rr_zonemd_set, rr_zonemd_by, rr_zonemd_named, Id, O, S, U
<1>31. Agrees(address_list, 1)
  BY DEF address_list, address_list_columns, address_list_get, address_list_set, address_list_by, address_list_named, Id
<1>32. Agrees(address_list_address, 1)
  BY DEF address_list_address, address_list_address_columns, address_list_address_get, address_list_address_set, address_list_address_by, address_list_address_named, Id, S
<1>33. Agrees(address_list_network, 2)
  BY DEF address_list_network, address_list_network_columns, address_list_network_get, address_list_network_set, address_list_network_by, address_list_network_named, Id, S
<1>34. Agrees(basic_config, 1)
  BY DEF basic_config, basic_config_columns, basic_config_get, basic_config_set, basic_config_by, basic_config_named, Id, S
<1>35. Agrees(cache_config, 1)
  BY DEF cache_config, cache_config_columns, cache_config_get, cache_config_set, cache_config_by, cache_config_named, Id, U
<1>36. Agrees(control_server, 6)
  BY DEF control_server, control_server_columns, control_server_get, control_server_set, control_server_by, control_server_named, B, Id, U
<1>37. Agrees(dns_client, 1)
  BY DEF dns_client, dns_client_columns, dns_client_get, dns_client_set, dns_client_by, dns_client_named, B, Id, U
<1>38. Agrees(dns_server, 17)
  BY DEF dns_server, dns_server_columns, dns_server_get, dns_server_set, dns_server_by, dns_server_named, B, Id, S, U
<1>39. Agrees(horizon, 3)
  BY DEF horizon, horizon_columns, horizon_get, horizon_set, horizon_by, horizon_named, B, Id, U
<1>40. Agrees(root_server, 6)
  BY DEF root_server, root_server_columns, root_server_get, root_server_set, root_server_by, root_server_named, D, Id, S, U
<1>41. Agrees(schema_version, 1)
  BY DEF schema_version, schema_version_columns, schema_version_get, schema_version_set, schema_version_by, schema_version_named, Id, S
<1>42. Agrees(server, 2)
  BY DEF server, server_columns, server_get, server_set, server_by, server_named, B, Id, S, U
<1>43. Agrees(server_socket_address, 4)
  BY DEF server_socket_address, server_socket_address_columns, server_socket_address_get, server_socket_address_set, server_socket_address_by, server_socket_address_named, Id, S, U
<1>44. Agrees(ui_server, 5)
  BY DEF ui_server, ui_server_columns, ui_server_get, ui_server_set, ui_server_by, ui_server_named, B, Id, S, U
<1>45. Agrees(zone, 6)
  BY DEF zone, zone_columns, zone_get, zone_set, zone_by, zone_named, B, Id, NS, NU, S
<1> HIDE DEF Agrees, Class, Name, Kind, Nullable
<1> QED
  BY <1>1, <1>2, <1>3, <1>4, <1>5, <1>6, <1>7, <1>8, <1>9, <1>10, <1>11,
     <1>12, <1>13, <1>14, <1>15, <1>16, <1>17, <1>18, <1>19, <1>20, <1>21, <1>22,
     <1>23, <1>24, <1>25, <1>26, <1>27, <1>28, <1>29, <1>30, <1>31, <1>32, <1>33,
     <1>34, <1>35, <1>36, <1>37, <1>38, <1>39, <1>40, <1>41, <1>42, <1>43, <1>44,
     <1>45
  DEF Classes, RecordClasses, ConfigClasses

LEMMA KeyPlace ==
    ASSUME class \in Classes
    PROVE  Agrees(class, KeyPosition)
<1>1. PICK k : Agrees(class, k)
  BY AllAgree
<1>2. KeyPosition = k
  BY <1>1 DEF KeyPosition, Positions, Agrees
<1> QED
  BY <1>1, <1>2

LEMMA ObjectHasKey ==
    ASSUME class \in Classes, NEW o \in Objects
    PROVE  /\ DOMAIN o = class.named
           /\ class.key \in class.named
           /\ \E k \in Versions : o[class.key] = <<class.key, k>>
           /\ \A m \in class.named :
                \/ o[m] = Null /\ NullableMember(m)
                \/ \E v \in Versions : o[m] = <<m, v>>
<1>1. class.key \in class.named
  BY KeyPlace DEF Agrees
<1>2. PICK k \in Versions : \E v \in Versions : o = Object(k, v)
  BY DEF Objects
<1>3. PICK v \in Versions : o = Object(k, v)
  BY <1>2
<1> QED
  BY <1>1, <1>3 DEF Object

\* What is written of an object, column by column.
LEMMA WrittenColumns ==
    ASSUME class \in Classes, NEW o
    PROVE  /\ DOMAIN Written(o) = class.named
           /\ \A i \in Positions :
                /\ Got(o, i) = o[Name(class.columns[i])]
                /\ Name(class.columns[i]) \in class.named
                /\ Written(o)[Name(class.columns[i])] =
                     IF backend = "mongodb" /\ Kind(class.columns[i]) = "octet"
                     THEN Garbage ELSE o[Name(class.columns[i])]
<1>1. Agrees(class, KeyPosition)
  BY KeyPlace
<1>2. \A i \in Positions : Got(o, i) = o[Name(class.columns[i])]
  BY <1>1 DEF Got, Agrees, Positions
<1>3. DOMAIN Written(o) = class.named
  BY <1>1 DEF Written, Agrees, Positions
<1>4. ASSUME NEW i \in Positions
      PROVE  /\ Name(class.columns[i]) \in class.named
             /\ (CHOOSE j \in Positions : Name(class.columns[j]) = Name(class.columns[i])) = i
  BY <1>1 DEF Agrees, Positions
<1> QED
  BY <1>2, <1>3, <1>4 DEF Written

LEMMA WrittenKey ==
    ASSUME class \in Classes, NEW o \in Objects
    PROVE  /\ Written(o)[class.key] = o[class.key]
           /\ Got(o, KeyPosition) = o[class.key]
           /\ KeyOf(Written(o)) \in Versions
           /\ o[class.key] = <<class.key, KeyOf(Written(o))>>
<1>1. /\ KeyPosition \in Positions /\ Name(class.columns[KeyPosition]) = class.key
      /\ Kind(class.columns[KeyPosition]) # "octet"
  BY KeyPlace DEF Agrees, Positions
<1>2. PICK k \in Versions : o[class.key] = <<class.key, k>>
  BY ObjectHasKey
<1>3. Written(o)[class.key] = o[class.key] /\ Got(o, KeyPosition) = o[class.key]
  <2>1. /\ Got(o, KeyPosition) = o[Name(class.columns[KeyPosition])]
        /\ Written(o)[Name(class.columns[KeyPosition])] =
             IF backend = "mongodb" /\ Kind(class.columns[KeyPosition]) = "octet"
             THEN Garbage ELSE o[Name(class.columns[KeyPosition])]
    BY <1>1, WrittenColumns
  <2> QED
    BY <1>1, <2>1
<1> QED
  BY <1>2, <1>3 DEF KeyOf

\* A row has the columns of its class, and the key it is under.
Keyed(rows) ==
    /\ DOMAIN rows = Versions
    /\ \A k \in Versions : rows[k] # None =>
          DOMAIN rows[k] = class.named /\ rows[k][class.key] = <<class.key, k>>

RowsInv == class \in Classes /\ Keyed(durable) /\ Keyed(visible)

\* No value but one of the key is the key of a row.
LEMMA OtherColumn ==
    ASSUME RowsInv, NEW o \in Objects, NEW i \in Positions, NEW k \in Versions,
           visible[k] # None, visible[k][class.key] = Got(o, i)
    PROVE  i = KeyPosition /\ k = KeyOf(Written(o))
<1>1. /\ Name(class.columns[i]) \in class.named
      /\ o[Name(class.columns[i])] = <<class.key, k>>
  BY WrittenColumns DEF RowsInv, Keyed
<1>2. <<class.key, k>> # Null
  BY ObjectHasKey, RowStoreAssumption DEF RowsInv
<1>3. PICK v \in Versions : o[Name(class.columns[i])] = <<Name(class.columns[i]), v>>
  BY <1>1, <1>2, ObjectHasKey DEF RowsInv
<1>4. Name(class.columns[i]) = class.key
  BY <1>1, <1>3
<1>5. i = KeyPosition
  BY <1>4, KeyPlace DEF RowsInv, Agrees, Positions
<1> QED
  BY <1>1, <1>4, <1>5, WrittenKey DEF RowsInv

\* The update of sqlite changes a row only where the key is the last column, and
\* then to what an insert would have written.
LEMMA SqliteWrites ==
    ASSUME RowsInv, backend = "sqlite", NEW o \in Objects, NEW k \in Versions,
           SqliteUpdate(o)[k] # visible[k]
    PROVE  SqliteUpdate(o)[k] = Written(o) /\ k = KeyOf(Written(o))
<1> DEFINE last == Len(class.columns)
           at(n) == CHOOSE j \in DOMAIN NotKey : Name(NotKey[j]) = n
<1>1. Agrees(class, KeyPosition)
  BY KeyPlace DEF RowsInv
<1>2. last \in Positions
  BY <1>1 DEF Agrees, Positions
<1>3. /\ visible[k] # None /\ visible[k][class.key] = Got(o, last)
      /\ SqliteUpdate(o)[k] =
           [n \in DOMAIN visible[k] |->
               IF n = class.key THEN visible[k][n] ELSE Got(o, at(n))]
  BY DEF SqliteUpdate
<1>4. last = KeyPosition /\ k = KeyOf(Written(o))
  BY <1>2, <1>3, OtherColumn
<1>5. DOMAIN visible[k] = class.named /\ visible[k][class.key] = <<class.key, k>>
  BY <1>3 DEF RowsInv, Keyed
<1>6. ASSUME NEW n \in class.named, n # class.key
      PROVE  Got(o, at(n)) = Written(o)[n]
  <2>1. PICK i \in Positions : Name(class.columns[i]) = n
    BY <1>1 DEF Agrees, Positions
  <2>2. i < last
    BY <1>1, <1>4, <1>6, <2>1 DEF Agrees, Positions
  <2>3. /\ DOMAIN NotKey = 1..(last - 1)
        /\ \A j \in DOMAIN NotKey : NotKey[j] = class.columns[j] /\ j \in Positions
    BY <1>1, <1>4 DEF NotKey, Agrees, Positions
  <2>4. i \in DOMAIN NotKey
    BY <1>1, <2>2, <2>3 DEF Agrees, Positions
  <2>5. at(n) = i
    BY <1>1, <2>1, <2>3, <2>4 DEF Agrees, Positions
  <2>6. /\ Got(o, i) = o[Name(class.columns[i])]
        /\ Written(o)[Name(class.columns[i])] = o[Name(class.columns[i])]
    BY <2>1, WrittenColumns DEF RowsInv
  <2> QED
    BY <2>1, <2>5, <2>6
<1>7. Written(o)[class.key] = visible[k][class.key]
  BY <1>4, <1>5, WrittenKey DEF RowsInv
<1>8. DOMAIN Written(o) = class.named /\ Written(o) = [n \in class.named |-> Written(o)[n]]
  BY WrittenColumns DEF RowsInv, Written
<1> HIDE DEF at, last
<1> QED
  BY <1>3, <1>4, <1>5, <1>6, <1>7, <1>8

LEMMA UpdateWrites ==
    ASSUME RowsInv, NEW o \in Objects, UpdateRow(o), NEW k \in Versions,
           Updated(o)[k] # visible[k]
    PROVE  Updated(o)[k] = Written(o) /\ k = KeyOf(Written(o))
<1>1. CASE backend = "sqlite"
  BY <1>1, SqliteWrites DEF Updated
<1>2. CASE backend = "postgres"
  <2>1. KeyPosition + 1 \in Positions
    BY <1>2, KeyPlace DEF UpdateRow, RowsInv, Agrees, Positions
  <2>2. visible[k] # None /\ visible[k][class.key] = Got(o, KeyPosition + 1)
    BY <1>2 DEF Updated, PostgresUpdate
  <2>3. KeyPosition + 1 = KeyPosition
    BY <2>1, <2>2, OtherColumn
  <2> QED
    BY <2>1, <2>3, KeyPlace DEF RowsInv, Agrees, Positions
<1>3. CASE backend \notin {"sqlite", "postgres"}
  <2>1. /\ Updated(o)[k] = Written(o)
        /\ visible[k] # None /\ visible[k][class.key] = Written(o)[class.key]
    BY <1>3 DEF Updated, KeyedUpdate
  <2>2. visible[k][class.key] = <<class.key, k>>
    BY <2>1 DEF RowsInv, Keyed
  <2>3. Written(o)[class.key] = <<class.key, KeyOf(Written(o))>>
    BY WrittenKey DEF RowsInv
  <2>4. <<class.key, k>> = <<class.key, KeyOf(Written(o))>>
    BY <2>1, <2>2, <2>3
  <2>5. k = KeyOf(Written(o))
    BY <2>4
  <2> QED
    BY <2>1, <2>5
<1> QED
  BY <1>1, <1>2, <1>3

\* What a statement writes: the object, under its key, and nothing else.
LEMMA StatementWrites ==
    ASSUME RowsInv, NEW o \in Objects, InsertRow(o) \/ UpdateRow(o)
    PROVE  /\ DOMAIN visible' = Versions
           /\ \A k \in Versions : visible'[k] # visible[k] =>
                 visible'[k] = Written(o) /\ k = KeyOf(Written(o))
<1>1. CASE InsertRow(o)
  BY <1>1 DEF InsertRow, Execute, RowsInv, Keyed
<1>2. CASE UpdateRow(o)
  <2>1. visible' = Updated(o)
    BY <1>2 DEF UpdateRow, Execute
  <2>2. DOMAIN Updated(o) = Versions
    BY DEF Updated, SqliteUpdate, PostgresUpdate, KeyedUpdate
  <2> QED
    BY <1>2, <2>1, <2>2, UpdateWrites
<1> QED
  BY <1>1, <1>2

\* Reading what was written gives the object.
LEMMA ReadsWhatWasWritten ==
    ASSUME class \in Classes, NEW o \in Objects, Readable(o)
    PROVE  Carries(Fetched(Written(o)), o)
<1> DEFINE row == Written(o)
<1>1. Agrees(class, KeyPosition)
  BY KeyPlace
<1>2. \A m \in class.named :
        \/ o[m] = Null /\ NullableMember(m)
        \/ o[m] \notin {Null, Garbage} /\ o[m] \in class.named \X Versions
  BY ObjectHasKey, RowStoreAssumption, SMTT(60)
<1>3. \A i \in Positions :
        /\ class.set[i] = class.columns[i]
        /\ Name(class.columns[i]) \in class.named
        /\ row[Name(class.columns[i])] =
             IF backend = "mongodb" /\ Kind(class.columns[i]) = "octet"
             THEN Garbage ELSE o[Name(class.columns[i])]
  <2>1. \A i \in Positions : class.set[i] = class.columns[i]
    BY <1>1 DEF Agrees
  <2> QED
    BY <2>1, WrittenColumns
<1>4. row # None
  <2>1. \A m \in class.named : row[m] \in Values(class)
    BY <1>1, <1>2, <1>3 DEF Values, Agrees, Positions
  <2>2. row = [m \in class.named |-> row[m]]
    BY WrittenColumns DEF Written
  <2>3. row \in [class.named -> Values(class)]
    <3> HIDE DEF row
    <3> QED BY <2>1, <2>2
  <2> QED
    BY <2>3, RowStoreAssumption
<1> HIDE DEF row
<1>5. ASSUME NEW i \in Positions, Throws(row, i)
      PROVE  FALSE
  <2>1. /\ row[Name(class.columns[i])] # Garbage
        /\ row[Name(class.columns[i])] = Null => backend = "mongodb"
    BY <1>5 DEF Throws, Set
  <2>2. row[Name(class.columns[i])] = o[Name(class.columns[i])]
    BY <1>3, <2>1
  <2>3. CASE backend = "mongodb"
    <3>1. \A j \in Positions : Kind(class.columns[j]) \notin Nullable
      BY <2>3 DEF Readable, OfKind
    <3>2. row[Name(class.columns[i])] # Null
      BY <1>2, <1>3, <2>2, <3>1 DEF NullableMember
    <3>3. SetKind(i) = Kind(class.columns[i])
      BY <2>3, <3>1 DEF SetKind, Plain, Nullable
    <3> QED
      BY <1>3, <1>5, <3>2, <3>3 DEF Throws
  <2>4. CASE backend # "mongodb"
    <3>1. row[Name(class.columns[i])] # Null
      BY <2>1, <2>4
    <3>2. ~(backend = "mysql" /\ Kind(class.columns[i]) = "nullable_string")
      BY <2>2, <3>1 DEF Readable, OfKind
    <3>3. SetKind(i) = Kind(class.columns[i])
      BY <2>4, <3>2 DEF SetKind
    <3> QED
      BY <1>3, <1>5, <3>1, <3>3 DEF Throws
  <2> QED
    BY <2>3, <2>4
<1>6. Fetched(row) =
        [m \in class.named |->
            IF \E i \in Positions : Name(class.set[i]) = m /\ Set(row, i)
            THEN row[Name(class.columns[CHOOSE i \in Positions :
                                            Name(class.set[i]) = m /\ Set(row, i)])]
            ELSE IF NullableMember(m) THEN Null ELSE Garbage]
  BY <1>4, <1>5 DEF Fetched
<1>7. ASSUME NEW m \in Kept
      PROVE  Fetched(row)[m] = o[m]
  <2>1. m \in class.named
    BY DEF Kept
  <2>2. PICK i \in Positions : Name(class.columns[i]) = m
    BY <1>1, <2>1 DEF Agrees, Positions
  <2>3. \A j \in Positions : Name(class.set[j]) = m => j = i
    BY <1>1, <1>3, <2>2 DEF Agrees, Positions
  <2>4. row[m] = o[m]
    BY <1>3, <2>2 DEF Kept, OfKind
  <2>5. CASE Set(row, i)
    BY <1>3, <1>6, <2>1, <2>2, <2>3, <2>4, <2>5
  <2>6. CASE ~Set(row, i)
    <3>1. o[m] \in {Null, Garbage}
      BY <2>2, <2>4, <2>6 DEF Set
    <3>2. o[m] = Null /\ NullableMember(m)
      BY <1>2, <2>1, <3>1
    <3> QED
      BY <1>6, <2>1, <2>3, <2>6, <3>2
  <2> QED
    BY <2>5, <2>6
<1> QED
  BY <1>7 DEF Carries, row

LEMMA RowsInit == Init => RowsInv
BY DEF Init, NoRows, RowsInv, Keyed

\* What a statement may do to the rows: it writes one under its key, it removes
\* some, or it leaves them.
LEMMA StatementsKeep ==
    ASSUME RowsInv, Next
    PROVE  /\ class' = class /\ backend' = backend
           /\ Keyed(visible')
           /\ \/ Table!Begin \/ Table!Commit \/ Table!Rollback \/ Table!Change
              \/ UNCHANGED <<durable, visible, open>>
<1>1. CASE Begin \/ Commit \/ Rollback
  BY <1>1 DEF Begin, Commit, Rollback, Table!Begin, Table!Commit, Table!Rollback, RowsInv
<1>2. CASE \E stale \in BOOLEAN : Reconnect(stale)
  BY <1>2 DEF Reconnect, RowsInv
<1>3. ASSUME NEW o \in Objects, InsertRow(o) \/ UpdateRow(o)
      PROVE  Keyed(visible') /\ Table!Change /\ class' = class /\ backend' = backend
  <2>1. PICK rows : Execute(rows)
    BY <1>3 DEF InsertRow, UpdateRow
  <2>2. /\ DOMAIN visible' = Versions
        /\ \A k \in Versions : visible'[k] # visible[k] =>
              visible'[k] = Written(o) /\ k = KeyOf(Written(o))
    BY <1>3, StatementWrites
  <2>3. /\ KeyOf(Written(o)) \in Versions
        /\ DOMAIN Written(o) = class.named
        /\ Written(o)[class.key] = <<class.key, KeyOf(Written(o))>>
    BY WrittenKey, WrittenColumns DEF RowsInv
  <2>4. Keyed(visible')
    BY <2>2, <2>3 DEF RowsInv, Keyed
  <2>5. Table!Changed \subseteq {KeyOf(Written(o))}
    BY <2>2 DEF Table!Changed
  <2> QED
    BY <2>1, <2>2, <2>3, <2>4, <2>5 DEF Execute, Table!Change
<1>4. ASSUME NEW rows, Execute(rows), DOMAIN rows = Versions,
             \A k \in Versions : rows[k] \in {None, visible[k]}
      PROVE  Keyed(visible') /\ Table!Change /\ class' = class /\ backend' = backend
  <2>1. visible' = rows
    BY <1>4 DEF Execute
  <2>2. Keyed(visible')
    BY <1>4, <2>1 DEF RowsInv, Keyed
  <2>3. \A k \in Table!Changed : visible'[k] = None
    BY <1>4, <2>1 DEF Table!Changed
  <2> QED
    BY <1>4, <2>1, <2>2, <2>3 DEF Execute, Table!Change
<1>5. ASSUME NEW o \in Objects, DeleteRow(o)
      PROVE  Keyed(visible') /\ Table!Change /\ class' = class /\ backend' = backend
  BY <1>4, <1>5, SMTT(60) DEF DeleteRow
<1>6. ASSUME NEW n \in DOMAIN class.by, NEW v \in Versions, DeleteBy(n, <<n, v>>)
      PROVE  Keyed(visible') /\ Table!Change /\ class' = class /\ backend' = backend
  BY <1>4, <1>6 DEF DeleteBy, Left
<1> QED
  BY <1>1, <1>2, <1>3, <1>5, <1>6 DEF Next

LEMMA RowsStep == RowsInv /\ [Next]_vars => RowsInv'
<1> SUFFICES ASSUME RowsInv, [Next]_vars PROVE RowsInv'
  OBVIOUS
<1>1. CASE Next
  <2>1. class' = class /\ Keyed(visible') /\ (durable' \in {durable, visible, visible'})
    BY <1>1, StatementsKeep DEF Table!Begin, Table!Commit, Table!Rollback, Table!Change
  <2> QED
    BY <2>1 DEF RowsInv, Keyed
<1>2. CASE UNCHANGED vars
  BY <1>2 DEF vars, RowsInv, Keyed
<1> QED
  BY <1>1, <1>2

LEMMA RowsInvariance == Spec => []RowsInv
BY RowsInit, RowsStep, PTL DEF Spec

\* In every database and for every class of rows, inserts, updates, deletes,
\* transactions and the reuse of connections do to the rows what a table with
\* transactions allows (src/db/row.cpp, transaction.cpp, connection_pool.cpp).
THEOREM RowsAreATable == Spec => ImplementsTable
<1>1. Init => Table!Init
  BY DEF Init, NoRows, Table!Init
<1>2. RowsInv /\ [Next]_vars => [Table!Next]_Table!vars
  <2> SUFFICES ASSUME RowsInv, [Next]_vars PROVE [Table!Next]_Table!vars
    OBVIOUS
  <2>1. CASE Next
    BY <2>1, StatementsKeep DEF Table!Next, Table!vars
  <2>2. CASE UNCHANGED vars
    BY <2>2 DEF vars, Table!vars
  <2> QED
    BY <2>1, <2>2
<1> QED
  BY <1>1, <1>2, RowsInvariance, PTL DEF Spec, ImplementsTable, Table!Spec

\* A delete by a member removes the rows that have the value in that member, and
\* no others, whichever of the generated classes it is a method of
\* (delete_by_... of src/db/row_*.cpp).
THEOREM DeletesWhatItNames == Spec => []DeletesOnlyTheirs
<1>1. RowsInv => DeletesOnlyTheirs
  <2> SUFFICES ASSUME class \in Classes, NEW n \in DOMAIN class.by
               PROVE  Name(class.columns[class.by[n]]) = n
    BY DEF RowsInv, DeletesOnlyTheirs, Left
  <2> QED
    BY KeyPlace DEF Agrees
<1> QED
  BY <1>1, RowsInvariance, PTL

\* What an insert or an update has written reads back, member by member, as the
\* object it was called with: in every database that can read the class's columns
\* at all, for every class, whatever was written before
\* (src/db/sqlite_row_helper.cpp, mysql_, postgres_ and mongodb_row_helper.cpp).
THEOREM WhatIsWrittenIsRead == Spec => RowsComeBack
<1>1. RowsInv /\ [Next]_vars =>
        [visible' # visible =>
            \A o \in Objects :
                Readable(o) /\ (InsertRow(o) \/ UpdateRow(o)) =>
                    \A k \in Versions :
                        visible'[k] # visible[k] => Carries(Fetched(visible'[k]), o)]_vars
  <2> SUFFICES ASSUME RowsInv, NEW o \in Objects, Readable(o), InsertRow(o) \/ UpdateRow(o),
                      NEW k \in Versions, visible'[k] # visible[k]
               PROVE  Carries(Fetched(visible'[k]), o)
    OBVIOUS
  <2>1. visible'[k] = Written(o)
    BY StatementWrites
  <2> QED
    BY <2>1, ReadsWhatWasWritten DEF RowsInv
<1> QED
  BY <1>1, RowsInvariance, PTL DEF Spec, RowsComeBack

(***************************************************************************)
(* Servers                                                                 *)
(***************************************************************************)

LEMMA SetToSeqOf ==
    ASSUME NEW Elems, IsFiniteSet(Elems)
    PROVE  SetToSeq(Elems) \in Seq(Elems) /\ IsInjective(SetToSeq(Elems)) /\ ToSet(SetToSeq(Elems)) = Elems
<1> DEFINE Places == 1..Cardinality(Elems)
           s == SetToSeq(Elems)
<1>1. Cardinality(Elems) \in Nat /\ ExistsBijection(Places, Elems)
  BY FS_CardinalityType
<1>2. PICK f \in Bijection(Places, Elems) : TRUE
  BY <1>1 DEF ExistsBijection
<1>3. f \in [Places -> Elems] /\ IsInjective(f)
  BY <1>2 DEF Bijection, Injection, IsInjective
<1>4. s \in [Places -> Elems] /\ IsInjective(s)
  BY <1>3 DEF SetToSeq
<1>5. s \in Injection(Places, Elems)
  BY <1>4 DEF Injection, IsInjective
<1>6. IsFiniteSet(Places) /\ Cardinality(Places) = Cardinality(Elems)
  BY <1>1, FS_Interval
<1>7. s \in Surjection(Places, Elems)
  BY <1>5, <1>6, FS_Injection
<1> QED
  BY <1>1, <1>4, <1>7 DEF Surjection, ToSet

\* get takes the last of the pool, and put adds one that is not in it.
LEMMA PoolPut ==
    ASSUME NEW Elems, NEW s \in Seq(Elems), IsInjective(s), NEW e \in Elems, ~Contains(s, e)
    PROVE  /\ Append(s, e) \in Seq(Elems) /\ IsInjective(Append(s, e))
           /\ \A x : Contains(Append(s, e), x) <=> x = e \/ Contains(s, x)
BY DEF IsInjective, Contains

LEMMA PoolGet ==
    ASSUME NEW Elems, NEW s \in Seq(Elems), IsInjective(s), s # <<>>
    PROVE  /\ Last(s) \in Elems /\ Contains(s, Last(s))
           /\ Front(s) \in Seq(Elems) /\ IsInjective(Front(s))
           /\ \A x : Contains(Front(s), x) => x # Last(s) /\ Contains(s, x)
<1>1. PICK n \in Nat \ {0} : n = Len(s)
  OBVIOUS
<1>2. /\ DOMAIN s = 1..n /\ Last(s) = s[n] /\ n \in 1..n
      /\ \A i \in 1..n : s[i] \in Elems
  BY <1>1 DEF Last
<1>3. PICK front : front = Front(s)
  OBVIOUS
<1>4. front = [i \in 1..(n - 1) |-> s[i]]
  BY <1>1, <1>3 DEF Front
<1>5. \A i \in 1..(n - 1) : i \in 1..n /\ i # n
  OBVIOUS
<1>6. DOMAIN front = 1..(n - 1) /\ \A i \in 1..(n - 1) : front[i] = s[i] /\ s[i] \in Elems
  BY <1>2, <1>4, <1>5
<1>7. front \in Seq(Elems)
  BY <1>4, <1>6
<1>8. IsInjective(front)
  BY <1>2, <1>5, <1>6 DEF IsInjective
<1>9. ASSUME NEW x, Contains(front, x)
      PROVE  x # Last(s) /\ Contains(s, x)
  <2>1. PICK i \in 1..(n - 1) : front[i] = x
    BY <1>6, <1>9 DEF Contains
  <2>2. i \in DOMAIN s /\ n \in DOMAIN s /\ i # n /\ s[i] = x
    BY <1>2, <1>5, <1>6, <2>1
  <2> QED
    BY <1>2, <2>2 DEF IsInjective, Contains
<1>10. Contains(s, Last(s)) /\ Last(s) \in Elems
  BY <1>2 DEF Contains
<1> QED
  BY <1>3, <1>7, <1>8, <1>9, <1>10

\* Each connection thread is free, or has a connection, or has ended; one that
\* ends does so in the DoH server or with the program.
PoolInv ==
    /\ free \in Seq(Threads) /\ IsInjective(free)
    /\ DOMAIN thread = Threads /\ DOMAIN given = Threads
    /\ \A t \in Threads :
         /\ thread[t] = "serving" => given[t]
         /\ Contains(free, t) => ~given[t]
         /\ thread[t] = "ended" => kind = "doh" \/ Stopping \/ main = "terminated"

LEMMA PoolInit == ServersInit => PoolInv
<1> SUFFICES ASSUME ServersInit PROVE PoolInv
  OBVIOUS
<1>1. free \in Seq(Threads) /\ IsInjective(free)
  <2>1. <<>> \in Seq(Threads) /\ IsInjective(<<>>)
    BY DEF IsInjective
  <2> QED
    BY <2>1, SetToSeqOf, ServersAssumption DEF ServersInit
<1> QED
  BY <1>1 DEF ServersInit, PoolInv

\* A step that leaves the pool and the connections alone, and sends at most one
\* thread on.
LEMMA OneGoes ==
    ASSUME PoolInv, UNCHANGED <<free, given>>, NEW t \in Threads, NEW to, Goes(t, to),
           to = "serving" => given[t],
           to = "ended" => kind = "doh" \/ Stopping
    PROVE  PoolInv'
BY DEF PoolInv, Goes, Stopping, program, receiving

\* done
LEMMA OneIsDone ==
    ASSUME PoolInv, NEW t \in Threads, thread[t] = "serving", Done(t), NEW to, Goes(t, to),
           to # "serving", to = "ended" => kind = "doh" \/ Stopping
    PROVE  PoolInv'
<1>1. given[t] /\ ~Contains(free, t) /\ free \in Seq(Threads) /\ IsInjective(free)
  BY DEF PoolInv
<1>2. /\ free' \in Seq(Threads) /\ IsInjective(free')
      /\ \A x : Contains(free', x) <=> x = t \/ Contains(free, x)
  BY <1>1, PoolPut DEF Done, Put
<1> QED
  BY <1>1, <1>2 DEF PoolInv, Done, Goes, Stopping, program, receiving

LEMMA PoolStep == PoolInv /\ [ServersNext]_servers => PoolInv'
<1> SUFFICES ASSUME PoolInv, [ServersNext]_servers PROVE PoolInv'
  OBVIOUS
<1> USE DEF program, receiving, pooled
<1>1. ASSUME UNCHANGED <<kind, free, given, thread>>,
             Stopping \/ main = "terminated" => Stopping' \/ main' = "terminated"
      PROVE  PoolInv'
  BY <1>1 DEF PoolInv
<1>2. CASE MainThread \/ \E s \in {"SIGPIPE", "SIGTERM"} : Signal(s)
  BY <1>1, <1>2 DEF MainThread, HandleStop, LeaveLoop, JoinUdp, JoinAcceptor, Signal, Stopping
<1>3. CASE \E s \in {"run", "pause", "shutdown", "restart"} : SetRunState(s)
  BY <1>1, <1>3 DEF SetRunState, Stopping
<1>4. CASE (\E t \in UdpThreads : EndUdp(t)) \/ Answer \/ SendOutbound
  BY <1>1, <1>4 DEF EndUdp, Answer, SendOutbound, Stopping
<1>5. CASE ReceiveFails
  BY <1>5 DEF ReceiveFails, PoolInv
<1>6. CASE Look \/ ListenTimesOut \/ AcceptMany \/ Wait \/ GetTimesOut
  BY <1>1, <1>6 DEF Look, ListenTimesOut, AcceptMany, Wait, GetTimesOut, Stopping
<1>7. CASE AcceptFails \/ HandshakeFails
  BY <1>1, <1>7 DEF AcceptFails, HandshakeFails, EndAccepting, Stopping
<1>8. CASE Serve
  <2>1. free \in Seq(Threads) /\ IsInjective(free) /\ free # <<>>
    BY <1>8 DEF Serve, PoolInv
  <2>2. /\ Last(free) \in Threads /\ Contains(free, Last(free))
        /\ free' \in Seq(Threads) /\ IsInjective(free')
        /\ \A x : Contains(free', x) => x # Last(free) /\ Contains(free, x)
    BY <1>8, <2>1, PoolGet DEF Serve
  <2> QED
    BY <1>8, <2>2 DEF Serve, PoolInv, Stopping
<1>9. ASSUME NEW t \in Threads, Connection(t)
      PROVE  PoolInv'
  BY <1>9, OneGoes DEF Connection, Start, WaitTimesOut, Leave
<1>10. ASSUME NEW t \in Threads, Serving(t)
       PROVE  PoolInv'
  <2>1. CASE HangUp(t) \/ Refuse(t)
    BY <2>1, OneIsDone DEF HangUp, Refuse
  <2>2. CASE Finish(t)
    BY <2>2, OneIsDone DEF Finish
  <2>3. CASE Fail(t) \/ StopServing(t)
    BY <2>3, OneGoes, OneIsDone DEF Fail, StopServing
  <2>4. CASE StopAsking(t) \/ LastRequest(t)
    BY <2>4, OneIsDone DEF StopAsking, LastRequest
  <2> QED
    BY <1>10, <2>1, <2>2, <2>3, <2>4 DEF Serving
<1>11. CASE UNCHANGED servers
  BY <1>1, <1>11 DEF servers, Stopping
<1> QED
  BY <1>2, <1>3, <1>4, <1>5, <1>6, <1>7, <1>8, <1>9, <1>10, <1>11
     DEF ServersNext, Acceptor

\* Whatever the servers over TLS and HTTPS, the control server and the UI server
\* do, the pool gives a connection to a thread that is alive and serves no other
\* (src/acore/thread_pool.hpp, src/server/*_connection.cpp).
THEOREM PoolGivesTheLiving == ServersSpec => []GivenToTheLiving
<1>1. PoolInv => GivenToTheLiving
  BY DEF PoolInv, GivenToTheLiving
<1> QED
  BY <1>1, PoolInit, PoolStep, PTL DEF ServersSpec

(***************************************************************************)
(* Configuration                                                           *)
(***************************************************************************)

EntryTables == {"address_list_address", "address_list_network"}
Listed(rows) == Keys(rows, "address_list")

\* The lists there can be: those of the default configuration and of the operations
\* so far, and the one a caller made up.
ListIds == 0..(9 + operations) \cup {Stranger}

KnownRow(r) ==
    /\ r.table = "address_list" => r.key \in ListIds
    /\ r.table \in EntryTables => r.ref \subseteq ListIds
KnownRows(rows) == \A r \in rows : KnownRow(r)

\* The rows of a list: its own and its entries.
EntryOf(r, list) == r.table \in EntryTables /\ r.ref = {list}
ListRow(r, list) == r.table = "address_list" /\ r.key = list
Belongs(r, list) == ListRow(r, list) \/ EntryOf(r, list)

\* What operations execute: nothing updates a list or an entry, and lists are
\* deleted by their key, entries by the list they refer to.
Usual(s) ==
    /\ KnownRow(s.row)
    /\ \/ s.op = "insert"
       \/ s.op = "update" /\ s.row.table \notin EntryTables \cup {"address_list"}
       \/ s.op = "delete_by_key" /\ s.row.table \notin EntryTables
       \/ s.op = "delete_by_reference" /\ s.row.table # "address_list"

Touches(s, list) == Belongs(s.row, list)
Lists(s, list) == s.op = "insert" /\ s.row.table = "address_list" /\ s.row.key = list

LEMMA UpdateSpares ==
    ASSUME NEW rows, NEW s, s.op = "update", NEW table, s.row.table # table
    PROVE  Of(Apply(rows, s), table) = Of(rows, table)
<1>1. CASE UpdateReaches
  <2>1. Apply(rows, s) = {IF Same(r, s.row) THEN s.row ELSE r : r \in rows}
    BY <1>1 DEF Apply
  <2>2. ASSUME NEW r \in rows, r.table = table
        PROVE  r \in Apply(rows, s)
    BY <2>1, <2>2 DEF Same
  <2>3. ASSUME NEW r \in Apply(rows, s), r.table = table
        PROVE  r \in rows
    BY <2>1, <2>3
  <2> QED
    BY <2>2, <2>3 DEF Of
<1>2. CASE ~UpdateReaches
  BY <1>2 DEF Apply
<1> QED
  BY <1>1, <1>2


\* A statement about another list leaves the rows of this one as they are, and so
\* the list.
LEMMA RowsSpared ==
    ASSUME NEW rows, NEW s, Usual(s), NEW list, ~Touches(s, list), NEW r, Belongs(r, list)
    PROVE  r \in Apply(rows, s) <=> r \in rows
<1>1. CASE s.op = "update"
  <2>1. r.table \in EntryTables \cup {"address_list"}
    BY DEF Belongs, ListRow, EntryOf
  <2>2. Of(Apply(rows, s), r.table) = Of(rows, r.table)
    BY <1>1, <2>1, UpdateSpares DEF Usual
  <2> QED
    BY <2>2 DEF Of
<1>2. CASE s.op # "update"
  BY <1>2 DEF Usual, Touches, Belongs, ListRow, EntryOf, Apply, Same, Refers, EntryTables
<1> QED
  BY <1>1, <1>2

LEMMA SameRows ==
    ASSUME NEW rows, NEW next, NEW list,
           \A r : Belongs(r, list) => (r \in next <=> r \in rows)
    PROVE  /\ list \in Listed(next) <=> list \in Listed(rows)
           /\ Entries(next, list) = Entries(rows, list)
<1>1. ASSUME NEW r
      PROVE  /\ r \in Of(next, "address_list") /\ r.key = list
                  <=> r \in Of(rows, "address_list") /\ r.key = list
             /\ \A table \in EntryTables :
                  r \in Of(next, table) /\ r.ref = {list} <=> r \in Of(rows, table) /\ r.ref = {list}
  BY DEF Of, Belongs, ListRow, EntryOf, EntryTables
<1> QED
  BY <1>1 DEF Listed, Keys, Entries, EntryTables

LEMMA OthersSpare ==
    ASSUME NEW rows, NEW s, Usual(s), NEW list, ~Touches(s, list)
    PROVE  /\ list \in Listed(Apply(rows, s)) <=> list \in Listed(rows)
           /\ Entries(Apply(rows, s), list) = Entries(rows, list)
BY RowsSpared, SameRows

LEMMA NotListed ==
    ASSUME NEW rows, NEW s, Usual(s), NEW list, list \notin Listed(rows), ~Lists(s, list)
    PROVE  list \notin Listed(Apply(rows, s))
<1>1. CASE s.op = "update"
  BY <1>1, UpdateSpares DEF Usual, Listed, Keys
<1>2. CASE s.op # "update"
  BY <1>2 DEF Usual, Listed, Keys, Of, Lists, Apply
<1> QED
  BY <1>1, <1>2

LEMMA StaysKnown ==
    ASSUME NEW rows, KnownRows(rows), NEW s, Usual(s)
    PROVE  KnownRows(Apply(rows, s))
BY DEF Usual, KnownRows, KnownRow, Apply, EntryTables

\* What memory may be: its lists are lists there can be.
KnownMemory(m) ==
    /\ m = [lists |-> m.lists, servers |-> m.servers, horizons |-> m.horizons,
            values |-> m.values, cacheClient |-> m.cacheClient]
    /\ DOMAIN m.lists \subseteq ListIds

\* In a set of rows, a list that is there has the entries it was inserted with.
Whole(rows, list) == list \in Listed(rows) => Entries(rows, list) = asked[list]

\* The operation that holds the zone guard, and the rows it sees.
job == jobs["zone_guard"]
seen == Sees("zone_guard")

\* What is left of it, for a list: nothing to do with it; whatever to entries of a
\* list that is not there and will not be; its deletion, the list first; or its
\* insertion, the list last.
LeftAlone(list) == \A s \in ToSet(job.todo) : ~Touches(s, list)
Gone(list) == list \notin Listed(seen) /\ \A s \in ToSet(job.todo) : ~Lists(s, list)
Leaving(list) ==
    /\ job.todo # <<>> /\ Head(job.todo) = DelBy("delete_by_key", "address_list", list)
    /\ \A s \in ToSet(job.todo) : ~Lists(s, list)
Coming(list) ==
    LET n == Len(job.todo)
    IN  /\ list \notin Listed(seen)
        /\ n > 0 /\ job.todo[n] = Ins(R("address_list", list, {}, <<>>))
        /\ \A i \in 1..(n - 1) :
             /\ job.todo[i].op = "insert" /\ job.todo[i].row.table \in EntryTables
             /\ job.todo[i].row.ref = {list}
        /\ asked[list] = Entries(seen, list) \cup {job.todo[i].row.val : i \in 1..(n - 1)}

\* Another operation has not had to do with a list, and will not.
Free(w, list) ==
    /\ \A s \in ToSet(jobs[w].todo) : ~Touches(s, list)
    /\ \A r \in jobs[w].gone \cup jobs[w].new : ~Belongs(r, list)

\* An operation, whatever lock it holds.
Shape(j) ==
    j = [phase |-> j.phase, on |-> j.on, todo |-> j.todo, gone |-> j.gone, new |-> j.new,
         early |-> j.early, late |-> j.late]
JobKnown(w) ==
    /\ Shape(jobs[w])
    /\ database = "mongodb" => jobs[w].gone = {} /\ jobs[w].new = {}
    /\ KnownRows(jobs[w].gone) /\ KnownRows(jobs[w].new)
    /\ jobs[w].todo \in Seq(ToSet(jobs[w].todo)) /\ \A s \in ToSet(jobs[w].todo) : Usual(s)
    /\ \A m \in jobs[w].early \cup jobs[w].late : KnownMemory(m)

ListInv(list) ==
    /\ Whole(stored, list) /\ Whole(seen, list)
    /\ \A w \in Locks \ {"zone_guard"} : Free(w, list)
    /\ LeftAlone(list) \/ Gone(list) \/ Leaving(list) \/ Coming(list)

ListsInv ==
    /\ operations \in 0..MaxOperations
    /\ jobs = [w \in Locks |-> jobs[w]]
    /\ KnownRows(stored) /\ KnownMemory(memory)
    /\ \A w \in Locks : JobKnown(w)
    /\ \A list \in DOMAIN asked : ListInv(list)

LEMMA Joined ==
    ASSUME NEW a, NEW b, a \in Seq(ToSet(a)), b \in Seq(ToSet(b))
    PROVE  /\ a \o b \in Seq(ToSet(a \o b))
           /\ ToSet(a \o b) = ToSet(a) \cup ToSet(b)
<1> DEFINE Elems == ToSet(a) \cup ToSet(b)
<1>1. a \in Seq(Elems) /\ b \in Seq(Elems)
  BY DEF ToSet
<1> HIDE DEF Elems
<1>2. /\ Len(a) \in Nat /\ Len(b) \in Nat /\ DOMAIN a = 1..Len(a) /\ DOMAIN b = 1..Len(b)
      /\ a \o b \in Seq(Elems) /\ DOMAIN (a \o b) = 1..(Len(a) + Len(b))
      /\ \A i \in 1..(Len(a) + Len(b)) :
           (a \o b)[i] = IF i <= Len(a) THEN a[i] ELSE b[i - Len(a)]
  BY <1>1
<1> DEFINE c == a \o b
<1>3. ToSet(c) \subseteq Elems
  BY <1>2 DEF ToSet
<1>4. ASSUME NEW i \in 1..Len(a) PROVE a[i] \in ToSet(c)
  <2>1. i \in DOMAIN c /\ c[i] = a[i]
    BY <1>2
  <2> QED
    BY <2>1 DEF ToSet
<1>5. ASSUME NEW i \in 1..Len(b) PROVE b[i] \in ToSet(c)
  <2>1. i + Len(a) \in DOMAIN c /\ c[i + Len(a)] = b[i]
    BY <1>2
  <2> QED
    BY <2>1 DEF ToSet
<1>6. ToSet(c) = Elems
  BY <1>2, <1>3, <1>4, <1>5 DEF ToSet, Elems
<1> QED
  BY <1>2, <1>6 DEF Elems

LEMMA OwnElements ==
    ASSUME NEW Elems, NEW q \in Seq(Elems)
    PROVE  q \in Seq(ToSet(q))
<1>1. Len(q) \in Nat /\ DOMAIN q = 1..Len(q) /\ \A i \in 1..Len(q) : q[i] \in ToSet(q)
  BY DEF ToSet
<1> QED
  BY <1>1

LEMMA FirstAndRest ==
    ASSUME NEW q, q \in Seq(ToSet(q)), q # <<>>
    PROVE  /\ Head(q) \in ToSet(q) /\ Len(q) \in Nat \ {0} /\ Head(q) = q[1]
           /\ Tail(q) \in Seq(ToSet(Tail(q))) /\ ToSet(Tail(q)) \subseteq ToSet(q)
           /\ Len(Tail(q)) = Len(q) - 1
           /\ \A i \in 1..(Len(q) - 1) : Tail(q)[i] = q[i + 1]
<1>1. /\ Len(q) \in Nat \ {0} /\ DOMAIN q = 1..Len(q) /\ Head(q) = q[1]
      /\ Tail(q) \in Seq(ToSet(q)) /\ Len(Tail(q)) = Len(q) - 1
      /\ DOMAIN Tail(q) = 1..(Len(q) - 1)
      /\ \A i \in 1..(Len(q) - 1) : Tail(q)[i] = q[i + 1] /\ i + 1 \in 1..Len(q)
  OBVIOUS
<1>2. Head(q) \in ToSet(q)
  BY <1>1 DEF ToSet
<1>3. ToSet(Tail(q)) \subseteq ToSet(q)
  BY <1>1 DEF ToSet
<1>4. Tail(q) \in Seq(ToSet(Tail(q)))
  BY <1>1, OwnElements
<1> QED
  BY <1>1, <1>2, <1>3, <1>4


LEMMA IdleParts ==
    /\ Idle.phase = "idle" /\ Idle.on = {} /\ Idle.todo = <<>> /\ ToSet(Idle.todo) = {}
    /\ Idle.gone = {} /\ Idle.new = {} /\ Idle.early = {} /\ Idle.late = {}
    /\ Idle.todo \in Seq(ToSet(Idle.todo)) /\ Shape(Idle)
BY DEF Idle, Shape, ToSet

LEMMA JobParts ==
    ASSUME NEW j, NEW ph, NEW on, NEW todo, NEW gone, NEW new, NEW early, NEW late,
           j = [phase |-> ph, on |-> on, todo |-> todo, gone |-> gone, new |-> new,
                early |-> early, late |-> late]
    PROVE  /\ j.phase = ph /\ j.on = on /\ j.todo = todo /\ j.gone = gone /\ j.new = new
           /\ j.early = early /\ j.late = late /\ Shape(j)
BY DEF Shape

\* What a step of an operation leaves known.
LEMMA StillKnown ==
    ASSUME UNCHANGED <<database, operations>>
    PROVE  /\ ListIds' = ListIds
           /\ \A r : KnownRow(r)' <=> KnownRow(r)
           /\ \A rows : KnownRows(rows)' <=> KnownRows(rows)
           /\ \A s : Usual(s)' <=> Usual(s)
           /\ \A m : KnownMemory(m)' <=> KnownMemory(m)
           /\ \A w : JobKnown(w) /\ jobs'[w] = jobs[w] => JobKnown(w)'
           /\ \A w : jobs'[w] = Idle => JobKnown(w)'
<1>1. ListIds' = ListIds
  BY DEF ListIds
<1>2. \A r : KnownRow(r)' <=> KnownRow(r)
  BY <1>1 DEF KnownRow
<1>3. \A rows : KnownRows(rows)' <=> KnownRows(rows)
  BY <1>2 DEF KnownRows
<1>4. \A s : Usual(s)' <=> Usual(s)
  BY <1>2 DEF Usual
<1>5. \A m : KnownMemory(m)' <=> KnownMemory(m)
  BY <1>1 DEF KnownMemory
<1>6. ASSUME NEW w, JobKnown(w), jobs'[w] = jobs[w] PROVE JobKnown(w)'
  BY <1>3, <1>4, <1>5, <1>6 DEF JobKnown
<1>7. ASSUME NEW w, jobs'[w] = Idle PROVE JobKnown(w)'
  BY <1>7, IdleParts DEF JobKnown, KnownRows
<1> QED
  BY <1>1, <1>2, <1>3, <1>4, <1>5, <1>6, <1>7

\* One statement.
Executed(w, s) ==
    /\ jobs[w].todo # <<>> /\ s = Head(jobs[w].todo)
    /\ jobs' = [o \in Locks |-> jobs'[o]] /\ \A o \in Locks \ {w} : jobs'[o] = jobs[o]
    /\ Shape(jobs'[w]) /\ jobs'[w].phase = "writing" /\ jobs'[w].todo = Tail(jobs[w].todo)
    /\ jobs'[w].on = jobs[w].on
    /\ jobs'[w].early = jobs[w].early /\ jobs'[w].late = jobs[w].late
    /\ IF database = "mongodb"
       THEN /\ stored' = Apply(stored, s) /\ Sees(w) = stored
            /\ jobs'[w].gone = {} /\ jobs'[w].new = {}
       ELSE /\ stored' = stored
            /\ jobs'[w].gone \subseteq jobs[w].gone \cup (Sees(w) \ Apply(Sees(w), s))
            /\ jobs'[w].new \subseteq jobs[w].new \cup (Apply(Sees(w), s) \ Sees(w))
    /\ Sees(w)' = Apply(Sees(w), s)
    /\ UNCHANGED <<database, memory, status, asked, crossed, operations>>

LEMMA StatementExecuted ==
    ASSUME NEW w \in Locks, jobs = [o \in Locks |-> jobs[o]], JobKnown(w), ExecuteStatement(w)
    PROVE  Executed(w, Head(jobs[w].todo))
<1> DEFINE s == Head(jobs[w].todo)
           rows == Sees(w)
           next == Apply(rows, s)
<1>1. /\ jobs[w].todo # <<>> /\ Perform(w, rows, next)
      /\ UNCHANGED <<database, memory, status, asked, crossed, operations>>
  BY DEF ExecuteStatement
<1>2. jobs[w] = [phase |-> jobs[w].phase, on |-> jobs[w].on, todo |-> jobs[w].todo,
                 gone |-> jobs[w].gone, new |-> jobs[w].new,
                 early |-> jobs[w].early, late |-> jobs[w].late]
  BY DEF JobKnown, Shape
<1> HIDE DEF s, next
<1>3. CASE database = "mongodb"
  <2>1. rows = stored
    BY <1>3 DEF JobKnown, Sees
  <2> HIDE DEF rows
  <2>2. /\ stored' = next
        /\ jobs' = [jobs EXCEPT ![w].phase = "writing", ![w].todo = Tail(@)]
    BY <1>1, <1>3 DEF Perform
  <2>3. jobs'[w] = [phase |-> "writing", on |-> jobs[w].on, todo |-> Tail(jobs[w].todo),
                    gone |-> jobs[w].gone, new |-> jobs[w].new,
                    early |-> jobs[w].early, late |-> jobs[w].late]
    BY <1>2, <2>2
  <2>4. jobs' = [o \in Locks |-> jobs'[o]] /\ \A o \in Locks \ {w} : jobs'[o] = jobs[o]
    BY <2>2
  <2>5. jobs'[w].gone = {} /\ jobs'[w].new = {}
    BY <1>3, <2>3 DEF JobKnown
  <2>6. Sees(w)' = next
    BY <2>2, <2>5 DEF Sees
  <2> QED
    BY <1>1, <1>3, <2>1, <2>2, <2>3, <2>4, <2>5, <2>6 DEF Executed, Shape, s, next, rows
<1>4. CASE database # "mongodb"
  <2> HIDE DEF rows
  <2>1. /\ jobs' = [jobs EXCEPT ![w].phase = "writing", ![w].todo = Tail(@),
                                ![w].gone = @ \cup (rows \ next),
                                ![w].new = (@ \ (rows \ next)) \cup (next \ rows)]
        /\ stored' = stored
    BY <1>1, <1>4 DEF Perform
  <2>2. jobs'[w] = [phase |-> "writing", on |-> jobs[w].on, todo |-> Tail(jobs[w].todo),
                    gone |-> jobs[w].gone \cup (rows \ next),
                    new |-> (jobs[w].new \ (rows \ next)) \cup (next \ rows),
                    early |-> jobs[w].early, late |-> jobs[w].late]
    BY <1>2, <2>1
  <2>3. jobs' = [o \in Locks |-> jobs'[o]] /\ \A o \in Locks \ {w} : jobs'[o] = jobs[o]
    BY <2>1
  <2>4. rows = (stored \ jobs[w].gone) \cup jobs[w].new
    BY DEF rows, Sees
  <2>5. Sees(w)' = (stored \ (jobs[w].gone \cup (rows \ next)))
                   \cup ((jobs[w].new \ (rows \ next)) \cup (next \ rows))
    BY <2>1, <2>2 DEF Sees
  <2>6. Sees(w)' = next
    BY <2>4, <2>5
  <2> QED
    BY <1>1, <1>4, <2>1, <2>2, <2>3, <2>6 DEF Executed, Shape, s, next, rows
<1> QED
  BY <1>3, <1>4

LEMMA ExecutedKnown ==
    ASSUME ListsInv, NEW w \in Locks, NEW s, Executed(w, s)
    PROVE  /\ Usual(s) /\ s \in ToSet(jobs[w].todo)
           /\ ToSet(jobs'[w].todo) \subseteq ToSet(jobs[w].todo)
           /\ KnownRows(stored)' /\ KnownMemory(memory)'
           /\ \A o \in Locks : JobKnown(o)'
<1>1. JobKnown(w) /\ KnownRows(stored) /\ KnownMemory(memory)
  BY DEF ListsInv
<1>2. /\ Usual(s) /\ s \in ToSet(jobs[w].todo)
      /\ jobs'[w].todo = Tail(jobs[w].todo)
      /\ jobs'[w].todo \in Seq(ToSet(jobs'[w].todo))
      /\ ToSet(jobs'[w].todo) \subseteq ToSet(jobs[w].todo)
  <2>1. /\ jobs[w].todo # <<>> /\ s = Head(jobs[w].todo)
        /\ jobs'[w].todo = Tail(jobs[w].todo)
    BY DEF Executed
  <2>2. jobs[w].todo \in Seq(ToSet(jobs[w].todo)) /\ \A e \in ToSet(jobs[w].todo) : Usual(e)
    BY <1>1 DEF JobKnown
  <2> QED
    BY <2>1, <2>2, FirstAndRest
<1>3. KnownRows(Sees(w))
  BY <1>1 DEF JobKnown, Sees, KnownRows
<1>4. KnownRows(Apply(Sees(w), s)) /\ KnownRows(Apply(stored, s))
  BY <1>1, <1>2, <1>3, StaysKnown
<1>5. UNCHANGED <<database, operations>>
  BY DEF Executed
<1>6. KnownRows(stored)' /\ KnownMemory(memory)'
  <2>1. stored' \in {stored, Apply(stored, s)} /\ memory' = memory
    BY DEF Executed
  <2> QED
    BY <1>1, <1>4, <1>5, <2>1, StillKnown DEF KnownRows, KnownMemory
<1>7. KnownRows(jobs'[w].gone) /\ KnownRows(jobs'[w].new)
  BY <1>1, <1>3, <1>4 DEF Executed, JobKnown, KnownRows
<1>8. JobKnown(w)'
  <2>1. jobs'[w].early = jobs[w].early /\ jobs'[w].late = jobs[w].late
    BY DEF Executed
  <2>2. (\A e \in ToSet(jobs[w].todo) : Usual(e)) /\ \A m \in jobs[w].early \cup jobs[w].late : KnownMemory(m)
    BY <1>1 DEF JobKnown
  <2>3. Shape(jobs'[w]) /\ (database' = "mongodb" => jobs'[w].gone = {} /\ jobs'[w].new = {})
    BY <1>5 DEF Executed
  <2>4. /\ (\A e \in ToSet(jobs'[w].todo) : Usual(e)')
        /\ (\A m \in jobs'[w].early \cup jobs'[w].late : KnownMemory(m)')
        /\ KnownRows(jobs[w].gone)' /\ KnownRows(jobs[w].new)'
    <3>1. KnownRows(jobs[w].gone)' /\ KnownRows(jobs[w].new)'
      BY <1>5, <1>7 DEF KnownRows, KnownRow, ListIds
    <3> QED
      BY <1>2, <1>5, <2>1, <2>2, <3>1, StillKnown
  <2> QED
    BY <1>2, <2>3, <2>4 DEF JobKnown
<1>9. ASSUME NEW o \in Locks, o # w PROVE JobKnown(o)'
  <2>1. jobs'[o] = jobs[o]
    BY <1>9 DEF Executed, ListsInv
  <2> QED
    BY <1>5, <2>1, StillKnown DEF ListsInv
<1> QED
  BY <1>2, <1>6, <1>8, <1>9

\* One statement, for one list.
LEMMA ExecuteForList ==
    ASSUME ListsInv, Executed("zone_guard", Head(job.todo)), NEW list \in DOMAIN asked
    PROVE  /\ Whole(seen, list)'
           /\ LeftAlone(list)' \/ Gone(list)' \/ Leaving(list)' \/ Coming(list)'
<1> DEFINE s == Head(job.todo)
           n == Len(job.todo)
<1>1. /\ job.todo # <<>> /\ seen' = Apply(seen, s) /\ job'.todo = Tail(job.todo)
      /\ UNCHANGED asked
  <2>1. job = jobs["zone_guard"] /\ job' = jobs'["zone_guard"]
    BY DEF job
  <2>2. seen = Sees("zone_guard") /\ seen' = Sees("zone_guard")'
    BY DEF seen
  <2>3. /\ job.todo # <<>> /\ Sees("zone_guard")' = Apply(Sees("zone_guard"), s)
        /\ UNCHANGED asked
    BY <2>1 DEF Executed
  <2>4. jobs'["zone_guard"].todo = Tail(job.todo)
    BY <2>1 DEF Executed
  <2> QED
    BY <2>1, <2>2, <2>3, <2>4
<1>2. /\ Usual(s) /\ n \in Nat \ {0} /\ s = job.todo[1] /\ s \in ToSet(job.todo)
      /\ ToSet(job'.todo) \subseteq ToSet(job.todo)
      /\ Len(job'.todo) = n - 1
      /\ \A i \in 1..(n - 1) : job'.todo[i] = job.todo[i + 1]
  <2>1. job.todo \in Seq(ToSet(job.todo)) /\ \A e \in ToSet(job.todo) : Usual(e)
    BY DEF ListsInv, JobKnown, Locks, job
  <2> QED
    BY <1>1, <2>1, FirstAndRest
<1>3. /\ Whole(seen, list)
      /\ LeftAlone(list) \/ Gone(list) \/ Leaving(list) \/ Coming(list)
  BY DEF ListsInv, ListInv
<1> HIDE DEF s, n
<1>4. CASE LeftAlone(list)
  <2>1. ~Touches(s, list)
    BY <1>2, <1>4 DEF LeftAlone
  <2>2. /\ list \in Listed(seen') <=> list \in Listed(seen)
        /\ Entries(seen', list) = Entries(seen, list)
    BY <1>1, <1>2, <2>1, OthersSpare
  <2>3. LeftAlone(list)'
    BY <1>2, <1>4 DEF LeftAlone
  <2> QED
    BY <1>1, <1>3, <2>2, <2>3 DEF Whole
<1>5. CASE Gone(list)
  <2>1. list \notin Listed(seen')
    BY <1>1, <1>2, <1>5, NotListed DEF Gone
  <2> QED
    BY <1>2, <1>5, <2>1 DEF Whole, Gone
<1>6. CASE Leaving(list)
  <2>1. s = DelBy("delete_by_key", "address_list", list)
    BY <1>6 DEF Leaving, s
  <2>2. list \notin Listed(seen')
    BY <1>1, <2>1 DEF DelBy, R, Apply, Same, Listed, Keys, Of
  <2> QED
    BY <1>2, <1>6, <2>2 DEF Whole, Gone, Leaving
<1>7. CASE Coming(list)
  <2> DEFINE left(q, m) == {q[i].row.val : i \in 1..m}
  <2>1. /\ list \notin Listed(seen)
        /\ job.todo[n] = Ins(R("address_list", list, {}, <<>>))
        /\ \A i \in 1..(n - 1) :
             /\ job.todo[i].op = "insert" /\ job.todo[i].row.table \in EntryTables
             /\ job.todo[i].row.ref = {list}
        /\ asked[list] = Entries(seen, list) \cup left(job.todo, n - 1)
    BY <1>7 DEF Coming, n
  <2>2. CASE n = 1
    <3>1. seen' = seen \cup {R("address_list", list, {}, <<>>)}
      <4>1. s = Ins(R("address_list", list, {}, <<>>))
        BY <1>2, <2>1, <2>2
      <4> QED
        BY <1>1, <4>1 DEF Ins, R, Apply
    <3>2. Entries(seen', list) = Entries(seen, list)
      BY <3>1 DEF R, Entries, Of
    <3>3. left(job.todo, n - 1) = {}
      BY <2>2
    <3>4. LeftAlone(list)'
      BY <1>2, <2>2 DEF LeftAlone, ToSet
    <3> QED
      BY <1>1, <2>1, <3>2, <3>3, <3>4 DEF Whole
  <2>3. CASE n > 1
    <3>1. /\ 1 \in 1..(n - 1) /\ n - 1 \in 1..(n - 1)
          /\ n - 1 + 1 = n
          /\ \A i \in 1..(n - 1 - 1) : i + 1 \in 1..(n - 1) /\ i \in 1..(n - 1)
          /\ \A i \in 1..(n - 1) : i # 1 => i - 1 \in 1..(n - 1 - 1) /\ i - 1 + 1 = i
      BY <1>2, <2>3
    <3>2. /\ s.op = "insert" /\ s.row.table \in EntryTables /\ s.row.ref = {list}
          /\ seen' = seen \cup {s.row}
      BY <1>1, <1>2, <2>1, <3>1 DEF Apply
    <3>3. list \notin Listed(seen')
      BY <2>1, <3>2 DEF Listed, Keys, Of, EntryTables
    <3>4. Entries(seen', list) = Entries(seen, list) \cup {s.row.val}
      BY <3>2 DEF Entries, Of, EntryTables
    <3>5. left(job.todo, n - 1) = {s.row.val} \cup left(job'.todo, n - 1 - 1)
      <4>1. ASSUME NEW i \in 1..(n - 1 - 1)
            PROVE  job'.todo[i].row.val \in left(job.todo, n - 1)
        BY <1>2, <3>1, SMTT(60)
      <4>2. ASSUME NEW i \in 1..(n - 1), i # 1
            PROVE  job.todo[i].row.val \in left(job'.todo, n - 1 - 1)
        <5>1. /\ i - 1 \in 1..(n - 1 - 1) /\ i - 1 \in 1..(n - 1)
              /\ job'.todo[i - 1] = job.todo[i - 1 + 1] /\ i - 1 + 1 = i
          BY <1>2, <3>1, <4>2
        <5> QED
          BY <5>1
      <4>3. s.row.val \in left(job.todo, n - 1)
        BY <1>2, <3>1
      <4>4. left(job.todo, n - 1) \subseteq {s.row.val} \cup left(job'.todo, n - 1 - 1)
        BY <1>2, <4>2
      <4>5. left(job'.todo, n - 1 - 1) \subseteq left(job.todo, n - 1)
        BY <4>1
      <4> HIDE DEF left
      <4> QED
        BY <4>3, <4>4, <4>5
    <3>6. /\ job'.todo[n - 1] = Ins(R("address_list", list, {}, <<>>))
          /\ \A i \in 1..(n - 1 - 1) :
               /\ job'.todo[i].op = "insert" /\ job'.todo[i].row.table \in EntryTables
               /\ job'.todo[i].row.ref = {list}
      <4>1. job'.todo[n - 1] = job.todo[n]
        BY <1>2, <3>1
      <4>2. \A i \in 1..(n - 1 - 1) : job'.todo[i] = job.todo[i + 1]
        BY <1>2, <3>1
      <4> QED
        BY <2>1, <3>1, <4>1, <4>2
    <3>7. asked'[list] = Entries(seen', list) \cup left(job'.todo, n - 1 - 1)
      BY <1>1, <2>1, <3>4, <3>5
    <3> HIDE DEF left
    <3>8. Coming(list)'
      <4>1. Len(job'.todo) = n - 1 /\ n - 1 > 0
        BY <1>2, <2>3
      <4>2. asked'[list] = Entries(seen', list) \cup {job'.todo[i].row.val : i \in 1..(n - 1 - 1)}
        BY <3>7 DEF left
      <4> QED
        BY <3>3, <3>6, <4>1, <4>2 DEF Coming
    <3> QED
      BY <3>3, <3>8 DEF Whole
  <2> QED
    BY <1>2, <2>2, <2>3
<1> QED
  BY <1>3, <1>4, <1>5, <1>6, <1>7

\* What another operation does leaves the rows of this list as they are, and so
\* what is left of the holder's.
LEMMA SameForList ==
    ASSUME ListsInv, NEW list \in DOMAIN asked, UNCHANGED asked, job'.todo = job.todo,
           \A r : Belongs(r, list) => (r \in stored' <=> r \in stored),
           \A r : Belongs(r, list) => (r \in seen' <=> r \in seen)
    PROVE  /\ Whole(stored, list)' /\ Whole(seen, list)'
           /\ LeftAlone(list)' \/ Gone(list)' \/ Leaving(list)' \/ Coming(list)'
<1>1. /\ list \in Listed(stored)' <=> list \in Listed(stored)
      /\ Entries(stored, list)' = Entries(stored, list)
      /\ list \in Listed(seen)' <=> list \in Listed(seen)
      /\ Entries(seen, list)' = Entries(seen, list)
  <2>1. /\ list \in Listed(stored') <=> list \in Listed(stored)
        /\ Entries(stored', list) = Entries(stored, list)
    BY SameRows
  <2>2. /\ list \in Listed(seen') <=> list \in Listed(seen)
        /\ Entries(seen', list) = Entries(seen, list)
    BY SameRows
  <2> QED
    BY <2>1, <2>2
<1>2. /\ Whole(stored, list) /\ Whole(seen, list)
      /\ LeftAlone(list) \/ Gone(list) \/ Leaving(list) \/ Coming(list)
  BY DEF ListsInv, ListInv
<1> QED
  BY <1>1, <1>2 DEF Whole, LeftAlone, Gone, Leaving, Coming

LEMMA ExecuteLists ==
    ASSUME ListsInv, NEW w \in Locks, ExecuteStatement(w)
    PROVE  ListsInv'
<1>1. PICK s : s = Head(jobs[w].todo) /\ Executed(w, s)
  BY StatementExecuted DEF ListsInv
<1>2. /\ Usual(s) /\ s \in ToSet(jobs[w].todo)
      /\ ToSet(jobs'[w].todo) \subseteq ToSet(jobs[w].todo)
      /\ KnownRows(stored)' /\ KnownMemory(memory)' /\ \A o \in Locks : JobKnown(o)'
  BY <1>1, ExecutedKnown
<1>3. /\ operations' \in 0..MaxOperations /\ jobs' = [o \in Locks |-> jobs'[o]]
      /\ asked' = asked /\ \A o \in Locks : o # w => jobs'[o] = jobs[o]
  BY <1>1 DEF Executed, ListsInv
<1>4. ASSUME NEW list \in DOMAIN asked, w = "zone_guard" PROVE ListInv(list)'
  <2>1. /\ Whole(seen, list)'
        /\ LeftAlone(list)' \/ Gone(list)' \/ Leaving(list)' \/ Coming(list)'
    <3>1. Executed("zone_guard", Head(job.todo))
      BY <1>1, <1>4 DEF job
    <3> QED
      BY <3>1, ExecuteForList
  <2>2. stored' = stored \/ stored' = seen'
    BY <1>1, <1>4 DEF Executed, seen
  <2>3. Whole(stored, list)'
    <3>1. Whole(stored, list)
      BY DEF ListsInv, ListInv
    <3> QED
      BY <1>3, <2>1, <2>2, <3>1 DEF Whole
  <2>4. \A o \in Locks \ {"zone_guard"} : Free(o, list)'
    BY <1>3, <1>4 DEF Free, ListsInv, ListInv
  <2> QED
    BY <2>1, <2>3, <2>4 DEF ListInv
<1>5. ASSUME NEW list \in DOMAIN asked, w # "zone_guard" PROVE ListInv(list)'
  <2>1. Free(w, list) /\ \A o \in Locks \ {"zone_guard"} : Free(o, list)
    BY <1>5 DEF ListsInv, ListInv
  <2>2. ~Touches(s, list)
    BY <1>2, <2>1 DEF Free
  <2>3. \A r : Belongs(r, list) =>
          /\ r \in Apply(stored, s) <=> r \in stored
          /\ r \in Apply(Sees(w), s) <=> r \in Sees(w)
    BY <1>2, <2>2, RowsSpared
  <2>4. \A r : Belongs(r, list) => (r \in stored' <=> r \in stored)
    BY <1>1, <2>3 DEF Executed
  <2>5. job' = job /\ \A r : Belongs(r, list) => (r \in seen' <=> r \in seen)
    <3>1. jobs'["zone_guard"] = jobs["zone_guard"]
      BY <1>3, <1>5 DEF Locks
    <3> QED
      BY <2>4, <3>1 DEF seen, job, Sees
  <2>6. /\ Whole(stored, list)' /\ Whole(seen, list)'
        /\ LeftAlone(list)' \/ Gone(list)' \/ Leaving(list)' \/ Coming(list)'
    BY <1>3, <2>4, <2>5, SameForList
  <2>7. Free(w, list)'
    <3>1. \A r \in jobs'[w].gone \cup jobs'[w].new : ~Belongs(r, list)
      BY <1>1, <2>1, <2>3 DEF Executed, Free
    <3> QED
      BY <1>2, <2>1, <3>1 DEF Free
  <2>8. \A o \in Locks \ {"zone_guard"} : Free(o, list)'
    BY <1>3, <2>1, <2>7 DEF Free
  <2> QED
    BY <2>6, <2>8 DEF ListInv
<1> QED
  BY <1>2, <1>3, <1>4, <1>5 DEF ListsInv

\* An operation begins: what is known stays known, and its own number is a new one.
LEMMA Begun ==
    ASSUME ListsInv, NEW w \in Locks, NEW on, NEW q, NEW early, NEW late,
           BeginOperation(w, on, q, early, late)
    PROVE  /\ operations' \in 0..MaxOperations
           /\ UNCHANGED <<database, stored, memory>>
           /\ jobs' = [o \in Locks |-> jobs'[o]] /\ \A o \in Locks \ {w} : jobs'[o] = jobs[o]
           /\ jobs[w] = Idle
           /\ jobs'[w] = [phase |-> "begun", on |-> on, todo |-> q, gone |-> {}, new |-> {},
                          early |-> {early}, late |-> {late}]
           /\ \A o \in Locks : Sees(o)' = Sees(o)
           /\ ListIds' = ListIds \cup {Fresh} /\ Fresh \notin ListIds
           /\ \A r : KnownRow(r) => KnownRow(r)'
           /\ \A m : KnownMemory(m) => KnownMemory(m)'
<1>1. /\ operations \in Nat /\ operations < MaxOperations /\ operations' = operations + 1
      /\ MaxOperations \in Nat /\ MaxOperations <= 88
  <2>1. operations \in 0..MaxOperations
    BY DEF ListsInv
  <2>2. operations < MaxOperations /\ operations' = operations + 1
    BY DEF BeginOperation
  <2> QED
    BY <2>1, <2>2, ConfigurationAssumption
<1>2. ListIds' = ListIds \cup {Fresh} /\ Fresh \notin ListIds
  BY <1>1 DEF ListIds, Fresh, Stranger
<1>3. /\ \A r : KnownRow(r) => KnownRow(r)'
      /\ \A m : KnownMemory(m) => KnownMemory(m)'
  BY <1>2 DEF KnownRow, KnownMemory
<1>4. /\ UNCHANGED <<database, stored, memory>> /\ jobs[w] = Idle
      /\ jobs' = [jobs EXCEPT ![w] =
                     [phase |-> "begun", on |-> on, todo |-> q, gone |-> {}, new |-> {},
                      early |-> {early}, late |-> {late}]]
  BY DEF BeginOperation
<1>5. jobs = [o \in Locks |-> jobs[o]]
  BY DEF ListsInv
<1>6. /\ jobs' = [o \in Locks |-> jobs'[o]] /\ \A o \in Locks \ {w} : jobs'[o] = jobs[o]
      /\ jobs'[w] = [phase |-> "begun", on |-> on, todo |-> q, gone |-> {}, new |-> {},
                     early |-> {early}, late |-> {late}]
  BY <1>4, <1>5
<1>7. ASSUME NEW o \in Locks PROVE Sees(o)' = Sees(o)
  <2>1. jobs'[o].gone = jobs[o].gone /\ jobs'[o].new = jobs[o].new
    <3>1. CASE o = w
      <4>1. Idle.gone = {} /\ Idle.new = {}
        BY DEF Idle
      <4>2. jobs'[w].gone = {} /\ jobs'[w].new = {}
        BY <1>6
      <4> QED
        BY <1>4, <3>1, <4>1, <4>2
    <3>2. CASE o # w
      BY <1>6, <3>2
    <3> QED
      BY <3>1, <3>2
  <2> QED
    BY <1>4, <2>1 DEF Sees
<1>8. operations' \in 0..MaxOperations
  BY <1>1
<1> QED
  BY <1>2, <1>3, <1>4, <1>6, <1>7, <1>8

LEMMA BeginLists ==
    ASSUME ListsInv, NEW w \in Locks, NEW on, NEW q, NEW early, NEW late,
           BeginOperation(w, on, q, early, late),
           q \in Seq(ToSet(q)), \A s \in ToSet(q) : Usual(s)',
           KnownMemory(early)', KnownMemory(late)',
           \A list \in DOMAIN asked' : ListInv(list)'
    PROVE  ListsInv'
<1>1. /\ operations' \in 0..MaxOperations
      /\ UNCHANGED <<database, stored, memory>>
      /\ jobs' = [o \in Locks |-> jobs'[o]] /\ \A o \in Locks \ {w} : jobs'[o] = jobs[o]
      /\ jobs'[w] = [phase |-> "begun", on |-> on, todo |-> q, gone |-> {}, new |-> {},
                     early |-> {early}, late |-> {late}]
      /\ \A r : KnownRow(r) => KnownRow(r)'
      /\ \A m : KnownMemory(m) => KnownMemory(m)'
  BY Begun
<1>2. KnownRows(stored)' /\ KnownMemory(memory)'
  BY <1>1 DEF ListsInv, KnownRows
<1>3. JobKnown(w)'
  BY <1>1 DEF JobKnown, Shape, KnownRows
<1>4. ASSUME NEW o \in Locks, o # w PROVE JobKnown(o)'
  <2>1. JobKnown(o) /\ jobs'[o] = jobs[o] /\ database' = database
    BY <1>1, <1>4 DEF ListsInv
  <2>2. \A s : Usual(s) => Usual(s)'
    BY <1>1 DEF Usual
  <2> QED
    BY <1>1, <2>1, <2>2 DEF JobKnown, KnownRows
<1> QED
  BY <1>1, <1>2, <1>3, <1>4 DEF ListsInv

\* For a list that was there: the holder of the zone guard has to leave it in order,
\* the others alone.
LEMMA BeginForList ==
    ASSUME ListsInv, NEW w \in Locks, NEW on, NEW q, NEW early, NEW late,
           BeginOperation(w, on, q, early, late),
           NEW list \in DOMAIN asked, asked'[list] = asked[list],
           IF w = "zone_guard" THEN LeftAlone(list)' \/ Leaving(list)'
           ELSE \A s \in ToSet(q) : ~Touches(s, list)
    PROVE  ListInv(list)'
<1>1. /\ stored' = stored /\ \A o \in Locks : Sees(o)' = Sees(o)
      /\ \A o \in Locks \ {w} : jobs'[o] = jobs[o]
      /\ jobs'[w] = [phase |-> "begun", on |-> on, todo |-> q, gone |-> {}, new |-> {},
                     early |-> {early}, late |-> {late}]
  BY Begun
<1>2. ListInv(list)
  BY DEF ListsInv
<1>3. seen' = seen
  BY <1>1 DEF seen, Locks
<1>4. Whole(stored, list)' /\ Whole(seen, list)'
  BY <1>1, <1>2, <1>3 DEF ListInv, Whole
<1>5. ASSUME NEW o \in Locks \ {"zone_guard"} PROVE Free(o, list)'
  <2>1. CASE o = w
    BY <1>1, <2>1 DEF Free
  <2>2. CASE o # w
    BY <1>1, <1>2, <2>2 DEF Free, ListInv
  <2> QED
    BY <2>1, <2>2
<1>6. LeftAlone(list)' \/ Gone(list)' \/ Leaving(list)' \/ Coming(list)'
  <2>1. CASE w # "zone_guard"
    <3>1. job' = job
      BY <1>1, <2>1 DEF job, Locks
    <3> QED
      BY <1>2, <1>3, <3>1 DEF ListInv, LeftAlone, Gone, Leaving, Coming
  <2> QED
    BY <2>1
<1> QED
  BY <1>4, <1>5, <1>6 DEF ListInv

\* The statements of operations on servers, horizons and settings.
Elsewhere(s) ==
    /\ s.op \in {"insert", "update", "delete_by_key", "delete_by_reference"}
    /\ s.row.table \notin EntryTables \cup {"address_list"}

LEMMA BeginElsewhere ==
    ASSUME ListsInv, NEW w \in Locks, NEW on, NEW q, NEW early, NEW late,
           BeginOperation(w, on, q, early, late), UNCHANGED asked,
           q \in Seq(ToSet(q)), \A s \in ToSet(q) : Elsewhere(s),
           KnownMemory(early), KnownMemory(late)
    PROVE  ListsInv'
<1>1. /\ jobs'[w].todo = q
      /\ KnownMemory(early)' /\ KnownMemory(late)'
  <2>1. jobs'[w] = [phase |-> "begun", on |-> on, todo |-> q, gone |-> {}, new |-> {},
                    early |-> {early}, late |-> {late}]
    BY Begun
  <2>2. \A m : KnownMemory(m) => KnownMemory(m)'
    BY Begun
  <2> QED
    BY <2>1, <2>2
<1>2. \A s \in ToSet(q) : Usual(s)' /\ \A list : ~Touches(s, list)
  BY DEF Elsewhere, Usual, KnownRow, Touches, Belongs, ListRow, EntryOf
<1>3. ASSUME NEW list \in DOMAIN asked', w = "zone_guard" PROVE LeftAlone(list)'
  BY <1>1, <1>2, <1>3 DEF LeftAlone, job
<1>4. \A list \in DOMAIN asked' : ListInv(list)'
  BY <1>2, <1>3, BeginForList
<1> QED
  BY <1>1, <1>2, <1>4, BeginLists

LEMMA FiniteImage ==
    ASSUME NEW f, IsFiniteSet(DOMAIN f)
    PROVE  IsFiniteSet({f[x] : x \in DOMAIN f})
<1>1. [x \in DOMAIN f |-> f[x]] \in Surjection(DOMAIN f, {f[x] : x \in DOMAIN f})
  BY DEF Surjection
<1> QED
  BY <1>1, FS_Surjection

LEMMA ListsGivenAreFinite == \A entries \in ListsGiven \cup {{<<Ip>>}} : IsFiniteSet(entries)
<1>1. {<<Ip>>, <<Net>>} = {<<Ip>>} \cup {<<Net>>}
  OBVIOUS
<1>2. IsFiniteSet({<<Ip>>}) /\ IsFiniteSet({<<Net>>}) /\ IsFiniteSet({})
  BY FS_EmptySet, FS_Singleton
<1>3. IsFiniteSet({<<Ip>>, <<Net>>})
  BY <1>1, <1>2, FS_Union
<1> QED
  BY <1>2, <1>3 DEF ListsGiven

\* The statements for the entries of a list, and no others.
LEMMA InsertEntriesElements ==
    ASSUME NEW list, NEW entries, IsFiniteSet(entries)
    PROVE  LET q == InsertEntries(list, entries)
           IN  /\ q \in Seq(ToSet(q))
               /\ ToSet(q) = {Ins(R(EntryTable(e), 0, {list}, e)) : e \in entries}
<1> DEFINE Row(e) == Ins(R(EntryTable(e), 0, {list}, e))
           A == {Row(e) : e \in entries \ {<<Net>>}}
           Nets == {Row(e) : e \in entries \cap {<<Net>>}}
           f == [e \in entries \ {<<Net>>} |-> Row(e)]
           g == [e \in entries \cap {<<Net>>} |-> Row(e)]
<1>1. IsFiniteSet(A) /\ IsFiniteSet(Nets)
  <2>1. A = {f[e] : e \in DOMAIN f} /\ Nets = {g[e] : e \in DOMAIN g}
    OBVIOUS
  <2>2. IsFiniteSet(DOMAIN f) /\ IsFiniteSet(DOMAIN g)
    BY FS_Subset
  <2> HIDE DEF f, g, A, Nets
  <2> QED
    BY <2>1, <2>2, FiniteImage
<1>2. A \cup Nets = {Row(e) : e \in entries}
  OBVIOUS
<1>3. InsertEntries(list, entries) = SetToSeq(A) \o SetToSeq(Nets)
  BY DEF InsertEntries
<1> HIDE DEF A, Nets
<1>4. /\ SetToSeq(A) \in Seq(ToSet(SetToSeq(A))) /\ ToSet(SetToSeq(A)) = A
      /\ SetToSeq(Nets) \in Seq(ToSet(SetToSeq(Nets))) /\ ToSet(SetToSeq(Nets)) = Nets
  BY <1>1, SetToSeqOf, OwnElements
<1>5. LET q == SetToSeq(A) \o SetToSeq(Nets)
      IN  q \in Seq(ToSet(q)) /\ ToSet(q) = A \cup Nets
  BY <1>4, Joined
<1> QED
  BY <1>2, <1>3, <1>5

LEMMA InsertSocketsElements ==
    ASSUME NEW id, NEW sockets \in SocketsGiven
    PROVE  LET q == InsertSockets(id, sockets)
           IN  /\ q \in Seq(ToSet(q)) /\ \A s \in ToSet(q) : Elsewhere(s)
               /\ ToSet(q) = {Ins(R("server_socket_address", 0, {id}, a)) : a \in sockets}
<1> DEFINE A == {Ins(R("server_socket_address", 0, {id}, a)) : a \in sockets}
<1>1. IsFiniteSet(sockets)
  BY FS_Singleton DEF SocketsGiven
<1>2. IsFiniteSet(A)
  <2> DEFINE f == [a \in sockets |-> Ins(R("server_socket_address", 0, {id}, a))]
  <2>1. A = {f[a] : a \in DOMAIN f} /\ IsFiniteSet(DOMAIN f)
    BY <1>1
  <2> HIDE DEF f, A
  <2> QED
    BY <2>1, FiniteImage
<1>3. \A s \in A : Elsewhere(s)
  BY DEF Elsewhere, Ins, R, EntryTables
<1> HIDE DEF A
<1>4. SetToSeq(A) \in Seq(ToSet(SetToSeq(A))) /\ ToSet(SetToSeq(A)) = A
  BY <1>2, SetToSeqOf, OwnElements
<1> QED
  BY <1>3, <1>4 DEF InsertSockets, A
\* A number that is new is that of no row and no statement.
LEMMA NewToAll ==
    ASSUME ListsInv, NEW fresh, fresh \notin ListIds
    PROVE  /\ fresh \notin Listed(stored) /\ fresh \notin Listed(seen)
           /\ Entries(seen, fresh) = {} /\ \A o \in Locks : Free(o, fresh)
<1>1. \A r : KnownRow(r) => ~Belongs(r, fresh)
  BY DEF KnownRow, Belongs, ListRow, EntryOf
<1>2. /\ \A r \in stored : KnownRow(r)
      /\ \A o \in Locks : \A r \in jobs[o].gone \cup jobs[o].new : KnownRow(r)
      /\ \A o \in Locks : \A s \in ToSet(jobs[o].todo) : KnownRow(s.row)
  BY DEF ListsInv, JobKnown, KnownRows, Usual
<1>3. \A r \in seen : KnownRow(r)
  BY <1>2 DEF seen, Sees, Locks
<1>4. \A r \in stored \cup seen : ~Belongs(r, fresh)
  BY <1>1, <1>2, <1>3
<1>5. fresh \notin Listed(stored) /\ fresh \notin Listed(seen) /\ Entries(seen, fresh) = {}
  BY <1>4 DEF Belongs, ListRow, EntryOf, Listed, Keys, Of, Entries, EntryTables
<1>6. \A o \in Locks : Free(o, fresh)
  BY <1>1, <1>2 DEF Free, Touches
<1> QED
  BY <1>5, <1>6

LEMMA InsertListKeeps ==
    ASSUME ListsInv, NEW entries, IsFiniteSet(entries), InsertList(entries)
    PROVE  ListsInv'
<1>1. PICK fresh, early, late :
           fresh = Fresh /\ early = memory /\ late = WithList(Fresh, entries)
  OBVIOUS
<1> DEFINE a == InsertEntries(fresh, entries)
           last == Ins(R("address_list", fresh, {}, <<>>))
           q == Append(a, last)
<1>2. /\ BeginOperation("zone_guard", {fresh}, q, early, late)
      /\ asked' = PutList(asked, fresh, entries)
  <2>1. a \in Seq(ToSet(a))
    BY InsertEntriesElements
  <2>2. a \o <<last>> = Append(a, last)
    <3> HIDE DEF a, last
    <3> QED BY <2>1
  <2> QED
    BY <1>1, <2>2 DEF InsertList, InsertListStatements
<1>3. /\ a \in Seq(ToSet(a))
      /\ ToSet(a) = {Ins(R(EntryTable(e), 0, {fresh}, e)) : e \in entries}
  BY InsertEntriesElements
<1>4. \A s \in ToSet(a) :
        s.op = "insert" /\ s.row.table \in EntryTables /\ s.row.ref = {fresh}
  BY <1>3 DEF Ins, R, EntryTable, EntryTables
<1>5. {s.row.val : s \in ToSet(a)} = entries
  <2>1. \A e \in entries : Ins(R(EntryTable(e), 0, {fresh}, e)).row.val = e
    BY DEF Ins, R
  <2>2. \A s \in ToSet(a) : s.row.val \in entries
    BY <1>3, <2>1
  <2>3. \A e \in entries : \E s \in ToSet(a) : s.row.val = e
    BY <1>3, <2>1
  <2> HIDE DEF a
  <2> QED
    BY <2>2, <2>3
<1> HIDE DEF a
<1>6. /\ Len(a) \in Nat /\ Len(q) = Len(a) + 1 /\ Len(q) - 1 = Len(a) /\ q[Len(q)] = last
      /\ \A i \in 1..Len(a) : q[i] = a[i] /\ a[i] \in ToSet(a)
      /\ ToSet(a) = {a[i] : i \in 1..Len(a)}
  <2> HIDE DEF last
  <2>1. /\ Len(a) \in Nat /\ Len(q) = Len(a) + 1 /\ q[Len(q)] = last
        /\ \A i \in 1..Len(a) : q[i] = a[i] /\ a[i] \in ToSet(a)
        /\ DOMAIN a = 1..Len(a)
    BY <1>3 DEF ToSet
  <2> HIDE DEF q
  <2> QED
    BY <2>1 DEF ToSet
<1>7. ToSet(q) = ToSet(a) \cup {last} /\ q \in Seq(ToSet(q))
  <2> HIDE DEF last
  <2>1. <<last>> \in Seq(ToSet(<<last>>)) /\ ToSet(<<last>>) = {last}
    BY DEF ToSet
  <2>2. q = a \o <<last>>
    BY <1>3
  <2> HIDE DEF q
  <2> QED
    BY <1>3, <2>1, <2>2, Joined
<1>8. /\ stored' = stored /\ seen' = seen /\ job'.todo = q
      /\ \A o \in Locks \ {"zone_guard"} : jobs'[o] = jobs[o]
      /\ ListIds' = ListIds \cup {fresh} /\ fresh \notin ListIds
      /\ \A m : KnownMemory(m) => KnownMemory(m)'
  <2> HIDE DEF q
  <2>1. /\ stored' = stored /\ \A o \in Locks : Sees(o)' = Sees(o)
        /\ \A o \in Locks \ {"zone_guard"} : jobs'[o] = jobs[o]
        /\ jobs'["zone_guard"] = [phase |-> "begun", on |-> {fresh}, todo |-> q, gone |-> {},
                                  new |-> {}, early |-> {early}, late |-> {late}]
        /\ ListIds' = ListIds \cup {Fresh} /\ Fresh \notin ListIds
        /\ \A m : KnownMemory(m) => KnownMemory(m)'
    BY <1>2, Begun DEF Locks
  <2>2. job'.todo = q
    BY <2>1 DEF job
  <2> QED
    BY <1>1, <2>1, <2>2 DEF seen, Locks
<1>9. \A s \in ToSet(q) : Usual(s)'
  <2>1. Usual(last)'
    BY <1>8 DEF Usual, KnownRow, Ins, R, EntryTables
  <2>2. \A s \in ToSet(a) : Usual(s)'
    BY <1>4, <1>8 DEF Usual, KnownRow, EntryTables
  <2> QED
    BY <1>7, <2>1, <2>2
<1>10. KnownMemory(early)' /\ KnownMemory(late)'
  <2>1. KnownMemory(early)
    BY <1>1 DEF ListsInv
  <2>2. late = [early EXCEPT !.lists = PutList(@, fresh, entries)]
    BY <1>1 DEF WithList
  <2>3. KnownMemory(early)' /\ fresh \in ListIds'
    BY <1>8, <2>1
  <2> QED
    BY <2>2, <2>3 DEF KnownMemory, PutList
<1>11. ASSUME NEW list \in DOMAIN asked'
       PROVE  ListInv(list)'
  <2>1. CASE list = fresh
    <3>1. /\ fresh \notin Listed(stored) /\ fresh \notin Listed(seen)
          /\ Entries(seen, fresh) = {} /\ \A o \in Locks : Free(o, fresh)
      BY <1>8, NewToAll
    <3>2. asked'[fresh] = entries
      BY <1>2 DEF PutList
    <3>3. entries = {q[i].row.val : i \in 1..(Len(q) - 1)}
      <4> HIDE DEF q
      <4> QED BY <1>5, <1>6
    <3>4. /\ Len(q) > 0
          /\ \A i \in 1..(Len(q) - 1) :
               q[i].op = "insert" /\ q[i].row.table \in EntryTables /\ q[i].row.ref = {fresh}
      <4> HIDE DEF q
      <4> QED BY <1>4, <1>6
    <3> HIDE DEF q
    <3>5. Coming(list)'
      BY <1>6, <1>8, <2>1, <3>1, <3>2, <3>3, <3>4 DEF Coming
    <3>6. \A o \in Locks \ {"zone_guard"} : Free(o, list)'
      BY <1>8, <2>1, <3>1 DEF Free
    <3> QED
      BY <1>8, <2>1, <3>1, <3>5, <3>6 DEF ListInv, Whole
  <2>2. CASE list # fresh
    <3>1. list \in DOMAIN asked /\ asked'[list] = asked[list]
      BY <1>2, <2>2 DEF PutList
    <3>2. ~Touches(last, list) /\ \A s \in ToSet(a) : ~Touches(s, list)
      BY <1>4, <2>2 DEF Touches, Belongs, ListRow, EntryOf, Ins, R, EntryTables
    <3>3. LeftAlone(list)'
      BY <1>7, <1>8, <3>2 DEF LeftAlone
    <3> HIDE DEF q
    <3> QED
      BY <1>2, <3>1, <3>3, BeginForList DEF Locks
  <2> QED
    BY <2>1, <2>2
<1> HIDE DEF q
<1> QED
  BY <1>2, <1>7, <1>9, <1>10, <1>11, BeginLists DEF Locks

LEMMA Literals ==
    \A a, b, c, d, e :
        /\ <<a>> \in Seq(ToSet(<<a>>)) /\ ToSet(<<a>>) = {a}
        /\ <<a, b>> \in Seq(ToSet(<<a, b>>)) /\ ToSet(<<a, b>>) = {a, b}
        /\ <<a, b, c>> \in Seq(ToSet(<<a, b, c>>)) /\ ToSet(<<a, b, c>>) = {a, b, c}
        /\ <<a, b, c, d, e>> \in Seq(ToSet(<<a, b, c, d, e>>))
        /\ ToSet(<<a, b, c, d, e>>) = {a, b, c, d, e}
BY DEF ToSet

LEMMA MemoryStaysKnown ==
    ASSUME NEW m, KnownMemory(m), NEW x
    PROVE  /\ KnownMemory([m EXCEPT !.servers = x])
           /\ KnownMemory([m EXCEPT !.horizons = x])
           /\ KnownMemory([m EXCEPT !.values = x])
           /\ \A list \in ListIds : KnownMemory([m EXCEPT !.lists = PutList(@, list, x)])
           /\ KnownMemory([m EXCEPT !.lists = Restrict(@, DOMAIN @ \ {x})])
BY DEF KnownMemory, PutList, Restrict

\* The entries of a list are deleted and others inserted: for this list nothing was
\* asked since it was inserted, and the others are left alone.
OnList(s, list) ==
    /\ s.op \in {"insert", "delete_by_reference"}
    /\ s.row.table \in EntryTables /\ s.row.ref = {list}

LEMMA BeginOnList ==
    ASSUME ListsInv, NEW list \in ListIds, NEW w \in Locks, NEW on,
           NEW q, NEW early, NEW late, BeginOperation(w, on, q, early, late),
           asked' = Restrict(asked, DOMAIN asked \ {list}),
           q \in Seq(ToSet(q)), \A s \in ToSet(q) : Elsewhere(s) \/ OnList(s, list),
           KnownMemory(early), KnownMemory(late)
    PROVE  ListsInv'
<1>1. /\ jobs'[w].todo = q
      /\ KnownMemory(early)' /\ KnownMemory(late)'
      /\ list \in ListIds'
  <2>1. jobs'[w] = [phase |-> "begun", on |-> on, todo |-> q, gone |-> {}, new |-> {},
                    early |-> {early}, late |-> {late}]
    BY Begun
  <2>2. ListIds' = ListIds \cup {Fresh} /\ \A m : KnownMemory(m) => KnownMemory(m)'
    BY Begun
  <2> QED
    BY <2>1, <2>2
<1>2. \A s \in ToSet(q) : Usual(s)' /\ \A other : other # list => ~Touches(s, other)
  BY <1>1 DEF Elsewhere, OnList, Usual, KnownRow, Touches, Belongs, ListRow, EntryOf, EntryTables
<1>3. ASSUME NEW other \in DOMAIN asked'
      PROVE  ListInv(other)'
  <2>1. other \in DOMAIN asked /\ other # list /\ asked'[other] = asked[other]
    BY DEF Restrict
  <2>2. \A s \in ToSet(q) : ~Touches(s, other)
    BY <1>2, <2>1
  <2>3. w = "zone_guard" => LeftAlone(other)'
    BY <1>1, <2>2 DEF LeftAlone, job
  <2> QED
    BY <2>1, <2>2, <2>3, BeginForList
<1> QED
  BY <1>1, <1>2, <1>3, BeginLists

LEMMA UpdateListElements ==
    ASSUME NEW list, NEW entries, IsFiniteSet(entries)
    PROVE  LET q == UpdateListStatements(list, entries)
           IN  q \in Seq(ToSet(q)) /\ \A s \in ToSet(q) : OnList(s, list)
<1> DEFINE x == DelBy("delete_by_reference", "address_list_address", list)
           y == DelBy("delete_by_reference", "address_list_network", list)
           z == InsertEntries(list, entries)
<1>1. OnList(x, list) /\ OnList(y, list)
  BY DEF OnList, DelBy, R, EntryTables
<1>2. z \in Seq(ToSet(z)) /\ \A s \in ToSet(z) : OnList(s, list)
  BY InsertEntriesElements DEF OnList, Ins, R, EntryTable, EntryTables
<1>3. <<x, y>> \in Seq(ToSet(<<x, y>>)) /\ ToSet(<<x, y>>) = {x, y}
  BY Literals
<1>4. UpdateListStatements(list, entries) = <<x, y>> \o z
  BY DEF UpdateListStatements
<1> HIDE DEF x, y, z
<1>5. /\ <<x, y>> \o z \in Seq(ToSet(<<x, y>> \o z))
      /\ ToSet(<<x, y>> \o z) = {x, y} \cup ToSet(z)
  BY <1>2, <1>3, Joined
<1> QED
  BY <1>1, <1>2, <1>4, <1>5

LEMMA UpdateListKeeps ==
    ASSUME ListsInv, NEW entries, IsFiniteSet(entries),
           NEW list \in DOMAIN memory.lists \cup {Stranger}, UpdateList(list, entries)
    PROVE  ListsInv'
<1>1. KnownMemory(memory) /\ list \in ListIds
  BY DEF ListsInv, KnownMemory, ListIds
<1>2. KnownMemory(WithList(list, entries))
  BY <1>1, MemoryStaysKnown DEF WithList
<1>3. PICK early, late : early = memory /\ late = WithList(list, entries)
  OBVIOUS
<1> QED
  BY <1>1, <1>2, <1>3, BeginOnList, UpdateListElements DEF UpdateList, Locks

LEMMA UpdateListServerKeeps ==
    ASSUME ListsInv, NEW list \in DOMAIN memory.lists \cup {Stranger},
           NEW s \in memory.servers, NEW entries, IsFiniteSet(entries), NEW sockets \in SocketsGiven,
           UpdateListServer(s, list, entries, sockets)
    PROVE  ListsInv'
<1> DEFINE a == UpdateListStatements(list, entries)
           x == Upd(R("server", s.id, {}, <<s.type>>))
           y == Upd(R(SettingsTable(s.type), s.id, {list}, <<>>))
           z == DelBy("delete_by_reference", "server_socket_address", s.id)
           c == InsertSockets(s.id, sockets)
           q == a \o <<x, y>> \o (<<z>> \o c)
<1>1. KnownMemory(memory) /\ list \in ListIds
  BY DEF ListsInv, KnownMemory, ListIds
<1>2. Elsewhere(x) /\ Elsewhere(y) /\ Elsewhere(z)
  BY DEF Elsewhere, Upd, DelBy, R, SettingsTable, EntryTables
<1>3. /\ a \in Seq(ToSet(a)) /\ \A e \in ToSet(a) : OnList(e, list)
      /\ c \in Seq(ToSet(c)) /\ \A e \in ToSet(c) : Elsewhere(e)
  BY UpdateListElements, InsertSocketsElements
<1>4. PICK early, late : /\ early = memory /\ KnownMemory(late)
                         /\ BeginOperation("m_lock", {list}, q, early, late)
                         /\ asked' = Restrict(asked, DOMAIN asked \ {list})
  <2>1. PICK servers0 : [Replace(s, [s EXCEPT !.sockets = sockets, !.list = list, !.access = entries])
                          EXCEPT !.lists = PutList(@, list, entries)]
                      = [[memory EXCEPT !.servers = servers0]
                          EXCEPT !.lists = PutList(@, list, entries)]
    BY DEF Replace
  <2>2. KnownMemory([[memory EXCEPT !.servers = servers0]
                        EXCEPT !.lists = PutList(@, list, entries)])
    BY <1>1, MemoryStaysKnown
  <2> QED
    BY <2>1, <2>2 DEF UpdateListServer, NewSockets
<1> HIDE DEF a, x, y, z, c
<1>5. q \in Seq(ToSet(q)) /\ ToSet(q) = ToSet(a) \cup {x, y} \cup ({z} \cup ToSet(c))
  <2>1. /\ <<x, y>> \in Seq(ToSet(<<x, y>>)) /\ ToSet(<<x, y>>) = {x, y}
        /\ <<z>> \in Seq(ToSet(<<z>>)) /\ ToSet(<<z>>) = {z}
    BY Literals
  <2>2. a \o <<x, y>> \in Seq(ToSet(a \o <<x, y>>)) /\ ToSet(a \o <<x, y>>) = ToSet(a) \cup {x, y}
    BY <1>3, <2>1, Joined
  <2>3. <<z>> \o c \in Seq(ToSet(<<z>> \o c)) /\ ToSet(<<z>> \o c) = {z} \cup ToSet(c)
    BY <1>3, <2>1, Joined
  <2> DEFINE d == a \o <<x, y>>
             f == <<z>> \o c
  <2>4. d \in Seq(ToSet(d)) /\ f \in Seq(ToSet(f)) /\ q = d \o f
    BY <2>2, <2>3
  <2> HIDE DEF d, f, q
  <2>5. d \o f \in Seq(ToSet(d \o f)) /\ ToSet(d \o f) = ToSet(d) \cup ToSet(f)
    BY <2>4, Joined
  <2> QED
    BY <2>2, <2>3, <2>4, <2>5 DEF d, f
<1>6. \A e \in ToSet(q) : Elsewhere(e) \/ OnList(e, list)
  BY <1>2, <1>3, <1>5
<1> HIDE DEF q
<1> QED
  BY <1>1, <1>4, <1>5, <1>6, BeginOnList DEF Locks

LEMMA DeleteListKeeps ==
    ASSUME ListsInv, NEW list \in DOMAIN memory.lists, DeleteList(list)
    PROVE  ListsInv'
<1> DEFINE x == DelBy("delete_by_key", "address_list", list)
           y == DelBy("delete_by_reference", "address_list_network", list)
           z == DelBy("delete_by_reference", "address_list_address", list)
           q == <<x, y, z>>
<1>1. PICK early, late : /\ BeginOperation("zone_guard", {list}, q, early, late)
                         /\ asked' = asked
                         /\ KnownMemory(early) /\ KnownMemory(late)
  <2>1. KnownMemory(memory)
    BY DEF ListsInv
  <2>2. KnownMemory([memory EXCEPT !.lists = Restrict(@, DOMAIN @ \ {list})])
    BY <2>1, MemoryStaysKnown
  <2> QED
    BY <2>1, <2>2 DEF DeleteList
<1>2. /\ job'.todo = q /\ list \in ListIds'
      /\ KnownMemory(early)' /\ KnownMemory(late)'
  <2> HIDE DEF q
  <2>1. jobs'["zone_guard"] = [phase |-> "begun", on |-> {list}, todo |-> q, gone |-> {},
                               new |-> {}, early |-> {early}, late |-> {late}]
    BY <1>1, Begun DEF Locks
  <2>2. ListIds' = ListIds \cup {Fresh} /\ \A m : KnownMemory(m) => KnownMemory(m)'
    BY <1>1, Begun DEF Locks
  <2>3. list \in ListIds
    BY DEF ListsInv, KnownMemory
  <2> QED
    BY <1>1, <2>1, <2>2, <2>3 DEF job
<1>3. ASSUME NEW s \in {x, y, z}
      PROVE  /\ Usual(s)' /\ ~Lists(s, list)
             /\ \A other : other # list => ~Touches(s, other)
  BY <1>2, <1>3 DEF DelBy, R, Usual, KnownRow, Lists, Touches, Belongs, ListRow, EntryOf, EntryTables
<1>4. q[1] = x
  OBVIOUS
<1> HIDE DEF x, y, z
<1>5. /\ q \in Seq(ToSet(q)) /\ ToSet(q) = {x, y, z}
      /\ q # <<>> /\ Head(q) = x
  BY Literals
<1> HIDE DEF q
<1>6. Leaving(list)'
  BY <1>2, <1>3, <1>5 DEF Leaving, x
<1>7. ASSUME NEW other \in DOMAIN asked', other # list
      PROVE  LeftAlone(other)'
  BY <1>2, <1>3, <1>5, <1>7 DEF LeftAlone
<1>8. \A other \in DOMAIN asked' : ListInv(other)'
  BY <1>1, <1>6, <1>7, BeginForList DEF Locks
<1> QED
  BY <1>1, <1>2, <1>3, <1>5, <1>8, BeginLists DEF Locks

LEMMA AddServerKeeps ==
    ASSUME ListsInv, NEW type, NEW sockets \in SocketsGiven, AddServer(type, sockets)
    PROVE  ListsInv'
<1>1. PICK fresh : fresh = Fresh
  OBVIOUS
<1> DEFINE added == [id |-> fresh, type |-> type, sockets |-> sockets,
                     client |-> fresh, list |-> Unset, access |-> {}]
           x == Ins(R("server", fresh, {}, <<type>>))
           y == Ins(R("dns_client", fresh, {}, <<>>))
           z == Ins(R("dns_server", fresh, {fresh}, <<>>))
           c == InsertSockets(fresh, sockets)
           q == <<x, y, z>> \o c
<1>2. PICK early, late : /\ BeginOperation("m_lock", {}, q, early, late) /\ asked' = asked
                         /\ KnownMemory(early) /\ KnownMemory(late)
  <2>1. KnownMemory(memory)
    BY DEF ListsInv
  <2>2. KnownMemory([memory EXCEPT !.servers = @ \cup {added}])
    BY <2>1, MemoryStaysKnown
  <2> QED
    BY <1>1, <2>1, <2>2 DEF AddServer
<1>3. Elsewhere(x) /\ Elsewhere(y) /\ Elsewhere(z)
  BY DEF Elsewhere, Ins, R, EntryTables
<1>4. c \in Seq(ToSet(c)) /\ \A s \in ToSet(c) : Elsewhere(s)
  BY InsertSocketsElements
<1> HIDE DEF x, y, z, c
<1>5. <<x, y, z>> \in Seq(ToSet(<<x, y, z>>)) /\ ToSet(<<x, y, z>>) = {x, y, z}
  BY Literals
<1>6. q \in Seq(ToSet(q)) /\ ToSet(q) = {x, y, z} \cup ToSet(c)
  BY <1>4, <1>5, Joined
<1> HIDE DEF q
<1> QED
  BY <1>2, <1>3, <1>4, <1>6, BeginElsewhere DEF Locks

LEMMA UpdateDnsServerKeeps ==
    ASSUME ListsInv, NEW s \in memory.servers, NEW sockets \in SocketsGiven,
           UpdateDnsServer(s, sockets)
    PROVE  ListsInv'
<1> DEFINE new == [s EXCEPT !.sockets = sockets, !.client = Unset]
           x == Upd(R("dns_client", s.client, {}, <<>>))
           y == Upd(R("server", s.id, {}, <<s.type>>))
           z == Upd(R("dns_server", s.id, {Unset}, <<>>))
           v == DelBy("delete_by_reference", "server_socket_address", s.id)
           c == InsertSockets(s.id, sockets)
           q == <<x, y, z>> \o (<<v>> \o c)
<1>1. PICK early, late : /\ BeginOperation("m_lock", {}, q, early, late) /\ asked' = asked
                         /\ KnownMemory(early) /\ KnownMemory(late)
  <2>1. KnownMemory(memory)
    BY DEF ListsInv
  <2>2. KnownMemory(Replace(s, new))
    BY <2>1, MemoryStaysKnown DEF Replace
  <2> QED
    BY <2>1, <2>2 DEF UpdateDnsServer, NewSockets
<1>2. Elsewhere(x) /\ Elsewhere(y) /\ Elsewhere(z) /\ Elsewhere(v)
  BY DEF Elsewhere, Upd, DelBy, R, EntryTables
<1>3. c \in Seq(ToSet(c)) /\ \A e \in ToSet(c) : Elsewhere(e)
  BY InsertSocketsElements
<1> HIDE DEF x, y, z, v, c
<1>4. /\ <<x, y, z>> \in Seq(ToSet(<<x, y, z>>)) /\ ToSet(<<x, y, z>>) = {x, y, z}
      /\ <<v>> \in Seq(ToSet(<<v>>)) /\ ToSet(<<v>>) = {v}
  BY Literals
<1>5. <<v>> \o c \in Seq(ToSet(<<v>> \o c)) /\ ToSet(<<v>> \o c) = {v} \cup ToSet(c)
  BY <1>3, <1>4, Joined
<1>6. q \in Seq(ToSet(q)) /\ ToSet(q) = {x, y, z} \cup ({v} \cup ToSet(c))
  <2> DEFINE f == <<v>> \o c
             g == <<x, y, z>>
  <2>1. f \in Seq(ToSet(f)) /\ g \in Seq(ToSet(g)) /\ q = g \o f
    BY <1>4, <1>5
  <2> HIDE DEF f, g, q
  <2>2. g \o f \in Seq(ToSet(g \o f)) /\ ToSet(g \o f) = ToSet(g) \cup ToSet(f)
    BY <2>1, Joined
  <2> QED
    BY <1>4, <1>5, <2>1, <2>2 DEF f, g
<1> HIDE DEF q
<1> QED
  BY <1>1, <1>2, <1>3, <1>6, BeginElsewhere DEF Locks

LEMMA DeleteServerKeeps ==
    ASSUME ListsInv, NEW s \in memory.servers, DeleteServer(s)
    PROVE  ListsInv'
<1> DEFINE x == DelBy("delete_by_reference", "server_socket_address", s.id)
           y == DelBy("delete_by_key", "control_server", s.id)
           z == DelBy("delete_by_key", "ui_server", s.id)
           v == DelBy("delete_by_key", "dns_server", s.id)
           w == DelBy("delete_by_key", "server", s.id)
           q == <<x, y, z, v, w>>
<1>1. PICK left : /\ BeginOperation("m_lock", {}, q, left, left) /\ asked' = asked
                  /\ KnownMemory(left)
  <2>1. KnownMemory([memory EXCEPT !.servers = @ \ {s}])
    BY MemoryStaysKnown DEF ListsInv
  <2> QED
    BY <2>1 DEF DeleteServer
<1>2. \A e \in {x, y, z, v, w} : Elsewhere(e)
  BY DEF Elsewhere, DelBy, R, EntryTables
<1> HIDE DEF x, y, z, v, w
<1>3. q \in Seq(ToSet(q)) /\ ToSet(q) = {x, y, z, v, w}
  BY Literals
<1> HIDE DEF q
<1> QED
  BY <1>1, <1>2, <1>3, BeginElsewhere DEF Locks

\* The operations of one statement.
LEMMA OneStatementKeeps ==
    ASSUME ListsInv, NEW w \in Locks, NEW x, Elsewhere(x), NEW late, KnownMemory(late),
           BeginOperation(w, {}, <<x>>, memory, late), UNCHANGED asked
    PROVE  ListsInv'
<1>1. PICK q, early : q = <<x>> /\ early = memory
  OBVIOUS
<1>2. q \in Seq(ToSet(q)) /\ ToSet(q) = {x} /\ KnownMemory(early)
  BY <1>1, Literals DEF ListsInv
<1> QED
  BY <1>1, <1>2, BeginElsewhere

LEMMA OthersKeep ==
    ASSUME ListsInv,
           \/ \E list \in DOMAIN memory.lists : InsertHorizon(list)
           \/ \E h \in memory.horizons : DeleteHorizon(h) \/ \E list : UpdateHorizon(h, list)
           \/ \E value : SetBaseConfig(value)
           \/ UpdateCacheConfig
    PROVE  ListsInv'
<1>1. KnownMemory(memory)
  BY DEF ListsInv
<1>2. \A table, key, ref, val :
        table \notin EntryTables \cup {"address_list"} =>
            /\ Elsewhere(Ins(R(table, key, ref, val))) /\ Elsewhere(Upd(R(table, key, ref, val)))
            /\ Elsewhere(DelBy("delete_by_key", table, key))
  BY DEF Elsewhere, Ins, Upd, DelBy, R
<1>3. ASSUME NEW list, InsertHorizon(list)
      PROVE  ListsInv'
  <2>1. PICK x, late : /\ x = Ins(R("horizon", Fresh, {list}, <<"unset">>))
                       /\ late = [memory EXCEPT !.horizons = @ \cup {[id |-> Fresh, list |-> {list}]}]
    OBVIOUS
  <2>2. KnownMemory(late) /\ Elsewhere(x)
    BY <1>1, <1>2, <2>1, MemoryStaysKnown DEF EntryTables
  <2> QED
    BY <1>3, <2>1, <2>2, OneStatementKeeps DEF InsertHorizon, Locks
<1>4. ASSUME NEW h, NEW list, UpdateHorizon(h, list)
      PROVE  ListsInv'
  <2>1. PICK x, late : /\ x = Upd(R("horizon", h.id, {list}, <<"unset">>))
                       /\ late = [memory EXCEPT !.horizons = (@ \ {h}) \cup {[h EXCEPT !.list = {list}]}]
    OBVIOUS
  <2>2. KnownMemory(late) /\ Elsewhere(x)
    BY <1>1, <1>2, <2>1, MemoryStaysKnown DEF EntryTables
  <2> QED
    BY <1>4, <2>1, <2>2, OneStatementKeeps DEF UpdateHorizon, Locks
<1>5. ASSUME NEW h, DeleteHorizon(h)
      PROVE  ListsInv'
  <2>1. PICK x, late : /\ x = DelBy("delete_by_key", "horizon", h.id)
                       /\ late = [memory EXCEPT !.horizons = @ \ {h}]
    OBVIOUS
  <2>2. KnownMemory(late) /\ Elsewhere(x)
    BY <1>1, <1>2, <2>1, MemoryStaysKnown DEF EntryTables
  <2> QED
    BY <1>5, <2>1, <2>2, OneStatementKeeps DEF DeleteHorizon, Locks
<1>6. ASSUME NEW value, SetBaseConfig(value)
      PROVE  ListsInv'
  <2>1. PICK x, late : /\ x = Upd(R("basic_config", 4, {}, <<"all.edns-size", value>>))
                       /\ late = [memory EXCEPT !.values = {<<"all.edns-size", value>>}]
    OBVIOUS
  <2>2. KnownMemory(late) /\ Elsewhere(x)
    BY <1>1, <1>2, <2>1, MemoryStaysKnown DEF EntryTables
  <2> QED
    BY <1>6, <2>1, <2>2, OneStatementKeeps DEF SetBaseConfig, Locks
<1>7. CASE UpdateCacheConfig
  <2>1. PICK x, y, early :
             /\ x = Upd(R("cache_config", Unset, {Unset}, <<>>))
             /\ y = Upd(R("dns_client", memory.cacheClient, {}, <<>>))
             /\ early = memory
    OBVIOUS
  <2>2. Elsewhere(x) /\ Elsewhere(y)
    BY <1>2, <2>1 DEF EntryTables
  <2>3. PICK q : q = <<x, y>>
    OBVIOUS
  <2>4. q \in Seq(ToSet(q)) /\ \A e \in ToSet(q) : Elsewhere(e)
    BY <2>2, <2>3, Literals
  <2> QED
    BY <1>1, <1>7, <2>1, <2>3, <2>4, BeginElsewhere DEF UpdateCacheConfig, Locks
<1> QED
  BY <1>3, <1>4, <1>5, <1>6, <1>7

\* A crash, a statement or a commit that fails, the end of an operation: what some
\* connections see is what is stored, and nothing is left for them to do.
LEMMA OperationsOver ==
    ASSUME ListsInv, NEW W \in SUBSET Locks,
           jobs' = [w \in Locks |-> IF w \in W THEN Idle ELSE jobs[w]],
           KnownMemory(memory'),
           UNCHANGED <<database, stored, asked, operations>>
    PROVE  ListsInv'
<1>1. \A w \in Locks : JobKnown(w)'
  BY StillKnown DEF ListsInv
<1>2. KnownRows(stored)' /\ KnownMemory(memory)'
  BY StillKnown DEF ListsInv, KnownRows, KnownMemory
<1>3. \A w \in Locks : ToSet(jobs'[w].todo) \subseteq ToSet(jobs[w].todo)
                       /\ jobs'[w].gone \subseteq jobs[w].gone
                       /\ jobs'[w].new \subseteq jobs[w].new
  BY IdleParts
<1>4. ASSUME NEW list \in DOMAIN asked PROVE ListInv(list)'
  <2>1. ListInv(list)
    BY DEF ListsInv
  <2>2. \A w \in Locks \ {"zone_guard"} : Free(w, list)'
    BY <1>3, <2>1 DEF ListInv, Free
  <2>3. CASE "zone_guard" \in W
    <3>1. job' = Idle
      BY <2>3 DEF job, Locks
    <3>2. seen' = stored /\ ToSet(job'.todo) = {}
      BY <3>1, IdleParts DEF seen, Sees, job
    <3> QED
      BY <2>1, <2>2, <3>2 DEF ListInv, Whole, LeftAlone
  <2>4. CASE "zone_guard" \notin W
    <3>1. job' = job
      BY <2>4 DEF job, Locks
    <3>2. seen' = seen
      BY <3>1 DEF seen, Sees, job
    <3> QED
      BY <2>1, <2>2, <3>1, <3>2 DEF ListInv, Whole, LeftAlone, Gone, Leaving, Coming
  <2> QED
    BY <2>3, <2>4
<1>5. operations' \in 0..MaxOperations /\ jobs' = [w \in Locks |-> jobs'[w]]
  BY DEF ListsInv
<1> QED
  BY <1>1, <1>2, <1>4, <1>5 DEF ListsInv

LEMMA WithKnown ==
    ASSUME NEW m, KnownMemory(memory), KnownMemory(m), NEW w, NEW on
    PROVE  KnownMemory(With(w, on, m))
BY DEF KnownMemory, With

\* A commit: what the connection saw is stored.
LEMMA CommittedLists ==
    ASSUME ListsInv, NEW w \in Locks,
           stored' = Sees(w),
           jobs' = [jobs EXCEPT ![w].phase = "committed", ![w].gone = {}, ![w].new = {}],
           KnownMemory(memory'), UNCHANGED <<database, asked, operations>>
    PROVE  ListsInv'
<1>1. /\ jobs = [o \in Locks |-> jobs[o]] /\ \A o \in Locks : JobKnown(o)
      /\ KnownRows(stored)
  BY DEF ListsInv
<1>2. /\ jobs' = [o \in Locks |-> jobs'[o]]
      /\ jobs'[w] = [phase |-> "committed", on |-> jobs[w].on, todo |-> jobs[w].todo,
                     gone |-> {}, new |-> {}, early |-> jobs[w].early, late |-> jobs[w].late]
  <2>1. jobs[w] = [phase |-> jobs[w].phase, on |-> jobs[w].on, todo |-> jobs[w].todo,
                   gone |-> jobs[w].gone, new |-> jobs[w].new,
                   early |-> jobs[w].early, late |-> jobs[w].late]
    BY <1>1 DEF JobKnown, Shape
  <2> QED
    BY <1>1, <2>1
<1>3. \A o \in Locks \ {w} : jobs'[o] = jobs[o]
  BY <1>1
<1>4. KnownRows(stored)' /\ KnownMemory(memory)'
  <2>1. KnownRows(stored')
    BY <1>1 DEF JobKnown, Sees, KnownRows
  <2> QED
    BY <2>1, StillKnown DEF KnownRows, KnownMemory
<1>5. JobKnown(w)'
  <2>1. JobKnown(w)
    BY <1>1
  <2>2. Shape(jobs'[w]) /\ KnownRows({})'
    BY <1>2 DEF Shape, KnownRows
  <2>3. /\ jobs'[w].todo = jobs[w].todo /\ jobs'[w].gone = {} /\ jobs'[w].new = {}
        /\ jobs'[w].early = jobs[w].early /\ jobs'[w].late = jobs[w].late
    <3>1. jobs'[w].todo = jobs[w].todo /\ jobs'[w].gone = {} /\ jobs'[w].new = {}
      BY <1>2
    <3>2. jobs'[w].early = jobs[w].early
      BY <1>2
    <3>3. jobs'[w].late = jobs[w].late
      BY <1>2
    <3> QED
      BY <3>1, <3>2, <3>3
  <2>4. /\ \A s \in ToSet(jobs'[w].todo) : Usual(s)'
        /\ \A m \in jobs'[w].early \cup jobs'[w].late : KnownMemory(m)'
    BY <2>1, <2>3, StillKnown DEF JobKnown
  <2> QED
    BY <2>1, <2>2, <2>3, <2>4 DEF JobKnown, KnownRows
<1>6. \A o \in Locks : JobKnown(o)'
  BY <1>1, <1>3, <1>5, StillKnown
<1>7. /\ jobs'[w].todo = jobs[w].todo /\ jobs'[w].gone = {} /\ jobs'[w].new = {}
  BY <1>2
<1>8. ASSUME NEW list \in DOMAIN asked PROVE ListInv(list)'
  <2>1. ListInv(list)
    BY DEF ListsInv
  <2>2. \A o \in Locks \ {"zone_guard"} : Free(o, list)'
    <3>1. \A o \in Locks : /\ jobs'[o].todo = jobs[o].todo
                           /\ jobs'[o].gone \subseteq jobs[o].gone
                           /\ jobs'[o].new \subseteq jobs[o].new
      BY <1>3, <1>7
    <3> QED
      BY <2>1, <3>1 DEF ListInv, Free
  <2>3. CASE w = "zone_guard"
    <3>1. stored' = seen /\ seen' = seen /\ job'.todo = job.todo
      BY <1>7, <2>3 DEF seen, Sees, job
    <3> QED
      BY <2>1, <2>2, <3>1 DEF ListInv, Whole, LeftAlone, Gone, Leaving, Coming
  <2>4. CASE w # "zone_guard"
    <3>1. \A r : Belongs(r, list) => (r \in stored' <=> r \in stored)
      BY <2>1, <2>4 DEF ListInv, Free, Sees
    <3>2. job' = job
      BY <1>3, <2>4 DEF job, Locks
    <3>3. \A r : Belongs(r, list) => (r \in seen' <=> r \in seen)
      BY <3>1, <3>2 DEF seen, Sees, job
    <3> QED
      BY <2>2, <3>1, <3>2, <3>3, SameForList DEF ListInv
  <2> QED
    BY <2>3, <2>4
<1> QED
  BY <1>2, <1>4, <1>6, <1>8 DEF ListsInv

LEMMA OperationLists ==
    ASSUME ListsInv, NEW w \in Locks,
           StatementFails(w) \/ CommitOperation(w) \/ UpdateMemory(w)
    PROVE  ListsInv'
<1>1. KnownMemory(memory) /\ \A m \in jobs[w].early \cup jobs[w].late : KnownMemory(m)
  BY DEF ListsInv, JobKnown
<1>2. UNCHANGED <<database, asked, operations>>
  BY DEF StatementFails, CommitOperation, Conclude, UpdateMemory
<1>3. KnownMemory(memory')
  <2>1. CASE StatementFails(w)
    BY <1>1, <2>1 DEF StatementFails
  <2>2. CASE CommitOperation(w)
    BY <1>1, <2>2, WithKnown DEF CommitOperation, Conclude
  <2>3. CASE UpdateMemory(w)
    BY <1>1, <2>3, WithKnown DEF UpdateMemory
  <2> QED
    BY <2>1, <2>2, <2>3
<1>4. \/ jobs' = [jobs EXCEPT ![w] = Idle] /\ stored' = stored
      \/ /\ stored' = Sees(w)
         /\ jobs' = [jobs EXCEPT ![w].phase = "committed", ![w].gone = {}, ![w].new = {}]
  BY DEF StatementFails, CommitOperation, Conclude, UpdateMemory
<1>5. CASE jobs' = [jobs EXCEPT ![w] = Idle] /\ stored' = stored
  <2>1. jobs = [o \in Locks |-> jobs[o]]
    BY DEF ListsInv
  <2>2. jobs' = [o \in Locks |-> IF o \in {w} THEN Idle ELSE jobs[o]] /\ {w} \in SUBSET Locks
    BY <1>5, <2>1
  <2> QED
    BY <1>2, <1>3, <1>5, <2>2, OperationsOver
<1> QED
  BY <1>2, <1>3, <1>4, <1>5, CommittedLists

LEMMA RestartKeeps ==
    ASSUME ListsInv, Restart
    PROVE  ListsInv'
<1>1. UNCHANGED <<database, stored, jobs, asked, operations>>
  BY DEF Restart
<1>2. KnownMemory(ReadAll(stored))
  BY DEF KnownMemory, ReadAll, ListsInv, KnownRows, KnownRow, Keys, Of
<1>3. KnownMemory(memory')
  BY <1>2 DEF Restart, ListsInv
<1>4. jobs' = [w \in Locks |-> IF w \in {} THEN Idle ELSE jobs[w]] /\ {} \in SUBSET Locks
  BY <1>1 DEF ListsInv
<1> QED
  BY <1>1, <1>3, <1>4, OperationsOver

\* The lists of the default configuration are numbered from 1 to 3, and its servers
\* by their protocols; it has one horizon.
StaticRow(r) ==
    /\ r.table = "address_list" => r.key \in 1..3
    /\ r.table \in EntryTables => r.ref \subseteq 1..3
    /\ r.table = "server" => r = R("server", r.key, {}, <<Protocols[r.key]>>)
    /\ r.table = "horizon" => r = R("horizon", 1, {1}, <<"1">>)

\* What R makes a row of another table.
LEMMA PlainRow ==
    ASSUME NEW table, table \notin EntryTables \cup {"address_list", "server", "horizon"},
           NEW key, NEW ref, NEW val
    PROVE  StaticRow(R(table, key, ref, val))
BY DEF StaticRow, R

LEMMA StaticRowsAreKnown == \A r \in ToSet(StaticRows) : StaticRow(r)
<1> DEFINE Fine(q) == q \in Seq(ToSet(q)) /\ \A r \in ToSet(q) : StaticRow(r)
<1>1. ASSUME NEW a, NEW b, Fine(a), Fine(b) PROVE Fine(a \o b)
  BY <1>1, Joined
<1>2. ASSUME NEW q, NEW n \in Nat, DOMAIN q = 1..n, q = [i \in 1..n |-> q[i]],
             \A i \in 1..n : StaticRow(q[i])
      PROVE  Fine(q)
  BY <1>2 DEF ToSet
<1>3. \A a, b, c :
        /\ StaticRow(a) => Fine(<<a>>)
        /\ StaticRow(a) /\ StaticRow(b) => Fine(<<a, b>>)
        /\ StaticRow(a) /\ StaticRow(b) /\ StaticRow(c) => Fine(<<a, b, c>>)
  <2> HIDE DEF StaticRow
  <2> QED
    BY Literals
<1> HIDE DEF Fine
<1>4. Fine(AddressLists) /\ Fine(Servers) /\ Fine(SocketAddresses) /\ Fine(Clients)
      /\ Fine(DnsServers) /\ Fine(RootServers)
  <2>1. Fine(AddressLists)
    BY <1>2 DEF AddressLists, R, StaticRow, EntryTables
  <2>2. Fine(Servers) /\ Fine(Clients)
    BY <1>2 DEF Servers, Clients, R, StaticRow, EntryTables
  <2>3. Fine(SocketAddresses)
    BY <1>2 DEF SocketAddresses, R, StaticRow, EntryTables
  <2>4. Fine(DnsServers)
    BY <1>2 DEF DnsServers, R, StaticRow, EntryTables
  <2>5. Fine(RootServers)
    BY <1>2 DEF RootServers, R, StaticRow, EntryTables
  <2> QED
    BY <2>1, <2>2, <2>3, <2>4, <2>5
<1>5. Fine(SchemaVersions) /\ Fine(CacheConfig) /\ Fine(ControlServer) /\ Fine(UiServer)
      /\ Fine(Horizons)
  <2>1. StaticRow(R("horizon", 1, {1}, <<"1">>))
    BY DEF StaticRow, R, EntryTables
  <2> QED
    BY <1>3, <2>1, PlainRow DEF SchemaVersions, CacheConfig, ControlServer, UiServer, Horizons, EntryTables
<1>6. \A key, val : \A table \in EntryTables, list \in 1..3 :
        StaticRow(R(table, key, {list}, val))
  BY DEF StaticRow, R, EntryTables
<1>7. Fine(Networks)
  <2> DEFINE row(i, list, val) == R("address_list_network", i, {list}, val)
  <2>1. /\ StaticRow(row(1, 1, <<"0.0.0.0/0">>)) /\ StaticRow(row(2, 1, <<"::/0">>))
        /\ StaticRow(row(3, 3, <<"0.0.0.0/0">>))
    BY <1>6 DEF EntryTables
  <2> QED
    BY <1>3, <2>1 DEF Networks
<1>8. Fine(Addresses)
  <2> DEFINE row(i, list, val) == R("address_list_address", i, {list}, val)
  <2>1. StaticRow(row(1, 2, <<"127.0.0.1">>)) /\ StaticRow(row(2, 3, <<"127.0.0.1">>))
    BY <1>6 DEF EntryTables
  <2> QED
    BY <1>3, <2>1 DEF Addresses
<1>9. Fine(BasicConfig)
  <2> DEFINE items == <<"all.support-edns", "all.edns-size", "all.use-ip4-root-hints",
                        "all.use-ip6-root-hints", "all.cache-garbage-collect-ms",
                        "all.cache-max-referral-rrs", "all.cache-max-answer-rrs",
                        "all.seteuid", "all.setgid", "all.chroot">>
             values == <<"true", "4096", "true", "false", "60000", "10000", "10000", "", "", "">>
             q == [i \in DOMAIN items |-> R("basic_config", i + 2, {}, <<items[i], values[i]>>)]
  <2>1. DOMAIN items = 1..10
    OBVIOUS
  <2>2. BasicConfig = q
    BY DEF BasicConfig
  <2> HIDE DEF items, values
  <2>3. \A i \in 1..10 : StaticRow(q[i])
    BY <2>1, PlainRow DEF EntryTables
  <2>4. DOMAIN q = 1..10 /\ q = [i \in 1..10 |-> q[i]]
    BY <2>1
  <2> HIDE DEF q
  <2> QED
    BY <1>2, <2>2, <2>3, <2>4
<1>10. Fine(StaticRows)
  BY <1>1, <1>4, <1>5, <1>7, <1>8, <1>9 DEF StaticRows
<1> QED
  BY <1>10 DEF Fine

LEMMA ListsInit == ConfigurationInit => ListsInv
<1> SUFFICES ASSUME ConfigurationInit PROVE ListsInv
  OBVIOUS
<1>1. KnownRows(Initial)
  <2>1. 1..3 \subseteq ListIds
    BY DEF ListIds, ConfigurationInit
  <2>2. \A r \in Initial : StaticRow(r)
    BY StaticRowsAreKnown DEF Initial
  <2>3. ASSUME NEW r \in Initial PROVE KnownRow(r)
    <3>1. StaticRow(r)
      BY <2>2
    <3>2. r.table = "address_list" => r.key \in 1..3
      BY <3>1 DEF StaticRow
    <3>3. r.table \in EntryTables => r.ref \subseteq 1..3
      BY <3>1 DEF StaticRow
    <3> QED
      BY <2>1, <3>2, <3>3 DEF KnownRow
  <2> QED
    BY <2>3 DEF KnownRows
<1>2. KnownMemory(ReadAll(Initial))
  BY <1>1 DEF KnownMemory, ReadAll, KnownRows, KnownRow, Keys, Of
<1>3. jobs = [w \in Locks |-> Idle]
  BY DEF ConfigurationInit
<1>4. \A w \in Locks : JobKnown(w)
  BY <1>3, IdleParts DEF JobKnown, KnownRows
<1>5. seen = stored /\ ToSet(job.todo) = {}
  BY <1>3, IdleParts DEF seen, Sees, job, Locks
<1>6. ASSUME NEW list \in DOMAIN asked
      PROVE  ListInv(list)
  <2>1. Whole(stored, list) /\ Whole(seen, list) /\ LeftAlone(list)
    BY <1>5 DEF ConfigurationInit, Whole, LeftAlone
  <2>2. \A w \in Locks : Free(w, list)
    BY <1>3, IdleParts DEF Free
  <2> QED
    BY <2>1, <2>2 DEF ListInv
<1>7. operations \in 0..MaxOperations
  BY ConfigurationAssumption DEF ConfigurationInit
<1>8. jobs = [w \in Locks |-> jobs[w]]
  BY <1>3
<1> QED
  BY <1>1, <1>2, <1>4, <1>6, <1>7, <1>8 DEF ConfigurationInit, ListsInv

LEMMA ListsStep == ListsInv /\ [ConfigurationNext]_configuration => ListsInv'
<1> SUFFICES ASSUME ListsInv, [ConfigurationNext]_configuration PROVE ListsInv'
  OBVIOUS
<1>1. CASE Restart
  BY <1>1, RestartKeeps
<1>2. CASE Crash
  <2>1. jobs' = [w \in Locks |-> IF w \in Locks THEN Idle ELSE jobs[w]]
    BY <1>2 DEF Crash
  <2>2. UNCHANGED <<database, stored, memory, asked, operations>>
    BY <1>2 DEF Crash
  <2>3. KnownMemory(memory') /\ Locks \in SUBSET Locks
    BY <2>2 DEF ListsInv
  <2> QED
    BY <2>1, <2>2, <2>3, OperationsOver
<1>3. CASE \E w \in Locks :
             ExecuteStatement(w) \/ StatementFails(w) \/ CommitOperation(w) \/ UpdateMemory(w)
  BY <1>3, ExecuteLists, OperationLists
<1>4. CASE ListOperation
  BY <1>4, ListsGivenAreFinite, InsertListKeeps, UpdateListKeeps DEF ListOperation
<1>5. CASE \E list \in DOMAIN memory.lists : DeleteList(list)
  BY <1>5, DeleteListKeeps
<1>6. CASE ServerOperation
  <2>1. IsFiniteSet({<<Ip>>})
    BY ListsGivenAreFinite
  <2> QED
    BY <1>6, <2>1, AddServerKeeps, UpdateDnsServerKeeps, UpdateListServerKeeps, DeleteServerKeeps
       DEF ServerOperation
<1>7. CASE HorizonOperation \/ UpdateCacheConfig \/ \E value \in {"512"} : SetBaseConfig(value)
  BY <1>7, OthersKeep DEF HorizonOperation
<1>8. CASE UNCHANGED configuration
  <2>1. UNCHANGED <<database, stored, memory, jobs, asked, operations>>
    BY <1>8 DEF configuration
  <2>2. jobs' = [w \in Locks |-> IF w \in {} THEN Idle ELSE jobs[w]] /\ {} \in SUBSET Locks
    BY <2>1 DEF ListsInv
  <2>3. KnownMemory(memory')
    BY <2>1 DEF ListsInv
  <2> QED
    BY <2>1, <2>2, <2>3, OperationsOver
<1> QED
  BY <1>1, <1>2, <1>3, <1>4, <1>5, <1>6, <1>7, <1>8 DEF ConfigurationNext

\* Wherever a statement fails or the program crashes, and in a database that undoes
\* nothing as in one that does, an address list that was inserted is in the table
\* with all its entries or is not there: whatever the other operations on lists,
\* servers, horizons and settings were, and those that ran at the same time
\* (src/socket/address_list.cpp).
THEOREM ListsAreWhole == ConfigurationSpec => []ListsWhole
<1>1. ListsInv => ListsWhole
  BY DEF ListsInv, ListInv, ListsWhole, Whole, Listed
<1> QED
  BY <1>1, ListsInit, ListsStep, PTL DEF ConfigurationSpec

(***************************************************************************)
(* Startup                                                                 *)
(***************************************************************************)

\* A sequence of n things
IsList(s, n) == n \in Nat /\ s = [i \in 1..n |-> s[i]]

\* A list is a sequence, of its length.
LEMMA ListLen ==
    ASSUME NEW s, NEW n, IsList(s, n)
    PROVE  Len(s) = n /\ DOMAIN s = 1..n /\ s \in Seq(ToSet(s))
<1>1. DOMAIN s = 1..n /\ n \in Nat
  BY DEF IsList
<1>2. s \in [1..n -> ToSet(s)]
  BY <1>1 DEF IsList, ToSet
<1>3. s \in Seq(ToSet(s))
  BY <1>1, <1>2, IsASeq
<1>4. Len(s) = n
  BY <1>1, <1>3, LenProperties
<1> QED BY <1>1, <1>3, <1>4

\* c is s followed by t, of k things
IsJoin(c, k, s, m, t, n) ==
    /\ IsList(c, k)
    /\ \A i \in 1..m : c[i] = s[i]
    /\ \A i \in 1..n : c[m + i] = t[i]
    /\ \A i \in 1..k : i > m => c[i] = t[i - m]
    /\ ToSet(c) = ToSet(s) \cup ToSet(t)

\* One list followed by another is their join.
LEMMA ListsJoin ==
    ASSUME NEW s, NEW t, NEW m, NEW n, NEW k, IsList(s, m), IsList(t, n), m + n = k
    PROVE  IsJoin(s \o t, k, s, m, t, n)
<1> DEFINE both == ToSet(s) \cup ToSet(t)
<1>1. s \in Seq(both) /\ t \in Seq(both) /\ Len(s) = m /\ Len(t) = n /\ m \in Nat /\ n \in Nat
  BY ListLen, SeqMonotonic DEF IsList
<1>2. /\ s \o t \in Seq(both) /\ Len(s \o t) = m + n
      /\ \A i \in 1..(m + n) : (s \o t)[i] = IF i <= m THEN s[i] ELSE t[i - m]
  BY <1>1, ConcatProperties
<1>3. DOMAIN (s \o t) = 1..(m + n) /\ DOMAIN s = 1..m /\ DOMAIN t = 1..n
  BY <1>1, <1>2, LenProperties
<1>4. s \o t = [i \in 1..(m + n) |-> (s \o t)[i]]
  BY <1>2, <1>3, ElementOfSeq, LenProperties DEF IsList
<1>5. \A i \in 1..m : i \in 1..(m + n)
  BY <1>1
<1>6. \A i \in 1..n : m + i \in 1..(m + n) /\ ~(m + i <= m) /\ (m + i) - m = i
  BY <1>1
<1>7. \A i \in 1..m : (s \o t)[i] = s[i]
  BY <1>2, <1>5, <1>1
<1>8. \A i \in 1..n : (s \o t)[m + i] = t[i]
  BY <1>2, <1>6
<1>9. \A i \in 1..(m + n) : i > m => i - m \in 1..n
  BY <1>1
<1>10. \A i \in 1..(m + n) : i <= m => i \in 1..m
  BY <1>1
<1>11. \A i \in 1..(m + n) : i > m => (s \o t)[i] = t[i - m]
  BY <1>1, <1>2
<1>12. ASSUME NEW x \in ToSet(s \o t) PROVE x \in ToSet(s) \cup ToSet(t)
  <2>1. PICK i \in 1..(m + n) : x = (s \o t)[i]
    BY <1>3, <1>12 DEF ToSet
  <2>2. CASE i <= m
    BY <2>1, <2>2, <1>3, <1>7, <1>10 DEF ToSet
  <2>3. CASE i > m
    BY <2>1, <2>3, <1>3, <1>9, <1>11 DEF ToSet
  <2> QED BY <2>1, <2>2, <2>3, <1>1
<1>13. ASSUME NEW x \in ToSet(s) PROVE x \in ToSet(s \o t)
  <2>1. PICK i \in 1..m : x = s[i]
    BY <1>3, <1>13 DEF ToSet
  <2> QED BY <2>1, <1>3, <1>5, <1>7 DEF ToSet
<1>14. ASSUME NEW x \in ToSet(t) PROVE x \in ToSet(s \o t)
  <2>1. PICK i \in 1..n : x = t[i]
    BY <1>3, <1>14 DEF ToSet
  <2> QED BY <2>1, <1>3, <1>6, <1>8 DEF ToSet
<1>15. ToSet(s \o t) = ToSet(s) \cup ToSet(t)
  BY <1>12, <1>13, <1>14
<1>16. IsList(s \o t, m + n)
  <2>1. m + n \in Nat
    BY <1>1
  <2> QED BY <2>1, <1>4 DEF IsList
<1> QED BY <1>7, <1>8, <1>11, <1>15, <1>16 DEF IsJoin

\* The first six kinds of rows, up to the servers; those up to the control server;
\* and all that are not optional, with the settings of the last server.
Upto6 == SchemaVersions \o AddressLists \o Networks \o Addresses \o BasicConfig \o Servers
Upto11 == Upto6 \o SocketAddresses \o Clients \o CacheConfig \o DnsServers \o ControlServer
Upto12 == Upto11 \o UiServer

\* The rows of the default configuration, kind by kind, and how many.
LEMMA RowLists ==
    /\ IsList(SchemaVersions, 1) /\ IsList(AddressLists, 3) /\ IsList(Networks, 3)
    /\ IsList(Addresses, 2) /\ IsList(BasicConfig, 10) /\ IsList(Servers, 6)
    /\ IsList(SocketAddresses, 12) /\ IsList(Clients, 5) /\ IsList(CacheConfig, 1)
    /\ IsList(DnsServers, 4) /\ IsList(ControlServer, 1) /\ IsList(UiServer, 1)
    /\ IsList(RootServers, 24) /\ IsList(Horizons, 1)
<1>1. IsList(SchemaVersions, 1)
  BY DEF IsList, SchemaVersions
<1>2. IsList(AddressLists, 3)
  BY DEF IsList, AddressLists
<1>3. IsList(Networks, 3)
  BY DEF IsList, Networks
<1>4. IsList(Addresses, 2)
  BY DEF IsList, Addresses
<1>5. IsList(BasicConfig, 10)
  BY DEF IsList, BasicConfig
<1>6. IsList(Servers, 6)
  BY DEF IsList, Servers
<1>7. IsList(SocketAddresses, 12)
  BY DEF IsList, SocketAddresses
<1>8. IsList(Clients, 5)
  BY DEF IsList, Clients
<1>9. IsList(CacheConfig, 1)
  BY DEF IsList, CacheConfig
<1>10. IsList(DnsServers, 4)
  BY DEF IsList, DnsServers
<1>11. IsList(ControlServer, 1)
  BY DEF IsList, ControlServer
<1>12. IsList(UiServer, 1)
  BY DEF IsList, UiServer
<1>13. IsList(RootServers, 24)
  BY DEF IsList, RootServers
<1>14. IsList(Horizons, 1)
  BY DEF IsList, Horizons
<1> QED BY <1>1, <1>2, <1>3, <1>4, <1>5, <1>6, <1>7, <1>8, <1>9, <1>10, <1>11, <1>12, <1>13, <1>14

\* Of which table the rows of a list are
AllOf(s, table) == \A r \in ToSet(s) : r.table = table

\* No list has rows of any table but its own.
LEMMA RowTables ==
    /\ AllOf(SchemaVersions, "schema_version") /\ AllOf(AddressLists, "address_list")
    /\ AllOf(Networks, "address_list_network") /\ AllOf(Addresses, "address_list_address")
    /\ AllOf(BasicConfig, "basic_config") /\ AllOf(Servers, "server")
    /\ AllOf(SocketAddresses, "server_socket_address") /\ AllOf(Clients, "dns_client")
    /\ AllOf(CacheConfig, "cache_config") /\ AllOf(DnsServers, "dns_server")
    /\ AllOf(ControlServer, "control_server") /\ AllOf(UiServer, "ui_server")
    /\ AllOf(RootServers, "root_server") /\ AllOf(Horizons, "horizon")
<1> USE DEF AllOf, ToSet, R
<1>1. AllOf(SchemaVersions, "schema_version") /\ AllOf(AddressLists, "address_list")
  BY DEF SchemaVersions, AddressLists
<1>2. AllOf(Networks, "address_list_network")
  BY DEF Networks
<1>3. AllOf(Addresses, "address_list_address")
  BY DEF Addresses
<1>4a. ASSUME NEW i \in 1..6 PROVE Servers[i].table = "server"
  BY DEF Servers
<1>4b. AllOf(Servers, "server")
  BY <1>4a DEF Servers
<1>4c. DOMAIN BasicConfig = 1..10
  BY DEF BasicConfig
<1>4d. ASSUME NEW i \in 1..10 PROVE BasicConfig[i].table = "basic_config"
  <2> DEFINE items == <<"all.support-edns", "all.edns-size", "all.use-ip4-root-hints",
                        "all.use-ip6-root-hints", "all.cache-garbage-collect-ms",
                        "all.cache-max-referral-rrs", "all.cache-max-answer-rrs",
                        "all.seteuid", "all.setgid", "all.chroot">>
             values == <<"true", "4096", "true", "false", "60000", "10000", "10000", "", "", "">>
  <2>1. BasicConfig = [j \in DOMAIN items |-> R("basic_config", j + 2, {}, <<items[j], values[j]>>)]
    BY Zenon DEF BasicConfig
  <2>2. DOMAIN items = 1..10
    OBVIOUS
  <2> HIDE DEF items, values
  <2> QED BY <2>1, <2>2
<1>4e. AllOf(BasicConfig, "basic_config")
  BY <1>4c, <1>4d
<1>4. AllOf(BasicConfig, "basic_config") /\ AllOf(Servers, "server")
  BY <1>4b, <1>4e
<1>5. AllOf(SocketAddresses, "server_socket_address") /\ AllOf(Clients, "dns_client")
  BY DEF SocketAddresses, Clients
<1>6. AllOf(CacheConfig, "cache_config") /\ AllOf(DnsServers, "dns_server")
  BY DEF CacheConfig, DnsServers
<1>7. AllOf(ControlServer, "control_server") /\ AllOf(UiServer, "ui_server")
  BY DEF ControlServer, UiServer
<1>8. AllOf(RootServers, "root_server")
  BY DEF RootServers
<1>9. AllOf(Horizons, "horizon")
  BY DEF Horizons
<1> QED BY <1>1, <1>2, <1>3, <1>4, <1>5, <1>6, <1>7, <1>8, <1>9

\* The rows are made in the order of the tables that reading the configuration
\* follows: of the first 25, which end with the last server, none is the settings
\* of the cache, and of the first 48 none is those of the last server, the 49th.
LEMMA FirstRows ==
    /\ IsList(Upto6, 25) /\ Upto6[25] = Servers[6]
    /\ \A r \in ToSet(Upto6) : r.table \notin {"cache_config", "ui_server"}
    /\ IsList(Upto11, 48) /\ IsList(Upto12, 49)
    /\ \A r \in ToSet(Upto11) : r.table # "ui_server"
    /\ \A i \in 1..25 : Upto11[i] = Upto6[i]
    /\ \A i \in 1..48 : Upto12[i] = Upto11[i]
<1> DEFINE u2 == SchemaVersions \o AddressLists
           u3 == u2 \o Networks
           u4 == u3 \o Addresses
           u5 == u4 \o BasicConfig
           u6 == u5 \o Servers
           u7 == u6 \o SocketAddresses
           u8 == u7 \o Clients
           u9 == u8 \o CacheConfig
           u10 == u9 \o DnsServers
           u11 == u10 \o ControlServer
           u12 == u11 \o UiServer
<1>0. Upto6 = u6 /\ Upto11 = u11 /\ Upto12 = u12
  BY DEF Upto6, Upto11, Upto12
<1> HIDE DEF u2, u3, u4, u5, u6, u7, u8, u9, u10, u11, u12
<1>1. /\ 1 + 3 = 4 /\ 4 + 3 = 7 /\ 7 + 2 = 9 /\ 9 + 10 = 19 /\ 19 + 6 = 25 /\ 25 + 12 = 37
      /\ 37 + 5 = 42 /\ 42 + 1 = 43 /\ 43 + 4 = 47 /\ 47 + 1 = 48 /\ 48 + 1 = 49
  OBVIOUS
<1>2. IsJoin(u2, 4, SchemaVersions, 1, AddressLists, 3)
  BY <1>1, RowLists, ListsJoin, Zenon DEF u2
<1>3. IsJoin(u3, 7, u2, 4, Networks, 3)
  <2>1. IsList(u2, 4)
    BY <1>2 DEF IsJoin
  <2> QED BY <2>1, <1>1, RowLists, ListsJoin, Zenon DEF u3
<1>4. IsJoin(u4, 9, u3, 7, Addresses, 2)
  <2>1. IsList(u3, 7)
    BY <1>3 DEF IsJoin
  <2> QED BY <2>1, <1>1, RowLists, ListsJoin, Zenon DEF u4
<1>5. IsJoin(u5, 19, u4, 9, BasicConfig, 10)
  <2>1. IsList(u4, 9)
    BY <1>4 DEF IsJoin
  <2> QED BY <2>1, <1>1, RowLists, ListsJoin, Zenon DEF u5
<1>6. IsJoin(u6, 25, u5, 19, Servers, 6)
  <2>1. IsList(u5, 19)
    BY <1>5 DEF IsJoin
  <2> QED BY <2>1, <1>1, RowLists, ListsJoin, Zenon DEF u6
<1>7. IsJoin(u7, 37, u6, 25, SocketAddresses, 12)
  <2>1. IsList(u6, 25)
    BY <1>6 DEF IsJoin
  <2> QED BY <2>1, <1>1, RowLists, ListsJoin, Zenon DEF u7
<1>8. IsJoin(u8, 42, u7, 37, Clients, 5)
  <2>1. IsList(u7, 37)
    BY <1>7 DEF IsJoin
  <2> QED BY <2>1, <1>1, RowLists, ListsJoin, Zenon DEF u8
<1>9. IsJoin(u9, 43, u8, 42, CacheConfig, 1)
  <2>1. IsList(u8, 42)
    BY <1>8 DEF IsJoin
  <2> QED BY <2>1, <1>1, RowLists, ListsJoin, Zenon DEF u9
<1>10. IsJoin(u10, 47, u9, 43, DnsServers, 4)
  <2>1. IsList(u9, 43)
    BY <1>9 DEF IsJoin
  <2> QED BY <2>1, <1>1, RowLists, ListsJoin, Zenon DEF u10
<1>11. IsJoin(u11, 48, u10, 47, ControlServer, 1)
  <2>1. IsList(u10, 47)
    BY <1>10 DEF IsJoin
  <2> QED BY <2>1, <1>1, RowLists, ListsJoin, Zenon DEF u11
<1>12. IsJoin(u12, 49, u11, 48, UiServer, 1)
  <2>1. IsList(u11, 48)
    BY <1>11 DEF IsJoin
  <2> QED BY <2>1, <1>1, RowLists, ListsJoin, Zenon DEF u12
<1>20. ToSet(u6) = ToSet(SchemaVersions) \cup ToSet(AddressLists) \cup ToSet(Networks)
                 \cup ToSet(Addresses) \cup ToSet(BasicConfig) \cup ToSet(Servers)
  BY <1>2, <1>3, <1>4, <1>5, <1>6 DEF IsJoin
<1>21. ToSet(u11) = ToSet(u6) \cup ToSet(SocketAddresses) \cup ToSet(Clients)
                 \cup ToSet(CacheConfig) \cup ToSet(DnsServers) \cup ToSet(ControlServer)
  BY <1>7, <1>8, <1>9, <1>10, <1>11 DEF IsJoin
<1>22. \A r \in ToSet(u6) : r.table \notin {"cache_config", "ui_server"}
  BY <1>20, RowTables DEF AllOf
<1>23. \A r \in ToSet(u11) : r.table # "ui_server"
  BY <1>21, <1>22, RowTables DEF AllOf
<1>24. u6[25] = Servers[6]
  <2>1. \A i \in 1..6 : u6[19 + i] = Servers[i]
    BY <1>6 DEF IsJoin
  <2> QED BY <2>1
<1>25. \A i \in 1..25 : u11[i] = u6[i]
  <2> TAKE i \in 1..25
  <2>1. i \in 1..37 /\ i \in 1..42 /\ i \in 1..43 /\ i \in 1..47
    OBVIOUS
  <2> QED BY <2>1, <1>7, <1>8, <1>9, <1>10, <1>11 DEF IsJoin
<1>26. \A i \in 1..48 : u12[i] = u11[i]
  BY <1>12 DEF IsJoin
<1>27. IsList(u6, 25) /\ IsList(u11, 48) /\ IsList(u12, 49)
  BY <1>6, <1>11, <1>12 DEF IsJoin
<1> QED BY <1>0, <1>22, <1>23, <1>24, <1>25, <1>26, <1>27

\* So the settings of the cache come after all the servers, and those of the last
\* server after all other rows that are not optional (table::create_static).
LEMMA OrderOfRows ==
    /\ IsList(StaticRows, 74)
    /\ StaticRows[25] = Servers[6]
    /\ \A i \in 1..74 : StaticRows[i].table = "cache_config" => i > 25
    /\ \A i \in 1..74 : StaticRows[i].table = "ui_server" => i > 48
    /\ \A i \in 1..74 : i > 49 => Optional(StaticRows[i])
<1> DEFINE p == Upto12 \o RootServers
           q == p \o Horizons
<1>1. StaticRows = q
  BY DEF StaticRows, Upto12, Upto11, Upto6
<1> HIDE DEF p, q
<1>2. IsJoin(p, 73, Upto12, 49, RootServers, 24)
  <2>1. 49 + 24 = 73
    OBVIOUS
  <2>2. IsList(Upto12, 49)
    BY FirstRows
  <2>3. IsList(RootServers, 24)
    BY RowLists
  <2> QED BY <2>1, <2>2, <2>3, ListsJoin DEF p
<1>3. IsJoin(q, 74, p, 73, Horizons, 1)
  <2>1. 73 + 1 = 74
    OBVIOUS
  <2>2. IsList(p, 73)
    BY <1>2 DEF IsJoin
  <2>3. IsList(Horizons, 1)
    BY RowLists
  <2> QED BY <2>1, <2>2, <2>3, ListsJoin DEF q
<1>4. \A i \in 1..49 : q[i] = Upto12[i]
  <2> TAKE i \in 1..49
  <2>1. i \in 1..73
    OBVIOUS
  <2> QED BY <2>1, <1>2, <1>3 DEF IsJoin
<1>5. \A i \in 1..48 : q[i] = Upto11[i]
  <2> TAKE i \in 1..48
  <2>1. i \in 1..49
    OBVIOUS
  <2> QED BY <2>1, <1>4, FirstRows
<1>6. \A i \in 1..25 : q[i] = Upto6[i]
  <2> TAKE i \in 1..25
  <2>1. i \in 1..48
    OBVIOUS
  <2> QED BY <2>1, <1>5, FirstRows
<1>7. ASSUME NEW i \in 1..25 PROVE q[i] \in ToSet(Upto6)
  BY <1>6, FirstRows DEF IsList, ToSet
<1>8. ASSUME NEW i \in 1..48 PROVE q[i] \in ToSet(Upto11)
  BY <1>5, FirstRows DEF IsList, ToSet
<1>9. ASSUME NEW i \in 1..74, q[i].table = "cache_config" PROVE i > 25
  <2> SUFFICES ASSUME ~(i > 25) PROVE FALSE
    OBVIOUS
  <2>1. i \in 1..25
    OBVIOUS
  <2> QED BY <2>1, <1>7, <1>9, FirstRows
<1>10. ASSUME NEW i \in 1..74, q[i].table = "ui_server" PROVE i > 48
  <2> SUFFICES ASSUME ~(i > 48) PROVE FALSE
    OBVIOUS
  <2>1. i \in 1..48
    OBVIOUS
  <2> QED BY <2>1, <1>8, <1>10, FirstRows
<1>11. ASSUME NEW i \in 1..74, i > 49 PROVE Optional(q[i])
  <2>1. CASE i <= 73
    <3>1. q[i] = RootServers[i - 49] /\ i - 49 \in 1..24
      BY <2>1, <1>11, <1>2, <1>3 DEF IsJoin
    <3>2. q[i] \in ToSet(RootServers)
      BY <3>1, RowLists DEF IsList, ToSet
    <3> QED BY <3>2, RowTables DEF AllOf, Optional
  <2>2. CASE i > 73
    <3>1. q[i] = Horizons[i - 73] /\ i - 73 \in 1..1
      BY <2>2, <1>11, <1>3 DEF IsJoin
    <3>2. q[i] \in ToSet(Horizons)
      BY <3>1, RowLists DEF IsList, ToSet
    <3> QED BY <3>2, RowTables DEF AllOf, Optional
  <2> QED BY <2>1, <2>2
<1>12. q[25] = Servers[6]
  BY <1>6, FirstRows
<1>13. IsList(q, 74)
  BY <1>3 DEF IsJoin
<1> QED BY <1>1, <1>9, <1>10, <1>11, <1>12, <1>13

\* All tables, and the statements that make the things of a list.
AllTables == ConfigTables \o RecordTables
Making(k, s) == [i \in DOMAIN s |-> <<k, s[i]>>]

\* The tables, and those that have indexes.
LEMMA TableLists ==
    /\ IsList(ConfigTables, 15) /\ IsList(RecordTables, 30) /\ IsList(ReferringTables, 9)
    /\ IsList(AllTables, 45)
<1>1. IsList(ConfigTables, 15)
  BY DEF IsList, ConfigTables
<1>2. IsList(RecordTables, 30)
  BY DEF IsList, RecordTables
<1>3. IsList(ReferringTables, 9)
  BY DEF IsList, ReferringTables
<1>4. 15 + 30 = 45
  OBVIOUS
<1>5. IsList(AllTables, 45)
  BY <1>1, <1>2, <1>4, ListsJoin DEF AllTables, IsJoin
<1> QED BY <1>1, <1>2, <1>3, <1>5

\* The indexes are a list, for every database.
LEMMA IndexLists == ASSUME NEW b PROVE \E n : IsList(Indexes(b), n)
<1>1. PICK n : IsList(IndexedTables(b), n)
  <2>1. CASE b = "mongodb"
    <3>1. 15 + 30 = 45
      OBVIOUS
    <3>2. IsList(ConfigTables \o RecordTables, 45)
      BY <3>1, TableLists, ListsJoin DEF IsJoin
    <3> QED BY <2>1, <3>2 DEF IndexedTables
  <2>2. CASE b # "mongodb"
    <3>1. 9 + 30 = 39
      OBVIOUS
    <3>2. IsList(ReferringTables \o RecordTables, 39)
      BY <3>1, TableLists, ListsJoin DEF IsJoin
    <3> QED BY <2>2, <3>2 DEF IndexedTables
  <2> QED BY <2>1, <2>2
<1>2. DOMAIN IndexedTables(b) = 1..n /\ n \in Nat
  BY <1>1 DEF IsList
<1>3. DOMAIN Indexes(b) = 1..n
  BY <1>2 DEF Indexes
<1>4. Indexes(b) = [i \in DOMAIN IndexedTables(b) |-> Indexes(b)[i]]
  BY Zenon DEF Indexes
<1> QED BY <1>2, <1>4 DEF IsList

\* As many statements as there are things to make, in their order.
LEMMA MadeOf ==
    ASSUME NEW k, NEW s, NEW n, IsList(s, n)
    PROVE  IsList(Making(k, s), n) /\ \A i \in 1..n : Making(k, s)[i] = <<k, s[i]>>
<1>1. DOMAIN s = 1..n /\ n \in Nat
  BY DEF IsList
<1> QED BY <1>1 DEF Making, IsList

\* The creation of the database: 45 tables, then 74 rows, then indexes only
\* (schema_manager::create).
LEMMA StatementsAre ==
    ASSUME NEW b
    PROVE  /\ \A i \in 1..45 : Statements(b)[i] = <<"table", AllTables[i]>>
           /\ \A i \in 1..74 : Statements(b)[45 + i] = <<"row", StaticRows[i]>>
           /\ \E n : /\ IsList(Statements(b), n) /\ n >= 119
                     /\ \A i \in 1..n : i > 119 => Statements(b)[i][1] = "index"
<1> DEFINE t == Making("table", AllTables)
           r == Making("row", StaticRows)
           x == Making("index", Indexes(b))
           u == t \o r
           v == u \o x
<1>1. Statements(b) = v
  BY DEF Statements, Making, AllTables
<1>2. PICK n : IsList(Indexes(b), n)
  BY IndexLists
<1>3. n \in Nat
  BY <1>2 DEF IsList
<1>4. IsList(t, 45) /\ \A i \in 1..45 : t[i] = <<"table", AllTables[i]>>
  BY TableLists, MadeOf
<1>5. IsList(r, 74) /\ \A i \in 1..74 : r[i] = <<"row", StaticRows[i]>>
  <2>1. IsList(StaticRows, 74)
    BY OrderOfRows
  <2> QED BY <2>1, MadeOf
<1>6. IsList(x, n) /\ \A i \in 1..n : x[i] = <<"index", Indexes(b)[i]>>
  BY <1>2, MadeOf
<1>14. IsList(t, 45) /\ IsList(r, 74) /\ IsList(x, n)
  BY <1>4, <1>5, <1>6
<1> HIDE DEF t, r, x
<1>7. IsJoin(u, 119, t, 45, r, 74)
  <2>1. 45 + 74 = 119
    OBVIOUS
  <2>2. PICK j, k, l : j = 45 /\ k = 74 /\ l = 119
    OBVIOUS
  <2>3. IsList(t, j) /\ IsList(r, k)
    BY <1>14, <2>2
  <2>4. j + k = l
    BY <2>1, <2>2
  <2>5. IsJoin(u, l, t, j, r, k)
    BY <2>3, <2>4, ListsJoin, Zenon DEF u
  <2> QED BY <2>2, <2>5
<1>8. IsList(u, 119)
  BY <1>7 DEF IsJoin
<1> HIDE DEF u
<1>9. IsJoin(v, 119 + n, u, 119, x, n)
  BY <1>14, <1>8, ListsJoin, Zenon DEF v
<1> HIDE DEF v
<1>10. \A i \in 1..45 : v[i] = <<"table", AllTables[i]>>
  <2> TAKE i \in 1..45
  <2>1. i \in 1..119
    OBVIOUS
  <2>2. v[i] = u[i]
    BY <2>1, <1>9 DEF IsJoin
  <2>3. u[i] = t[i]
    BY <1>7 DEF IsJoin
  <2> QED BY <2>2, <2>3, <1>4
<1>11. \A i \in 1..74 : v[45 + i] = <<"row", StaticRows[i]>>
  <2> TAKE i \in 1..74
  <2>1. 45 + i \in 1..119
    OBVIOUS
  <2>2. v[45 + i] = u[45 + i]
    BY <2>1, <1>9 DEF IsJoin
  <2>3. u[45 + i] = r[i]
    BY <1>7 DEF IsJoin
  <2> QED BY <2>2, <2>3, <1>5
<1>12. \A i \in 1..(119 + n) : i > 119 => v[i][1] = "index"
  <2> SUFFICES ASSUME NEW i \in 1..(119 + n), i > 119 PROVE v[i][1] = "index"
    OBVIOUS
  <2>1. i - 119 \in 1..n
    BY <1>3
  <2>2. v[i] = x[i - 119]
    BY <1>9 DEF IsJoin
  <2>3. x[i - 119] = <<"index", Indexes(b)[i - 119]>>
    BY <2>1, <1>6
  <2> QED BY <2>2, <2>3
<1>13. IsList(v, 119 + n) /\ 119 + n >= 119
  BY <1>3, <1>9 DEF IsJoin
<1> QED BY <1>1, <1>10, <1>11, <1>12, <1>13

\* What the program does not forget: that it serves only what could be read, of a
\* creation that has not changed since.
StartupInv ==
    /\ store \in StartBackends
    /\ done \in 0..Len(Statements(store))
    /\ phase = "serving" => CanRead(Made("row"))

\* A configuration that can be read was made to its end.  It has the settings of the
\* cache, so all six servers were made before; the last of these can be read, so its
\* settings were made, and before them everything that is not optional.
LEMMA ReadableIsWhole ==
    ASSUME store \in StartBackends, done \in 0..Len(Statements(store)), CanRead(Made("row"))
    PROVE  /\ {row \in ToSet(StaticRows) : ~Optional(row)} \subseteq Made("row")
           /\ ToSet(ConfigTables \o RecordTables) \subseteq Made("table")
<1> DEFINE statements == Statements(store)
           rows == Made("row")
<1>1. Creation[store] = statements
  BY DEF Creation
<1>2. /\ \A i \in 1..45 : statements[i] = <<"table", AllTables[i]>>
      /\ \A i \in 1..74 : statements[45 + i] = <<"row", StaticRows[i]>>
  BY StatementsAre
<1>3. PICK n : IsList(statements, n) /\ n >= 119 /\ \A i \in 1..n : i > 119 => statements[i][1] = "index"
  BY StatementsAre
<1>4. n \in Nat /\ done \in 0..n
  BY <1>3, ListLen DEF IsList
<1>5. /\ rows = {statements[i][2] : i \in {j \in 1..done : statements[j][1] = "row"}}
      /\ Made("table") = {statements[i][2] : i \in {j \in 1..done : statements[j][1] = "table"}}
  BY <1>1 DEF Made
<1> HIDE DEF statements, rows
<1>6. ASSUME NEW r \in rows PROVE \E i \in 1..74 : r = StaticRows[i] /\ 45 + i <= done
  <2>1. PICK j \in 1..done : statements[j][1] = "row" /\ r = statements[j][2]
    BY <1>5, <1>6
  <2>2. j \in 1..n
    BY <1>4
  <2>3. ~(j <= 45)
    <3> SUFFICES ASSUME j <= 45 PROVE FALSE
      OBVIOUS
    <3>1. j \in 1..45
      BY <2>2
    <3>2. statements[j] = <<"table", AllTables[j]>>
      BY <3>1, <1>2
    <3>3. statements[j][1] = "table"
      BY <3>2
    <3> QED BY <3>3, <2>1
  <2>4. ~(j > 119)
    BY <2>1, <2>2, <1>3
  <2>5. j - 45 \in 1..74 /\ 45 + (j - 45) = j /\ j <= done
    BY <2>2, <2>3, <2>4, <1>4
  <2>6. statements[j] = <<"row", StaticRows[j - 45]>>
    BY <2>5, <1>2
  <2>7. r = StaticRows[j - 45]
    BY <2>1, <2>6
  <2> QED BY <2>5, <2>7
<1>7. ASSUME NEW i \in 1..74, 45 + i <= done PROVE StaticRows[i] \in rows
  <2>1. 45 + i \in 1..done
    BY <1>4, <1>7
  <2>2. statements[45 + i] = <<"row", StaticRows[i]>>
    BY <1>2
  <2> QED BY <2>1, <2>2, <1>5
<1>8. PICK r \in rows : r.table = "cache_config"
  <2> SUFFICES ASSUME \A r \in rows : r.table # "cache_config" PROVE FALSE
    OBVIOUS
  <2>1. Of(rows, "cache_config") = {}
    BY DEF Of
  <2>2. Cardinality(Of(rows, "cache_config")) = 1
    BY DEF CanRead, rows
  <2>3. Cardinality({}) = 0
    BY FS_EmptySet
  <2>4. Cardinality(Of(rows, "cache_config")) = 0
    BY <2>1, <2>3
  <2> QED BY <2>2, <2>4
<1>9. Servers[6] \in rows
  <2>1. PICK i \in 1..74 : r = StaticRows[i] /\ 45 + i <= done
    BY <1>6
  <2>2. i > 25
    BY <1>8, <2>1, OrderOfRows
  <2>3. 25 \in 1..74 /\ 45 + 25 <= done
    BY <2>1, <2>2, <1>4
  <2> QED BY <2>3, <1>7, OrderOfRows
<1>10. PICK settings \in rows : settings.table = "ui_server"
  <2>1. Servers[6].table = "server" /\ Servers[6].val[1] = "ui.tcp"
    BY DEF Servers, Protocols, R
  <2>2. Servers[6] \in Of(rows, "server")
    BY <1>9, <2>1 DEF Of
  <2>3. CanReadServer(rows, Servers[6])
    BY <2>2 DEF CanRead, rows
  <2>4. SettingsTable("ui.tcp") = "ui_server"
    BY DEF SettingsTable, DnsProtocols
  <2> QED BY <2>1, <2>3, <2>4 DEF CanReadServer, Of
<1>11. done >= 94
  <2>1. PICK i \in 1..74 : settings = StaticRows[i] /\ 45 + i <= done
    BY <1>6
  <2>2. i > 48
    BY <1>10, <2>1, OrderOfRows
  <2> QED BY <2>1, <2>2, <1>4
<1>12. ASSUME NEW row \in ToSet(StaticRows), ~Optional(row) PROVE row \in rows
  <2>1. DOMAIN StaticRows = 1..74
    BY OrderOfRows, ListLen
  <2>2. PICK i \in 1..74 : row = StaticRows[i]
    BY <2>1, <1>12 DEF ToSet
  <2>3. ~(i > 49)
    BY <2>2, <1>12, OrderOfRows
  <2>4. 45 + i <= done
    BY <2>3, <1>4, <1>11
  <2> QED BY <2>2, <2>4, <1>7
<1>13. ASSUME NEW table \in ToSet(AllTables) PROVE table \in Made("table")
  <2>1. DOMAIN AllTables = 1..45
    BY TableLists, ListLen
  <2>2. PICK i \in 1..45 : table = AllTables[i]
    BY <2>1, <1>13 DEF ToSet
  <2>3. i \in 1..done
    BY <1>4, <1>11
  <2>4. statements[i] = <<"table", AllTables[i]>>
    BY <1>2
  <2>5. statements[i][1] = "table" /\ statements[i][2] = table
    BY <2>2, <2>4
  <2> QED BY <2>3, <2>5, <1>5
<1> QED BY <1>12, <1>13 DEF AllTables, rows

\* After any number of crashes anywhere in the creation of the database, on every
\* database, a program that serves has all tables, and all rows but those of the root
\* servers and the horizon: a start that finds less refuses (src/db/table.cpp:902,
\* src/acore/config_reader.cpp).
THEOREM StartIsWhole == StartupSpec => []ServesWhole
<1>1. StartupInit => StartupInv
  <2> SUFFICES ASSUME StartupInit PROVE StartupInv
    OBVIOUS
  <2>1. PICK n : IsList(Statements(store), n)
    BY StatementsAre
  <2>2. Len(Statements(store)) = n /\ n \in Nat
    BY <2>1, ListLen DEF IsList
  <2> QED BY <2>2 DEF StartupInit, StartupInv
<1>2. StartupInv /\ [StartupNext]_startup => StartupInv'
  <2> SUFFICES ASSUME StartupInv, [StartupNext]_startup PROVE StartupInv'
    OBVIOUS
  <2> USE DEF StartupInv
  <2>0. PICK n \in Nat : Len(Statements(store)) = n
    <3>1. PICK n : IsList(Statements(store), n)
      BY StatementsAre
    <3> QED BY <3>1, ListLen DEF IsList
  <2>1. CASE StartProgram
    BY <2>1 DEF StartProgram
  <2>2. CASE CheckSchema
    <3>1. phase' # "serving"
      BY <2>2 DEF CheckSchema
    <3> QED BY <2>2, <3>1 DEF CheckSchema
  <2>3. CASE Create
    <3>1. phase' # "serving" /\ store' = store
      BY <2>3 DEF Create
    <3>2. Creation[store] = Statements(store)
      BY DEF Creation
    <3>3. done' \in 0..Len(Statements(store))
      BY <2>0, <2>3, <3>2 DEF Create
    <3> QED BY <3>1, <3>3
  <2>4. CASE Read
    <3>1. UNCHANGED <<store, done>> /\ Made("row")' = Made("row")
      BY <2>4 DEF Read, Made, Creation
    <3>2. phase' = "serving" => CanRead(Made("row"))
      BY <2>4 DEF Read
    <3>3. CanRead(Made("row")) => CanRead(Made("row"))'
      BY <3>1 DEF CanRead
    <3> QED BY <3>1, <3>2, <3>3
  <2>5. CASE CrashAnywhere
    BY <2>5 DEF CrashAnywhere
  <2>6. CASE UNCHANGED startup
    <3>1. UNCHANGED <<store, done, phase>> /\ Made("row")' = Made("row")
      BY <2>6 DEF startup, Made, Creation
    <3> QED BY <3>1 DEF CanRead
  <2> QED BY <2>1, <2>2, <2>3, <2>4, <2>5, <2>6 DEF StartupNext
<1>3. StartupInv => ServesWhole
  BY ReadableIsWhole DEF StartupInv, ServesWhole
<1> QED BY <1>1, <1>2, <1>3, PTL DEF StartupSpec

(***************************************************************************)
(* ParallelClient                                                          *)
(***************************************************************************)

\* The least of a set of numbers.
LEMMA Least ==
    ASSUME NEW T, T \subseteq Nat, T # {}
    PROVE  \E m \in T : \A i \in T : m =< i
<1>1. PICK m \in T : \A i \in T : <<i, m>> \notin OpToRel(<, Nat)
  BY WFMin, NatLessThanWellFounded
<1>2. \A i \in T : ~(i < m)
  BY <1>1 DEF OpToRel
<1> QED BY <1>2

Pending == stage \in {"send", "receive", "tcp"}
\* What a second attempt, without EDNS, may take: the requests, the wait, its end.
SecondAttempt == IF round = 1 THEN UdpTicks + 3 ELSE 0
\* The most steps a query may still take: to send, to let time pass, to give up, and
\* to try server after server over TCP.
WorkLeft ==
    IF stage = "send" THEN SecondAttempt + UdpTicks + 3 + Cardinality(allIps)
    ELSE IF stage = "receive" THEN SecondAttempt + (UdpTicks - elapsed) + 2 + Cardinality(allIps)
    ELSE IF stage = "tcp" THEN Cardinality(remaining) + 1
    ELSE 0
MostWork == 2 * (UdpTicks + 3) + Cardinality(Ips)
\* Nothing that happens to a pending query puts its end off, and its thread and the
\* clock bring it nearer.
GetsOn ==
    /\ WorkLeft' \in 0..MostWork
    /\ Pending => /\ WorkLeft' <= WorkLeft
                  /\ stage' # stage => WorkLeft' < WorkLeft
                  /\ Working \/ Tick => WorkLeft' < WorkLeft
NearerTheEnd == [][GetsOn]_client

\* What the servers left to try are, among the types of the rest.
ClientInv ==
    /\ stage \in {"idle", "send", "receive", "tcp", "done"}
    /\ round \in 1..2 /\ elapsed \in 0..UdpTicks
    /\ allIps \subseteq Ips /\ remaining \subseteq Ips
    /\ stage = "tcp" => remaining \subseteq allIps

\* It is inductive.
LEMMA ClientStep == ClientInv /\ [ClientNext]_client => ClientInv'
<1> SUFFICES ASSUME ClientInv, [ClientNext]_client PROVE ClientInv'
  OBVIOUS
<1> USE ClientAssumption DEF ClientInv
<1>1. CASE SendUdp
  <2>1. /\ stage' = "receive" /\ elapsed' = 0
        /\ UNCHANGED <<round, allIps, remaining>>
    BY <1>1, Zenon DEF SendUdp
  <2> QED
    BY <2>1
<1>2. CASE SendNothing
  BY <1>2 DEF SendNothing, NoAnswerByUdp
<1>3. CASE GiveUpUdp
  <2>1. UNCHANGED <<elapsed, allIps>>
    BY <1>3, Zenon DEF GiveUpUdp
  <2>2. CASE formatError /\ round = 1
    <3>1. stage' = "send" /\ round' = 2 /\ remaining' = remaining
      BY <1>3, <2>2, Zenon DEF GiveUpUdp
    <3> QED
      BY <2>1, <3>1
  <2>3. CASE ~(formatError /\ round = 1)
    <3>1. NoAnswerByUdp /\ round' = round
      BY <1>3, <2>3, Zenon DEF GiveUpUdp
    <3>2. \/ stage' = "tcp" /\ remaining' = allIps'
          \/ stage' = "done" /\ remaining' = {}
      BY <3>1, Zenon DEF NoAnswerByUdp
    <3> QED
      BY <2>1, <3>1, <3>2
  <2> QED
    BY <2>2, <2>3
<1>4. CASE TryTcp
  BY <1>4 DEF TryTcp
<1>5. CASE ReceiveUdp
  BY <1>5 DEF ReceiveUdp, Extract
<1>6. CASE Tick
  BY <1>6 DEF Tick
<1>7. CASE Stop
  BY <1>7 DEF Stop
<1>8. CASE \E all \in SUBSET Ips : all # {} /\ Ask(all)
  <2>1. PICK all \in SUBSET Ips : Ask(all)
    BY <1>8
  <2>2. allIps' = all /\ round' = 1 /\ elapsed' = elapsed
    BY <2>1, Zenon DEF Ask
  <2>3. \/ stage' = "send" /\ remaining' = remaining
        \/ stage' = "tcp" /\ remaining' = allIps'
        \/ stage' = "done" /\ remaining' = {}
    <3>1. CASE useUdp
      BY <2>1, <3>1, Zenon DEF Ask
    <3>2. CASE ~useUdp
      <4>1. NoAnswerByUdp
        BY <2>1, <3>2, Zenon DEF Ask
      <4> QED
        BY <4>1, Zenon DEF NoAnswerByUdp
    <3> QED
      BY <3>1, <3>2
  <2>4. allIps' \subseteq Ips
    BY <2>1, <2>2
  <2>5. round' \in 1..2 /\ elapsed' \in 0..UdpTicks
    BY <2>2
  <2>6. CASE stage' = "send" /\ remaining' = remaining
    BY <2>4, <2>5, <2>6
  <2>7. CASE stage' = "tcp" /\ remaining' = allIps'
    BY <2>4, <2>5, <2>7
  <2>8. CASE stage' = "done" /\ remaining' = {}
    BY <2>4, <2>5, <2>8
  <2> QED
    BY <2>3, <2>6, <2>7, <2>8
<1>9. CASE \E k \in {"answer", "bad", "other"} : Arrive(k)
  BY <1>9 DEF Arrive
<1>10. CASE UNCHANGED client
  BY <1>10 DEF client
<1> QED
  BY <1>1, <1>2, <1>3, <1>4, <1>5, <1>6, <1>7, <1>8, <1>9, <1>10 DEF ClientNext, Working

\* There are finitely many servers.
LEMMA ServerCounts ==
    ASSUME ClientInv
    PROVE  /\ Cardinality(allIps) \in Nat /\ Cardinality(allIps) <= Cardinality(Ips)
           /\ IsFiniteSet(remaining) /\ Cardinality(remaining) \in Nat
           /\ Cardinality(remaining) <= Cardinality(Ips)
           /\ stage = "tcp" => Cardinality(remaining) <= Cardinality(allIps)
           /\ Cardinality(Ips) \in Nat
<1>1. IsFiniteSet(Ips) /\ allIps \subseteq Ips /\ remaining \subseteq Ips
  BY ClientAssumption DEF ClientInv
<1>2. IsFiniteSet(allIps) /\ IsFiniteSet(remaining)
  BY <1>1, FS_Subset
<1>3. /\ Cardinality(allIps) \in Nat /\ Cardinality(remaining) \in Nat
      /\ Cardinality(Ips) \in Nat
  BY <1>1, <1>2, FS_CardinalityType
<1>4. Cardinality(allIps) <= Cardinality(Ips) /\ Cardinality(remaining) <= Cardinality(Ips)
  BY <1>1, FS_Subset
<1>5. stage = "tcp" => Cardinality(remaining) <= Cardinality(allIps)
  BY <1>2, FS_Subset DEF ClientInv
<1> QED
  BY <1>2, <1>3, <1>4, <1>5

\* So much work and no more, in any state and in the one after.
LEMMA WorkLeftBound == ClientInv => WorkLeft \in 0..MostWork
<1> SUFFICES ASSUME ClientInv PROVE WorkLeft \in 0..MostWork
  OBVIOUS
<1>1. PICK n, a, r \in Nat : n = Cardinality(Ips) /\ a = Cardinality(allIps) /\ r = Cardinality(remaining)
  BY ServerCounts
<1>2. a <= n /\ r <= n
  BY <1>1, ServerCounts
<1>3. UdpTicks \in Nat /\ elapsed \in 0..UdpTicks
  BY ClientAssumption DEF ClientInv
<1> QED
  BY <1>1, <1>2, <1>3 DEF WorkLeft, MostWork, SecondAttempt

LEMMA WorkLeftIsNat ==
    /\ ClientInv => WorkLeft \in Nat /\ WorkLeft \in 0..MostWork
    /\ ClientInv' => (WorkLeft \in Nat /\ WorkLeft \in 0..MostWork)'
<1>1. ClientInv => WorkLeft \in Nat /\ WorkLeft \in 0..MostWork
  BY WorkLeftBound
<1> QED
  BY <1>1, PTL

\* Every step of the thread, and every tick, is one step less.
LEMMA WorkLowers ==
    ASSUME ClientInv, ClientInv', Working \/ Tick
    PROVE  WorkLeft' < WorkLeft
<1>1. PICK n, r \in Nat : n = Cardinality(allIps) /\ r = Cardinality(remaining)
  BY ServerCounts
<1>2. UdpTicks \in Nat /\ elapsed \in 0..UdpTicks /\ round \in 1..2
  BY ClientAssumption DEF ClientInv
<1>3. WorkLeft \in Nat /\ WorkLeft' \in Nat
  BY WorkLeftIsNat
<1>4. CASE SendUdp
  <2>1. stage = "send" /\ stage' = "receive" /\ elapsed' = 0 /\ allIps' = allIps /\ round' = round
    BY <1>4 DEF SendUdp
  <2>2. WorkLeft = SecondAttempt + UdpTicks + 3 + n /\ WorkLeft' = SecondAttempt + UdpTicks + 2 + n
    BY <2>1, <1>1, <1>2 DEF WorkLeft, SecondAttempt
  <2> QED
    BY <2>2, <1>1, <1>2 DEF SecondAttempt
<1>5. CASE SendNothing
  <2>1. stage = "send" /\ allIps' = allIps
    BY <1>5 DEF SendNothing
  <2>2. WorkLeft >= n + 3
    BY <2>1, <1>1, <1>2 DEF WorkLeft, SecondAttempt
  <2>3. WorkLeft' <= n + 1
    <3>1. CASE stage' = "tcp"
      <4>1. remaining' = allIps
        BY <3>1, <2>1, <1>5 DEF SendNothing, NoAnswerByUdp
      <4> QED
        BY <3>1, <4>1, <1>1 DEF WorkLeft
    <3>2. CASE stage' = "done"
      BY <3>2, <1>1 DEF WorkLeft
    <3> QED
      BY <3>1, <3>2, <1>5 DEF SendNothing, NoAnswerByUdp
  <2> QED
    BY <2>2, <2>3, <1>1, <1>3
<1>6. CASE GiveUpUdp
  <2>1. stage = "receive" /\ allIps' = allIps
    BY <1>6 DEF GiveUpUdp
  <2>2. WorkLeft >= SecondAttempt + n + 2
    BY <2>1, <1>1, <1>2 DEF WorkLeft, SecondAttempt
  <2>3. CASE round = 1 /\ stage' = "send"
    <3>1. round' = 2
      BY <1>6, <2>3 DEF GiveUpUdp, NoAnswerByUdp
    <3>2. SecondAttempt = UdpTicks + 3 /\ WorkLeft' = UdpTicks + 3 + n
      BY <2>1, <2>3, <3>1, <1>1, <1>2 DEF WorkLeft, SecondAttempt
    <3> QED
      BY <3>2, <2>2, <1>1, <1>2, <1>3
  <2>4. CASE stage' # "send"
    <3>1. WorkLeft' <= n + 1
      <4>1. CASE stage' = "tcp"
        <5>1. remaining' = allIps
          BY <4>1, <2>1, <1>6 DEF GiveUpUdp, NoAnswerByUdp
        <5> QED
          BY <4>1, <5>1, <1>1 DEF WorkLeft
      <4>2. CASE stage' = "done"
        BY <4>2, <1>1 DEF WorkLeft
      <4> QED
        BY <4>1, <4>2, <2>4, <1>6 DEF GiveUpUdp, NoAnswerByUdp
    <3>2. SecondAttempt \in Nat
      BY <1>2 DEF SecondAttempt
    <3> QED
      BY <3>1, <3>2, <2>2, <1>1, <1>3
  <2> QED
    BY <2>3, <2>4, <1>6 DEF GiveUpUdp, NoAnswerByUdp
<1>7. CASE TryTcp
  <2>1. stage = "tcp" /\ WorkLeft = r + 1
    BY <1>7, <1>1 DEF TryTcp, WorkLeft
  <2>2. CASE stage' = "done"
    BY <2>1, <2>2, <1>1 DEF WorkLeft
  <2>3. CASE stage' # "done"
    <3>1. stage' = "tcp" /\ remaining # {}
      BY <2>1, <2>3, <1>7 DEF TryTcp
    <3> DEFINE ip == CHOOSE i \in remaining : \A j \in remaining : i <= j
    <3>2. remaining' = remaining \ {ip}
      BY <3>1, <1>7 DEF TryTcp
    <3>3. ip \in remaining
      <4>1. remaining \subseteq Nat
        BY ClientAssumption DEF ClientInv
      <4>2. \E i \in remaining : \A j \in remaining : i =< j
        BY <3>1, <4>1, Least
      <4> QED
        BY <4>2
    <3>4. Cardinality(remaining') = r - 1
      BY <3>2, <3>3, <1>1, ServerCounts, FS_RemoveElement
    <3> QED
      BY <2>1, <3>1, <3>4, <1>1 DEF WorkLeft
  <2> QED
    BY <2>2, <2>3
<1>8. CASE Tick
  <2>1. /\ stage = "receive" /\ elapsed < UdpTicks /\ elapsed' = elapsed + 1
        /\ UNCHANGED <<stage, round, allIps>>
    BY <1>8 DEF Tick
  <2>2. WorkLeft = SecondAttempt + (UdpTicks - elapsed) + 2 + n /\ WorkLeft' = SecondAttempt + (UdpTicks - (elapsed + 1)) + 2 + n
    BY <2>1, <1>1 DEF WorkLeft, SecondAttempt
  <2> QED
    BY <2>1, <2>2, <1>1, <1>2 DEF SecondAttempt
<1> QED
  BY <1>4, <1>5, <1>6, <1>7, <1>8 DEF Working

\* No other step is one more: an arrival, or a read of all that has arrived.
LEMMA StepGetsOn == ClientInv /\ ClientInv' /\ [ClientNext]_client => GetsOn
<1> SUFFICES ASSUME ClientInv, ClientInv', [ClientNext]_client, Pending
             PROVE  WorkLeft' <= WorkLeft /\ (stage' # stage => WorkLeft' < WorkLeft)
  BY WorkLeftIsNat, WorkLowers DEF GetsOn, MostWork
<1>1. WorkLeft \in Nat /\ WorkLeft' \in Nat
  BY WorkLeftIsNat
<1>2. CASE Working \/ Tick
  BY <1>1, <1>2, WorkLowers
<1>3. CASE ReceiveUdp
  <2>1. CASE stage' = "done"
    <3>1. PICK n, r \in Nat : n = Cardinality(allIps) /\ r = Cardinality(remaining)
      BY ServerCounts
    <3>2. UdpTicks \in Nat /\ elapsed \in 0..UdpTicks
      BY ClientAssumption DEF ClientInv
    <3>3. WorkLeft > 0
      BY <3>1, <3>2 DEF WorkLeft, SecondAttempt, Pending
    <3>4. WorkLeft' = 0
      BY <2>1 DEF WorkLeft
    <3> QED
      BY <3>3, <3>4, <1>1
  <2>2. CASE stage' = stage
    BY <2>2, <1>3, <1>1 DEF ReceiveUdp, WorkLeft, SecondAttempt
  <2> QED
    BY <2>1, <2>2, <1>3 DEF ReceiveUdp, Extract
<1>4. CASE Stop \/ (\E k \in {"answer", "bad", "other"} : Arrive(k)) \/ UNCHANGED client
  <2>1. UNCHANGED <<stage, round, elapsed, allIps, remaining>>
    BY <1>4 DEF Stop, Arrive, client
  <2> QED
    BY <2>1, <1>1 DEF WorkLeft, SecondAttempt
<1>5. CASE \E all \in SUBSET Ips : all # {} /\ Ask(all)
  BY <1>5 DEF Ask, Pending
<1> QED
  BY <1>2, <1>3, <1>4, <1>5 DEF ClientNext

\* A query of any number of servers, with any timeout, takes at most so many steps,
\* whatever arrives and however much: reading what is no answer does not begin the
\* wait again, there is one second attempt, and over TCP no server is tried twice
\* (src/client/dns_parallel_client.cpp:132, 174, 267).
THEOREM QueryNears == ClientSpec => NearerTheEnd
<1>1. ClientInit => ClientInv
  BY ClientAssumption DEF ClientInit, ClientInv
<1>2. ClientInv /\ [ClientNext]_client => ClientInv' /\ GetsOn
  BY ClientStep, StepGetsOn
<1> QED
  BY <1>1, <1>2, PTL DEF ClientSpec, NearerTheEnd

(***************************************************************************)
(* NameWire                                                                *)
(***************************************************************************)

\* An octet, a label of 1 to 63 of them, and a name of labels
Octet == 0..Base - 1
Labels == {l \in Seq(Octet) : Len(l) \in 1..MAX_LABEL_LENGTH - 1}
WireNames == Seq(Labels)

\* How many octets the first labels of a name have, with their lengths
Totals(name, o) ==
    /\ o \in [0..Len(name) -> Nat] /\ o[0] = 0
    /\ \A k \in 1..Len(name) : o[k] = o[k - 1] + Len(name[k]) + 1
\* A name that can be read from any message: no empty label, none too long, not
\* too many, and not too many octets.
Sendable(name) ==
    /\ name \in WireNames /\ Len(name) < MAX_LABEL_LENGTH
    /\ \E o : Totals(name, o) /\ \A k \in 0..Len(name) : o[k] =< MAX_DOMAIN_NAME_LENGTH + 1

\* What is at an offset, in octets that are settled
PointsTo(raw, settled, at, to) ==
    /\ at + 1 \in settled /\ at + 2 \in settled
    /\ raw[at + 1] >= PointerMark
    /\ ((raw[at + 1] * Base) + raw[at + 2]) % PointerReach = to
LabelAt(raw, settled, at, label) ==
    /\ at + 1 \in settled /\ raw[at + 1] = Len(label)
    /\ \A i \in 1..Len(label) : at + 1 + i \in settled /\ raw[at + 1 + i] = label[i]
EndAt(raw, settled, at) == at + 1 \in settled /\ raw[at + 1] = 0

\* A name is at an offset: its labels and its end are at p, every one where the
\* one before it ends or where a pointer there points, the first pointer being
\* before label m.
Arrival(name, at, p, k) == IF k = 1 THEN at ELSE p[k - 1] + 1 + Len(name[k - 1])
Arrives(raw, settled, from, to, pointer, before) ==
    IF before THEN from = to
    ELSE IF pointer THEN PointsTo(raw, settled, from, to)
    ELSE from = to \/ PointsTo(raw, settled, from, to)
Path(raw, settled, at, name, p, m) ==
    /\ p \in [1..Len(name) + 1 -> Nat] /\ m \in 1..Len(name) + 2
    /\ \A k \in 1..Len(name) + 1 :
          Arrives(raw, settled, Arrival(name, at, p, k), p[k], k = m, k < m)
    /\ \A k \in 1..Len(name) : LabelAt(raw, settled, p[k], name[k])
    /\ EndAt(raw, settled, p[Len(name) + 1])
After(at, name, p, m) ==
    IF m = Len(name) + 2 THEN p[Len(name) + 1] + 1 ELSE Arrival(name, at, p, m) + 2

HasName(raw, settled, at, name, after) ==
    \E p, m : Path(raw, settled, at, name, p, m) /\ After(at, name, p, m) = after
\* One that a pointer may lead to
Remembered(raw, settled, at, name) ==
    \E p, m : Path(raw, settled, at, name, p, m) /\ m # 1
Remembers(raw, settled, offsets) ==
    \A name \in DOMAIN offsets :
        /\ name \in WireNames /\ offsets[name] \in Nat
        /\ Remembered(raw, settled, offsets[name], name)

\* What the limits are to each other, however long a label may be
LEMMA Limits ==
    /\ Base \in Nat /\ Base = 4 * MAX_LABEL_LENGTH /\ Base >= 4
    /\ MAX_LABEL_LENGTH \in Nat /\ MAX_LABEL_LENGTH >= 1
    /\ PointerMark = 3 * MAX_LABEL_LENGTH
    /\ MAX_DOMAIN_NAME_COMPONENTS = 2 * MAX_LABEL_LENGTH
    /\ MAX_DOMAIN_NAME_LENGTH + 1 \in Nat
    /\ Octet \subseteq Nat
BY LabelAssumption DEF Base, PointerMark, MAX_DOMAIN_NAME_COMPONENTS, MAX_DOMAIN_NAME_LENGTH, Octet

\* The first rounds of parse_name
Gets(raw, size, at, k, f) ==
    f = [n \in 0..k |-> IF n = 0 THEN Unread(at) ELSE GetLabel(raw, size, f[n - 1])]

\* The rounds of parse_name: there is a function of them, for any number of rounds.
LEMMA GetsExists ==
    ASSUME NEW raw, NEW size, NEW at, NEW k \in Nat
    PROVE  \E f : Gets(raw, size, at, k, f)
<1> DEFINE T == {i \in Nat : ~ \E f : Gets(raw, size, at, i, f)}
<1> SUFFICES ASSUME T # {} PROVE FALSE
  OBVIOUS
<1>1. T \subseteq Nat
  OBVIOUS
<1>2. PICK m \in T : \A i \in T : m =< i
  <2> HIDE DEF T
  <2> QED BY <1>1, Least
<1>3. CASE m = 0
  <2> DEFINE f == [i \in 0..0 |-> Unread(at)]
  <2>1. f = [i \in 0..0 |-> IF i = 0 THEN Unread(at) ELSE GetLabel(raw, size, f[i - 1])]
    OBVIOUS
  <2> HIDE DEF f
  <2> QED BY <1>3, <2>1 DEF Gets
<1>4. CASE m # 0
  <2>1. m \in Nat /\ m - 1 \in Nat /\ m - 1 \notin T
    BY <1>2, <1>4
  <2>2. PICK f : Gets(raw, size, at, m - 1, f)
    BY <2>1
  <2> DEFINE g == [i \in 0..m |-> IF i = m THEN GetLabel(raw, size, f[m - 1]) ELSE f[i]]
  <2>3. ASSUME NEW i \in 0..m
        PROVE  g[i] = IF i = 0 THEN Unread(at) ELSE GetLabel(raw, size, g[i - 1])
    <3>1. CASE i = m
      <4>1. g[i] = GetLabel(raw, size, f[m - 1]) /\ g[i - 1] = f[m - 1]
        BY <2>1, <3>1
      <4> QED BY <1>4, <3>1, <4>1
    <3>2. CASE i = 0
      <4>1. f[0] = Unread(at)
        BY <2>1, <2>2 DEF Gets
      <4> QED BY <1>4, <2>1, <3>2, <4>1
    <3>3. CASE i # 0 /\ i # m
      <4>1. i \in 0..(m - 1) /\ i - 1 \in 0..m /\ i - 1 # m
        BY <2>1, <3>3
      <4>2. f[i] = GetLabel(raw, size, f[i - 1])
        BY <2>2, <3>3, <4>1 DEF Gets
      <4> QED BY <3>3, <4>1, <4>2
    <3> QED BY <3>1, <3>2, <3>3
  <2>4. g = [i \in 0..m |-> g[i]]
    OBVIOUS
  <2> HIDE DEF g
  <2>5. g = [i \in 0..m |-> IF i = 0 THEN Unread(at) ELSE GetLabel(raw, size, g[i - 1])]
    BY <2>3, <2>4
  <2> QED BY <2>5 DEF Gets
<1> QED BY <1>3, <1>4

\* The rounds of parse_name
LEMMA GetNameRounds ==
    ASSUME NEW raw, NEW size, NEW at
    PROVE  \E f :
             /\ f[0] = Unread(at)
             /\ \A n \in 1..MAX_DOMAIN_NAME_COMPONENTS : f[n] = GetLabel(raw, size, f[n - 1])
             /\ GetName(raw, size, at) =
                  LET end == f[MAX_DOMAIN_NAME_COMPONENTS]
                  IN  IF end.state # "end" THEN Bad
                      ELSE Parsed(end.value, IF end.after = 0 THEN end.at + 1 ELSE end.after)
<1> DEFINE f == CHOOSE f : Gets(raw, size, at, MAX_DOMAIN_NAME_COMPONENTS, f)
<1>1. MAX_DOMAIN_NAME_COMPONENTS \in Nat
  BY Limits
<1>3. Gets(raw, size, at, MAX_DOMAIN_NAME_COMPONENTS, f)
  BY <1>1, GetsExists
<1>4. GetName(raw, size, at) =
        LET end == f[MAX_DOMAIN_NAME_COMPONENTS]
        IN  IF end.state # "end" THEN Bad
            ELSE Parsed(end.value, IF end.after = 0 THEN end.at + 1 ELSE end.after)
  BY DEF GetName, Gets
<1> HIDE DEF f
<1>5. f[0] = Unread(at)
  BY <1>1, <1>3 DEF Gets
<1>6. \A n \in 1..MAX_DOMAIN_NAME_COMPONENTS : f[n] = GetLabel(raw, size, f[n - 1])
  BY <1>1, <1>3 DEF Gets
<1> QED BY <1>4, <1>5, <1>6

\* What parse_name has read where a label, or the end, is arrived at, and where
\* it is
Before(name, at, p, m, o, k) ==
    [at |-> Arrival(name, at, p, k), value |-> SubSeq(name, 1, k - 1), octets |-> o[k - 1],
     after |-> IF k =< m THEN 0 ELSE Arrival(name, at, p, m) + 2, state |-> "on"]
There(name, at, p, m, o, k) ==
    [at |-> p[k], value |-> SubSeq(name, 1, k - 1), octets |-> o[k - 1],
     after |-> IF k < m THEN 0 ELSE Arrival(name, at, p, m) + 2, state |-> "on"]

\* The places of a path are offsets.
LEMMA ArrivalIsNat ==
    ASSUME NEW raw, NEW settled, NEW at \in Nat, NEW name \in WireNames,
           NEW p, NEW m, Path(raw, settled, at, name, p, m)
    PROVE  \A k \in 1..Len(name) + 1 : p[k] \in Nat /\ Arrival(name, at, p, k) \in Nat
<1> SUFFICES ASSUME NEW k \in 1..Len(name) + 1
             PROVE  p[k] \in Nat /\ Arrival(name, at, p, k) \in Nat
  OBVIOUS
<1>1. Len(name) \in Nat
  BY DEF WireNames
<1>2. p[k] \in Nat
  BY DEF Path
<1>3. CASE k = 1
  BY <1>2, <1>3 DEF Arrival
<1>4. CASE k # 1
  <2>1. k - 1 \in 1..Len(name)
    BY <1>1, <1>4
  <2>2. k - 1 \in 1..Len(name) + 1
    BY <1>1, <2>1
  <2>3. p[k - 1] \in Nat
    BY <2>2 DEF Path
  <2>4. name[k - 1] \in Labels
    BY <2>1 DEF WireNames
  <2>5. Len(name[k - 1]) \in Nat
    BY <2>4 DEF Labels
  <2> QED BY <1>2, <1>4, <2>3, <2>5 DEF Arrival
<1> QED BY <1>3, <1>4

\* What is read: octets, some of them settled, to the end of the record or of
\* the message
IsMessage(raw, settled, size) ==
    /\ raw \in Seq(Octet) /\ settled \subseteq 1..Len(raw)
    /\ size \in Nat /\ settled \subseteq 1..size

\* The length of a pointer does not end a name.
LEMMA MarkIsNoEnd == \A n \in Octet : n >= PointerMark => n \in Nat /\ n # 0
BY LabelAssumption DEF Octet, Base, PointerMark

\* A round at a pointer goes where it points.
LEMMA ReadsPointer ==
    ASSUME NEW raw, NEW settled, NEW size, IsMessage(raw, settled, size), NEW reading, NEW from \in Nat, NEW to,
           reading.at = from, reading.state = "on", PointsTo(raw, settled, from, to)
    PROVE  GetLabel(raw, size, reading) = WithPointer(reading, to)
<1>0. /\ raw \in Seq(Octet) /\ settled \subseteq 1..Len(raw)
      /\ size \in Nat /\ settled \subseteq 1..size
  BY DEF IsMessage
<1> USE <1>0
<1>1. /\ from + 1 \in 1..Len(raw) /\ from + 2 \in 1..Len(raw) /\ Len(raw) \in Nat
      /\ from + 1 \in 1..size /\ from + 2 \in 1..size
  BY DEF PointsTo
<1>2. raw[from + 1] >= PointerMark
  BY DEF PointsTo
<1>3. raw[from + 1] \in Nat /\ raw[from + 1] # 0
  <2>1. raw[from + 1] \in Octet
    BY <1>1, ElementOfSeq
  <2> QED BY <1>2, <2>1, MarkIsNoEnd
<1>4. Within(raw, size, from + 1) /\ Within(raw, size, from + 2)
  BY <1>1 DEF Within
<1>5. ((raw[from + 1] * Base) + raw[from + 2]) % PointerReach = to
  BY DEF PointsTo
<1> QED BY <1>2, <1>3, <1>4, <1>5, Zenon DEF GetLabel

\* Where a label, or the end, is arrived at, a round follows the pointer, if one is
\* there: what has been read so far is the same.
LEMMA ReadsArriving ==
    ASSUME NEW raw, NEW settled, NEW size, IsMessage(raw, settled, size), NEW at \in Nat, NEW name \in WireNames,
           NEW p, NEW m, Path(raw, settled, at, name, p, m), NEW o,
           NEW k \in 1..Len(name) + 1
    PROVE  \/ Before(name, at, p, m, o, k) = There(name, at, p, m, o, k)
           \/ GetLabel(raw, size, Before(name, at, p, m, o, k)) = There(name, at, p, m, o, k)
<1> DEFINE from == Arrival(name, at, p, k)
           before == Before(name, at, p, m, o, k)
<1>1. Len(name) \in Nat /\ m \in 1..Len(name) + 2 /\ m \in Nat /\ k \in Nat
  BY DEF WireNames, Path
<1>2. from \in Nat /\ p[k] \in Nat
  BY ArrivalIsNat
<1>3. Arrives(raw, settled, from, p[k], k = m, k < m)
  BY DEF Path
<1>4. before.at = from /\ before.state = "on"
  BY DEF Before
<1>5. CASE from = p[k] /\ k # m
  <2>1. k =< m <=> k < m
    BY <1>1, <1>5
  <2> QED BY <1>5, <2>1, Zenon DEF Before, There
<1>6. CASE PointsTo(raw, settled, from, p[k]) /\ k >= m
  <2>1. GetLabel(raw, size, before) = WithPointer(before, p[k])
    <3> DEFINE to == p[k]
    <3>1. from \in Nat /\ before.at = from /\ before.state = "on"
      BY <1>2, <1>4
    <3>2. PointsTo(raw, settled, from, to)
      BY <1>6
    <3> HIDE DEF before, from, to
    <3>3. GetLabel(raw, size, before) = WithPointer(before, to)
      BY <3>1, <3>2, ReadsPointer
    <3> QED BY <3>3 DEF to
  <2>2. (IF before.after = 0 THEN before.at + 2 ELSE before.after) = Arrival(name, at, p, m) + 2
    <3>1. CASE k = m
      BY <1>1, <3>1 DEF Before
    <3>2. CASE k # m
      <4>1. m \in 1..Len(name) + 1
        BY <1>1, <1>6, <3>2
      <4>2. Arrival(name, at, p, m) \in Nat
        BY <4>1, ArrivalIsNat
      <4>3. before.after = Arrival(name, at, p, m) + 2
        BY <1>1, <1>6, <3>2 DEF Before
      <4> QED BY <4>2, <4>3
    <3> QED BY <3>1, <3>2
  <2>3. WithPointer(before, p[k]) = There(name, at, p, m, o, k)
    <3>1. ~(k < m)
      BY <1>1, <1>6
    <3>2. WithPointer(before, p[k]) =
            [before EXCEPT !.at = p[k], !.after = Arrival(name, at, p, m) + 2]
      BY <2>2 DEF WithPointer, Before
    <3> QED BY <3>1, <3>2 DEF Before, There
  <2> QED BY <2>1, <2>3
<1>7. \/ from = p[k] /\ k # m
      \/ PointsTo(raw, settled, from, p[k]) /\ k >= m
  BY <1>1, <1>3 DEF Arrives
<1> QED BY <1>5, <1>6, <1>7

\* The octets of a label
LEMMA InMessage ==
    ASSUME NEW q \in Nat, NEW length \in Nat, length >= 1, NEW end \in Nat,
           q + 1 + length =< end
    PROVE  /\ q + 2 \in 1..end /\ q + 1 + length \in 1..end
           /\ (q + 1 + length) - (q + 2) + 1 = length /\ q + 2 =< q + 1 + length
OBVIOUS

\* A round at a label adds it, and arrives where it ends.
LEMMA ReadsLabel ==
    ASSUME NEW raw, NEW settled, NEW size, IsMessage(raw, settled, size), NEW at \in Nat, NEW name \in WireNames,
           NEW p, NEW m, Path(raw, settled, at, name, p, m), NEW o, Totals(name, o),
           \A i \in 0..Len(name) : o[i] =< MAX_DOMAIN_NAME_LENGTH + 1,
           NEW k \in 1..Len(name)
    PROVE  GetLabel(raw, size, There(name, at, p, m, o, k)) = Before(name, at, p, m, o, k + 1)
<1>0. /\ raw \in Seq(Octet) /\ settled \subseteq 1..Len(raw)
      /\ size \in Nat /\ settled \subseteq 1..size
  BY DEF IsMessage
<1> USE <1>0
<1> DEFINE there == There(name, at, p, m, o, k)
           label == name[k]
<1>1. Len(name) \in Nat /\ m \in Nat /\ k \in Nat
  BY DEF WireNames, Path
<1>2. p[k] \in Nat
  <2>1. k \in 1..Len(name) + 1
    BY <1>1
  <2> QED BY <2>1, ArrivalIsNat
<1>3. label \in Seq(Octet) /\ Len(label) \in Nat /\ Len(label) >= 1 /\ Len(label) < MAX_LABEL_LENGTH
  BY Limits DEF WireNames, Labels
<1>4. LabelAt(raw, settled, p[k], label)
  BY DEF Path
<1>5. /\ raw[p[k] + 1] = Len(label) /\ p[k] + 1 \in 1..Len(raw) /\ Len(raw) \in Nat
      /\ p[k] + 1 \in 1..size
  <2>1. raw[p[k] + 1] = Len(label) /\ p[k] + 1 \in settled
    BY <1>4, Zenon DEF LabelAt
  <2>2. Len(raw) \in Nat
    BY LenProperties
  <2> QED BY <2>1, <2>2, Zenon
<1>6. p[k] + 1 + Len(label) \in 1..Len(raw) /\ p[k] + 1 + Len(label) \in 1..size
  <2>1. Len(label) \in 1..Len(label)
    BY <1>3
  <2>2. p[k] + 1 + Len(label) \in settled
    BY <1>4, <2>1, Zenon DEF LabelAt
  <2> QED BY <2>2
<1>7. Within(raw, size, p[k] + 1) /\ Within(raw, size, p[k] + 1 + Len(label))
  BY <1>5, <1>6 DEF Within
<1>8. SubSeq(raw, p[k] + 2, p[k] + 1 + Len(label)) = label
  <2> DEFINE sub == SubSeq(raw, p[k] + 2, p[k] + 1 + Len(label))
  <2> DEFINE length == Len(label)
             q == p[k]
  <2>1. sub \in Seq(Octet) /\ Len(sub) = Len(label)
    <3>1. length \in Nat /\ length >= 1 /\ q \in Nat /\ q + 1 + length =< Len(raw)
      BY <1>2, <1>3, <1>5, <1>6
    <3>2. q + 2 \in 1..Len(raw) /\ q + 1 + length \in 1..Len(raw)
          /\ (q + 1 + length) - (q + 2) + 1 = length /\ q + 2 =< q + 1 + length
      <4> DEFINE size_of == Len(raw)
      <4>1. size_of \in Nat
        BY <1>5
      <4> HIDE DEF length, q, size_of
      <4> QED BY <3>1, <4>1, InMessage DEF size_of
    <3> HIDE DEF length, q
    <3>3. SubSeq(raw, q + 2, q + 1 + length) \in Seq(Octet)
          /\ Len(SubSeq(raw, q + 2, q + 1 + length)) = length
      BY <3>1, <3>2, SubSeqProperties
    <3> QED BY <3>3 DEF length, q
  <2>2. \A i \in 1..Len(label) : sub[i] = label[i]
    <3> SUFFICES ASSUME NEW i \in 1..Len(label) PROVE sub[i] = label[i]
      OBVIOUS
    <3>1. length \in Nat /\ length >= 1 /\ q \in Nat /\ q + 1 + length =< Len(raw)
          /\ i \in 1..length
      BY <1>2, <1>3, <1>5, <1>6
    <3>2. q + 2 \in 1..Len(raw) /\ q + 1 + length \in 1..Len(raw)
          /\ i \in 1..((q + 1 + length) - (q + 2) + 1) /\ q + 2 =< q + 1 + length
          /\ (q + 2) + i - 1 = q + 1 + i
      <4>1. Len(raw) \in Nat /\ i \in Nat
        BY <1>5
      <4> HIDE DEF length, q
      <4>2. (q + 1 + length) - (q + 2) + 1 = length
        BY <3>1, <4>1, InMessage
      <4>3. (q + 2) + i - 1 = q + 1 + i
        BY <3>1, <4>1
      <4> QED BY <3>1, <4>1, <4>2, <4>3, InMessage
    <3>3. SubSeq(raw, q + 2, q + 1 + length)[i] = raw[q + 1 + i]
      <4> HIDE DEF length, q
      <4> QED BY <3>1, <3>2, SubSeqProperties
    <3>4. raw[q + 1 + i] = label[i]
      BY <1>4, Zenon DEF LabelAt
    <3> QED BY <3>3, <3>4
  <2>3. sub = label
    <3> HIDE DEF sub
    <3> QED BY <1>3, <2>1, <2>2, SeqEqual
  <2> QED BY <2>3
<1>9. o[k] = o[k - 1] + Len(label) + 1 /\ o[k] =< MAX_DOMAIN_NAME_LENGTH + 1
      /\ o[k - 1] \in Nat
  <2>1. k - 1 \in 0..Len(name) /\ k \in 0..Len(name)
    BY <1>1
  <2> QED BY <2>1 DEF Totals
<1>10. /\ ~(Len(label) = 0) /\ ~(Len(label) >= PointerMark)
       /\ ~(Len(label) >= MAX_LABEL_LENGTH)
       /\ ~(o[k - 1] + Len(label) + 1 > MAX_DOMAIN_NAME_LENGTH + 1)
  BY <1>3, <1>9, Limits
<1>11. there.at = p[k] /\ there.state = "on" /\ there.octets = o[k - 1]
  BY DEF There
<1>12. GetLabel(raw, size, there) = WithLabel(there, label)
  <2> HIDE DEF there, label
  <2> QED BY <1>5, <1>7, <1>8, <1>10, <1>11, Zenon DEF GetLabel
<1>13. Append(SubSeq(name, 1, k - 1), label) = SubSeq(name, 1, k)
  BY <1>1 DEF WireNames
<1>14. WithLabel(there, label) =
         [at |-> p[k] + 1 + Len(label), value |-> SubSeq(name, 1, k),
          octets |-> o[k], after |-> there.after, state |-> "on"]
  <2>1. there.value = SubSeq(name, 1, k - 1)
    BY DEF There
  <2> HIDE DEF there, label
  <2> QED BY <1>9, <1>11, <1>13, <2>1, Zenon DEF WithLabel
<1>15. /\ k + 1 - 1 = k /\ k + 1 # 1
       /\ k + 1 =< m <=> k < m
  BY <1>1
<1>16. Arrival(name, at, p, k + 1) = p[k] + 1 + Len(label)
  BY <1>15 DEF Arrival
<1> QED BY <1>12, <1>14, <1>15, <1>16 DEF Before, There

\* A round at the end ends the name.
LEMMA ReadsEnd ==
    ASSUME NEW raw, NEW settled, NEW size, IsMessage(raw, settled, size), NEW at \in Nat, NEW name \in WireNames,
           NEW p, NEW m, Path(raw, settled, at, name, p, m), NEW o
    PROVE  GetLabel(raw, size, There(name, at, p, m, o, Len(name) + 1)) =
             [There(name, at, p, m, o, Len(name) + 1) EXCEPT !.state = "end"]
<1>0. /\ raw \in Seq(Octet) /\ settled \subseteq 1..Len(raw)
      /\ size \in Nat /\ settled \subseteq 1..size
  BY DEF IsMessage
<1> USE <1>0
<1> DEFINE there == There(name, at, p, m, o, Len(name) + 1)
           end == p[Len(name) + 1]
<1>1. Len(name) + 1 \in 1..Len(name) + 1
  BY DEF WireNames
<1>2. end \in Nat
  BY <1>1, ArrivalIsNat
<1>3. /\ end + 1 \in 1..Len(raw) /\ raw[end + 1] = 0 /\ Len(raw) \in Nat
      /\ end + 1 \in 1..size
  BY DEF Path, EndAt
<1>4. Within(raw, size, end + 1)
  BY <1>3 DEF Within
<1>5. there.at = end /\ there.state = "on"
  BY DEF There
<1> HIDE DEF there, end
<1> QED BY <1>3, <1>4, <1>5, Zenon DEF GetLabel, there

\* Everything before the end is read in two rounds for every label at most.
LEMMA ReadsName ==
    ASSUME NEW raw, NEW settled, NEW size, IsMessage(raw, settled, size), NEW at \in Nat,
           NEW name, Sendable(name), NEW p, NEW m, Path(raw, settled, at, name, p, m)
    PROVE  GetName(raw, size, at) = Parsed(name, After(at, name, p, m))
<1>1. name \in WireNames /\ Len(name) \in Nat /\ Len(name) < MAX_LABEL_LENGTH
  BY DEF Sendable, WireNames
<1>2. PICK o : Totals(name, o) /\ \A k \in 0..Len(name) : o[k] =< MAX_DOMAIN_NAME_LENGTH + 1
  BY DEF Sendable
<1>3. PICK f :
        /\ f[0] = Unread(at)
        /\ \A n \in 1..MAX_DOMAIN_NAME_COMPONENTS : f[n] = GetLabel(raw, size, f[n - 1])
        /\ GetName(raw, size, at) =
             LET end == f[MAX_DOMAIN_NAME_COMPONENTS]
             IN  IF end.state # "end" THEN Bad
                 ELSE Parsed(end.value, IF end.after = 0 THEN end.at + 1 ELSE end.after)
  BY GetNameRounds
<1> DEFINE rounds == MAX_DOMAIN_NAME_COMPONENTS
           before(k) == Before(name, at, p, m, o, k)
           there(k) == There(name, at, p, m, o, k)
           length == Len(name)
<1>4. rounds \in Nat /\ length \in Nat /\ rounds >= (2 * length) + 2 /\ m \in 1..length + 2
  <2>1. rounds = 2 * MAX_LABEL_LENGTH /\ MAX_LABEL_LENGTH \in Nat
    BY Limits
  <2>2. m \in 1..length + 2
    BY DEF Path
  <2> HIDE DEF rounds
  <2> QED BY <1>1, <2>1, <2>2
<1>5. ASSUME NEW k \in 1..length + 1, NEW i \in 0..rounds - 1, f[i] = before(k)
      PROVE  \E j \in {i, i + 1} : f[j] = there(k)
  <2>1. before(k) = there(k) \/ GetLabel(raw, size, before(k)) = there(k)
    BY <1>1, ReadsArriving
  <2>2. i + 1 \in 1..rounds /\ (i + 1) - 1 = i
    BY <1>4
  <2>3. f[i + 1] = GetLabel(raw, size, f[i])
    BY <1>3, <2>2
  <2> HIDE DEF before, there
  <2> QED BY <1>5, <2>1, <2>3
<1>6. ASSUME NEW k \in 1..length, NEW j \in 0..rounds - 1, f[j] = there(k)
      PROVE  f[j + 1] = before(k + 1)
  <2>1. GetLabel(raw, size, there(k)) = before(k + 1)
    BY <1>1, <1>2, ReadsLabel
  <2>2. j + 1 \in 1..rounds /\ (j + 1) - 1 = j
    BY <1>4
  <2> HIDE DEF before, there
  <2> QED BY <1>3, <1>6, <2>1, <2>2
<1>7. before(1) = Unread(at)
  <2>1. Arrival(name, at, p, 1) = at /\ o[1 - 1] = 0 /\ 1 =< m
    BY <1>2, <1>4 DEF Arrival, Totals
  <2>2. SubSeq(name, 1, 1 - 1) = <<>>
    BY <1>1, SubSeqEmpty
  <2> QED BY <2>1, <2>2 DEF Before, Unread
<1> HIDE DEF before, there, rounds, length
<1>8. \A k \in 1..length + 1 : \E i \in 0..2 * (k - 1) : f[i] = before(k)
  <2> DEFINE T == {k \in 1..length + 1 : ~ \E i \in 0..2 * (k - 1) : f[i] = before(k)}
  <2> SUFFICES ASSUME T # {} PROVE FALSE
    BY Zenon
  <2>1. T \subseteq Nat
    BY <1>4
  <2>2. PICK k \in T : \A i \in T : k =< i
    <3> HIDE DEF T
    <3> QED BY <2>1, Least
  <2>3. k \in 1..length + 1 /\ k \in Nat /\ ~ \E i \in 0..2 * (k - 1) : f[i] = before(k)
    BY <1>4
  <2>4. k # 1
    <3> SUFFICES ASSUME k = 1 PROVE FALSE
      OBVIOUS
    <3>1. 0 \in 0..2 * (k - 1)
      OBVIOUS
    <3> QED BY <1>3, <1>7, <2>3, <3>1
  <2>5. k - 1 \in 1..length /\ k - 1 \in 1..length + 1 /\ (k - 1) + 1 = k /\ k - 1 \notin T
    BY <1>4, <2>2, <2>3, <2>4
  <2>6. PICK i \in 0..2 * ((k - 1) - 1) : f[i] = before(k - 1)
    BY <2>5
  <2>7. i \in Nat /\ i + 1 =< 2 * (k - 1) - 1 /\ i \in 0..rounds - 1
    BY <1>4, <2>5
  <2>8. PICK j \in {i, i + 1} : f[j] = there(k - 1)
    BY <1>5, <2>5, <2>6, <2>7
  <2>9. j \in 0..rounds - 1 /\ j + 1 \in 0..2 * (k - 1)
    BY <1>4, <2>5, <2>7, <2>8
  <2>10. f[j + 1] = before(k)
    BY <1>6, <2>5, <2>8, <2>9
  <2> QED BY <2>3, <2>9, <2>10
<1>9. PICK i \in 0..2 * length : f[i] = before(length + 1)
  <2>1. length + 1 \in 1..length + 1 /\ (length + 1) - 1 = length
    BY <1>4
  <2> QED BY <1>8, <2>1
<1>10. PICK j \in {i, i + 1} : f[j] = there(length + 1)
  <2>1. length + 1 \in 1..length + 1 /\ i \in 0..rounds - 1
    BY <1>4
  <2> QED BY <1>5, <1>9, <2>1
<1>11. j \in 0..rounds - 1 /\ j + 1 \in 0..rounds /\ j + 1 \in 1..rounds /\ (j + 1) - 1 = j
  BY <1>4, <1>10
<1> DEFINE end == [there(length + 1) EXCEPT !.state = "end"]
<1>12. f[j + 1] = end
  <2>1. GetLabel(raw, size, there(length + 1)) = end
    BY <1>1, ReadsEnd DEF there, length
  <2> QED BY <1>3, <1>10, <1>11, <2>1 DEF rounds
<1>13. /\ end.state = "end" /\ end.value = name /\ end.at = p[length + 1]
       /\ end.after = IF length + 1 < m THEN 0 ELSE Arrival(name, at, p, m) + 2
  <2>1. SubSeq(name, 1, (length + 1) - 1) = name
    BY <1>1, SubSeqFull DEF length, WireNames
  <2> QED BY <2>1 DEF there, There
<1> HIDE DEF end
<1>14. \A k \in 0..rounds : k >= j + 1 => f[k] = end
  <2> DEFINE T == {k \in 0..rounds : k >= j + 1 /\ f[k] # end}
  <2> SUFFICES ASSUME T # {} PROVE FALSE
    BY Zenon
  <2>1. T \subseteq Nat
    OBVIOUS
  <2>2. PICK k \in T : \A x \in T : k =< x
    <3> HIDE DEF T
    <3> QED BY <2>1, Least
  <2>3. k \in 0..rounds /\ k >= j + 1 /\ f[k] # end /\ k # j + 1
    BY <1>12, <2>2
  <2>4. k \in 1..rounds /\ k - 1 \in 0..rounds /\ k - 1 >= j + 1 /\ k - 1 \notin T
    BY <1>4, <1>11, <2>2, <2>3
  <2>5. f[k - 1] = end
    BY <2>4
  <2>6. f[k] = GetLabel(raw, size, end)
    BY <1>3, <2>4, <2>5 DEF rounds
  <2>7. GetLabel(raw, size, end) = end
    BY <1>13, Zenon DEF GetLabel
  <2> QED BY <2>3, <2>6, <2>7
<1>15. f[rounds] = end
  BY <1>4, <1>11, <1>14
<1>16. (IF end.after = 0 THEN end.at + 1 ELSE end.after) = After(at, name, p, m)
  <2>1. CASE m = length + 2
    BY <1>4, <1>13, <2>1 DEF After, length
  <2>2. CASE m # length + 2
    <3>1. m \in 1..length + 1 /\ ~(length + 1 < m)
      BY <1>4, <2>2
    <3>2. Arrival(name, at, p, m) \in Nat
      BY <1>1, <3>1, ArrivalIsNat DEF length
    <3>3. end.after = Arrival(name, at, p, m) + 2 /\ end.after # 0
      BY <1>13, <3>1, <3>2
    <3> QED BY <2>2, <3>3 DEF After, length
  <2> QED BY <2>1, <2>2
<1> QED BY <1>3, <1>13, <1>15, <1>16 DEF rounds

\* What is settled stays.
Keeps(raw, settled, raw2, settled2) ==
    settled \subseteq settled2 /\ \A i \in settled : raw2[i] = raw[i]

\* A name stays where it is,
LEMMA KeepsNames ==
    ASSUME NEW raw, NEW settled, NEW raw2, NEW settled2, Keeps(raw, settled, raw2, settled2),
           NEW at, NEW name, NEW p, NEW m, Path(raw, settled, at, name, p, m)
    PROVE  Path(raw2, settled2, at, name, p, m)
<1>1. \A from, to : PointsTo(raw, settled, from, to) => PointsTo(raw2, settled2, from, to)
  BY DEF Keeps, PointsTo
<1>2. \A q, label : LabelAt(raw, settled, q, label) => LabelAt(raw2, settled2, q, label)
  BY DEF Keeps, LabelAt
<1>3. \A q : EndAt(raw, settled, q) => EndAt(raw2, settled2, q)
  BY DEF Keeps, EndAt
<1>4. \A from, to, pointer, before :
        Arrives(raw, settled, from, to, pointer, before)
            => Arrives(raw2, settled2, from, to, pointer, before)
  BY <1>1 DEF Arrives
<1> QED BY <1>2, <1>3, <1>4 DEF Path

\* and so do those that pointers may lead to,
LEMMA KeepsRemembered ==
    ASSUME NEW raw, NEW settled, NEW raw2, NEW settled2, Keeps(raw, settled, raw2, settled2),
           NEW offsets, Remembers(raw, settled, offsets)
    PROVE  Remembers(raw2, settled2, offsets)
BY KeepsNames DEF Remembers, Remembered

\* and what is after it.
LEMMA KeepsHasName ==
    ASSUME NEW raw, NEW settled, NEW raw2, NEW settled2, Keeps(raw, settled, raw2, settled2),
           NEW at, NEW name, NEW after, HasName(raw, settled, at, name, after)
    PROVE  HasName(raw2, settled2, at, name, after)
BY KeepsNames DEF HasName

\* An end is the empty name.
LEMMA EndFirst ==
    ASSUME NEW raw, NEW settled, NEW at \in Nat, EndAt(raw, settled, at)
    PROVE  HasName(raw, settled, at, <<>>, at + 1)
<1> DEFINE p == [i \in 1..1 |-> at]
<1>1. Len(<<>>) = 0
  OBVIOUS
<1>2. p \in [1..1 -> Nat] /\ p[1] = at
  OBVIOUS
<1> HIDE DEF p
<1>3. p \in [1..0 + 1 -> Nat] /\ 2 \in 1..0 + 2
  BY <1>2
<1>4. \A k \in 1..0 + 1 : Arrives(raw, settled, Arrival(<<>>, at, p, k), p[k], k = 2, k < 2)
  BY <1>2 DEF Arrives, Arrival
<1>5. EndAt(raw, settled, p[0 + 1])
  BY <1>2
<1>6. Path(raw, settled, at, <<>>, p, 2)
  BY <1>1, <1>3, <1>4, <1>5 DEF Path
<1>7. After(at, <<>>, p, 2) = at + 1
  BY <1>1, <1>2 DEF After
<1> QED BY <1>6, <1>7 DEF HasName

\* A pointer to a name is that name, and ends after its two octets.
LEMMA PointerFirst ==
    ASSUME NEW raw, NEW settled, NEW from \in Nat, NEW to \in Nat, NEW name \in WireNames,
           PointsTo(raw, settled, from, to), Remembered(raw, settled, to, name)
    PROVE  HasName(raw, settled, from, name, from + 2)
<1>1. PICK p, m : Path(raw, settled, to, name, p, m) /\ m # 1
  BY DEF Remembered
<1> DEFINE length == Len(name)
<1>2. length \in Nat /\ m \in 1..length + 2 /\ m # 1
  BY <1>1 DEF WireNames, Path
<1>3. \A k \in 1..length + 1 :
        Arrives(raw, settled, Arrival(name, to, p, k), p[k], k = m, k < m)
  BY <1>1 DEF Path
<1> HIDE DEF length
<1>4. p[1] = to
  <2>1. 1 \in 1..length + 1 /\ 1 < m
    BY <1>2
  <2>2. Arrives(raw, settled, Arrival(name, to, p, 1), p[1], 1 = m, 1 < m)
    BY <1>3, <2>1
  <2> QED BY <2>1, <2>2 DEF Arrives, Arrival
<1>5. \A k \in 1..length + 1 :
        Arrives(raw, settled, Arrival(name, from, p, k), p[k], k = 1, k < 1)
  <2> SUFFICES ASSUME NEW k \in 1..length + 1
               PROVE  Arrives(raw, settled, Arrival(name, from, p, k), p[k], k = 1, k < 1)
    OBVIOUS
  <2>1. ~(k < 1)
    BY <1>2
  <2>2. CASE k = 1
    BY <1>4, <2>1, <2>2 DEF Arrives, Arrival
  <2>3. CASE k # 1
    <3>1. Arrival(name, from, p, k) = Arrival(name, to, p, k)
      BY <2>3 DEF Arrival
    <3>2. Arrives(raw, settled, Arrival(name, to, p, k), p[k], k = m, k < m)
      BY <1>3
    <3> QED BY <2>1, <2>3, <3>1, <3>2, Zenon DEF Arrives
  <2> QED BY <2>2, <2>3
<1>6. 1 \in 1..length + 2 /\ 1 # length + 2
  BY <1>2
<1>7. Path(raw, settled, from, name, p, 1)
  BY <1>1, <1>5, <1>6, Zenon DEF Path, length
<1>8. After(from, name, p, 1) = from + 2
  BY <1>6 DEF After, Arrival, length
<1> QED BY <1>7, <1>8 DEF HasName

\* A label with the rest of a name after it is the name.
LEMMA LabelFirst ==
    ASSUME NEW raw, NEW settled, NEW at \in Nat, NEW name \in WireNames, NEW rest \in WireNames,
           Len(name) = Len(rest) + 1, \A i \in 1..Len(rest) : name[i + 1] = rest[i],
           LabelAt(raw, settled, at, name[1]), NEW after,
           HasName(raw, settled, at + 1 + Len(name[1]), rest, after)
    PROVE  /\ HasName(raw, settled, at, name, after)
           /\ Remembered(raw, settled, at, name)
<1> DEFINE next == at + 1 + Len(name[1])
           length == Len(rest)
<1>1. PICK p, m : Path(raw, settled, next, rest, p, m) /\ After(next, rest, p, m) = after
  BY DEF HasName
<1>2. length \in Nat /\ m \in 1..length + 2 /\ p \in [1..length + 1 -> Nat]
  BY <1>1 DEF WireNames, Path
<1> DEFINE q == [i \in 1..length + 2 |-> IF i = 1 THEN at ELSE p[i - 1]]
<1>3. q[1] = at /\ \A i \in 1..length + 1 : q[i + 1] = p[i]
  BY <1>2
<1>4. q \in [1..(length + 1) + 1 -> Nat]
  <2> SUFFICES ASSUME NEW i \in 1..length + 2, i # 1
               PROVE  p[i - 1] \in Nat
    BY <1>2
  <2>1. i - 1 \in 1..length + 1
    BY <1>2
  <2> QED BY <1>2, <2>1
<1>5. /\ Len(name) = length + 1
      /\ \A k \in 1..length + 1 : Arrives(raw, settled, Arrival(rest, next, p, k), p[k], k = m, k < m)
      /\ \A k \in 1..length : LabelAt(raw, settled, p[k], rest[k])
      /\ EndAt(raw, settled, p[length + 1])
  BY <1>1 DEF Path
<1>6. \A i \in 1..length : name[i + 1] = rest[i]
  OBVIOUS
<1> HIDE DEF length, q
<1>7. \A k \in 1..length + 1 : Arrival(name, at, q, k + 1) = Arrival(rest, next, p, k)
  <2> SUFFICES ASSUME NEW k \in 1..length + 1
               PROVE  Arrival(name, at, q, k + 1) = Arrival(rest, next, p, k)
    OBVIOUS
  <2>1. k + 1 # 1 /\ (k + 1) - 1 = k
    BY <1>2
  <2>2. Arrival(name, at, q, k + 1) = q[k] + 1 + Len(name[k])
    BY <2>1 DEF Arrival
  <2>3. CASE k = 1
    BY <1>3, <2>2, <2>3 DEF Arrival
  <2>4. CASE k # 1
    <3>1. k - 1 \in 1..length /\ k - 1 \in 1..length + 1 /\ (k - 1) + 1 = k
      BY <1>2, <2>4
    <3>2. q[k] = p[k - 1] /\ name[k] = rest[k - 1]
      BY <1>3, <1>6, <3>1
    <3> QED BY <2>2, <2>4, <3>2 DEF Arrival
  <2> QED BY <2>3, <2>4
<1>8. \A k \in 1..(length + 1) + 1 :
        Arrives(raw, settled, Arrival(name, at, q, k), q[k], k = m + 1, k < m + 1)
  <2> SUFFICES ASSUME NEW k \in 1..(length + 1) + 1
               PROVE  Arrives(raw, settled, Arrival(name, at, q, k), q[k], k = m + 1, k < m + 1)
    OBVIOUS
  <2>1. CASE k = 1
    <3>1. k < m + 1
      BY <1>2, <2>1
    <3> QED BY <1>3, <2>1, <3>1 DEF Arrives, Arrival
  <2>2. CASE k # 1
    <3>1. PICK i \in 1..length + 1 : k = i + 1
      <4>1. k - 1 \in 1..length + 1 /\ k = (k - 1) + 1
        BY <1>2, <2>2
      <4> QED BY <4>1
    <3>2. (k = m + 1 <=> i = m) /\ (k < m + 1 <=> i < m)
      BY <1>2, <3>1
    <3>3. Arrival(name, at, q, k) = Arrival(rest, next, p, i) /\ q[k] = p[i]
      BY <1>3, <1>7, <3>1
    <3>4. Arrives(raw, settled, Arrival(rest, next, p, i), p[i], i = m, i < m)
      BY <1>5
    <3> QED BY <3>2, <3>3, <3>4, Zenon DEF Arrives
  <2> QED BY <2>1, <2>2
<1>9. \A k \in 1..length + 1 : LabelAt(raw, settled, q[k], name[k])
  <2> SUFFICES ASSUME NEW k \in 1..length + 1 PROVE LabelAt(raw, settled, q[k], name[k])
    OBVIOUS
  <2>1. CASE k = 1
    BY <1>3, <2>1
  <2>2. CASE k # 1
    <3>1. k - 1 \in 1..length /\ k - 1 \in 1..length + 1 /\ (k - 1) + 1 = k
      BY <1>2, <2>2
    <3>2. q[k] = p[k - 1] /\ name[k] = rest[k - 1]
      BY <1>3, <1>6, <3>1
    <3> QED BY <1>5, <3>1, <3>2
  <2> QED BY <2>1, <2>2
<1>10. EndAt(raw, settled, q[(length + 1) + 1])
  <2>1. length + 1 \in 1..length + 1
    BY <1>2
  <2> QED BY <1>3, <1>5, <2>1
<1>11. m + 1 \in 1..(length + 1) + 2 /\ m + 1 # 1
  BY <1>2
<1>12. Path(raw, settled, at, name, q, m + 1)
  BY <1>4, <1>5, <1>8, <1>9, <1>10, <1>11, Zenon DEF Path
<1>13. After(at, name, q, m + 1) = after
  <2>1. CASE m = length + 2
    <3>1. m + 1 = Len(name) + 2 /\ length + 1 \in 1..length + 1
      BY <1>2, <1>5, <2>1
    <3>2. q[Len(name) + 1] = p[length + 1]
      BY <1>3, <1>5, <3>1
    <3> QED BY <1>1, <2>1, <3>1, <3>2 DEF After, length
  <2>2. CASE m # length + 2
    <3>1. m + 1 # Len(name) + 2 /\ m \in 1..length + 1
      BY <1>2, <1>5, <2>2
    <3> QED BY <1>1, <1>7, <2>2, <3>1 DEF After, length
  <2> QED BY <2>1, <2>2
<1> QED BY <1>11, <1>12, <1>13 DEF HasName, Remembered

\* Division by a number that is not 0
LEMMA Division ==
    ASSUME NEW a \in Nat, NEW b \in Nat, b > 0
    PROVE  /\ a \div b \in Nat /\ a % b \in Nat /\ a % b < b
           /\ a = (b * (a \div b)) + (a % b)
OBVIOUS

\* Multiples of a number are as far apart as it is.
LEMMA Multiples ==
    ASSUME NEW b \in Nat, NEW m \in Nat, NEW n \in Nat, m < n
    PROVE  (b * m) + b =< b * n
<1>1. PICK d \in Nat : n = m + 1 + d
  <2>1. n - m - 1 \in Nat /\ n = m + 1 + (n - m - 1)
    OBVIOUS
  <2> QED BY <2>1
<1>2. b * n = (b * m) + b + (b * d)
  BY <1>1
<1>3. b * d \in Nat /\ b * m \in Nat
  OBVIOUS
<1> QED BY <1>2, <1>3

\* A number made of a multiple and a remainder has them.
LEMMA Remainder ==
    ASSUME NEW b \in Nat, NEW m \in Nat, NEW r \in Nat, r < b
    PROVE  ((b * m) + r) % b = r /\ ((b * m) + r) \div b = m
<1> DEFINE a == (b * m) + r
           n == a \div b
           s == a % b
<1>1. b > 0 /\ b * m \in Nat /\ a \in Nat
  OBVIOUS
<1>2. n \in Nat /\ s \in Nat /\ s < b /\ (b * m) + r = (b * n) + s
  <2> HIDE DEF a
  <2>1. n \in Nat /\ s \in Nat /\ s < b /\ a = (b * n) + s
    BY <1>1, Division
  <2> QED BY <2>1 DEF a
<1> HIDE DEF n, s
<1>3. b * n \in Nat
  BY <1>2
<1>4. ~(m < n)
  <2> SUFFICES ASSUME m < n PROVE FALSE
    OBVIOUS
  <2>1. (b * m) + b =< b * n
    BY <1>2, Multiples
  <2> QED BY <1>1, <1>2, <1>3, <2>1
<1>5. ~(n < m)
  <2> SUFFICES ASSUME n < m PROVE FALSE
    OBVIOUS
  <2>1. (b * n) + b =< b * m
    BY <1>2, Multiples
  <2> QED BY <1>1, <1>2, <1>3, <2>1
<1>6. n = m
  BY <1>2, <1>4, <1>5
<1>7. s = r
  BY <1>1, <1>2, <1>3, <1>6
<1> QED BY <1>6, <1>7 DEF n, s

\* A smaller number is its own remainder.
LEMMA SmallRemainder ==
    ASSUME NEW a \in Nat, NEW b \in Nat, a < b
    PROVE  a % b = a
OBVIOUS

\* What a pointer has of an offset that it reaches, and what is read from it
LEMMA PointerOctets ==
    ASSUME NEW offset \in Nat, offset < PointerReach
    PROVE  /\ PointerMark + ((offset \div Base) % MAX_LABEL_LENGTH) \in Octet
           /\ PointerMark + ((offset \div Base) % MAX_LABEL_LENGTH) >= PointerMark
           /\ offset % Base \in Octet
           /\ (((PointerMark + ((offset \div Base) % MAX_LABEL_LENGTH)) * Base) + (offset % Base))
                 % PointerReach = offset
<1> DEFINE width == MAX_LABEL_LENGTH
           base == Base
           h == offset \div base
           l == offset % base
<1>1. /\ width \in Nat /\ base \in Nat /\ base > 0 /\ width > 0 /\ base = 4 * width
      /\ PointerMark = 3 * width /\ Octet = 0..base - 1 /\ PointerReach = width * base
  BY Limits DEF Octet, PointerReach
<1> HIDE DEF width, base
<1>2. h \in Nat /\ l \in Nat /\ l < base /\ offset = (base * h) + l
  BY <1>1, Division
<1> HIDE DEF h, l
<1>3. h < width
  <2> SUFFICES ASSUME ~(h < width) PROVE FALSE
    OBVIOUS
  <2>1. CASE h = width
    <3>1. base * h = width * base /\ width * base \in Nat
      BY <1>1, <2>1
    <3> QED BY <1>1, <1>2, <3>1
  <2>2. CASE width < h
    <3>1. (base * width) + base =< base * h
      BY <1>1, <1>2, <2>2, Multiples
    <3>2. base * width = width * base /\ base * width \in Nat /\ base * h \in Nat
      BY <1>1, <1>2
    <3> QED BY <1>1, <1>2, <3>1, <3>2
  <2> QED BY <1>1, <1>2, <2>1, <2>2
<1>4. h % width = h
  BY <1>1, <1>2, <1>3, SmallRemainder
<1>5. /\ PointerMark + h \in 0..base - 1 /\ PointerMark + h >= PointerMark
      /\ l \in 0..base - 1
  BY <1>1, <1>2, <1>3
<1>6. ((PointerMark + h) * base) + l = ((width * base) * 3) + offset
  <2>1. (3 * width + h) * base = ((width * base) * 3) + (base * h)
    BY <1>1, <1>2
  <2> QED BY <1>1, <1>2, <2>1
<1>7. (((width * base) * 3) + offset) % (width * base) = offset
  <2>1. width * base \in Nat /\ offset < width * base
    BY <1>1
  <2> QED BY <2>1, Remainder
<1> QED BY <1>1, <1>4, <1>5, <1>6, <1>7 DEF h, l, base, width

\* A writer of octets
IsWriter(w) ==
    /\ w = [raw |-> w.raw, offsets |-> w.offsets, thrown |-> w.thrown]
    /\ w.raw \in Seq(Octet)
    /\ \A name \in DOMAIN w.offsets : w.offsets[name] \in Nat

\* What octets are put into
LEMMA PutOctetsIn ==
    ASSUME NEW a, NEW b, NEW c, NEW x
    PROVE  PutOctets([raw |-> a, offsets |-> b, thrown |-> c], x) =
             [raw |-> a \o x, offsets |-> b, thrown |-> c]
<1> DEFINE w == [raw |-> a, offsets |-> b, thrown |-> c]
           y == a \o x
<1>1. w.raw = a
  OBVIOUS
<1>2. PutOctets(w, x) = [w EXCEPT !.raw = w.raw \o x]
  BY DEF PutOctets
<1>3. PutOctets(w, x) = [w EXCEPT !.raw = y]
  <2> HIDE DEF w
  <2> QED BY <1>1, <1>2
<1>4. [w EXCEPT !.raw = y] = [raw |-> y, offsets |-> b, thrown |-> c]
  <2> HIDE DEF y
  <2> QED OBVIOUS
<1> QED BY <1>3, <1>4

\* Octets are added after those there were.
LEMMA PutOctetsPuts ==
    ASSUME NEW w, IsWriter(w), NEW octets \in Seq(Octet)
    PROVE  LET put == PutOctets(w, octets)
           IN  /\ IsWriter(put) /\ put.offsets = w.offsets
               /\ Len(w.raw) \in Nat /\ Len(put.raw) = Len(w.raw) + Len(octets)
               /\ \A i \in 1..Len(w.raw) : put.raw[i] = w.raw[i]
               /\ \A i \in 1..Len(octets) : put.raw[Len(w.raw) + i] = octets[i]
<1> DEFINE raw == w.raw \o octets
           put == PutOctets(w, octets)
<1>1. w.raw \in Seq(Octet) /\ Len(w.raw) \in Nat /\ Len(octets) \in Nat
  BY DEF IsWriter
<1>2. raw \in Seq(Octet) /\ Len(raw) = Len(w.raw) + Len(octets)
      /\ \A i \in 1..Len(w.raw) + Len(octets) :
            raw[i] = IF i <= Len(w.raw) THEN w.raw[i] ELSE octets[i - Len(w.raw)]
  BY <1>1, ConcatProperties
<1>3. put = [raw |-> raw, offsets |-> w.offsets, thrown |-> w.thrown]
  <2>1. w = [raw |-> w.raw, offsets |-> w.offsets, thrown |-> w.thrown]
    BY DEF IsWriter
  <2>2. PutOctets([raw |-> w.raw, offsets |-> w.offsets, thrown |-> w.thrown], octets) =
          [raw |-> raw, offsets |-> w.offsets, thrown |-> w.thrown]
    <3> DEFINE a == w.raw
               b == w.offsets
               c == w.thrown
    <3> HIDE DEF a, b, c
    <3>1. PutOctets([raw |-> a, offsets |-> b, thrown |-> c], octets) =
            [raw |-> a \o octets, offsets |-> b, thrown |-> c]
      BY PutOctetsIn
    <3> QED BY <3>1 DEF a, b, c
  <2> HIDE DEF raw
  <2> QED BY <2>1, <2>2
<1>4. put.raw = raw /\ put.offsets = w.offsets /\ put.thrown = w.thrown
  BY <1>3
<1> HIDE DEF raw, put
<1>5. IsWriter(put)
  BY <1>2, <1>3, <1>4 DEF IsWriter
<1>6. \A i \in 1..Len(w.raw) : put.raw[i] = w.raw[i]
  BY <1>1, <1>2, <1>4
<1>7. \A i \in 1..Len(octets) : put.raw[Len(w.raw) + i] = octets[i]
  <2> SUFFICES ASSUME NEW i \in 1..Len(octets)
               PROVE  put.raw[Len(w.raw) + i] = octets[i]
    OBVIOUS
  <2>1. Len(w.raw) + i \in 1..Len(w.raw) + Len(octets) /\ ~(Len(w.raw) + i <= Len(w.raw))
        /\ (Len(w.raw) + i) - Len(w.raw) = i
    BY <1>1
  <2> QED BY <1>2, <1>4, <2>1
<1> QED BY <1>1, <1>2, <1>4, <1>5, <1>6, <1>7 DEF put

\* One octet, which keeps its value
LEMMA PutOctetPuts ==
    ASSUME NEW w, IsWriter(w), NEW n \in Octet
    PROVE  LET put == PutOctet(w, n)
           IN  /\ IsWriter(put) /\ put.offsets = w.offsets
               /\ Len(w.raw) \in Nat /\ Len(put.raw) = Len(w.raw) + 1
               /\ \A i \in 1..Len(w.raw) : put.raw[i] = w.raw[i]
               /\ put.raw[Len(w.raw) + 1] = n
<1> DEFINE put == PutOctet(w, n)
<1>1. n % Base = n
  BY Limits, SmallRemainder DEF Octet
<1>2. put = PutOctets(w, <<n>>)
  BY <1>1 DEF PutOctet
<1>3. <<n>> \in Seq(Octet) /\ Len(<<n>>) = 1 /\ <<n>>[1] = n /\ 1 \in 1..1
  OBVIOUS
<1> HIDE DEF put
<1>4. /\ IsWriter(put) /\ put.offsets = w.offsets
      /\ Len(w.raw) \in Nat /\ Len(put.raw) = Len(w.raw) + Len(<<n>>)
      /\ \A i \in 1..Len(w.raw) : put.raw[i] = w.raw[i]
      /\ \A i \in 1..Len(<<n>>) : put.raw[Len(w.raw) + i] = <<n>>[i]
  BY <1>2, <1>3, PutOctetsPuts
<1>5. put.raw[Len(w.raw) + 1] = n
  BY <1>3, <1>4
<1> QED BY <1>3, <1>4, <1>5 DEF put

\* A label is put as it is read.
LEMMA PutStringPuts ==
    ASSUME NEW w, IsWriter(w), NEW label \in Labels, NEW settled,
           settled = Len(w.raw) + 1 .. Len(PutString(w, label).raw)
    PROVE  LET put == PutString(w, label)
           IN  /\ IsWriter(put) /\ put.offsets = w.offsets
               /\ Len(w.raw) \in Nat /\ Len(put.raw) = Len(w.raw) + 1 + Len(label)
               /\ \A i \in 1..Len(w.raw) : put.raw[i] = w.raw[i]
               /\ LabelAt(put.raw, settled, Len(w.raw), label)
<1> DEFINE length == Len(label)
           one == PutOctet(w, length)
           put == PutString(w, label)
<1>1. label \in Seq(Octet) /\ length \in Nat /\ length \in Octet
  BY Limits DEF Labels, Octet
<1>2. put = PutOctets(one, label)
  BY DEF PutString
<1>3. /\ IsWriter(one) /\ one.offsets = w.offsets
      /\ Len(w.raw) \in Nat /\ Len(one.raw) = Len(w.raw) + 1
      /\ \A i \in 1..Len(w.raw) : one.raw[i] = w.raw[i]
      /\ one.raw[Len(w.raw) + 1] = length
  <2> HIDE DEF length
  <2> QED BY <1>1, PutOctetPuts
<1> HIDE DEF one, put
<1>4. /\ IsWriter(put) /\ put.offsets = one.offsets
      /\ Len(put.raw) = Len(one.raw) + length
      /\ \A i \in 1..Len(one.raw) : put.raw[i] = one.raw[i]
      /\ \A i \in 1..length : put.raw[Len(one.raw) + i] = label[i]
  BY <1>1, <1>2, <1>3, PutOctetsPuts
<1>5. settled = Len(w.raw) + 1 .. Len(put.raw)
  BY DEF put
<1> HIDE DEF length
<1>6. Len(put.raw) = Len(w.raw) + 1 + length
  BY <1>1, <1>3, <1>4
<1>7. \A i \in 1..Len(w.raw) : put.raw[i] = w.raw[i]
  BY <1>3, <1>4
<1> DEFINE start == Len(w.raw)
           end == Len(put.raw)
<1>8. /\ start \in Nat /\ length \in Nat /\ end = start + 1 + length /\ settled = start + 1 .. end
      /\ Len(one.raw) = start + 1
  BY <1>1, <1>3, <1>5, <1>6
<1>9. \A i \in 1..Len(one.raw) : put.raw[i] = one.raw[i]
  BY <1>4
<1>10. \A i \in 1..length : put.raw[Len(one.raw) + i] = label[i]
  BY <1>4
<1>11. one.raw[start + 1] = length
  BY <1>3
<1> HIDE DEF start, end
<1>12. start + 1 \in settled /\ start + 1 \in 1..start + 1
  BY <1>8
<1>13. put.raw[start + 1] = length
  BY <1>8, <1>9, <1>11, <1>12, Zenon
<1>14. ASSUME NEW i \in 1..length
       PROVE  start + 1 + i \in settled /\ put.raw[start + 1 + i] = label[i]
  <2>1. start + 1 + i \in settled
    BY <1>8
  <2>2. put.raw[start + 1 + i] = label[i]
    BY <1>8, <1>10, Zenon
  <2> QED BY <2>1, <2>2
<1>15. LabelAt(put.raw, settled, start, label)
  BY <1>12, <1>13, <1>14 DEF LabelAt, length
<1> QED BY <1>3, <1>4, <1>6, <1>7, <1>15 DEF put, length, start

\* A pointer points where it is to, within its reach.
LEMMA PutPointerPuts ==
    ASSUME NEW w, IsWriter(w), NEW offset \in Nat
    PROVE  LET put == PutPointer(w, offset)
           IN  /\ IsWriter(put) /\ put.offsets = w.offsets
               /\ Len(w.raw) \in Nat /\ Len(put.raw) = Len(w.raw) + 2
               /\ \A i \in 1..Len(w.raw) : put.raw[i] = w.raw[i]
               /\ offset < PointerReach =>
                     PointsTo(put.raw, Len(w.raw) + 1 .. Len(put.raw), Len(w.raw), offset)
<1> DEFINE mark == PointerMark + ((offset \div Base) % MAX_LABEL_LENGTH)
           low == offset % Base
           put == PutPointer(w, offset)
<1>1. mark \in Octet /\ low \in Octet
  <2> DEFINE h == offset \div Base
             l == h % MAX_LABEL_LENGTH
  <2>1. h \in Nat /\ low \in Nat /\ low < Base
    BY Limits, Division
  <2>2. l \in Nat /\ l < MAX_LABEL_LENGTH
    <3> HIDE DEF h
    <3> QED BY <2>1, Limits, Division
  <2> HIDE DEF h, l, low
  <2>3. PointerMark + l \in Octet /\ low \in Octet
    BY <2>1, <2>2, Limits DEF Octet
  <2> QED BY <2>3 DEF l, h
<1>2. put = PutOctets(w, <<mark, low>>)
  BY DEF PutPointer
<1>3. offset < PointerReach =>
        mark >= PointerMark /\ ((mark * Base) + low) % PointerReach = offset
  BY PointerOctets
<1> HIDE DEF mark, low, put
<1>4. /\ <<mark, low>> \in Seq(Octet) /\ Len(<<mark, low>>) = 2
      /\ <<mark, low>>[1] = mark /\ <<mark, low>>[2] = low
  BY <1>1
<1>5. /\ IsWriter(put) /\ put.offsets = w.offsets
      /\ Len(w.raw) \in Nat /\ Len(put.raw) = Len(w.raw) + Len(<<mark, low>>)
      /\ \A i \in 1..Len(w.raw) : put.raw[i] = w.raw[i]
      /\ \A i \in 1..Len(<<mark, low>>) : put.raw[Len(w.raw) + i] = <<mark, low>>[i]
  BY <1>2, <1>4, PutOctetsPuts
<1>6. Len(put.raw) = Len(w.raw) + 2 /\ 1 \in 1..2 /\ 2 \in 1..2
  BY <1>4, <1>5
<1>7. put.raw[Len(w.raw) + 1] = mark /\ put.raw[Len(w.raw) + 2] = low
  BY <1>4, <1>5, <1>6
<1>8. Len(w.raw) + 1 \in Len(w.raw) + 1 .. Len(put.raw)
      /\ Len(w.raw) + 2 \in Len(w.raw) + 1 .. Len(put.raw)
  BY <1>5, <1>6
<1>9. offset < PointerReach =>
        PointsTo(put.raw, Len(w.raw) + 1 .. Len(put.raw), Len(w.raw), offset)
  BY <1>3, <1>7, <1>8 DEF PointsTo
<1> QED BY <1>5, <1>6, <1>9 DEF put

\* One offset more is remembered, and no octet changes.
LEMMA RememberPuts ==
    ASSUME NEW w, IsWriter(w), NEW name
    PROVE  LET put == Remember(w, name)
           IN  /\ IsWriter(put) /\ put.raw = w.raw
               /\ DOMAIN put.offsets = {name} \cup DOMAIN w.offsets
               /\ put.offsets[name] = Len(w.raw) % (Base * Base)
               /\ \A x \in DOMAIN w.offsets : x # name => put.offsets[x] = w.offsets[x]
<1> DEFINE at == Len(w.raw) % (Base * Base)
           offsets == WithOffset(w.offsets, name, at)
           put == Remember(w, name)
<1>1. Len(w.raw) \in Nat
  BY DEF IsWriter
<1>2. at \in Nat
  <2>1. Base * Base \in Nat /\ Base * Base > 0
    BY Limits
  <2> QED BY <1>1, <2>1, Division
<1>3. w = [raw |-> w.raw, offsets |-> w.offsets, thrown |-> w.thrown]
  BY DEF IsWriter
<1>4. put = [raw |-> w.raw, offsets |-> offsets, thrown |-> w.thrown]
  <2>1. Remember([raw |-> w.raw, offsets |-> w.offsets, thrown |-> w.thrown], name) =
          [raw |-> w.raw, offsets |-> offsets, thrown |-> w.thrown]
    BY DEF Remember
  <2> HIDE DEF offsets
  <2> QED BY <1>3, <2>1
<1>5. put.raw = w.raw /\ put.offsets = offsets /\ put.thrown = w.thrown
  BY <1>4
<1> HIDE DEF at, put
<1>6. DOMAIN offsets = {name} \cup DOMAIN w.offsets
  BY DEF WithOffset
<1>7. offsets[name] = at
  BY DEF WithOffset
<1>8. \A x \in DOMAIN w.offsets : x # name => offsets[x] = w.offsets[x]
  BY DEF WithOffset
<1> HIDE DEF offsets
<1>9. IsWriter(put)
  BY <1>2, <1>4, <1>5, <1>6, <1>7, <1>8 DEF IsWriter
<1> QED BY <1>5, <1>6, <1>7, <1>8, <1>9 DEF put, at

\* The first labels of unparse_name
Puts(w, name, compress, k, f) ==
    f = [i \in 0..k |->
            IF i = 0 THEN [writer |-> w, pointed |-> FALSE]
            ELSE PutLabel(f[i - 1], SubSeq(name, i, Len(name)), compress)]

\* The labels of unparse_name: there is a function of them, for any number of labels.
LEMMA PutsExists ==
    ASSUME NEW w, NEW name, NEW compress, NEW k \in Nat
    PROVE  \E f : Puts(w, name, compress, k, f)
<1> DEFINE first == [writer |-> w, pointed |-> FALSE]
           next(before, i) == PutLabel(before, SubSeq(name, i, Len(name)), compress)
           T == {i \in Nat : ~ \E f : Puts(w, name, compress, i, f)}
<1> SUFFICES ASSUME T # {} PROVE FALSE
  OBVIOUS
<1>1. T \subseteq Nat
  OBVIOUS
<1>2. PICK m \in T : \A i \in T : m =< i
  <2> HIDE DEF T
  <2> QED BY <1>1, Least
<1>3. CASE m = 0
  <2> DEFINE f == [i \in 0..0 |-> first]
  <2>1. f = [i \in 0..0 |-> IF i = 0 THEN first ELSE next(f[i - 1], i)]
    OBVIOUS
  <2> HIDE DEF f
  <2> QED BY <1>3, <2>1 DEF Puts
<1>4. CASE m # 0
  <2>1. m \in Nat /\ m - 1 \in Nat /\ m - 1 \notin T
    BY <1>2, <1>4
  <2>2. PICK f : Puts(w, name, compress, m - 1, f)
    BY <2>1
  <2> DEFINE g == [i \in 0..m |-> IF i = m THEN next(f[m - 1], m) ELSE f[i]]
  <2>3. ASSUME NEW i \in 0..m
        PROVE  g[i] = IF i = 0 THEN first ELSE next(g[i - 1], i)
    <3>1. CASE i = m
      <4>1. g[i] = next(f[m - 1], m) /\ g[i - 1] = f[m - 1]
        BY <2>1, <3>1
      <4> QED BY <1>4, <3>1, <4>1
    <3>2. CASE i = 0
      <4>1. f[0] = first
        BY <2>1, <2>2 DEF Puts
      <4> QED BY <1>4, <2>1, <3>2, <4>1
    <3>3. CASE i # 0 /\ i # m
      <4>1. i \in 0..(m - 1) /\ i - 1 \in 0..m /\ i - 1 # m
        BY <2>1, <3>3
      <4>2. f[i] = next(f[i - 1], i)
        BY <2>2, <3>3, <4>1 DEF Puts
      <4> QED BY <3>3, <4>1, <4>2
    <3> QED BY <3>1, <3>2, <3>3
  <2>4. g = [i \in 0..m |-> g[i]]
    OBVIOUS
  <2> HIDE DEF g
  <2>5. g = [i \in 0..m |-> IF i = 0 THEN first ELSE next(g[i - 1], i)]
    BY <2>3, <2>4
  <2> QED BY <2>5 DEF Puts
<1> QED BY <1>3, <1>4

\* The rounds of unparse_name
LEMMA PutNameRounds ==
    ASSUME NEW w, NEW name \in WireNames, NEW compress
    PROVE  \E f :
             /\ f[0] = [writer |-> w, pointed |-> FALSE]
             /\ \A k \in 1..Len(name) :
                   f[k] = PutLabel(f[k - 1], SubSeq(name, k, Len(name)), compress)
             /\ PutName(w, name, compress) =
                   IF f[Len(name)].pointed THEN f[Len(name)].writer
                   ELSE PutOctet(f[Len(name)].writer, 0)
<1> DEFINE f == CHOOSE f : Puts(w, name, compress, Len(name), f)
<1>1. Len(name) \in Nat
  BY DEF WireNames
<1>2. Puts(w, name, compress, Len(name), f)
  BY <1>1, PutsExists
<1>3. PutName(w, name, compress) =
        IF f[Len(name)].pointed THEN f[Len(name)].writer ELSE PutOctet(f[Len(name)].writer, 0)
  BY DEF PutName, Puts
<1> HIDE DEF f
<1>4. f[0] = [writer |-> w, pointed |-> FALSE]
  BY <1>1, <1>2 DEF Puts
<1>5. \A k \in 1..Len(name) : f[k] = PutLabel(f[k - 1], SubSeq(name, k, Len(name)), compress)
  <2> SUFFICES ASSUME NEW k \in 1..Len(name)
               PROVE  f[k] = PutLabel(f[k - 1], SubSeq(name, k, Len(name)), compress)
    OBVIOUS
  <2>1. k \in 0..Len(name) /\ k # 0
    BY <1>1
  <2> QED BY <1>2, <2>1, Zenon DEF Puts
<1> QED BY <1>3, <1>4, <1>5

\* What one writer has and the other had, once it is settled
Added(w, settled, put) == settled \cup (Len(w.raw) + 1 .. Len(put.raw))
Longer(w, put) ==
    /\ IsWriter(put) /\ Len(w.raw) =< Len(put.raw)
    /\ \A i \in 1..Len(w.raw) : put.raw[i] = w.raw[i]

\* A name of which the first k labels have been written, and nothing else: when
\* the rest of it is where it is to be, the whole is where it began.
Going(w, settled, name, k, put) ==
    /\ \A x \in DOMAIN put.offsets :
          \/ x \in DOMAIN w.offsets /\ put.offsets[x] = w.offsets[x]
          \/ Len(x) > Len(name) - k
    /\ \A raw, known, after :
          /\ Keeps(put.raw, Added(w, settled, put), raw, known)
          /\ HasName(raw, known, Len(put.raw), SubSeq(name, k + 1, Len(name)), after)
          => /\ Remembers(raw, known, put.offsets)
             /\ HasName(raw, known, Len(w.raw), name, after)
\* A name that has been written to its end
WholeName(w, settled, name, put) ==
    /\ Remembers(put.raw, Added(w, settled, put), put.offsets)
    /\ HasName(put.raw, Added(w, settled, put), Len(w.raw), name, Len(put.raw))
PutSoFar(w, settled, name, k, put) ==
    /\ Longer(w, put.writer)
    /\ put.pointed \in BOOLEAN
    /\ Len(put.writer.raw) =< PointerReach =>
          IF put.pointed THEN WholeName(w, settled, name, put.writer)
          ELSE Going(w, settled, name, k, put.writer)

\* What is left of a name from a label on
LEMMA SuffixIs ==
    ASSUME NEW name \in WireNames, NEW k \in 1..Len(name)
    PROVE  /\ SubSeq(name, k, Len(name)) \in WireNames
           /\ Len(SubSeq(name, k, Len(name))) = Len(name) - k + 1
           /\ \A i \in 1..Len(name) - k + 1 : SubSeq(name, k, Len(name))[i] = name[k + i - 1]
           /\ Head(SubSeq(name, k, Len(name))) = name[k] /\ name[k] \in Labels
           /\ SubSeq(name, k, Len(name))[1] = name[k]
<1>1. Len(name) \in Nat /\ \A i \in k..Len(name) : name[i] \in Labels
  BY DEF WireNames
<1>2. k \in Int /\ Len(name) \in Int /\ k =< Len(name)
  BY <1>1
<1> DEFINE n == Len(name)
           rest == SubSeq(name, k, n)
<1>3. /\ rest \in Seq(Labels)
      /\ Len(rest) = IF k <= n THEN n - k + 1 ELSE 0
      /\ \A i \in 1..n - k + 1 : rest[i] = name[k + i - 1]
  <2> HIDE DEF n
  <2> QED BY <1>1, <1>2, SubSeqProperties DEF n
<1>4. 1 \in 1..n - k + 1 /\ k + 1 - 1 = k
  BY <1>1
<1>5. rest[1] = name[k] /\ name[k] \in Labels
  BY <1>1, <1>3, <1>4
<1>6. Head(rest) = name[k]
  <2> HIDE DEF rest
  <2> QED BY <1>2, <1>3, <1>5
<1> QED BY <1>2, <1>3, <1>5, <1>6 DEF WireNames

\* A name that a pointer may lead to begins before what has been written ends.
LEMMA RememberedBelow ==
    ASSUME NEW raw, NEW bound \in Nat, NEW settled, settled \subseteq 1..bound,
           NEW at \in Nat, NEW name \in WireNames, Remembered(raw, settled, at, name)
    PROVE  at < bound
<1>1. PICK p, m : Path(raw, settled, at, name, p, m) /\ m # 1
  BY DEF Remembered
<1>2. Len(name) \in Nat /\ m \in 1..Len(name) + 2
  BY <1>1 DEF WireNames, Path
<1>3. p[1] = at
  <2>1. 1 \in 1..Len(name) + 1 /\ 1 < m
    BY <1>1, <1>2
  <2>2. Arrives(raw, settled, Arrival(name, at, p, 1), p[1], 1 = m, 1 < m)
    BY <1>1, <2>1 DEF Path
  <2> QED BY <2>1, <2>2 DEF Arrives, Arrival
<1>4. at + 1 \in settled
  <2>1. CASE Len(name) = 0
    BY <1>1, <1>3, <2>1 DEF Path, EndAt
  <2>2. CASE Len(name) # 0
    <3>1. 1 \in 1..Len(name)
      BY <1>2, <2>2
    <3> QED BY <1>1, <1>3, <3>1 DEF Path, LabelAt
  <2> QED BY <2>1, <2>2
<1> QED BY <1>4

\* A writer that is longer than one that is longer
LEMMA LongerStill ==
    ASSUME NEW w, IsWriter(w), NEW put, Longer(w, put), NEW more, Longer(put, more)
    PROVE  Longer(w, more)
<1>1. Len(w.raw) \in Nat /\ Len(put.raw) \in Nat /\ Len(more.raw) \in Nat
  BY DEF IsWriter, Longer
<1>2. Len(w.raw) =< Len(put.raw) /\ Len(put.raw) =< Len(more.raw) /\ IsWriter(more)
  BY DEF Longer
<1>3. \A i \in 1..Len(w.raw) : i \in 1..Len(put.raw)
  BY <1>1, <1>2
<1> QED BY <1>1, <1>2, <1>3 DEF Longer

\* What is settled stays so as more is written.
LEMMA AddedKept ==
    ASSUME NEW w, IsWriter(w), NEW settled, settled \subseteq 1..Len(w.raw), NEW put,
           Longer(w, put), NEW more, Longer(put, more)
    PROVE  /\ Keeps(w.raw, settled, put.raw, Added(w, settled, put))
           /\ Keeps(put.raw, Added(w, settled, put), more.raw, Added(w, settled, more))
<1>1. Len(w.raw) \in Nat /\ Len(put.raw) \in Nat /\ Len(more.raw) \in Nat
  BY DEF IsWriter, Longer
<1>2. Len(w.raw) =< Len(put.raw) /\ Len(put.raw) =< Len(more.raw)
  BY DEF Longer
<1>3. Added(w, settled, put) \subseteq Added(w, settled, more)
  BY <1>1, <1>2 DEF Added
<1>4. Added(w, settled, put) \subseteq 1..Len(put.raw)
  <2>1. settled \subseteq 1..Len(put.raw)
    <3>1. 1..Len(w.raw) \subseteq 1..Len(put.raw)
      BY <1>1, <1>2
    <3> QED BY <3>1
  <2>2. Len(w.raw) + 1 .. Len(put.raw) \subseteq 1..Len(put.raw)
    BY <1>1, <1>2
  <2> QED BY <2>1, <2>2 DEF Added
<1>5. settled \subseteq Added(w, settled, put)
  BY DEF Added
<1> QED BY <1>3, <1>4, <1>5 DEF Keeps, Longer

\* What stays, and stays again, stays.
LEMMA KeepsOn ==
    ASSUME NEW raw, NEW settled, NEW raw2, NEW settled2, NEW raw3, NEW settled3,
           Keeps(raw, settled, raw2, settled2), Keeps(raw2, settled2, raw3, settled3)
    PROVE  Keeps(raw, settled, raw3, settled3)
BY DEF Keeps

\* A pointer to what is left of the name ends it.
LEMMA GoingOn ==
    ASSUME NEW w, IsWriter(w), NEW settled, settled \subseteq 1..Len(w.raw),
           Remembers(w.raw, settled, w.offsets), NEW name \in WireNames, Len(w.raw) =< PointerReach,
           NEW k \in 1..Len(name), NEW put, Longer(w, put), Going(w, settled, name, k - 1, put),
           NEW at, NEW left, at = Len(put.raw), left = SubSeq(name, k, Len(name)),
           left \in DOMAIN put.offsets, Len(put.raw) =< PointerReach,
           NEW more, more = PutPointer(put, put.offsets[left])
    PROVE  WholeName(w, settled, name, more)
<1> DEFINE offset == put.offsets[left]
           known == Added(w, settled, more)
<1>1. IsWriter(put) /\ at \in Nat /\ Len(name) \in Nat /\ (k - 1) + 1 = k
  BY DEF Longer, IsWriter, WireNames
<1>2. left \in WireNames /\ Len(left) = Len(name) - k + 1
  BY SuffixIs
<1>3. left \in DOMAIN w.offsets /\ offset = w.offsets[left]
  <2>1. \/ left \in DOMAIN w.offsets /\ put.offsets[left] = w.offsets[left]
        \/ Len(left) > Len(name) - (k - 1)
    BY DEF Going
  <2>2. ~(Len(left) > Len(name) - (k - 1))
    BY <1>1, <1>2
  <2> QED BY <2>1, <2>2
<1>4. offset \in Nat /\ Remembered(w.raw, settled, offset, left)
  BY <1>3 DEF Remembers
<1> HIDE DEF offset
<1>5. Len(w.raw) \in Nat /\ PointerReach \in Nat
  <2>1. MAX_LABEL_LENGTH * Base \in Nat
    BY Limits
  <2> QED BY <2>1 DEF IsWriter, PointerReach
<1>6. offset < PointerReach
  <2>1. offset < Len(w.raw)
    BY <1>2, <1>4, <1>5, RememberedBelow
  <2> QED BY <1>4, <1>5, <2>1
<1>7. /\ IsWriter(more) /\ more.offsets = put.offsets
      /\ Len(more.raw) = at + 2
      /\ \A i \in 1..at : more.raw[i] = put.raw[i]
      /\ PointsTo(more.raw, at + 1 .. Len(more.raw), at, offset)
  BY <1>1, <1>4, <1>6, PutPointerPuts DEF offset
<1>8. Longer(put, more)
  BY <1>1, <1>7 DEF Longer
<1>9. /\ Keeps(w.raw, settled, put.raw, Added(w, settled, put))
      /\ Keeps(put.raw, Added(w, settled, put), more.raw, known)
  BY <1>8, AddedKept
<1>10. Remembered(more.raw, known, offset, left)
  <2>1. Keeps(w.raw, settled, more.raw, known)
    BY <1>9, KeepsOn
  <2> QED BY <1>4, <2>1, KeepsNames DEF Remembered
<1>11. PointsTo(more.raw, known, at, offset)
  <2>1. at + 1 \in at + 1 .. Len(more.raw) /\ at + 2 \in at + 1 .. Len(more.raw)
    BY <1>1, <1>7
  <2>2. at + 1 .. Len(more.raw) \subseteq Len(w.raw) + 1 .. Len(more.raw)
    BY <1>1, <1>5, <1>7 DEF Longer
  <2>3. at + 1 \in known /\ at + 2 \in known
    BY <2>1, <2>2 DEF Added
  <2> QED BY <1>7, <2>3 DEF PointsTo
<1>12. HasName(more.raw, known, at, left, Len(more.raw))
  <2>1. HasName(more.raw, known, at, left, at + 2)
    BY <1>1, <1>2, <1>4, <1>10, <1>11, PointerFirst
  <2> QED BY <1>7, <2>1
<1>13. /\ Remembers(more.raw, known, put.offsets)
       /\ HasName(more.raw, known, Len(w.raw), name, Len(more.raw))
  <2> HIDE DEF known
  <2> QED BY <1>1, <1>9, <1>12, Zenon DEF Going
<1> QED BY <1>7, <1>13 DEF WholeName

\* A label more, and what is left of the name from it on remembered or not
LEMMA GoingFurther ==
    ASSUME NEW w, IsWriter(w), NEW settled, settled \subseteq 1..Len(w.raw),
           NEW name \in WireNames, NEW k \in 1..Len(name), NEW put, Longer(w, put),
           Going(w, settled, name, k - 1, put),
           NEW at, NEW left, at = Len(put.raw), left = SubSeq(name, k, Len(name)),
           NEW one, one \in {put, Remember(put, left)},
           NEW more, more = PutString(one, Head(left)), Len(more.raw) =< PointerReach
    PROVE  Longer(put, more) /\ Going(w, settled, name, k, more)
<1> DEFINE label == name[k]
           rest == SubSeq(name, k + 1, Len(name))
<1>1. IsWriter(put) /\ at \in Nat /\ Len(name) \in Nat /\ (k - 1) + 1 = k /\ Len(w.raw) \in Nat
      /\ Len(w.raw) =< at
  BY DEF Longer, IsWriter, WireNames
<1>2. /\ left \in WireNames /\ Len(left) = Len(name) - k + 1
      /\ \A i \in 1..Len(name) - k + 1 : left[i] = name[k + i - 1]
      /\ Head(left) = label /\ label \in Labels /\ left[1] = label
  BY SuffixIs
<1>3. /\ rest \in WireNames /\ Len(rest) = Len(name) - k
      /\ \A i \in 1..Len(name) - k : rest[i] = name[k + i]
  <2> DEFINE n == Len(name)
             from == k + 1
  <2>1. \A i \in from..n : name[i] \in Labels
    BY <1>1 DEF WireNames
  <2>2. from \in Int /\ n \in Int
    BY <1>1
  <2>3. /\ SubSeq(name, from, n) \in Seq(Labels)
        /\ Len(SubSeq(name, from, n)) = IF from <= n THEN n - from + 1 ELSE 0
        /\ \A i \in 1..n - from + 1 : SubSeq(name, from, n)[i] = name[from + i - 1]
    <3> HIDE DEF n, from
    <3> QED BY <2>1, <2>2, SubSeqProperties
  <2>4. (IF from <= n THEN n - from + 1 ELSE 0) = n - k /\ n - from + 1 = n - k
    BY <1>1
  <2>5. \A i \in 1..n - k : from + i - 1 = k + i
    BY <1>1
  <2> QED BY <2>3, <2>4, <2>5 DEF WireNames
<1> HIDE DEF label, rest
<1>4. IsWriter(one) /\ one.raw = put.raw
  BY <1>1, RememberPuts
<1>5. /\ IsWriter(more) /\ more.offsets = one.offsets
      /\ Len(more.raw) = at + 1 + Len(label)
      /\ \A i \in 1..at : more.raw[i] = put.raw[i]
      /\ LabelAt(more.raw, at + 1 .. Len(more.raw), at, label)
  <2> DEFINE new == Len(one.raw) + 1 .. Len(PutString(one, label).raw)
  <2>1. more = PutString(one, label) /\ Len(one.raw) = at
    BY <1>2, <1>4
  <2>2. new = at + 1 .. Len(more.raw)
    BY <2>1
  <2>3. /\ IsWriter(PutString(one, label)) /\ PutString(one, label).offsets = one.offsets
        /\ Len(PutString(one, label).raw) = Len(one.raw) + 1 + Len(label)
        /\ \A i \in 1..Len(one.raw) : PutString(one, label).raw[i] = one.raw[i]
        /\ LabelAt(PutString(one, label).raw, new, Len(one.raw), label)
    BY <1>2, <1>4, PutStringPuts
  <2> HIDE DEF new
  <2> QED BY <1>4, <2>1, <2>2, <2>3
<1>6. Len(label) \in Nat /\ Len(label) >= 1
  BY <1>2, Limits DEF Labels
<1>7. Longer(put, more) /\ at < Len(more.raw)
  BY <1>1, <1>5, <1>6 DEF Longer
<1>8. at % (Base * Base) = at
  <2> DEFINE bound == Base * Base
             reach == MAX_LABEL_LENGTH * Base
  <2>1. bound \in Nat /\ reach \in Nat /\ reach =< bound
    <3>1. bound = 4 * reach /\ reach \in Nat
      BY Limits
    <3> HIDE DEF bound, reach
    <3> QED BY <3>1
  <2>2. Len(more.raw) =< reach /\ Len(more.raw) \in Nat
    BY <1>1, <1>5, <1>6 DEF PointerReach
  <2> HIDE DEF bound, reach
  <2>3. at < bound
    BY <1>1, <1>7, <2>1, <2>2
  <2>4. at % bound = at
    BY <1>1, <2>1, <2>3, SmallRemainder
  <2> QED BY <2>4 DEF bound
<1>9. /\ DOMAIN more.offsets \subseteq {left} \cup DOMAIN put.offsets
      /\ \A x \in DOMAIN more.offsets :
            \/ x = left /\ more.offsets[x] = at
            \/ x \in DOMAIN put.offsets /\ more.offsets[x] = put.offsets[x]
  <2>1. CASE one = put
    BY <1>5, <2>1
  <2>2. CASE one = Remember(put, left)
    <3>1. /\ DOMAIN one.offsets = {left} \cup DOMAIN put.offsets
          /\ one.offsets[left] = at
          /\ \A x \in DOMAIN put.offsets : x # left => one.offsets[x] = put.offsets[x]
      BY <1>1, <1>8, <2>2, RememberPuts
    <3> QED BY <1>5, <3>1
  <2> QED BY <2>1, <2>2
<1>10. \A x \in DOMAIN more.offsets :
          \/ x \in DOMAIN w.offsets /\ more.offsets[x] = w.offsets[x]
          \/ Len(x) > Len(name) - k
  <2> SUFFICES ASSUME NEW x \in DOMAIN more.offsets
               PROVE  \/ x \in DOMAIN w.offsets /\ more.offsets[x] = w.offsets[x]
                      \/ Len(x) > Len(name) - k
    OBVIOUS
  <2>1. CASE x = left
    <3>1. Len(left) > Len(name) - k
      BY <1>1, <1>2
    <3> QED BY <2>1, <3>1
  <2>2. CASE x \in DOMAIN put.offsets /\ more.offsets[x] = put.offsets[x]
    <3>1. \/ x \in DOMAIN w.offsets /\ put.offsets[x] = w.offsets[x]
          \/ Len(x) > Len(name) - (k - 1)
      BY <2>2 DEF Going
    <3>2. CASE Len(x) > Len(name) - (k - 1)
      <4>1. Len(name) - (k - 1) = (Len(name) - k) + 1
        BY <1>1
      <4> QED BY <1>1, <3>2, <4>1
    <3> QED BY <2>2, <3>1, <3>2
  <2> QED BY <1>9, <2>1, <2>2
<1>11. ASSUME NEW raw, NEW known, NEW after,
              Keeps(more.raw, Added(w, settled, more), raw, known),
              HasName(raw, known, Len(more.raw), rest, after)
       PROVE  /\ Remembers(raw, known, more.offsets)
              /\ HasName(raw, known, Len(w.raw), name, after)
  <2>1. Keeps(put.raw, Added(w, settled, put), raw, known)
    <3>1. Keeps(put.raw, Added(w, settled, put), more.raw, Added(w, settled, more))
      BY <1>7, AddedKept
    <3> QED BY <1>11, <3>1, KeepsOn
  <2>2. LabelAt(raw, known, at, label)
    <3>1. at + 1 .. Len(more.raw) \subseteq Len(w.raw) + 1 .. Len(more.raw)
      BY <1>1, <1>5, <1>6
    <3>2. at + 1 .. Len(more.raw) \subseteq Added(w, settled, more)
      BY <3>1 DEF Added
    <3>3. \A i \in at + 1 .. Len(more.raw) : i \in known /\ raw[i] = more.raw[i]
      BY <1>11, <3>2 DEF Keeps
    <3> QED BY <1>5, <3>3 DEF LabelAt
  <2>3. HasName(raw, known, at, left, after) /\ Remembered(raw, known, at, left)
    <3>1. Len(left) = Len(rest) + 1 /\ Len(rest) = Len(name) - k
      BY <1>1, <1>2, <1>3
    <3>2. \A i \in 1..Len(rest) : left[i + 1] = rest[i]
      <4> SUFFICES ASSUME NEW i \in 1..Len(name) - k PROVE left[i + 1] = rest[i]
        BY <3>1
      <4>1. i + 1 \in 1..Len(name) - k + 1 /\ k + (i + 1) - 1 = k + i
        BY <1>1
      <4> QED BY <1>2, <1>3, <4>1
    <3>3. HasName(raw, known, at + 1 + Len(left[1]), rest, after)
      BY <1>2, <1>5, <1>11
    <3>4. LabelAt(raw, known, at, left[1])
      BY <1>2, <2>2
    <3> QED BY <1>1, <1>2, <1>3, <3>1, <3>2, <3>3, <3>4, LabelFirst
  <2>4. /\ Remembers(raw, known, put.offsets)
        /\ HasName(raw, known, Len(w.raw), name, after)
    BY <1>1, <2>1, <2>3, Zenon DEF Going
  <2>5. Remembers(raw, known, more.offsets)
    BY <1>1, <1>2, <1>9, <2>3, <2>4 DEF Remembers
  <2> QED BY <2>4, <2>5
<1> QED BY <1>7, <1>10, <1>11, Zenon DEF Going, rest

\* A round of unparse_name: a label more, or the pointer, or nothing after one
LEMMA PutLabelPuts ==
    ASSUME NEW w, IsWriter(w), NEW settled, settled \subseteq 1..Len(w.raw),
           Remembers(w.raw, settled, w.offsets), NEW name \in WireNames,
           NEW compress \in BOOLEAN, NEW k \in 1..Len(name),
           NEW before, PutSoFar(w, settled, name, k - 1, before)
    PROVE  PutSoFar(w, settled, name, k,
                    PutLabel(before, SubSeq(name, k, Len(name)), compress))
<1> DEFINE left == SubSeq(name, k, Len(name))
           put == before.writer
           at == Len(put.raw)
           made == PutLabel(before, left, compress)
<1>1. Longer(w, put) /\ before.pointed \in BOOLEAN
  BY DEF PutSoFar
<1>2. IsWriter(put) /\ at \in Nat /\ PointerReach \in Nat
  <2>1. MAX_LABEL_LENGTH * Base \in Nat
    BY Limits
  <2> QED BY <1>1, <2>1 DEF Longer, IsWriter, PointerReach
<1>3. /\ left \in WireNames /\ Head(left) = name[k] /\ name[k] \in Labels
  BY SuffixIs
<1>4. CASE before.pointed
  <2>1. made = before
    BY <1>4 DEF PutLabel
  <2> QED BY <1>4, <2>1 DEF PutSoFar
<1>5. CASE ~before.pointed /\ compress /\ left \in DOMAIN put.offsets
  <2> DEFINE more == PutPointer(put, put.offsets[left])
  <2>1. made = [writer |-> more, pointed |-> TRUE]
    BY <1>5 DEF PutLabel
  <2>2. put.offsets[left] \in Nat
    BY <1>2, <1>5 DEF IsWriter
  <2>3. /\ IsWriter(more) /\ Len(more.raw) = at + 2
        /\ \A i \in 1..at : more.raw[i] = put.raw[i]
    BY <1>2, <2>2, PutPointerPuts
  <2>4. Longer(put, more)
    BY <1>2, <2>3 DEF Longer
  <2>5. Longer(w, more)
    BY <1>1, <2>4, LongerStill
  <2>6. ASSUME Len(more.raw) =< PointerReach PROVE WholeName(w, settled, name, more)
    <3>1. at =< PointerReach /\ Len(w.raw) =< PointerReach
      <4>1. Len(w.raw) \in Nat /\ Len(w.raw) =< at
        BY <1>1 DEF IsWriter, Longer
      <4> QED BY <1>2, <2>3, <2>6, <4>1
    <3>2. Going(w, settled, name, k - 1, put)
      BY <1>5, <3>1 DEF PutSoFar
    <3> QED BY <1>1, <1>5, <3>1, <3>2, GoingOn
  <2> HIDE DEF more, made
  <2>7. made.writer = more /\ made.pointed = TRUE
    BY <2>1
  <2>8. PutSoFar(w, settled, name, k, made)
    BY <2>5, <2>6, <2>7 DEF PutSoFar
  <2> QED BY <2>8 DEF made
<1>6. CASE ~before.pointed /\ ~(compress /\ left \in DOMAIN put.offsets)
  <2> DEFINE one == IF compress THEN Remember(put, left) ELSE put
             more == PutString(one, Head(left))
  <2>1. made = [writer |-> more, pointed |-> FALSE]
    BY <1>6, Zenon DEF PutLabel
  <2>2. one \in {put, Remember(put, left)}
    OBVIOUS
  <2>3. IsWriter(one) /\ one.raw = put.raw
    <3> HIDE DEF one
    <3> QED BY <1>2, <2>2, RememberPuts
  <2>4. /\ IsWriter(more) /\ Len(more.raw) = Len(one.raw) + 1 + Len(name[k])
        /\ \A i \in 1..Len(one.raw) : more.raw[i] = one.raw[i]
    <3> HIDE DEF one
    <3> QED BY <1>3, <2>3, PutStringPuts
  <2>5. Len(name[k]) \in Nat
    BY <1>3 DEF Labels
  <2> HIDE DEF one, more
  <2>6. Len(more.raw) \in Nat /\ at =< Len(more.raw)
    <3> DEFINE length == Len(name[k])
               total == Len(more.raw)
    <3>1. total = at + 1 + length /\ length \in Nat /\ at \in Nat
      BY <1>2, <2>3, <2>4, <2>5
    <3> HIDE DEF length, at, total
    <3>2. total \in Nat /\ at =< total
      BY <3>1
    <3> QED BY <3>2 DEF total
  <2>7. Longer(put, more)
    BY <2>3, <2>4, <2>6 DEF Longer
  <2>8. Longer(w, more)
    BY <1>1, <2>7, LongerStill
  <2>9. ASSUME Len(more.raw) =< PointerReach PROVE Going(w, settled, name, k, more)
    <3>1. at =< PointerReach
      <4> HIDE DEF at
      <4> QED BY <1>2, <2>9, <2>6
    <3>2. Going(w, settled, name, k - 1, put)
      BY <1>6, <3>1 DEF PutSoFar
    <3>3. more = PutString(one, Head(left))
      BY DEF more
    <3> HIDE DEF left
    <3>4. left = SubSeq(name, k, Len(name))
      BY DEF left
    <3> QED BY <1>1, <2>2, <2>9, <3>2, <3>3, <3>4, GoingFurther
  <2> HIDE DEF made
  <2>10. made.writer = more /\ made.pointed = FALSE
    BY <2>1
  <2>11. PutSoFar(w, settled, name, k, made)
    BY <2>8, <2>9, <2>10 DEF PutSoFar
  <2> QED BY <2>11 DEF made
<1> QED BY <1>1, <1>4, <1>5, <1>6

\* A name is written where it can be read, and can be pointed to, from every
\* label of it that was written; what was written before stays as it was.
LEMMA PutNamePuts ==
    ASSUME NEW w, IsWriter(w), NEW settled, settled \subseteq 1..Len(w.raw),
           Remembers(w.raw, settled, w.offsets), NEW name \in WireNames,
           NEW compress \in BOOLEAN, Len(PutName(w, name, compress).raw) =< PointerReach
    PROVE  LET put == PutName(w, name, compress)
           IN  Longer(w, put) /\ WholeName(w, settled, name, put)
<1> DEFINE n == Len(name)
           put == PutName(w, name, compress)
<1>1. n \in Nat /\ Len(w.raw) \in Nat /\ PointerReach \in Nat
  <2>1. MAX_LABEL_LENGTH * Base \in Nat
    BY Limits
  <2> QED BY <2>1 DEF WireNames, IsWriter, PointerReach
<1>2. PICK f :
        /\ f[0] = [writer |-> w, pointed |-> FALSE]
        /\ \A k \in 1..n : f[k] = PutLabel(f[k - 1], SubSeq(name, k, n), compress)
        /\ put = IF f[n].pointed THEN f[n].writer ELSE PutOctet(f[n].writer, 0)
  BY PutNameRounds
<1> HIDE DEF n, put
<1>3. Longer(w, w)
  BY <1>1 DEF Longer
<1>4. PutSoFar(w, settled, name, 0, f[0])
  <2>1. f[0].writer = w /\ f[0].pointed = FALSE
    BY <1>2
  <2>2. SubSeq(name, 0 + 1, Len(name)) = name
    BY SubSeqFull DEF WireNames
  <2>3. ASSUME NEW raw, NEW known, NEW after,
               Keeps(w.raw, Added(w, settled, w), raw, known),
               HasName(raw, known, Len(w.raw), name, after)
        PROVE  /\ Remembers(raw, known, w.offsets)
               /\ HasName(raw, known, Len(w.raw), name, after)
    <3>1. Keeps(w.raw, settled, w.raw, Added(w, settled, w))
      BY <1>3, AddedKept
    <3>2. Keeps(w.raw, settled, raw, known)
      BY <2>3, <3>1, KeepsOn
    <3> QED BY <2>3, <3>2, KeepsRemembered
  <2>4. Going(w, settled, name, 0, w)
    BY <2>2, <2>3, Zenon DEF Going
  <2> QED BY <1>3, <2>1, <2>4 DEF PutSoFar
<1>5. \A k \in 0..n : PutSoFar(w, settled, name, k, f[k])
  <2> DEFINE T == {k \in 0..n : ~PutSoFar(w, settled, name, k, f[k])}
  <2> SUFFICES ASSUME T # {} PROVE FALSE
    BY Zenon
  <2>1. T \subseteq Nat
    OBVIOUS
  <2>2. PICK k \in T : \A i \in T : k =< i
    <3> HIDE DEF T
    <3> QED BY <2>1, Least
  <2>3. k \in 1..n
    BY <1>1, <1>4, <2>2
  <2>4. k - 1 \in 0..n /\ k - 1 \notin T
    BY <1>1, <2>2, <2>3
  <2>5. PutSoFar(w, settled, name, k - 1, f[k - 1])
    BY <2>4
  <2>6. f[k] = PutLabel(f[k - 1], SubSeq(name, k, Len(name)), compress)
    BY <1>2, <2>3 DEF n
  <2>7. k \in 1..Len(name)
    BY <2>3 DEF n
  <2>8. PutSoFar(w, settled, name, k, f[k])
    BY <2>5, <2>6, <2>7, PutLabelPuts
  <2> QED BY <2>2, <2>8
<1> DEFINE last == f[n].writer
           at == Len(last.raw)
<1>6. PutSoFar(w, settled, name, n, f[n]) /\ Longer(w, last)
  <2>1. n \in 0..n
    BY <1>1
  <2> QED BY <1>5, <2>1 DEF PutSoFar
<1>7. IsWriter(last) /\ at \in Nat /\ Len(w.raw) =< at
  BY <1>6 DEF Longer, IsWriter
<1>8. CASE f[n].pointed
  BY <1>2, <1>6, <1>8 DEF PutSoFar, put
<1>9. CASE ~f[n].pointed
  <2> HIDE DEF last
  <2> DEFINE known == Added(w, settled, put)
  <2>1. put = PutOctet(last, 0)
    BY <1>2, <1>9 DEF last
  <2>2. 0 \in Octet
    BY Limits DEF Octet
  <2>3. /\ IsWriter(put) /\ put.offsets = last.offsets /\ Len(put.raw) = at + 1
        /\ \A i \in 1..at : put.raw[i] = last.raw[i]
        /\ put.raw[at + 1] = 0
    BY <1>7, <2>1, <2>2, PutOctetPuts
  <2>4. Longer(last, put)
    BY <1>7, <2>3 DEF Longer
  <2>5. Longer(w, put)
    BY <1>6, <2>4, LongerStill
  <2>6. Len(put.raw) =< PointerReach
    BY DEF put
  <2>7. Going(w, settled, name, n, last)
    <3>1. at =< PointerReach
      BY <1>1, <1>7, <2>3, <2>6
    <3> QED BY <1>6, <1>9, <3>1 DEF PutSoFar, last
  <2>8. Keeps(last.raw, Added(w, settled, last), put.raw, known)
    BY <1>6, <2>4, AddedKept DEF last
  <2>9. EndAt(put.raw, known, at)
    <3>1. at + 1 \in Len(w.raw) + 1 .. Len(put.raw)
      BY <1>1, <1>7, <2>3
    <3> QED BY <2>3, <3>1 DEF EndAt, Added
  <2>10. HasName(put.raw, known, at, SubSeq(name, n + 1, Len(name)), Len(put.raw))
    <3>1. SubSeq(name, n + 1, Len(name)) = <<>>
      BY <1>1, SubSeqEmpty DEF n
    <3>2. HasName(put.raw, known, at, <<>>, at + 1)
      <4> HIDE DEF known, at
      <4> QED BY <1>7, <2>9, EndFirst
    <3> QED BY <2>3, <3>1, <3>2
  <2>11. /\ Remembers(put.raw, known, last.offsets)
         /\ HasName(put.raw, known, Len(w.raw), name, Len(put.raw))
    <3> HIDE DEF known
    <3> QED BY <2>7, <2>8, <2>10, Zenon DEF Going
  <2>12. WholeName(w, settled, name, put)
    BY <2>3, <2>11 DEF WholeName
  <2> QED BY <2>5, <2>12 DEF put
<1> QED BY <1>8, <1>9

(***************************************************************************)
(* A message in the making: its writer, the octets that are put in later,  *)
(* and the names written in it, each with where it begins and what is after*)
(* it.  A record leaves room for the length of its data and puts it in     *)
(* after the data, names among them, has been written.                     *)
(***************************************************************************)

\* One to begin with, and what is done to it: another name is written, other octets are,
\* some of them room for what is not known yet, something is put into the room there is
Blank == [writer |-> Writer, open |-> {}, names |-> {}]
WriteName(m, next) ==
    \E name \in WireNames, compress \in BOOLEAN :
        LET put == PutName(m.writer, name, compress)
        IN  /\ Sendable(name)
            /\ next = [writer |-> put, open |-> m.open,
                       names |-> m.names \cup {[name |-> name, at |-> Len(m.writer.raw),
                                                after |-> Len(put.raw)]}]
WriteOctets(m, next) ==
    \E octets \in Seq(Octet) :
        LET put == PutOctets(m.writer, octets)
        IN  \E later \in SUBSET (Len(m.writer.raw) + 1 .. Len(put.raw)) :
                next = [writer |-> put, open |-> m.open \cup later, names |-> m.names]
PutIn(m, next) ==
    \E raw \in Seq(Octet) :
        /\ Len(raw) = Len(m.writer.raw)
        /\ \A i \in (1..Len(raw)) \ m.open : raw[i] = m.writer.raw[i]
        /\ next = [writer |-> [raw |-> raw, offsets |-> m.writer.offsets,
                               thrown |-> m.writer.thrown],
                   open |-> m.open, names |-> m.names]
\* A message made in n steps
MessageMade(stages, n) ==
    /\ stages[0] = Blank
    /\ \A k \in 1..n : \/ WriteName(stages[k - 1], stages[k])
                        \/ WriteOctets(stages[k - 1], stages[k])
                        \/ PutIn(stages[k - 1], stages[k])

\* From an offset to an octet after it, what stays as it is
Fixed(m, end) == (1..end) \ m.open
MessageInv(m) ==
    /\ IsWriter(m.writer)
    /\ m.open \subseteq 1..Len(m.writer.raw)
    /\ Remembers(m.writer.raw, Fixed(m, Len(m.writer.raw)), m.writer.offsets)
    /\ \A x \in m.names :
          /\ Sendable(x.name) /\ x.at \in Nat
          /\ x.after \in Nat /\ x.after =< Len(m.writer.raw)
          /\ HasName(m.writer.raw, Fixed(m, x.after), x.at, x.name, x.after)

\* A message with nothing in it
LEMMA BlankMessage == MessageInv(Blank)
<1>1. /\ Writer.raw = <<>> /\ Writer.offsets = <<>> /\ Writer.thrown = FALSE
      /\ Writer = [raw |-> Writer.raw, offsets |-> Writer.offsets, thrown |-> Writer.thrown]
  BY DEF Writer
<1>2. DOMAIN Writer.offsets = {}
  BY <1>1
<1>3. IsWriter(Writer)
  BY <1>1, <1>2 DEF IsWriter
<1>4. /\ Blank.writer = Writer /\ Blank.open = {} /\ Blank.names = {}
  BY DEF Blank
<1> QED BY <1>2, <1>3, <1>4 DEF MessageInv, Remembers

\* More octets, or others where they may change, leave what was written.
LEMMA MessageKept ==
    ASSUME NEW m, MessageInv(m), NEW next, IsWriter(next.writer),
           m.open \subseteq next.open, next.open \subseteq 1..Len(next.writer.raw),
           \A i \in next.open \ m.open : i > Len(m.writer.raw),
           Len(m.writer.raw) =< Len(next.writer.raw),
           \A i \in Fixed(m, Len(m.writer.raw)) : next.writer.raw[i] = m.writer.raw[i]
    PROVE  /\ Keeps(m.writer.raw, Fixed(m, Len(m.writer.raw)),
                    next.writer.raw, Fixed(next, Len(next.writer.raw)))
           /\ \A x \in m.names :
                 /\ Sendable(x.name) /\ x.at \in Nat
                 /\ x.after \in Nat /\ x.after =< Len(next.writer.raw)
                 /\ HasName(next.writer.raw, Fixed(next, x.after), x.at, x.name, x.after)
<1> DEFINE length == Len(m.writer.raw)
           longer == Len(next.writer.raw)
<1>1. length \in Nat /\ longer \in Nat /\ length =< longer
  BY DEF MessageInv, IsWriter
<1>2. \A i \in next.open \ m.open : i > length
  OBVIOUS
<1>3. \A i \in Fixed(m, length) : next.writer.raw[i] = m.writer.raw[i]
  OBVIOUS
<1> HIDE DEF length, longer
<1>4. \A end \in 0..length : Fixed(m, end) \subseteq Fixed(next, end)
  BY <1>1, <1>2 DEF Fixed
<1>5. Fixed(next, length) \subseteq Fixed(next, longer)
  BY <1>1 DEF Fixed
<1>6. Keeps(m.writer.raw, Fixed(m, length), next.writer.raw, Fixed(next, longer))
  <2>1. length \in 0..length
    BY <1>1
  <2> QED BY <1>3, <1>4, <1>5, <2>1 DEF Keeps
<1>7. ASSUME NEW x \in m.names
      PROVE  /\ Sendable(x.name) /\ x.at \in Nat
             /\ x.after \in Nat /\ x.after =< longer
             /\ HasName(next.writer.raw, Fixed(next, x.after), x.at, x.name, x.after)
  <2>1. /\ Sendable(x.name) /\ x.at \in Nat
        /\ x.after \in Nat /\ x.after =< length
        /\ HasName(m.writer.raw, Fixed(m, x.after), x.at, x.name, x.after)
    BY DEF MessageInv, length
  <2>2. x.after \in 0..length
    BY <1>1, <2>1
  <2>3. Fixed(m, x.after) \subseteq Fixed(m, length)
    BY <1>1, <2>1 DEF Fixed
  <2>4. Keeps(m.writer.raw, Fixed(m, x.after), next.writer.raw, Fixed(next, x.after))
    BY <1>3, <1>4, <2>2, <2>3 DEF Keeps
  <2>5. x.after =< longer
    BY <1>1, <2>1
  <2> QED BY <2>1, <2>4, <2>5, KeepsHasName
<1> QED BY <1>6, <1>7 DEF length, longer

\* A name more
LEMMA WriteNameKeeps ==
    ASSUME NEW m, MessageInv(m), NEW next, WriteName(m, next),
           Len(next.writer.raw) =< PointerReach
    PROVE  MessageInv(next)
<1>1. PICK name \in WireNames, compress \in BOOLEAN :
        /\ Sendable(name)
        /\ next = [writer |-> PutName(m.writer, name, compress), open |-> m.open,
                   names |-> m.names \cup
                       {[name |-> name, at |-> Len(m.writer.raw),
                         after |-> Len(PutName(m.writer, name, compress).raw)]}]
  BY DEF WriteName
<1> DEFINE w == m.writer
           put == PutName(w, name, compress)
           settled == Fixed(m, Len(w.raw))
           new == [name |-> name, at |-> Len(w.raw), after |-> Len(put.raw)]
<1>2. next.writer = put /\ next.open = m.open /\ next.names = m.names \cup {new}
  BY <1>1
<1>3. IsWriter(w) /\ settled \subseteq 1..Len(w.raw) /\ Remembers(w.raw, settled, w.offsets)
      /\ m.open \subseteq 1..Len(w.raw) /\ Len(w.raw) \in Nat
  BY DEF MessageInv, Fixed, IsWriter
<1>4. Longer(w, put) /\ WholeName(w, settled, name, put)
  <2> HIDE DEF w, settled
  <2> QED BY <1>1, <1>2, <1>3, PutNamePuts
<1>5. new.name = name /\ new.at = Len(w.raw) /\ new.after = Len(put.raw)
  OBVIOUS
<1> HIDE DEF put, new
<1>6. IsWriter(put) /\ Len(put.raw) \in Nat /\ Len(w.raw) =< Len(put.raw)
      /\ \A i \in 1..Len(w.raw) : put.raw[i] = w.raw[i]
  BY <1>4 DEF Longer, IsWriter
<1>7. Added(w, settled, put) = Fixed(next, Len(put.raw))
  <2> DEFINE a == Len(w.raw)
             b == Len(put.raw)
             later == m.open
  <2>1. a \in Nat /\ b \in Nat /\ a =< b /\ later \subseteq 1..a
    BY <1>3, <1>6
  <2>2. Added(w, settled, put) = ((1..a) \ later) \cup (a + 1 .. b)
    BY DEF Added, Fixed
  <2>3. Fixed(next, Len(put.raw)) = (1..b) \ later
    BY <1>2 DEF Fixed
  <2> HIDE DEF a, b, later
  <2>4. ((1..a) \ later) \cup (a + 1 .. b) = (1..b) \ later
    <3>1. 1..b = (1..a) \cup (a + 1 .. b) /\ \A i \in a + 1 .. b : i \notin 1..a
      BY <2>1
    <3>2. later \cap (a + 1 .. b) = {}
      BY <2>1, <3>1
    <3> QED BY <3>1, <3>2
  <2> QED BY <2>2, <2>3, <2>4
<1>8. /\ Remembers(put.raw, Fixed(next, Len(put.raw)), put.offsets)
      /\ HasName(put.raw, Fixed(next, Len(put.raw)), Len(w.raw), name, Len(put.raw))
  BY <1>4, <1>7 DEF WholeName
<1>9. next.open \subseteq 1..Len(put.raw)
  BY <1>2, <1>3, <1>6
<1>10. \A x \in m.names :
          /\ Sendable(x.name) /\ x.at \in Nat
          /\ x.after \in Nat /\ x.after =< Len(put.raw)
          /\ HasName(put.raw, Fixed(next, x.after), x.at, x.name, x.after)
  <2>1. \A i \in Fixed(m, Len(m.writer.raw)) : next.writer.raw[i] = m.writer.raw[i]
    BY <1>2, <1>6 DEF Fixed
  <2>2. \A i \in next.open \ m.open : i > Len(m.writer.raw)
    BY <1>2
  <2> QED BY <1>2, <1>6, <1>9, <2>1, <2>2, MessageKept
<1>11. \A x \in {new} :
          /\ Sendable(x.name) /\ x.at \in Nat
          /\ x.after \in Nat /\ x.after =< Len(put.raw)
          /\ HasName(put.raw, Fixed(next, x.after), x.at, x.name, x.after)
  BY <1>1, <1>3, <1>5, <1>6, <1>8
<1> QED BY <1>2, <1>6, <1>8, <1>9, <1>10, <1>11 DEF MessageInv

\* Other octets more, and room
LEMMA WriteOctetsKeeps ==
    ASSUME NEW m, MessageInv(m), NEW next, WriteOctets(m, next)
    PROVE  MessageInv(next)
<1>1. PICK octets \in Seq(Octet) :
        \E later \in SUBSET (Len(m.writer.raw) + 1 .. Len(PutOctets(m.writer, octets).raw)) :
            next = [writer |-> PutOctets(m.writer, octets), open |-> m.open \cup later,
                    names |-> m.names]
  BY DEF WriteOctets
<1> DEFINE put == PutOctets(m.writer, octets)
<1>2. PICK later \in SUBSET (Len(m.writer.raw) + 1 .. Len(put.raw)) :
        next = [writer |-> put, open |-> m.open \cup later, names |-> m.names]
  BY <1>1
<1>3. next.writer = put /\ next.open = m.open \cup later /\ next.names = m.names
  BY <1>2
<1>4. IsWriter(m.writer) /\ Len(octets) \in Nat /\ m.open \subseteq 1..Len(m.writer.raw)
  BY DEF MessageInv
<1>5. /\ IsWriter(put) /\ put.offsets = m.writer.offsets
      /\ Len(m.writer.raw) \in Nat /\ Len(put.raw) = Len(m.writer.raw) + Len(octets)
      /\ \A i \in 1..Len(m.writer.raw) : put.raw[i] = m.writer.raw[i]
  BY <1>4, PutOctetsPuts
<1> HIDE DEF put
<1>6. Len(m.writer.raw) =< Len(put.raw) /\ Len(put.raw) \in Nat
  BY <1>4, <1>5
<1>7. next.open \subseteq 1..Len(put.raw)
  <2>1. 1..Len(m.writer.raw) \subseteq 1..Len(put.raw)
    BY <1>5, <1>6
  <2>2. Len(m.writer.raw) + 1 .. Len(put.raw) \subseteq 1..Len(put.raw)
    BY <1>5, <1>6
  <2> QED BY <1>3, <1>4, <2>1, <2>2
<1>8. \A i \in next.open \ m.open : i > Len(m.writer.raw)
  <2> SUFFICES ASSUME NEW i \in later PROVE i > Len(m.writer.raw)
    BY <1>3
  <2>1. i \in Len(m.writer.raw) + 1 .. Len(put.raw)
    BY <1>2
  <2> QED BY <1>5, <1>6, <2>1
<1>9. \A i \in Fixed(m, Len(m.writer.raw)) : next.writer.raw[i] = m.writer.raw[i]
  BY <1>3, <1>5 DEF Fixed
<1>10. m.open \subseteq next.open
  BY <1>3
<1>11. /\ Keeps(m.writer.raw, Fixed(m, Len(m.writer.raw)), put.raw, Fixed(next, Len(put.raw)))
       /\ \A x \in m.names :
             /\ Sendable(x.name) /\ x.at \in Nat
             /\ x.after \in Nat /\ x.after =< Len(put.raw)
             /\ HasName(put.raw, Fixed(next, x.after), x.at, x.name, x.after)
  BY <1>3, <1>5, <1>6, <1>7, <1>8, <1>9, <1>10, MessageKept
<1>12. Remembers(put.raw, Fixed(next, Len(put.raw)), put.offsets)
  BY <1>5, <1>11, KeepsRemembered DEF MessageInv
<1> QED BY <1>3, <1>5, <1>7, <1>11, <1>12 DEF MessageInv

\* What is put into the room that was left touches no name.
LEMMA PutInKeeps ==
    ASSUME NEW m, MessageInv(m), NEW next, PutIn(m, next)
    PROVE  MessageInv(next)
<1>1. PICK raw \in Seq(Octet) :
        /\ Len(raw) = Len(m.writer.raw)
        /\ \A i \in (1..Len(raw)) \ m.open : raw[i] = m.writer.raw[i]
        /\ next = [writer |-> [raw |-> raw, offsets |-> m.writer.offsets,
                               thrown |-> m.writer.thrown],
                   open |-> m.open, names |-> m.names]
  BY DEF PutIn
<1> DEFINE put == [raw |-> raw, offsets |-> m.writer.offsets, thrown |-> m.writer.thrown]
<1>2. next.writer = put /\ next.open = m.open /\ next.names = m.names
  BY <1>1
<1>3. /\ put.raw = raw /\ put.offsets = m.writer.offsets /\ put.thrown = m.writer.thrown
      /\ put = [raw |-> put.raw, offsets |-> put.offsets, thrown |-> put.thrown]
  OBVIOUS
<1> HIDE DEF put
<1>4. IsWriter(put)
  BY <1>3 DEF MessageInv, IsWriter
<1>5. /\ Len(m.writer.raw) = Len(put.raw) /\ Len(put.raw) \in Nat
      /\ m.open \subseteq 1..Len(put.raw)
  BY <1>1, <1>3 DEF MessageInv
<1>6. \A i \in Fixed(m, Len(m.writer.raw)) : next.writer.raw[i] = m.writer.raw[i]
  BY <1>1, <1>2, <1>3 DEF Fixed
<1>7. /\ m.open \subseteq next.open /\ next.open \subseteq 1..Len(next.writer.raw)
      /\ \A i \in next.open \ m.open : i > Len(m.writer.raw)
      /\ Len(m.writer.raw) =< Len(next.writer.raw)
  BY <1>2, <1>5
<1>8. /\ Keeps(m.writer.raw, Fixed(m, Len(m.writer.raw)), put.raw, Fixed(next, Len(put.raw)))
      /\ \A x \in m.names :
            /\ Sendable(x.name) /\ x.at \in Nat
            /\ x.after \in Nat /\ x.after =< Len(put.raw)
            /\ HasName(put.raw, Fixed(next, x.after), x.at, x.name, x.after)
  BY <1>2, <1>4, <1>6, <1>7, MessageKept
<1>9. Remembers(put.raw, Fixed(next, Len(put.raw)), put.offsets)
  BY <1>3, <1>8, KeepsRemembered DEF MessageInv
<1> QED BY <1>2, <1>4, <1>5, <1>8, <1>9 DEF MessageInv

\* However a message is made, of names, of other octets and of room that something is
\* put into later, every name in it that can be sent is read back as itself, with
\* the offset after it, whether it was written whole, in part or as a pointer, and
\* wherever the record that it is read from says that it ends: unparse_name (106)
\* and parse_name (210).  Offsets are within the reach of a pointer.
THEOREM NamesComeBack ==
    ASSUME NEW n \in Nat, NEW stages, MessageMade(stages, n),
           \A k \in 0..n : Len(stages[k].writer.raw) =< PointerReach
    PROVE  \A x \in stages[n].names, size \in Nat :
             size >= x.after =>
                 GetName(stages[n].writer.raw, size, x.at) = Parsed(x.name, x.after)
<1>1. \A k \in 0..n : MessageInv(stages[k])
  <2> DEFINE T == {k \in 0..n : ~MessageInv(stages[k])}
  <2> SUFFICES ASSUME T # {} PROVE FALSE
    BY Zenon
  <2>1. T \subseteq Nat
    OBVIOUS
  <2>2. PICK k \in T : \A i \in T : k =< i
    <3> HIDE DEF T
    <3> QED BY <2>1, Least
  <2>3. k # 0
    BY <2>2, BlankMessage DEF MessageMade
  <2>4. k \in 1..n /\ k \in 0..n /\ k - 1 \in 0..n /\ k - 1 \notin T
    BY <2>2, <2>3
  <2>5. MessageInv(stages[k - 1]) /\ Len(stages[k].writer.raw) =< PointerReach
    BY <2>4
  <2>6. \/ WriteName(stages[k - 1], stages[k])
        \/ WriteOctets(stages[k - 1], stages[k])
        \/ PutIn(stages[k - 1], stages[k])
    BY <2>4 DEF MessageMade
  <2>7. MessageInv(stages[k])
    BY <2>5, <2>6, WriteNameKeeps, WriteOctetsKeeps, PutInKeeps
  <2> QED BY <2>2, <2>7
<1> DEFINE m == stages[n]
<1>2. MessageInv(m)
  BY <1>1
<1> HIDE DEF m
<1> SUFFICES ASSUME NEW x \in m.names, NEW size \in Nat, size >= x.after
             PROVE  GetName(m.writer.raw, size, x.at) = Parsed(x.name, x.after)
  BY DEF m
<1>3. /\ Sendable(x.name) /\ x.at \in Nat
      /\ x.after \in Nat /\ x.after =< Len(m.writer.raw)
      /\ HasName(m.writer.raw, Fixed(m, x.after), x.at, x.name, x.after)
      /\ m.writer.raw \in Seq(Octet)
  BY <1>2 DEF MessageInv, IsWriter
<1>4. IsMessage(m.writer.raw, Fixed(m, x.after), size)
  <2>1. Len(m.writer.raw) \in Nat
    BY <1>3
  <2>2. 1..x.after \subseteq 1..Len(m.writer.raw) /\ 1..x.after \subseteq 1..size
    BY <1>3, <2>1
  <2> QED BY <1>3, <2>2 DEF IsMessage, Fixed
<1>5. PICK p, i : /\ Path(m.writer.raw, Fixed(m, x.after), x.at, x.name, p, i)
                  /\ After(x.at, x.name, p, i) = x.after
  BY <1>3 DEF HasName
<1>6. GetName(m.writer.raw, size, x.at) = Parsed(x.name, After(x.at, x.name, p, i))
  BY <1>3, <1>4, <1>5, ReadsName
<1> QED BY <1>5, <1>6

=============================================================================
