------------------------------- MODULE Schema -------------------------------
(***************************************************************************)
(* What a new database is given (src/db/table.cpp, which is generated): the*)
(* tables, the rows of the default configuration and the indexes, in the   *)
(* order they are made in; and which rows the program needs to start       *)
(* (src/acore/config_reader.cpp).                                          *)
(*                                                                         *)
(* A row has its primary key, a number for the random uuid, the keys of the*)
(* rows it refers to, and its contents as far as anything depends on them. *)
(* The columns of a table are those of its class in ConfigRows, RecordRows.*)
(***************************************************************************)
EXTENDS Naturals, Sequences, SequencesExt, FiniteSets

R(table, key, ref, val) == [table |-> table, key |-> key, ref |-> ref, val |-> val]

ConfigTables ==
    <<"schema_version", "address_list", "address_list_address",
      "address_list_network", "basic_config", "cache_config", "control_server",
      "ui_server", "dns_client", "dns_server", "horizon", "root_server", "server",
      "server_socket_address", "zone">>
RecordTables ==
    <<"rr_a", "rr_aaaa", "rr_afsdb", "rr_caa", "rr_cert", "rr_cname", "rr_csync",
      "rr_dhcid", "rr_dname", "rr_eui48", "rr_eui64", "rr_generic", "rr_hinfo",
      "rr_https", "rr_ipseckey", "rr_kx", "rr_loc", "rr_mx", "rr_naptr", "rr_ns",
      "rr_openpgpkey", "rr_ptr", "rr_soa", "rr_srv", "rr_sshfp", "rr_svcb",
      "rr_tlsa", "rr_txt", "rr_uri", "rr_zonemd">>

----------------------------------------------------------------------------
(* table::create_static                                                    *)

SchemaVersions == <<R("schema_version", 1, {}, <<"1">>)>>
AddressLists == [i \in 1..3 |-> R("address_list", i, {}, <<>>)]
Networks ==
    <<R("address_list_network", 1, {1}, <<"0.0.0.0/0">>),
      R("address_list_network", 2, {1}, <<"::/0">>),
      R("address_list_network", 3, {3}, <<"0.0.0.0/0">>)>>
Addresses ==
    <<R("address_list_address", 1, {2}, <<"127.0.0.1">>),
      R("address_list_address", 2, {3}, <<"127.0.0.1">>)>>
BasicConfig ==
    LET items == <<"all.support-edns", "all.edns-size", "all.use-ip4-root-hints",
                   "all.use-ip6-root-hints", "all.cache-garbage-collect-ms",
                   "all.cache-max-referral-rrs", "all.cache-max-answer-rrs",
                   "all.seteuid", "all.setgid", "all.chroot">>
        values == <<"true", "4096", "true", "false", "60000", "10000", "10000", "", "", "">>
    IN  [i \in DOMAIN items |-> R("basic_config", i + 2, {}, <<items[i], values[i]>>)]

Protocols == <<"dns.udp", "dns.tcp", "control.tcp", "dns.tls", "dns.https", "ui.tcp">>
DnsProtocols == {"dns.udp", "dns.tcp", "dns.tls", "dns.https"}
Ports == <<"1053", "1053", "2000", "1853", "1443", "8000">>
Servers == [i \in 1..6 |-> R("server", i, {}, <<Protocols[i]>>)]
SocketAddresses ==
    [i \in 1..12 |->
        LET server == (i + 1) \div 2
        IN  R("server_socket_address", i, {server},
              <<IF i % 2 = 1 THEN "0.0.0.0" ELSE "::", Ports[server]>>)]
Clients == [i \in 1..5 |-> R("dns_client", i - 1, {}, <<>>)]
CacheConfig == <<R("cache_config", 1, {0}, <<>>)>>
DnsServers == [i \in 1..4 |-> R("dns_server", <<1, 2, 4, 5>>[i], {i}, <<>>)]
ControlServer == <<R("control_server", 3, {1}, <<>>)>>
UiServer == <<R("ui_server", 6, {1}, <<>>)>>

\* The thirteen root servers by IPv4, and those of them with IPv6.
RootServers ==
    LET root == <<"a", "b", "c", "d", "e", "f", "g", "h", "i", "j", "k", "l", "m">>
        six  == <<"a", "b", "c", "d", "f", "h", "i", "j", "k", "l", "m">>
    IN  [i \in 1..24 |-> R("root_server", i, {},
            IF i <= 13 THEN <<root[i], "ip4">> ELSE <<six[i - 13], "ip6">>)]
Horizons == <<R("horizon", 1, {1}, <<"1">>)>>

StaticRowsAddressesLast ==
    SchemaVersions \o AddressLists \o Networks \o Addresses \o BasicConfig \o Servers \o
    Clients \o CacheConfig \o DnsServers \o ControlServer \o
    UiServer \o SocketAddresses \o RootServers \o Horizons
StaticRows ==
    SchemaVersions \o AddressLists \o Networks \o Addresses \o BasicConfig \o Servers \o
    SocketAddresses \o Clients \o CacheConfig \o DnsServers \o ControlServer \o
    UiServer \o RootServers \o Horizons

----------------------------------------------------------------------------
(* table::get_index_sql: the columns that refer to another table; mongodb  *)
(* needs one for every primary key as well, and there it is unique.  The   *)
(* indexes of a table are one step here: nothing looks at them.            *)

ReferringTables ==
    <<"address_list_address", "address_list_network", "cache_config", "control_server",
      "ui_server", "dns_server", "horizon", "server_socket_address", "zone">>
Reference(table) ==
    CASE table \in {"address_list_address", "address_list_network", "control_server",
                    "ui_server", "horizon"} -> {"address_list_id"}
      [] table \in {"cache_config", "dns_server"} -> {"client_id"}
      [] table = "server_socket_address" -> {"server_id"}
      [] table = "zone" -> {"horizon_id"}
      [] table \in ToSet(RecordTables) -> {"zone_id"}
      [] OTHER -> {}
IndexedTables(backend) ==
    (IF backend = "mongodb" THEN ConfigTables ELSE ReferringTables) \o RecordTables
Indexes(backend) ==
    [i \in DOMAIN IndexedTables(backend) |->
        LET table == IndexedTables(backend)[i]
        IN  <<table, (IF backend = "mongodb" THEN {"primary key"} ELSE {}) \cup Reference(table)>>]

\* schema_manager::create, statement by statement.  The foreign keys are empty
\* lists for every table.
Statements(backend) ==
    LET Make(kind, s) == [i \in DOMAIN s |-> <<kind, s[i]>>]
    IN  Make("table", ConfigTables \o RecordTables)
        \o Make("row", StaticRows)
        \o Make("index", Indexes(backend))

----------------------------------------------------------------------------
(* config_reader::read and address_list::load_cache, as questions about a  *)
(* set of rows.                                                            *)

Of(rows, table) == {r \in rows : r.table = table}
Keys(rows, table) == {r.key : r \in Of(rows, table)}
Entries(rows, list) ==
    {r.val : r \in {e \in Of(rows, "address_list_network") \cup Of(rows, "address_list_address") :
                        e.ref = {list}}}
SocketsOf(rows, server) ==
    {r.val : r \in {a \in Of(rows, "server_socket_address") : a.ref = {server}}}

\* The row with the settings of a server of its kind, and what it refers to:
\* without one of them reading throws, and the program does not start.
SettingsTable(protocol) ==
    IF protocol \in DnsProtocols THEN "dns_server"
    ELSE IF protocol = "control.tcp" THEN "control_server" ELSE "ui_server"
ReferredTable(protocol) ==
    IF protocol \in DnsProtocols THEN "dns_client" ELSE "address_list"
CanReadServer(rows, s) ==
    \E settings \in Of(rows, SettingsTable(s.val[1])) :
        settings.key = s.key /\ settings.ref \subseteq Keys(rows, ReferredTable(s.val[1]))
CanRead(rows) ==
    /\ \A s \in Of(rows, "server") : CanReadServer(rows, s)
    /\ Cardinality(Of(rows, "cache_config")) = 1
    /\ \A c \in Of(rows, "cache_config") : c.ref \subseteq Keys(rows, "dns_client")
=============================================================================
