---------------------------- MODULE Configuration ----------------------------
(***************************************************************************)
(* The configuration while it is being changed: servers, address lists,    *)
(* horizons and settings, in the database and in memory                    *)
(* (src/acore/config_reader.cpp and config.cpp, src/socket/address_list.cpp*)
(* src/resolver/dns_horizon.cpp, and the handlers of src/api that call     *)
(* them).                                                                  *)
(*                                                                         *)
(* An operation is the statements it executes, one step each, its commit,  *)
(* and what it then makes of memory; any statement, or the commit, may     *)
(* fail, and the program may crash anywhere and is started again.  A       *)
(* transaction undoes what was executed, but for mongodb, whose statements *)
(* are not part of it.  Operations that hold the same lock wait for each   *)
(* other; the others run at the same time, each on a connection of its own.*)
(***************************************************************************)
EXTENDS Schema, Functions

CONSTANTS
    Databases,          \* of "sqlite", "postgres", "mysql", "mongodb"
    MaxOperations       \* bound: operations that are begun
ASSUME ConfigurationAssumption == MaxOperations \in 0..88

VARIABLES
    database,       \* connection::m_db_type
    stored,         \* the rows a start would find
    memory,         \* config_reader, address_list::o_cache and dns_horizon::o_cache
    status,         \* "up", "down", or "refused"
    jobs,           \* by the lock it holds, what an operation has done and has to do
    asked,          \* history: the lists as they were inserted, until one is changed
    crossed,        \* history: the lists that two operations had in hand at once
    operations      \* how many have been begun

configuration == <<database, stored, memory, status, jobs, asked, crossed, operations>>

\* What an operation holds: config_reader::m_lock, the zone guard (for writing), or
\* nothing, of which there is one at a time (a bound).
Locks == {"m_lock", "zone_guard", "none"}

\* Random uuids, a new one for every operation, and the two that are not, which
\* none of the bounded number of operations gets to: one a caller made up, and the
\* one of a member that was never set.
Fresh == 10 + operations
Stranger == 98
Unset == 99

\* A part of the default configuration that has a server of every kind.
Initial ==
    {r \in ToSet(StaticRows) :
        /\ r.table \notin {"schema_version", "root_server"}
        /\ r.table \in {"server", "dns_server", "control_server", "ui_server"} =>
               r.key \in {1, 3, 4, 6}
        /\ r.table = "server_socket_address" => r.ref \subseteq {1, 3, 4, 6} /\ r.val[1] = "0.0.0.0"
        /\ r.table = "basic_config" => r.key = 4}

Ip == "127.0.0.1"
Net == "0.0.0.0/0"
ListsGiven == {{}, {<<Ip>>, <<Net>>}}
EntryTable(e) == IF e = <<Net>> THEN "address_list_network" ELSE "address_list_address"
SocketsGiven == {{<<"127.0.0.1", "53">>}, {<<"0.0.0.0", "2000">>}}

----------------------------------------------------------------------------
(* Statements.  An update reaches its row only where the database compares *)
(* the key with the key (RowStore).                                        *)

Ins(row) == [op |-> "insert", row |-> row]
Upd(row) == [op |-> "update", row |-> row]
DelBy(op, table, key) == [op |-> op, row |-> R(table, key, {key}, <<>>)]
UpdateReaches == database \in {"mysql", "mongodb"}

Same(r, row) == r.table = row.table /\ r.key = row.key
Refers(r, row) == r.table = row.table /\ r.ref = row.ref
Apply(rows, s) ==
    CASE s.op = "insert" -> rows \cup {s.row}
      [] s.op = "update" ->
            IF UpdateReaches THEN {IF Same(r, s.row) THEN s.row ELSE r : r \in rows} ELSE rows
      [] s.op = "delete_by_key" -> {r \in rows : ~Same(r, s.row)}
      [] s.op = "delete_by_reference" -> {r \in rows : ~Refers(r, s.row)}

\* Rows nothing refers to have a key nobody asks for.
InsertEntries(list, entries) ==
    LET Row(e) == Ins(R(EntryTable(e), 0, {list}, e))
    IN  SetToSeq({Row(e) : e \in entries \ {<<Net>>}})
        \o SetToSeq({Row(e) : e \in entries \cap {<<Net>>}})
InsertSockets(server, sockets) ==
    SetToSeq({Ins(R("server_socket_address", 0, {server}, a)) : a \in sockets})

----------------------------------------------------------------------------
(* Starting: address_list::load_cache, config_reader::read and             *)
(* dns_horizon::load_cache.                                                *)

ReadServer(rows, s) ==
    LET settings == CHOOSE r \in Of(rows, SettingsTable(s.val[1])) : r.key = s.key
        ref == CHOOSE k \in settings.ref : TRUE
        lists == s.val[1] \notin DnsProtocols
    IN  [id |-> s.key, type |-> s.val[1], sockets |-> SocketsOf(rows, s.key),
         client |-> IF lists THEN Unset ELSE ref,
         list |-> IF lists THEN ref ELSE Unset,
         access |-> IF lists THEN Entries(rows, ref) ELSE {}]
ReadHorizons(rows) == {[id |-> h.key, list |-> h.ref] : h \in Of(rows, "horizon")}
ReadAll(rows) ==
    [lists |-> [list \in Keys(rows, "address_list") |-> Entries(rows, list)],
     servers |-> {ReadServer(rows, s) : s \in Of(rows, "server")},
     horizons |-> ReadHorizons(rows),
     values |-> {r.val : r \in Of(rows, "basic_config")},
     cacheClient |-> CHOOSE k \in UNION {c.ref : c \in Of(rows, "cache_config")} : TRUE]

Idle == [phase |-> "idle", on |-> {}, todo |-> <<>>, gone |-> {}, new |-> {},
         early |-> {}, late |-> {}]

ConfigurationInit ==
    /\ database \in Databases
    /\ stored = Initial
    /\ memory = ReadAll(Initial)
    /\ status = "up"
    /\ jobs = [w \in Locks |-> Idle]
    /\ crossed = {}
    /\ asked = [list \in Keys(Initial, "address_list") |-> Entries(Initial, list)]
    /\ operations = 0

Restart ==
    /\ status = "down"
    /\ IF CanRead(stored)
       THEN status' = "up" /\ memory' = ReadAll(stored) /\ crossed' = {}
       ELSE status' = "refused" /\ UNCHANGED <<memory, crossed>>
    /\ UNCHANGED <<database, stored, jobs, asked, operations>>

Crash ==
    /\ status = "up"
    /\ status' = "down"
    /\ jobs' = [w \in Locks |-> Idle]
    /\ UNCHANGED <<database, stored, memory, asked, crossed, operations>>

----------------------------------------------------------------------------
(* Operations: the lock one holds, the lists it is on, what it executes,   *)
(* what it does to memory before its commit and after.                     *)

BeginOperation(w, on, statements, early, late) ==
    /\ status = "up"
    /\ jobs[w] = Idle
    /\ operations < MaxOperations
    /\ jobs' = [jobs EXCEPT ![w] =
                   [phase |-> "begun", on |-> on, todo |-> statements,
                    gone |-> {}, new |-> {}, early |-> {early}, late |-> {late}]]
    /\ crossed' = crossed \cup (on \cap UNION {jobs[o].on : o \in Locks})
    /\ operations' = operations + 1
    /\ UNCHANGED <<database, stored, memory, status>>

PutList(lists, list, entries) ==
    [l \in DOMAIN lists \cup {list} |-> IF l = list THEN entries ELSE lists[l]]
WithList(list, entries) == [memory EXCEPT !.lists = PutList(@, list, entries)]

\* address_list::insert_address_list_db and insert_address_list_cache
InsertListStatementsRowFirst(entries) ==
    <<Ins(R("address_list", Fresh, {}, <<>>))>> \o InsertEntries(Fresh, entries)
InsertListStatements(entries) ==
    InsertEntries(Fresh, entries) \o <<Ins(R("address_list", Fresh, {}, <<>>))>>
InsertList(entries) ==
    /\ BeginOperation("zone_guard", {Fresh}, InsertListStatements(entries),
                      memory, WithList(Fresh, entries))
    /\ asked' = PutList(asked, Fresh, entries)

\* update_address_list_db and update_address_list_cache, of whatever list the
\* caller names.
UpdateListStatements(list, entries) ==
    <<DelBy("delete_by_reference", "address_list_address", list),
      DelBy("delete_by_reference", "address_list_network", list)>>
    \o InsertEntries(list, entries)
UpdateList(list, entries) ==
    /\ BeginOperation("zone_guard", {list},
                      UpdateListStatements(list, entries),
                      memory, WithList(list, entries))
    /\ asked' = Restrict(asked, DOMAIN asked \ {list})

\* api_address_list_v1::handle_delete_request: horizons and the control server
\* are asked, the latter when no operation holds m_lock; the UI server is not.
DeleteList(list) ==
    /\ list \in DOMAIN memory.lists
    /\ \A h \in memory.horizons : list \notin h.list
    /\ \A s \in memory.servers : s.type = "control.tcp" => s.list # list
    /\ jobs["m_lock"] = Idle
    /\ list \in Keys(stored, "address_list")
    /\ BeginOperation("zone_guard", {list},
                      <<DelBy("delete_by_key", "address_list", list),
                        DelBy("delete_by_reference", "address_list_network", list),
                        DelBy("delete_by_reference", "address_list_address", list)>>,
                      memory,
                      [memory EXCEPT !.lists = Restrict(@, DOMAIN @ \ {list})])
    /\ UNCHANGED asked

\* config::socket_addresses_overlap
Family(address) == IF address = "::" THEN 6 ELSE 4
Overlap(a, b) ==
    /\ a[2] = b[2]
    /\ Family(a[1]) = Family(b[1])
    /\ a[1] = b[1] \/ {a[1], b[1]} \cap {"0.0.0.0", "::"} # {}

\* config::add_server and config_reader::add_server; that the addresses are compared
\* before the lock is taken, so that two requests may both find theirs free, is
\* left out.
AddServer(type, sockets) ==
    LET server == [id |-> Fresh, type |-> type, sockets |-> sockets,
                   client |-> Fresh, list |-> Unset, access |-> {}]
    IN  /\ \A s \in memory.servers, a \in sockets : \A b \in s.sockets : ~Overlap(a, b)
        /\ BeginOperation("m_lock", {},
                          <<Ins(R("server", Fresh, {}, <<type>>)),
                            Ins(R("dns_client", Fresh, {}, <<>>)),
                            Ins(R("dns_server", Fresh, {Fresh}, <<>>))>>
                          \o InsertSockets(Fresh, sockets),
                          memory, [memory EXCEPT !.servers = @ \cup {server}])
        /\ UNCHANGED asked

\* config_reader::update_server: the row of the settings is built without the
\* client, and a server over TLS or HTTPS is of no type it knows.
Replace(s, t) == [memory EXCEPT !.servers = (@ \ {s}) \cup {t}]
NewSockets(s, sockets) ==
    <<DelBy("delete_by_reference", "server_socket_address", s.id)>>
    \o InsertSockets(s.id, sockets)
UpdateDnsServer(s, sockets) ==
    /\ s.type \in {"dns.udp", "dns.tcp"}
    /\ BeginOperation("m_lock", {},
                      <<Upd(R("dns_client", s.client, {}, <<>>)),
                        Upd(R("server", s.id, {}, <<s.type>>)),
                        Upd(R("dns_server", s.id, {Unset}, <<>>))>>
                      \o NewSockets(s, sockets),
                      memory, Replace(s, [s EXCEPT !.sockets = sockets, !.client = Unset]))
    /\ UNCHANGED asked
UpdateListServer(s, list, entries, sockets) ==
    LET t == [s EXCEPT !.sockets = sockets, !.list = list, !.access = entries]
    IN  /\ s.type \in {"control.tcp", "ui.tcp"}
        /\ BeginOperation("m_lock", {list},
                          UpdateListStatements(list, entries)
                          \o <<Upd(R("server", s.id, {}, <<s.type>>)),
                               Upd(R(SettingsTable(s.type), s.id, {list}, <<>>))>>
                          \o NewSockets(s, sockets),
                          memory,
                          [Replace(s, t) EXCEPT !.lists = PutList(@, list, entries)])
        /\ asked' = Restrict(asked, DOMAIN asked \ {list})

\* config_reader::delete_server: out of memory before the commit.
DeleteServer(s) ==
    LET left == [memory EXCEPT !.servers = @ \ {s}]
    IN  /\ s.type # "control.tcp"
        /\ BeginOperation("m_lock", {},
                          <<DelBy("delete_by_reference", "server_socket_address", s.id),
                            DelBy("delete_by_key", "control_server", s.id),
                            DelBy("delete_by_key", "ui_server", s.id),
                            DelBy("delete_by_key", "dns_server", s.id),
                            DelBy("delete_by_key", "server", s.id)>>, left, left)
        /\ UNCHANGED asked

\* dns_horizon::insert_horizon_db, update_horizon_db and their caches: neither
\* row has the order.
InsertHorizon(list) ==
    /\ BeginOperation("zone_guard", {},
                      <<Ins(R("horizon", Fresh, {list}, <<"unset">>))>>, memory,
                      [memory EXCEPT !.horizons = @ \cup {[id |-> Fresh, list |-> {list}]}])
    /\ UNCHANGED asked
UpdateHorizon(h, list) ==
    /\ BeginOperation("zone_guard", {},
                      <<Upd(R("horizon", h.id, {list}, <<"unset">>))>>, memory,
                      [memory EXCEPT !.horizons = (@ \ {h}) \cup {[h EXCEPT !.list = {list}]}])
    /\ UNCHANGED asked
\* delete_horizon_db and delete_horizon_cache, of a horizon without zones
DeleteHorizon(h) ==
    /\ BeginOperation("zone_guard", {},
                      <<DelBy("delete_by_key", "horizon", h.id)>>, memory,
                      [memory EXCEPT !.horizons = @ \ {h}])
    /\ UNCHANGED asked

\* config::set_base_config_from_json, with set_string_db and set_string_cache;
\* config_reader::update_cache_config, whose object has no key.
SetBaseConfig(value) ==
    /\ BeginOperation("none", {},
                      <<Upd(R("basic_config", 4, {}, <<"all.edns-size", value>>))>>, memory,
                      [memory EXCEPT !.values = {<<"all.edns-size", value>>}])
    /\ UNCHANGED asked
UpdateCacheConfig ==
    /\ BeginOperation("m_lock", {},
                      <<Upd(R("cache_config", Unset, {Unset}, <<>>)),
                        Upd(R("dns_client", memory.cacheClient, {}, <<>>))>>, memory, memory)
    /\ UNCHANGED asked

\* The rows a transaction sees: what is stored but for what it has deleted, and
\* what it has inserted.
Sees(w) == (stored \ jobs[w].gone) \cup jobs[w].new
Open(w) == jobs[w].phase \in {"begun", "writing"}

\* sqlite lets one transaction write; the row locks of the others are left out.
Perform(w, rows, next) ==
    IF database = "mongodb"
    THEN /\ stored' = next
         /\ jobs' = [jobs EXCEPT ![w].phase = "writing", ![w].todo = Tail(@)]
    ELSE /\ jobs' = [jobs EXCEPT ![w].phase = "writing", ![w].todo = Tail(@),
                                 ![w].gone = @ \cup (rows \ next),
                                 ![w].new = (@ \ (rows \ next)) \cup (next \ rows)]
         /\ UNCHANGED stored
ExecuteStatement(w) ==
    /\ Open(w) /\ jobs[w].todo # <<>>
    /\ database = "sqlite" => \A o \in Locks \ {w} : jobs[o].phase # "writing"
    /\ Perform(w, Sees(w), Apply(Sees(w), Head(jobs[w].todo)))
    /\ UNCHANGED <<database, memory, status, asked, crossed, operations>>

\* A statement that throws: the transaction's destructor rolls back.
StatementFails(w) ==
    /\ Open(w) /\ jobs[w].todo # <<>>
    /\ jobs' = [jobs EXCEPT ![w] = Idle]
    /\ UNCHANGED <<database, stored, memory, status, asked, crossed, operations>>

\* Memory with what an operation makes of it: the lists it is on, and what only
\* the holder of its lock changes.
With(w, on, m) ==
    [lists |-> [l \in (DOMAIN memory.lists \ on) \cup (DOMAIN m.lists \cap on) |->
                  IF l \in on THEN m.lists[l] ELSE memory.lists[l]],
     servers |-> IF w = "m_lock" THEN m.servers ELSE memory.servers,
     horizons |-> IF w = "zone_guard" THEN m.horizons ELSE memory.horizons,
     values |-> IF w = "none" THEN m.values ELSE memory.values,
     cacheClient |-> memory.cacheClient]

\* transaction::commit, or its exception
Conclude(w, m) ==
    /\ Open(w) /\ jobs[w].todo = <<>>
    /\ memory' = m
    /\ \/ /\ stored' = Sees(w)
          /\ jobs' = [jobs EXCEPT ![w].phase = "committed", ![w].gone = {}, ![w].new = {}]
       \/ jobs' = [jobs EXCEPT ![w] = Idle] /\ UNCHANGED stored
    /\ UNCHANGED <<database, status, asked, crossed, operations>>
CommitOperation(w) == \E m \in jobs[w].early : Conclude(w, With(w, {}, m))

\* What follows a commit, in memory.
UpdateMemory(w) ==
    /\ jobs[w].phase = "committed"
    /\ \E m \in jobs[w].late : memory' = With(w, jobs[w].on, m)
    /\ jobs' = [jobs EXCEPT ![w] = Idle]
    /\ UNCHANGED <<database, stored, status, asked, crossed, operations>>

ListOperation ==
    \E entries \in ListsGiven :
        \/ InsertList(entries)
        \/ \E list \in DOMAIN memory.lists \cup {Stranger} : UpdateList(list, entries)
HorizonOperation ==
    \/ \E list \in DOMAIN memory.lists : InsertHorizon(list)
    \/ \E h \in memory.horizons :
        DeleteHorizon(h) \/ \E list \in DOMAIN memory.lists : UpdateHorizon(h, list)
ServerOperation ==
    \/ \E sockets \in SocketsGiven :
        \/ \E type \in {"dns.udp", "dns.tcp"} : AddServer(type, sockets)
        \/ \E s \in memory.servers :
            \/ UpdateDnsServer(s, sockets)
            \/ \E list \in DOMAIN memory.lists \cup {Stranger} :
                UpdateListServer(s, list, {<<Ip>>}, sockets)
    \/ \E s \in memory.servers : DeleteServer(s)

ConfigurationNext ==
    \/ Restart \/ Crash
    \/ \E w \in Locks :
        ExecuteStatement(w) \/ StatementFails(w) \/ CommitOperation(w) \/ UpdateMemory(w)
    \/ ListOperation \/ HorizonOperation \/ ServerOperation
    \/ \E list \in DOMAIN memory.lists : DeleteList(list)
    \/ \E value \in {"512"} : SetBaseConfig(value)
    \/ UpdateCacheConfig
ConfigurationSpec == ConfigurationInit /\ [][ConfigurationNext]_configuration

----------------------------------------------------------------------------
\* A list that was inserted is, wherever a statement fails or the program
\* crashes and in every database, in the table with all its entries or not
\* there: what the order of the inserts is for (src/socket/address_list.cpp,
\* "insert this last - if the underlying DB doesn't support transactions this
\* results in the least level of mess").
ListsWhole ==
    \A list \in DOMAIN asked \cap Keys(stored, "address_list") :
        Entries(stored, list) = asked[list]

\* "we don't end up with the DB and the cache out of step"
\* (src/api/api_address_list_v1.cpp): with transactions, but for the moment from a
\* commit to what it makes of memory, every address list in memory is the one a
\* start would read, and so is every server, with the addresses it listens on, and
\* so are the horizons: whole where an update reaches its row (UpdateReaches), and
\* as far as which there are where it does not.  Not so a list that a list's request
\* and a server's had in hand at once, for nothing orders the two; nor a list that a
\* caller put under an id of his own, which is in memory only; nor a server that
\* could not be deleted, in the table only.
ListInStep(list) ==
    /\ list \in Keys(stored, "address_list") =>
          list \in DOMAIN memory.lists /\ memory.lists[list] = Entries(stored, list)
    /\ list \in DOMAIN memory.lists \ {Stranger} => list \in Keys(stored, "address_list")
ServersInStep ==
    \A s \in memory.servers :
        /\ R("server", s.id, {}, <<s.type>>) \in stored
        /\ s.sockets = SocketsOf(stored, s.id)
HorizonsInStep ==
    /\ {h.id : h \in memory.horizons} = Keys(stored, "horizon")
    /\ UpdateReaches => memory.horizons = ReadHorizons(stored)
Settled(w) == jobs[w].phase # "committed"
=============================================================================
