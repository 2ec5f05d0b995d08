------------------------------ MODULE Startup ------------------------------
(***************************************************************************)
(* The first start of the program, and the starts after a crash in the     *)
(* middle of it: schema_manager (src/db/schema_manager.cpp) makes the      *)
(* tables, rows and indexes of a new database one statement at a time,     *)
(* outside any transaction, and main (src/adns.cpp) then reads what it     *)
(* finds and serves.  A statement that fails ends the program as a crash   *)
(* does.                                                                   *)
(***************************************************************************)
EXTENDS Schema

CONSTANT StartBackends      \* databases to start on

VARIABLES
    store,      \* connection::m_db_type
    phase,      \* how far main has come; "refused" when it has ended in an exception
    done        \* the statements of create the database has executed

startup == <<store, phase, done>>

Creation == [backend \in StartBackends |-> Statements(backend)]
Made(kind) ==
    {Creation[store][i][2] : i \in {j \in 1..done : Creation[store][j][1] = kind}}

StartupInit ==
    /\ store \in StartBackends
    /\ phase = "down"
    /\ done = 0

StartProgram ==
    /\ phase \in {"down", "refused"}
    /\ phase' = "checking"
    /\ UNCHANGED <<store, done>>

\* schema_manager::update_or_create and update: the version decides, and only
\* the table of versions tells a new database from one that has been made.
CheckSchema ==
    /\ phase = "checking"
    /\ LET versions == Of(Made("row"), "schema_version")
       IN  phase' = IF "schema_version" \notin Made("table") THEN "creating"
                    ELSE IF {v.val : v \in versions} = {<<"1">>} /\ Cardinality(versions) = 1
                    THEN "reading" ELSE "refused"
    /\ UNCHANGED <<store, done>>

Create ==
    /\ phase = "creating"
    /\ IF done < Len(Creation[store])
       THEN done' = done + 1 /\ UNCHANGED phase
       ELSE phase' = "reading" /\ UNCHANGED done
    /\ UNCHANGED store

\* address_list::load_cache, config::init_config and class_init, of tables
\* that all exist or a read throws.
Read ==
    /\ phase = "reading"
    /\ phase' = IF ToSet(ConfigTables) \subseteq Made("table") /\ CanRead(Made("row"))
                THEN "serving" ELSE "refused"
    /\ UNCHANGED <<store, done>>

CrashAnywhere ==
    /\ phase \in {"checking", "creating", "reading", "serving"}
    /\ phase' = "down"
    /\ UNCHANGED <<store, done>>

StartupNext == StartProgram \/ CheckSchema \/ Create \/ Read \/ CrashAnywhere
StartupSpec == StartupInit /\ [][StartupNext]_startup

----------------------------------------------------------------------------
\* Whatever was cut short, a program that serves has everything it was to be
\* given but root servers, the horizon and indexes: no start is content with
\* a part of the configuration, for the order of the rows leaves what reading
\* insists on to the end.  (src/db/table.cpp:902: a start after a crash tells
\* a new database by one table only, and never completes what was begun.)
Optional(row) == row.table \in {"root_server", "horizon"}
ServesWhole ==
    phase = "serving" =>
        /\ {row \in ToSet(StaticRows) : ~Optional(row)} \subseteq Made("row")
        /\ ToSet(ConfigTables \o RecordTables) \subseteq Made("table")
=============================================================================
