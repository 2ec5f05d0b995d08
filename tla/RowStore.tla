------------------------------ MODULE RowStore ------------------------------
(***************************************************************************)
(* Objects in a table of a database: src/db/row.cpp, which calls the       *)
(* helper of the database in use, the four helpers, and transactions and   *)
(* connections (src/db/transaction.cpp, connection.cpp,                    *)
(* connection_pool.cpp).  One table, of any class, used through one        *)
(* connection; the databases themselves are outside and are taken to do    *)
(* what a statement says.                                                  *)
(*                                                                         *)
(* A value is a pair of the member it belongs to and a version, so that    *)
(* one that ends in another column is told apart; uuids are random, so     *)
(* that two of different columns never agree.                              *)
(***************************************************************************)
EXTENDS RecordRows, ConfigRows

CONSTANTS
    Backends,       \* the databases: "sqlite", "mysql", "postgres", "mongodb"
    Versions,       \* the versions of a value
    None,           \* no row
    Null,           \* the value of a column that is null
    Thrown,         \* what reading a row gives that ends in an exception
    Garbage         \* a member that nothing has set

VARIABLES
    backend,        \* connection::m_db_type
    class,          \* the class of the table's rows
    durable,        \* the rows by primary key, as other connections see them
    visible,        \* the rows as this connection sees them
    open,           \* a transaction is open
    session         \* m_mongodb_session: the connection has been in the pool

vars == <<backend, class, durable, visible, open, session>>

Classes == RecordClasses \cup ConfigClasses

\* A mark is not taken for a value, nor the lack of a row for one.
Values(c) == (c.named \X Versions) \cup {Null, Thrown, Garbage}
ASSUME RowStoreAssumption ==
    \A c \in Classes :
        /\ {Null, Garbage} \cap (c.named \X Versions) = {}
        /\ None \notin [c.named -> Values(c)]

----------------------------------------------------------------------------
(* Objects and rows.                                                       *)

Positions == DOMAIN class.columns

\* The objects a caller makes with the accessors: the key of one version,
\* everything else of another; what can be null is so in the second.
NullableMember(m) ==
    \E i \in Positions : Name(class.columns[i]) = m /\ Kind(class.columns[i]) \in Nullable
Object(k, v) ==
    [m \in class.named |->
        IF m = class.key THEN <<m, k>>
        ELSE IF NullableMember(m) /\ v = 2 THEN Null ELSE <<m, v>>]
Objects == {Object(k, v) : k, v \in Versions}

\* get_..._column_value of the overload for the kind of the column
Got(o, i) ==
    IF Kind(class.get[i]) = Kind(class.columns[i]) THEN o[Name(class.get[i])] ELSE Thrown

\* The row that is written: row::json_serialize has no case for octets.
Written(o) ==
    [n \in {Name(class.columns[i]) : i \in Positions} |->
        LET i == CHOOSE j \in Positions : Name(class.columns[j]) = n
        IN  IF backend = "mongodb" /\ Kind(class.columns[i]) = "octet"
            THEN Garbage ELSE Got(o, i)]
KeyOf(row) == row[class.key][2]

\* The overload of set_column_value a helper calls with a value it has read:
\* mysql has the one for strings only, json_unserialize those for values that
\* cannot be null.
SetKind(i) ==
    IF \/ backend = "mongodb"
       \/ backend = "mysql" /\ Kind(class.columns[i]) = "nullable_string"
    THEN Plain(Kind(class.columns[i])) ELSE Kind(class.columns[i])

\* The columns that are set at all, and whether one of them throws.
Set(row, i) ==
    /\ row[Name(class.columns[i])] # Garbage
    /\ row[Name(class.columns[i])] = Null => backend = "mongodb"
Throws(row, i) ==
    /\ Set(row, i)
    /\ \/ row[Name(class.columns[i])] = Null
       \/ SetKind(i) # Kind(class.set[i])

\* fetch_row and fetch_rows: the object made of a row
Fetched(row) ==
    IF row = None THEN None
    ELSE IF \E i \in Positions : Throws(row, i) THEN Thrown
    ELSE [m \in class.named |->
            IF \E i \in Positions : Name(class.set[i]) = m /\ Set(row, i)
            THEN row[Name(class.columns[CHOOSE i \in Positions :
                                            Name(class.set[i]) = m /\ Set(row, i)])]
            ELSE IF NullableMember(m) THEN Null ELSE Garbage]

----------------------------------------------------------------------------
(* Connections and transactions.                                           *)

NoRows == [k \in Versions |-> None]

Init ==
    /\ backend \in Backends
    /\ class \in Classes
    /\ durable = NoRows
    /\ visible = NoRows
    /\ open = FALSE
    /\ session = FALSE

\* transaction::transaction: a mongodb connection that does not come from the
\* pool has no session, and throws.
Begin ==
    /\ ~open
    /\ backend = "mongodb" => session
    /\ open' = TRUE
    /\ UNCHANGED <<backend, class, durable, visible, session>>

\* connection_guard::~connection_guard and connection_pool::get_connection: the
\* connection comes back from the pool, or a new one when it has grown stale.
Reconnect(stale) ==
    /\ ~open
    /\ stale => backend \in {"mysql", "mongodb"}
    /\ session' = (backend = "mongodb" /\ ~stale)
    /\ UNCHANGED <<backend, class, durable, visible, open>>

Commit ==
    /\ open
    /\ open' = FALSE
    /\ durable' = visible
    /\ UNCHANGED <<backend, class, visible, session>>

\* transaction::rollback and its destructor, which calls it when a statement
\* or the commit has thrown.  The statements of the mongodb helper are not
\* part of the session's transaction.
RollbackForgotten ==
    /\ open
    /\ open' = FALSE
    /\ UNCHANGED <<backend, class, durable, visible, session>>
Rollback ==
    /\ open
    /\ open' = FALSE
    /\ visible' = durable
    /\ UNCHANGED <<backend, class, durable, session>>

----------------------------------------------------------------------------
(* Statements.                                                             *)

Execute(rows) ==
    /\ visible' = rows
    /\ durable' = IF open /\ backend # "mongodb" THEN durable ELSE rows
    /\ UNCHANGED <<backend, class, open, session>>

\* row::insert_row; the primary key is unique.
InsertRow(o) ==
    LET row == Written(o)
    IN  /\ visible[KeyOf(row)] = None
        /\ Execute([visible EXCEPT ![KeyOf(row)] = row])

\* The columns but the key, in the order the text of an update has them.
KeyPosition == CHOOSE i \in Positions : Name(class.columns[i]) = class.key
NotKey ==
    [j \in 1..(Len(class.columns) - 1) |-> class.columns[IF j < KeyPosition THEN j ELSE j + 1]]

\* update_row of sqlite: the values are bound in the order of all columns, to
\* placeholders that leave out the key and end with it.
SqliteUpdate(o) ==
    LET last == Len(class.columns)
        ks == {k \in Versions : visible[k] # None /\ visible[k][class.key] = Got(o, last)}
        Value(row, n) ==
            IF n = class.key THEN row[n]
            ELSE Got(o, CHOOSE j \in DOMAIN NotKey : Name(NotKey[j]) = n)
    IN  [k \in Versions |->
            IF k \notin ks THEN visible[k]
            ELSE [n \in DOMAIN visible[k] |-> Value(visible[k], n)]]

\* update_row of mysql and of mongodb
KeyedUpdate(o) ==
    [k \in Versions |->
        IF visible[k] = None \/ Written(o)[class.key] # visible[k][class.key]
        THEN visible[k] ELSE Written(o)]
\* update_row of postgres: the key is compared with the parameter after its
\* own; there is none when it is the last, which throws.
PostgresUpdate(o) ==
    [k \in Versions |->
        IF visible[k] # None /\ visible[k][class.key] = Got(o, KeyPosition + 1)
        THEN Written(o) ELSE visible[k]]

Updated(o) ==
    CASE backend = "sqlite"   -> SqliteUpdate(o)
      [] backend = "postgres" -> PostgresUpdate(o)
      [] OTHER                -> KeyedUpdate(o)
UpdateRow(o) ==
    /\ backend = "postgres" => KeyPosition < Len(class.columns)
    /\ Execute(Updated(o))

\* row::delete_row, of an object that was read or made
DeleteRow(o) ==
    Execute([k \in Versions |->
        IF visible[k] # None /\ visible[k][class.key] = Got(o, KeyPosition)
        THEN None ELSE visible[k]])

\* The class's delete_by_n with a value.  check_foreign_keys goes through
\* get_foreign_keys, which no class fills.
Left(n, value) ==
    [k \in Versions |->
        IF visible[k] # None /\ visible[k][Name(class.columns[class.by[n]])] = value
        THEN None ELSE visible[k]]
DeleteBy(n, value) == Execute(Left(n, value))

Next ==
    \/ Begin \/ Commit \/ Rollback
    \/ \E stale \in BOOLEAN : Reconnect(stale)
    \/ \E o \in Objects : InsertRow(o) \/ UpdateRow(o) \/ DeleteRow(o)
    \/ \E n \in DOMAIN class.by, v \in Versions : DeleteBy(n, <<n, v>>)

Spec == Init /\ [][Next]_vars

----------------------------------------------------------------------------
(* What a caller may rely on, and where a database does not give it.       *)

OfKind(kinds) == {Name(class.columns[i]) : i \in {j \in Positions : Kind(class.columns[j]) \in kinds}}

\* mongodb loses the octets and cannot read a row that has a nullable column;
\* mysql cannot read a string in one.
Kept == class.named \ (IF backend = "mongodb" THEN OfKind({"octet"}) ELSE {})
Readable(o) ==
    /\ backend = "mongodb" => OfKind(Nullable) = {}
    /\ backend = "mysql" => \A m \in OfKind({"nullable_string"}) : o[m] = Null

Carries(read, o) == \A m \in Kept : read[m] = o[m]

\* What an insert or an update has written is read back member by member as
\* the caller's object had it, whatever the class and the database: the order
\* of the columns, of the placeholders and of both families of overloads by
\* position, written by a generator for 45 tables, agree.
RowsComeBack ==
    [][visible' # visible =>
        \A o \in Objects :
            Readable(o) /\ (InsertRow(o) \/ UpdateRow(o)) =>
                \A k \in Versions :
                    visible'[k] # visible[k] => Carries(Fetched(visible'[k]), o)]_vars

\* delete_by_... of a member removes the rows whose objects have the value in
\* that member, and no others: the position a class compares is the member's.
DeletesOnlyTheirs ==
    \A n \in DOMAIN class.by, v, k \in Versions :
        Left(n, <<n, v>>)[k] = IF visible[k] # None /\ visible[k][n] = <<n, v>>
                               THEN None ELSE visible[k]

\* Through transactions, commits, rollbacks and the reuse of connections, the
\* rows are those of a table with transactions; only mongodb, whose statements
\* are not part of the transaction, undoes nothing.
Table == INSTANCE TransactionalTable WITH
    Keys <- Versions, NoRow <- None, undoes <- backend # "mongodb"
ImplementsTable == Table!Spec
=============================================================================
