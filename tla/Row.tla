-------------------------------- MODULE Row --------------------------------
(***************************************************************************)
(* A class of rows (src/db/row.hpp, generated from src/db/row_template_cpp)*)
(* as the helpers of the databases see it: the columns in the order of     *)
(* their positions, and for every position the overload of                 *)
(* set_column_value and of get_..._column_value that has it, with the      *)
(* member it is for.  A column and an overload are pairs <<kind, name>>.   *)
(***************************************************************************)
EXTENDS Naturals, Sequences

S(n)  == <<"string", n>>
I(n)  == <<"int", n>>
U(n)  == <<"uint", n>>
O(n)  == <<"octet", n>>
B(n)  == <<"bool", n>>
D(n)  == <<"datetime", n>>
Id(n) == <<"uuid", n>>
NS(n) == <<"nullable_string", n>>
NU(n) == <<"nullable_uint", n>>

Kind(c) == c[1]
Name(c) == c[2]

Nullable == {"nullable_string", "nullable_uint"}
Plain(kind) == CASE kind = "nullable_string" -> "string"
                 [] kind = "nullable_uint"   -> "uint"
                 [] OTHER                    -> kind

\* The class of a table: its primary key, the columns, the two families of
\* overloads, the position get_by_... and delete_by_... compare, and the
\* members with accessors of their names.
Class(table, key, columns, set, get, by, named) ==
    [table |-> table, key |-> key, columns |-> columns, set |-> set,
     get |-> get, by |-> by, named |-> named]
=============================================================================
