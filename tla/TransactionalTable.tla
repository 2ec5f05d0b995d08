------------------------ MODULE TransactionalTable -------------------------
(***************************************************************************)
(* What the database layer promises (src/db/row.hpp, transaction.hpp): a   *)
(* table of rows by their primary key, seen through one connection.        *)
(* Within a transaction the others see what was committed last; without    *)
(* one every change is durable at once.  A transaction that is not         *)
(* committed is undone, unless the store cannot do that.  What the values  *)
(* are is left open.                                                       *)
(***************************************************************************)
CONSTANTS Keys, NoRow

VARIABLES
    durable,    \* what the other connections see
    visible,    \* what this connection sees
    open,       \* a transaction is open
    undoes      \* the store can undo, which never changes

vars == <<durable, visible, open, undoes>>

Init ==
    /\ DOMAIN durable = Keys
    /\ visible = durable
    /\ open = FALSE
    /\ undoes \in BOOLEAN

Begin ==
    /\ ~open
    /\ open' = TRUE
    /\ UNCHANGED <<durable, visible, undoes>>

\* One row is written, or rows are removed, or nothing changes.
Changed == {k \in Keys : visible'[k] # visible[k]}
Change ==
    /\ DOMAIN visible' = Keys
    /\ \/ \E k \in Keys : Changed \subseteq {k}
       \/ \A k \in Changed : visible'[k] = NoRow
    /\ durable' = IF open /\ undoes THEN durable ELSE visible'
    /\ UNCHANGED <<open, undoes>>

Commit ==
    /\ open
    /\ open' = FALSE
    /\ durable' = visible
    /\ UNCHANGED <<visible, undoes>>

Rollback ==
    /\ open
    /\ open' = FALSE
    /\ visible' = durable
    /\ UNCHANGED <<durable, undoes>>

Next == Begin \/ Commit \/ Rollback \/ Change

Spec == Init /\ [][Next]_vars
=============================================================================
