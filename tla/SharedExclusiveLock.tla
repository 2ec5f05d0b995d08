------------------------ MODULE SharedExclusiveLock ------------------------
(***************************************************************************)
(* What acore/read_write_lock promises its callers: "One writer, many      *)
(* readers, writer has priority".  Threads hold the lock shared or         *)
(* exclusively; a thread waiting for the exclusive mode closes the lock to *)
(* newcomers that want it shared.  ReadWriteLock implements this module.   *)
(***************************************************************************)
CONSTANT Threads

VARIABLES shared,      \* threads that hold the lock for read
          exclusive,   \* threads that hold it for write
          waiting      \* threads that wait to hold it for write

vars == <<shared, exclusive, waiting>>

Init == shared = {} /\ exclusive = {} /\ waiting = {}

Outside(t) == t \notin shared \union exclusive \union waiting

AcquireShared(t) ==
  /\ Outside(t)
  /\ exclusive = {} /\ waiting = {}
  /\ shared' = shared \union {t}
  /\ UNCHANGED <<exclusive, waiting>>

AwaitExclusive(t) ==
  /\ Outside(t)
  /\ shared \union exclusive # {}
  /\ waiting' = waiting \union {t}
  /\ UNCHANGED <<shared, exclusive>>

AcquireExclusive(t) ==
  /\ t \notin shared \union exclusive
  /\ shared = {} /\ exclusive = {}
  /\ exclusive' = {t}
  /\ waiting' = waiting \ {t}
  /\ UNCHANGED shared

Release(t) ==
  /\ t \in shared \union exclusive
  /\ shared' = shared \ {t}
  /\ exclusive' = exclusive \ {t}
  /\ UNCHANGED waiting

Next == \E t \in Threads :
  \/ AcquireShared(t)
  \/ AwaitExclusive(t)
  \/ AcquireExclusive(t)
  \/ Release(t)

Spec == Init /\ [][Next]_vars
=============================================================================
