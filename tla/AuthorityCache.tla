--------------------------- MODULE AuthorityCache ---------------------------
(***************************************************************************)
(* What the cache of resource records may not do to the answers:           *)
(* dns_rr_cache (src/zone/dns_rr_cache.cpp) reads a list when it is first  *)
(* asked for, so that a reply comes from lists which other questions have  *)
(* read and from lists it reads itself.  It is to be the reply that would  *)
(* be given if every list of every zone had been read.                     *)
(***************************************************************************)
EXTENDS Authority

\* What the lists would be if all had been read, and the name server that has
\* them.
AllRead ==
    [id \in ZoneIds |->
        IF Holders(id) = {} THEN Cold
        ELSE [t \in Types |-> Listed(CHOOSE h \in Holders(id) : TRUE, id, t)]]
Warm == INSTANCE Authority WITH rrCache <- AllRead

\* The horizons that hold a zone, one unless it has moved, take it for forwarded
\* or not alike: a list is empty when the first that reads it takes it for
\* forwarded.
OneMind(id) == \A g, h \in Holders(id) : Forwarded(g, id) = Forwarded(h, id)

\* A zone of which the first reader of a list does not matter: its DNAME records,
\* if there are some, have been read (get_DNAME does not read them), and it has
\* the SOA and the NS without which the first read of them is an exception and
\* the second is not.
Readable(id) ==
    /\ OneMind(id)
    /\ OfType(recordRows[id], "DNAME") # {} => rrCache[id]["DNAME"] # Unread
    /\ \A h \in Holders(id), t \in {"SOA", "NS"} : ~Unreadable(h, id, t)

\* A reply does not depend on what was read before the question came, as long
\* as every zone is Readable (dns_rr_cache::get_resource_records, get_CNAME,
\* get_DNAME, get_delegated_NS, get_NS and get_SOA).
RepliesIgnoreTheCache ==
    (\A id \in ZoneIds : Readable(id)) =>
        \A a \in Asked : Reply(a) = Warm!HandleRequest(a[1], a[2], FALSE)

=============================================================================
