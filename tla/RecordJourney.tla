--------------------------- MODULE RecordJourney ---------------------------
(***************************************************************************)
(* One resource record on its way through the server: posted as JSON       *)
(* (dns_rr_parser::from_json and the json_unserialize of each type), kept  *)
(* as an object, inserted into its row and read from it (dns_rr_dal), sent *)
(* in a message and received from one (DnsWire), shown as JSON again.  The *)
(* journey takes the legs in any order that the forms allow, so that what  *)
(* one leg does to a record meets what the next one does.                  *)
(*                                                                         *)
(* A text is a sequence of octets and dots: Dot is no octet, and an octet  *)
(* that isprint refuses is written as one (dns_label::to_string).          *)
(***************************************************************************)
EXTENDS DnsWire

CONSTANTS
    Unprintable,    \* octets that isprint refuses
    MaxSize,        \* the largest message the transport takes
    MaxSends        \* bound on the messages the record is sent in

VARIABLES
    posted,     \* what was posted
    place,      \* "json", "object", "row", "octets" or "failed"
    form,       \* the record, as it is there
    sends       \* how many messages it has been sent in

travel == <<posted, place, form, sends>>

Dot == Base

----------------------------------------------------------------------------
(* Labels and names as text                                                *)

LabelText(label) ==
    [i \in DOMAIN label |-> IF label[i] \in Unprintable THEN Dot ELSE label[i]]

NameText(name) ==
    FoldLeft(LAMBDA text, label : (IF text = <<>> THEN <<>> ELSE text \o <<Dot>>) \o LabelText(label),
             <<>>, name)

LabelOf(text) == IF Len(text) > MAX_LABEL_LENGTH THEN Bad ELSE text

\* dns_name's constructor: one dot at the end is dropped, the others split.
Checked(labels) == IF \E i \in DOMAIN labels : LabelOf(labels[i]) = Bad THEN Bad ELSE labels
Between(text, cuts) ==
    [i \in 1..Len(cuts) - 1 |-> SubSeq(text, cuts[i] + 1, cuts[i + 1] - 1)]
Split(text) ==
    Between(text, SetToSortSeq({i \in DOMAIN text : text[i] = Dot} \cup {0, Len(text) + 1}, <))
NameOf(text) ==
    IF text \in {<<>>, <<Dot>>} THEN <<>>
    ELSE Checked(Split(IF Last(text) = Dot THEN Front(text) ELSE text))

----------------------------------------------------------------------------
(* A value outside its object, in JSON or in a column, goes with the form  *)
(* it is written in, and is read in the same form or not at all.           *)

Outer(how, kind, value) ==
    <<how,
      CASE kind = "name"  -> NameText(value)
        [] kind = "label" -> LabelText(value)
        [] kind = "ipseckey" -> IF value.gateway_type # 3 THEN value
                                ELSE [value EXCEPT !.gateway = NameText(@)]
        [] OTHER -> value>>

\* C's conversion of an int to the type of the member
Narrow(kind, n) ==
    CASE kind = "short"  -> Signed(n, 2)
      [] kind = "ushort" -> Unsigned(n, 2)
      [] kind = "octet"  -> Unsigned(n, 1)
      [] kind = "int"    -> Signed(n, 4)
      [] kind = "uint"   -> Unsigned(n, 4)

WithGateway(outer, gateway) ==
    IF gateway = Bad THEN Bad
    ELSE [outer EXCEPT !.gateway = gateway, !.precedence = Unsigned(@, 1),
                       !.algorithm = Unsigned(@, 1)]
IpseckeyOf(outer) ==
    WithGateway(outer, IF outer.gateway_type = 3 THEN NameOf(outer.gateway) ELSE outer.gateway)

Inner(how, kind, outer) ==
    CASE how # outer[1]       -> Bad
      [] how = outer[1] /\ kind = "name"     -> NameOf(outer[2])
      [] how = outer[1] /\ kind = "label"    -> LabelOf(outer[2])
      [] how = outer[1] /\ kind = "ipseckey" -> IpseckeyOf(outer[2])
      [] how = outer[1] /\ kind \in {"short", "ushort", "octet", "int", "uint"} ->
            Narrow(kind, outer[2])
      [] OTHER -> outer[2]

MembersOf(type) == ToSet(Formats[type].members)
InJson(members) == {m \in members : m.form # "none"}

\* One value for every member
ForEach(members, Value(_)) ==
    [x \in {m.member : m \in members} |-> Value(CHOOSE m \in members : m.member = x)]

\* What throws in a name or in a member, throws.
Assembled(type, name, ttl, data) ==
    IF name = Bad THEN Bad
    ELSE IF \E x \in DOMAIN data : data[x] = Bad THEN Bad
    ELSE [type |-> type, name |-> name, ttl |-> ttl, data |-> data]

\* json_serialize, and from_json with json_unserialize; the time to live goes
\* through an int both ways.
ToJson(rr) ==
    [type |-> rr.type, name |-> NameText(rr.name), ttl |-> Signed(rr.ttl, 4),
     data |-> ForEach(InJson(MembersOf(rr.type)),
                      LAMBDA m : Outer(m.form, m.kind, rr.data[m.member]))]
FromJson(json) ==
    Assembled(json.type, NameOf(json.name), Unsigned(json.ttl, 4),
        ForEach(MembersOf(json.type),
            LAMBDA m : IF m.form = "none" THEN <<>>
                       ELSE Inner(m.form, m.kind, json.data[m.member])))

\* dns_rr_dal's insert and read, by the lists of the type's columns
Columns(list, members, Value(_, _)) ==
    [x \in {c[2] : c \in ToSet(list)} |->
        Value((CHOOSE c \in ToSet(list) : c[2] = x)[1], CHOOSE m \in members : m.member = x)]
Insert(rr) ==
    [type |-> rr.type, name |-> NameText(rr.name), ttl |-> rr.ttl,
     columns |-> Columns(Formats[rr.type].insert, MembersOf(rr.type),
                         LAMBDA how, m : Outer(how, m.kind, rr.data[m.member]))]
Read(row) ==
    Assembled(row.type, NameOf(row.name), row.ttl,
        Columns(Formats[row.type].read, MembersOf(row.type),
            LAMBDA how, m : IF m.member \notin DOMAIN row.columns THEN Bad
                            ELSE Inner(how, m.kind, row.columns[m.member])))

----------------------------------------------------------------------------
(* The records that are posted: of each type one with the usual value in   *)
(* every member, and those with one value at an edge.                      *)

Octets(n) == [i \in 1..n |-> ((i - 1) % (Base - 1)) + 1]
Address(part) ==
    CASE part = "ip4" -> Octets(4) [] part = "ip6" -> Octets(16)
      [] part = "eui48" -> Octets(6) [] part = "eui64" -> Octets(8)

IsAddress(kind) == kind \in {"ip", "eui48", "eui64"}
IsNumber(kind) == kind \in {"short", "ushort", "octet", "int", "uint"}
Ipsec(gateway_type, gateway) ==
    [precedence |-> 1, gateway_type |-> gateway_type, algorithm |-> 2,
     gateway |-> gateway, public_key |-> <<7, 8>>]

UsualName == <<<<1>>, <<2>>>>
Usual(kind, part) ==
    CASE IsNumber(kind)      -> 5
      [] kind = "name"      -> UsualName
      [] kind = "label"     -> <<3>>
      [] kind \in {"text", "buffer"} -> <<4, 5>>
      [] kind = "txt"       -> <<<<1>>, <<2, 3>>>>
      [] kind = "svcparams" -> [port |-> 5]
      [] kind = "ipseckey"  -> Ipsec(0, <<>>)
      [] kind = "bitmap"    -> {1, 5}
      [] IsAddress(kind)    -> Address(part)

EdgeNames ==
    {<<>>, <<Octets(MAX_LABEL_LENGTH - 1)>>, <<Octets(MAX_LABEL_LENGTH)>>,
     <<<<1>>, <<>>, <<2>>>>} \cup {<<<<1, o>>, <<2>>>> : o \in Unprintable}
Edges(kind) ==
    CASE kind \in {"short", "ushort"} -> {0, ShortBase \div 2, ShortBase - 1}
      [] kind = "octet"     -> {0, Base - 1}
      [] kind = "int"       -> {0, -1, (Base^4 \div 2) - 1}
      [] kind = "uint"      -> {0, Base^4 - 1}
      [] kind = "name"      -> EdgeNames
      [] kind = "label"     -> {Octets(n) : n \in {0, MAX_LABEL_LENGTH, MAX_LABEL_LENGTH + 1}}
                                    \cup {<<1, o>> : o \in Unprintable}
      [] kind \in {"text", "buffer"} -> {<<>>}
      [] kind = "txt"       -> {<<>>, <<Octets(MAX_TXT_LEN), <<>>>>, <<Octets(MAX_TXT_LEN + 1)>>}
      [] kind = "svcparams" ->
            {[mandatory |-> <<3, 4>>, ech |-> <<6>>, ipv4hint |-> <<Octets(4), Octets(4)>>],
             [ipv6hint |-> <<Octets(16)>>, no_default_alpn |-> <<>>],
             [alpn |-> <<Octets(2)>>], [alpn |-> <<Octets(2), <<2>>, <<3>>>>]}
      [] kind = "ipseckey"  -> {Ipsec(1, Octets(4)), Ipsec(2, Octets(16)), Ipsec(3, UsualName)}
      [] kind = "bitmap"    -> {{}, {Base - 1}, {1, Base}}
      [] IsAddress(kind)    -> {}

PartFor(parts, name) == (CHOOSE p \in ToSet(parts) : p[2] = name)[1]

UsualOf(type, format) ==
    [type |-> type, name |-> UsualName, ttl |-> 5,
     data |-> ForEach(ToSet(format.members),
                      LAMBDA m : Usual(m.kind, PartFor(format.unparse, m.member)))]
UsualRecord(type) == UsualOf(type, Formats[type])
Variants(usual) ==
    {usual} \cup {[usual EXCEPT !.name = n] : n \in EdgeNames}
    \cup {[usual EXCEPT !.ttl = n] : n \in {0, (Base^4 \div 2) - 1}}
    \cup UNION {{[usual EXCEPT !.data[m.member] = v] : v \in Edges(m.kind)} :
                    m \in InJson(MembersOf(usual.type))}
RecordsOf(type) == Variants(UsualRecord(type))

\* What is posted has the octets of its texts as they are.
PlainText(name) == FoldLeft(LAMBDA text, label :
                       (IF text = <<>> THEN <<>> ELSE text \o <<Dot>>) \o label, <<>>, name)
AsPosted(how, kind, value) ==
    CASE kind = "name"                -> <<how, PlainText(value)>>
      [] kind = "label"               -> <<how, value>>
      [] kind \notin {"name", "label"} -> Outer(how, kind, value)
Post(rr) ==
    [type |-> rr.type, name |-> PlainText(rr.name), ttl |-> Signed(rr.ttl, 4),
     data |-> ForEach(InJson(MembersOf(rr.type)),
                      LAMBDA m : AsPosted(m.form, m.kind, rr.data[m.member]))]

\* Messages a record is sent in: alone, and twice among others, where names
\* are written once and pointed to.
Companion == [type |-> "NS", name |-> Tail(UsualName), ttl |-> 5,
              data |-> [nsdname |-> <<<<3>>, <<2>>>>]]
Padding == [UsualRecord("GENERIC") EXCEPT !.data.contents = Octets(StandardSize)]
Message(id, code, answers, nameservers, additional, edns) ==
    [id |-> id, code |-> code, question |-> UsualName, answers |-> answers,
     nameservers |-> nameservers, additional |-> additional, edns |-> edns]
MessagesOf(rr) ==
    {Message(1, 0, <<rr>>, <<>>, <<>>, FALSE),
     Message(ShortBase - 1, RcodeBase - 1, <<rr, Padding>>, <<Companion>>, <<rr>>, TRUE)}

----------------------------------------------------------------------------
TravelInit ==
    /\ posted \in {Post(rr) : rr \in UNION {RecordsOf(t) : t \in DOMAIN Formats}}
    /\ place = "json"
    /\ form = posted
    /\ sends = 0

Arrive(there, made) ==
    /\ IF made = Bad THEN place' = "failed" /\ form' = form
       ELSE place' = there /\ form' = made
    /\ UNCHANGED posted

TakeJson == place = "json" /\ Arrive("object", FromJson(form)) /\ UNCHANGED sends
Show == place = "object" /\ Arrive("json", ToJson(form)) /\ UNCHANGED sends
InsertRow ==
    /\ place = "object"
    /\ Arrive("row", IF Formats[form.type].stored THEN Insert(form) ELSE Bad)
    /\ UNCHANGED sends
ReadRow == place = "row" /\ Arrive("object", Read(form)) /\ UNCHANGED sends
Packet(raw, sent) == IF raw = Bad THEN Bad ELSE [raw |-> raw, sent |-> sent]
Send ==
    /\ place = "object" /\ sends < MaxSends
    /\ sends' = sends + 1
    /\ \E m \in MessagesOf(form) : Arrive("octets", Packet(ToWire(m, MaxSize), m))
FirstAnswer(m) == IF m = Bad THEN Bad ELSE IF m.answers = <<>> THEN Bad ELSE Head(m.answers)
Receive == place = "octets" /\ Arrive("object", FirstAnswer(FromWire(form.raw))) /\ UNCHANGED sends

Travel == TakeJson \/ Show \/ InsertRow \/ ReadRow \/ Send \/ Receive
TravelSpec == TravelInit /\ [][Travel]_travel

----------------------------------------------------------------------------
(* What the code does not carry.  Each conjunct that refuses a value is a  *)
(* place where two of the conversions disagree.                            *)

Printable(label) == \A i \in DOMAIN label : label[i] \notin Unprintable
OrdinaryName(name) ==
    \A i \in DOMAIN name : name[i] # <<>> /\ Len(name[i]) < MAX_LABEL_LENGTH /\ Printable(name[i])
OrdinaryValue(kind, v) ==
    CASE kind = "short"     -> v >= 0
      [] kind = "name"      -> OrdinaryName(v)
      [] kind = "label"     -> Printable(v)
      [] kind = "txt"       -> \A i \in DOMAIN v : Len(v[i]) <= MAX_TXT_LEN
      [] kind = "svcparams" -> "alpn" \notin DOMAIN v
      [] kind = "ipseckey"  -> FALSE
      [] kind = "bitmap"    -> v # {} /\ \A t \in v : t < Base
      [] OTHER              -> TRUE
OrdinaryRecord(rr) ==
    /\ rr # Bad /\ rr.type # "OPT"
    /\ OrdinaryName(rr.name)
    /\ \A m \in MembersOf(rr.type) : OrdinaryValue(m.kind, rr.data[m.member])
Ordinary(json) == OrdinaryRecord(FromJson(json))

\* An ordinary record is at every place what was posted, whichever legs it has
\* travelled before and in whatever order; the only thing that stops one is
\* that its type has no table (dns_rr_parser, dns_rr_dal, dns_message_serial
\* and the json_serialize of each type agree on every member).
Unaltered ==
    Ordinary(posted) =>
        /\ place = "json"   => form = posted
        /\ place = "object" => form = FromJson(posted)
        /\ place = "row"    => Read(form) = FromJson(posted)
        /\ place = "failed" => ~Formats[posted.type].stored

\* A message of ordinary records is parsed into the very message that was
\* sent, with its code, its options and the records around, whether or not its
\* names are compressed (to_wire and from_wire in dns_message_parser.cpp).
MessagesComeBack ==
    place = "octets" /\ Ordinary(posted) => FromWire(form.raw) = form.sent
=============================================================================
