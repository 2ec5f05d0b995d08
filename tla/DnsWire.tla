------------------------------ MODULE DnsWire ------------------------------
(***************************************************************************)
(* DNS messages as octets: src/message/dns_message_serial.cpp,             *)
(* dns_message_parser.cpp and the records of src/zone/dns_rr_parser.cpp.   *)
(*                                                                         *)
(* An octet has OctetBits bits, and every width and limit of the code that *)
(* follows from eight is written in them: an unsigned short has two octets.*)
(***************************************************************************)
EXTENDS RecordFormats, NameWire, FiniteSets, SequencesExt

CONSTANT StandardSize   \* STANDARD_MESSAGE_SIZE

\* Eight, fewer where the labels are short
OctetBits == CHOOSE bits \in 2..8 : 2^bits = Base
ShortBase == Base^2
MAX_TXT_LEN == Base - 1

\* Conversions of C between integers of a width, in octets
Unsigned(n, octets) == n % Base^octets
Signed(n, octets) ==
    LET u == Unsigned(n, octets)
    IN  IF u < Base^octets \div 2 THEN u ELSE u - Base^octets

----------------------------------------------------------------------------
(* Unparsing                                                               *)

Throw(w) == [w EXCEPT !.thrown = TRUE]

Digits(n, octets) ==
    [i \in 1..octets |-> (Unsigned(n, octets) \div Base^(octets - i)) % Base]
PutShort(w, n) == PutOctets(w, Digits(n, 2))
PutInt(w, n)   == PutOctets(w, Digits(n, 4))

PutBuffer(w, data) == PutOctets(PutShort(w, Len(data)), data)

PutTxt(w, strings) ==
    IF \E i \in DOMAIN strings : Len(strings[i]) > MAX_TXT_LEN THEN Throw(w)
    ELSE FoldLeft(PutString, w, strings)

WithLength(text) == <<Len(text)>> \o text

\* The octets of a SVCB record's parameter, by its key
SvcparamOctets(key, value) ==
    CASE key = "alpn"             -> FlattenSeq([i \in DOMAIN value |-> WithLength(value[i])])
      [] key = "mandatory"        -> FlattenSeq([i \in DOMAIN value |-> Digits(value[i], 2)])
      [] key = "port"             -> Digits(value, 2)
      [] key \in {"ipv4hint", "ipv6hint"} -> FlattenSeq(value)
      [] key = "ech"              -> value
      [] key = "no_default_alpn"  -> <<>>

\* dns_svcparam::svcparam_type_t, from 0
SvcparamKeys ==
    <<"mandatory", "alpn", "no_default_alpn", "port", "ipv4hint", "ech", "ipv6hint">>

\* unparse_svcparams, in the order of the map
PutSvcparams(w, params) ==
    LET PutOne(v, i) ==
            LET key == SvcparamKeys[i]
                octets == SvcparamOctets(key, params[key])
            IN  IF key \notin DOMAIN params THEN v
                ELSE IF key = "alpn" /\ \E j \in DOMAIN params[key] : Len(params[key][j]) >= Base
                THEN Throw(v)
                ELSE PutBuffer(PutShort(v, i - 1), octets)
    IN  FoldLeft(PutOne, w, [i \in 1..7 |-> i])

\* unparse_ipseckey ends with unparse_buffer, which writes a length as well.
PutGateway(w, key) ==
    IF key.gateway_type = 3 THEN PutName(w, key.gateway, FALSE) ELSE PutOctets(w, key.gateway)
PutIpseckey(w, key) ==
    PutBuffer(PutGateway(FoldLeft(PutOctet, w,
                             <<key.precedence, key.gateway_type, key.algorithm>>), key),
              key.public_key)

\* unparse_type_bitmap: one window, of the types below the number of an octet
PutBitmap(w, types) ==
    LET Bit(byte, bit) == IF (byte * OctetBits) + bit \in types THEN 2^(OctetBits - 1 - bit) ELSE 0
        Byte(byte) == FoldFunction(+, 0, [bit \in 0..OctetBits - 1 |-> Bit(byte, bit)])
        last == CHOOSE t \in types : \A u \in types : u <= t
    IN  IF types = {} \/ \E t \in types : t >= Base THEN Throw(w)
        ELSE PutString(PutOctet(w, 0), [i \in 1..(last \div OctetBits) + 1 |-> Byte(i - 1)])

\* A part of a record, by the primitive that unparses it
PutPart(w, kind, value, compress) ==
    CASE kind \in {"short", "ushort"} -> PutShort(w, value)
      [] kind \in {"int", "uint"}     -> PutInt(w, value)
      [] kind = "octet"               -> PutOctet(w, value)
      [] kind = "name"                -> PutName(w, value, compress)
      [] kind = "whole name"          -> PutName(w, value, FALSE)
      [] kind = "label"               -> PutString(w, value)
      [] kind = "txt"                 -> PutTxt(w, value)
      [] kind = "buffer"              -> PutBuffer(w, value)
      [] kind = "svcparams"           -> PutSvcparams(w, value)
      [] kind = "ipseckey"            -> PutIpseckey(w, value)
      [] kind = "bitmap"              -> PutBitmap(w, value)
      [] kind \in {"ip4", "ip6", "eui48", "eui64", "rest"} -> PutOctets(w, value)

\* The number of a record's type on the wire, and the type a number is
\* instantiated as
TypeNumber(type) == CHOOSE i \in DOMAIN TypeOrder : TypeOrder[i] = type
Instantiated(number) == IF number \in DOMAIN TypeOrder THEN TypeOrder[number] ELSE "GENERIC"

\* The length of what was written after the octet at, put where it belongs
Sized(w, at) ==
    [w EXCEPT !.raw = SubSeq(@, 1, at) \o Digits(Len(@) - at - 2, 2) \o SubSeq(@, at + 3, Len(@))]
PutData(w, rr, compress) ==
    Sized(FoldLeft(LAMBDA v, part : PutPart(v, part[1], rr.data[part[2]], compress),
                   PutShort(w, 0), Formats[rr.type].unparse),
          Len(w.raw))
PutRecord(w, rr, compress) ==
    PutData(PutInt(PutShort(PutShort(PutName(w, rr.name, compress), TypeNumber(rr.type)), 1),
                   rr.ttl),
            rr, compress)

\* to_wire with and without compression
RcodeBase == 2^(OctetBits \div 2)
Unparsed(m, compress) ==
    LET header == FoldLeft(PutOctet, PutShort(Writer, m.id), <<0, m.code % RcodeBase>>)
        counts == FoldLeft(PutShort, header,
                    <<1, Len(m.answers), Len(m.nameservers),
                      Len(m.additional) + IF m.edns THEN 1 ELSE 0>>)
        question == FoldLeft(PutShort, PutName(counts, m.question, compress), <<1, 1>>)
        records == FoldLeft(LAMBDA v, rr : PutRecord(v, rr, compress), question,
                            m.answers \o m.nameservers \o m.additional)
        options == PutOctets(PutShort(PutShort(PutOctet(records, 0), TypeNumber("OPT")), 0),
                       <<(m.code \div RcodeBase) % Base, 0, 0, 0, 0, 0>>)
    IN  IF m.edns THEN options ELSE records

\* to_wire: compressed where the message would be longer than a standard one.
\* An overrun of max_size throws.
Fitting(w, max_size) == IF w.thrown \/ Len(w.raw) > max_size THEN Bad ELSE w.raw
Shorter(m, whole, max_size) ==
    IF whole.thrown THEN Bad
    ELSE IF Len(whole.raw) > max_size \/ Len(whole.raw) > StandardSize
    THEN Fitting(Unparsed(m, TRUE), max_size) ELSE whole.raw
ToWire(m, max_size) == Shorter(m, Unparsed(m, FALSE), max_size)

----------------------------------------------------------------------------
(* Parsing                                                                 *)

GetOctets(raw, size, at, n) ==
    IF ~Within(raw, size, at + n) THEN Bad ELSE Parsed(SubSeq(raw, at + 1, at + n), at + n)
Number(octets) == FoldLeft(LAMBDA n, o : (n * Base) + o, 0, octets)
Mapped(parsed, Op(_)) == IF parsed = Bad THEN Bad ELSE Parsed(Op(parsed.value), parsed.at)
GetUnsigned(raw, size, at, octets) == Mapped(GetOctets(raw, size, at, octets), Number)
GetSigned(raw, size, at, octets) ==
    Mapped(GetUnsigned(raw, size, at, octets), LAMBDA n : Signed(n, octets))

OctetsAt(raw, size, length) ==
    IF length = Bad THEN Bad ELSE GetOctets(raw, size, length.at, length.value)
GetBlock(raw, size, at) == OctetsAt(raw, size, GetUnsigned(raw, size, at, 1))

\* parse_string makes a label, which throws what is longer than one may be.
AsLabel(text) == IF text = Bad \/ Len(text.value) > MAX_LABEL_LENGTH THEN Bad ELSE text
GetString(raw, size, at) == AsLabel(GetBlock(raw, size, at))

\* parse_txt, to the end of the record
RECURSIVE GetTxt(_, _, _)
AndTxt(raw, size, text) ==
    IF text = Bad THEN Bad
    ELSE Mapped(GetTxt(raw, size, text.at), LAMBDA rest : <<text.value>> \o rest)
GetTxt(raw, size, at) ==
    IF at >= size THEN Parsed(<<>>, at) ELSE AndTxt(raw, size, GetBlock(raw, size, at))

GetRest(raw, size, at) ==
    IF at >= size THEN Parsed(<<>>, at) ELSE GetOctets(raw, size, at, size - at)

\* Items of a parameter, until as many octets are counted as it has; one of an
\* alpn counts two more than it has.
RECURSIVE GetItems(_, _, _, _, _)
AndItems(key, raw, size, item, octets) ==
    LET count == CASE key = "alpn"      -> Len(item.value) + 2
                   [] key = "mandatory" -> 2
                   [] key = "ipv4hint"  -> 4
                   [] key = "ipv6hint"  -> 16
    IN  IF item = Bad THEN Bad
        ELSE Mapped(GetItems(key, raw, size, item.at, octets - count),
                    LAMBDA rest : <<item.value>> \o rest)
GetItem(key, raw, size, at) ==
    CASE key = "alpn"      -> GetBlock(raw, size, at)
      [] key = "mandatory" -> GetUnsigned(raw, size, at, 2)
      [] key = "ipv4hint"  -> GetOctets(raw, size, at, 4)
      [] key = "ipv6hint"  -> GetOctets(raw, size, at, 16)
GetItems(key, raw, size, at, octets) ==
    IF octets <= 0 THEN Parsed(<<>>, at)
    ELSE AndItems(key, raw, size, GetItem(key, raw, size, at), octets)

\* parse_svcparams
GetSvcparam(key, raw, size, at, length) ==
    CASE key = "no_default_alpn" -> Parsed(<<>>, at)
      [] key = "port"            -> GetUnsigned(raw, size, at, 2)
      [] key = "ech"             -> GetOctets(raw, size, at, length)
      [] OTHER                   -> GetItems(key, raw, size, at, length)

RECURSIVE GetSvcparams(_, _, _)
AndSvcparams(raw, size, key, value) ==
    IF value = Bad THEN Bad
    ELSE Mapped(GetSvcparams(raw, size, value.at), LAMBDA rest : rest @@ (key :> value.value))
SvcparamAt(raw, size, at, number, length) ==
    IF number = Bad \/ length = Bad THEN Bad
    ELSE IF number.value > 6 \/ at + 4 + length.value > size THEN Bad
    ELSE AndSvcparams(raw, size, SvcparamKeys[number.value + 1],
             GetSvcparam(SvcparamKeys[number.value + 1], raw, size, at + 4, length.value))
GetSvcparams(raw, size, at) ==
    IF at >= size THEN Parsed(<<>>, at)
    ELSE SvcparamAt(raw, size, at, GetUnsigned(raw, size, at, 2), GetUnsigned(raw, size, at + 2, 2))

\* parse_ipseckey
IpseckeyWith(head, gateway, key) ==
    Parsed([precedence |-> head[1], gateway_type |-> head[2], algorithm |-> head[3],
            gateway |-> gateway, public_key |-> key.value], key.at)
AndPublicKey(raw, size, head, gateway) ==
    IF gateway = Bad THEN Bad
    ELSE IpseckeyWith(head, gateway.value, GetRest(raw, size, gateway.at))
GetGateway(raw, size, at, type) ==
    CASE type = 1 -> GetOctets(raw, size, at, 4)
      [] type = 2 -> GetOctets(raw, size, at, 16)
      [] type = 3 -> GetName(raw, size, at)
      [] OTHER    -> Parsed(<<>>, at)
AndGateway(raw, size, head) ==
    IF head = Bad THEN Bad
    ELSE AndPublicKey(raw, size, head.value, GetGateway(raw, size, head.at, head.value[2]))
GetIpseckey(raw, size, at) == AndGateway(raw, size, GetOctets(raw, size, at, 3))

\* parse_type_bitmap
RECURSIVE GetBitmap(_, _, _)
BitsOf(page, bytes) ==
    UNION {{(page * Base) + ((i - 1) * OctetBits) + bit :
               bit \in {b \in 0..OctetBits - 1 : (bytes[i] \div 2^(OctetBits - 1 - b)) % 2 = 1}} :
           i \in DOMAIN bytes}
AndBitmap(raw, size, page, bytes) ==
    IF page = Bad \/ bytes = Bad THEN Bad
    ELSE IF Len(bytes.value) > (Base + OctetBits - 1) \div OctetBits THEN Bad
    ELSE Mapped(GetBitmap(raw, size, bytes.at),
                LAMBDA rest : BitsOf(page.value, bytes.value) \cup rest)
GetBitmap(raw, size, at) ==
    IF at >= size THEN Parsed({}, at)
    ELSE AndBitmap(raw, size, GetUnsigned(raw, size, at, 1), GetBlock(raw, size, at + 1))

\* A part of a record of length octets that ends at size
GetPart(kind, raw, size, at, length) ==
    CASE kind = "short"     -> GetSigned(raw, size, at, 2)
      [] kind = "ushort"    -> GetUnsigned(raw, size, at, 2)
      [] kind = "int"       -> GetSigned(raw, size, at, 4)
      [] kind = "uint"      -> GetUnsigned(raw, size, at, 4)
      [] kind = "octet"     -> GetUnsigned(raw, size, at, 1)
      [] kind = "name"      -> GetName(raw, size, at)
      [] kind = "label"     -> GetString(raw, size, at)
      [] kind = "txt"       -> GetTxt(raw, size, at)
      [] kind = "buffer"    -> GetOctets(raw, size, at, length)
      [] kind = "rest"      -> GetRest(raw, size, at)
      [] kind = "svcparams" -> GetSvcparams(raw, size, at)
      [] kind = "ipseckey"  -> GetIpseckey(raw, size, at)
      [] kind = "bitmap"    -> GetBitmap(raw, size, at)
      [] kind = "ip4"       -> GetOctets(raw, size, at, 4)
      [] kind = "ip6"       -> GetOctets(raw, size, at, 16)
      [] kind = "eui48"     -> GetOctets(raw, size, at, 6)
      [] kind = "eui64"     -> GetOctets(raw, size, at, 8)

\* dns_rr_parser::parse, after the name of the record: the parts of its type,
\* one after another, end where the record does.
WithPart(all, member, part) ==
    IF part = Bad THEN Bad ELSE Parsed(all.value @@ (member :> part.value), part.at)
GetData(raw, length, parts) ==
    LET GetNext(all, part) ==
            IF all = Bad THEN Bad
            ELSE WithPart(all, part[2],
                     GetPart(part[1], raw, length.at + length.value, all.at, length.value))
    IN  FoldLeft(GetNext, Parsed(<<>>, length.at), parts)
RecordWith(name, ttl, format, end, data) ==
    IF data = Bad THEN Bad
    ELSE IF data.at # end THEN Bad
    ELSE Parsed([type |-> format.type, name |-> name.value, ttl |-> ttl.value,
                 data |-> data.value], end)
RecordOf(raw, name, ttl, length, format) ==
    IF length = Bad THEN Bad
    ELSE RecordWith(name, ttl, format, length.at + length.value,
                    GetData(raw, length, format.parse))
AfterName(raw, size, name) ==
    IF name = Bad THEN Bad
    ELSE RecordOf(raw, name, GetUnsigned(raw, size, name.at + 4, 4),
                  GetUnsigned(raw, size, name.at + 8, 2),
                  Formats[Instantiated(GetUnsigned(raw, size, name.at, 2).value)])
GetRecord(raw, size, at) == AfterName(raw, size, GetName(raw, size, at))

\* A list as it is parsed, with one thing more; a section is a list of records
\* and a message one of three sections.
Also(all, next) ==
    IF next = Bad THEN Bad ELSE Parsed(Append(all.value, next.value), next.at)
GetRecords(raw, at, n) ==
    LET GetNext(all, i) == IF all = Bad THEN Bad ELSE Also(all, GetRecord(raw, Len(raw), all.at))
    IN  FoldLeft(GetNext, Parsed(<<>>, at), [i \in 1..n |-> i])

Count(raw, i) == GetUnsigned(raw, Len(raw), 2 + (2 * i), 2).value
GetSections(raw, at) ==
    LET GetNext(all, i) == IF all = Bad THEN Bad ELSE Also(all, GetRecords(raw, all.at, Count(raw, i)))
    IN  FoldLeft(GetNext, Parsed(<<>>, at), <<2, 3, 4>>)

\* parse_edns_options: the upper part of the code comes from the time to live.
IsOptions(rr) == rr.type = "OPT"
ExtendedCode(code, options) ==
    IF options = <<>> THEN code
    ELSE code + (options[1].ttl \div Base^3) * Base

\* dns_message_parser::from_wire
MessageOf(raw, question, sections, options) ==
    LET Records(i) == SelectSeq(sections[i], LAMBDA rr : ~IsOptions(rr))
    IN  IF Len(options) > 1 THEN Bad
        ELSE [id |-> GetUnsigned(raw, Len(raw), 0, 2).value,
              code |-> ExtendedCode(raw[4], options), question |-> question,
              answers |-> Records(1), nameservers |-> Records(2),
              additional |-> Records(3), edns |-> options # <<>>]
WithSections(raw, question, sections) ==
    IF sections = Bad THEN Bad
    ELSE MessageOf(raw, question, sections.value,
                   SelectSeq(FlattenSeq(sections.value), IsOptions))
AfterQuestion(raw, question) ==
    IF question = Bad THEN Bad
    ELSE WithSections(raw, question.value, GetSections(raw, question.at + 4))
FromWire(raw) ==
    IF Len(raw) < 12 THEN Bad
    ELSE IF Count(raw, 1) # 1 THEN Bad
    ELSE AfterQuestion(raw, GetName(raw, Len(raw), 12))
=============================================================================
