---------------------------- MODULE RecordFields ----------------------------
(***************************************************************************)
(* The members of the resource records: for each type its class            *)
(* (src/zone/dns_rr_*.cpp, generated), and the words RecordFormats is      *)
(* written in.  A member is a kind, a name and the form it has in JSON; a  *)
(* part is a primitive of dns_message_serial with the member it is for; a  *)
(* column is a conversion with the member it is for.  All of a record also *)
(* has its name, its time to live and its identifiers.                     *)
(***************************************************************************)
EXTENDS RecordRows

As(form, kind, member) == [kind |-> kind, member |-> member, form |-> form]
InBase64(member) == As("base64", "buffer", member)
InHex(member)    == As("hex", "buffer", member)
Hidden(member)   == As("none", "buffer", member)

\* int and unsigned int for numbers, text for what has a to_string and a
\* constructor of it, an object or an array for the others
M(kind, member) ==
    As(CASE kind \in {"short", "ushort", "octet", "int"} -> "int"
         [] kind = "uint" -> "unsigned"
         [] kind \in {"name", "label", "text", "ip", "eui48", "eui64"} -> "string"
         [] OTHER -> "json", kind, member)

Short(member) == <<"short", member>>
UShort(member) == <<"ushort", member>>
UInt(member) == <<"uint", member>>
SInt(member) == <<"int", member>>
Octet(member) == <<"octet", member>>
DName(member) == <<"name", member>>
WholeName(member) == <<"whole name", member>>
Label(member) == <<"label", member>>
Txt(member) == <<"txt", member>>
Svcparams(member) == <<"svcparams", member>>
Ipseckey(member) == <<"ipseckey", member>>
Rest(member) == <<"rest", member>>
Bitmap(member) == <<"bitmap", member>>
Ip4(member) == <<"ip4", member>>
Ip6(member) == <<"ip6", member>>
Eui48(member) == <<"eui48", member>>
Eui64(member) == <<"eui64", member>>
Buffer(member) == <<"buffer", member>>

Same(member) == <<"same", member>>
Text(member) == <<"string", member>>
Json(member) == <<"json", member>>
Base64(member) == <<"base64", member>>
Hex(member) == <<"hex", member>>

-----------------------------------------------------------------------------
dns_rr_SOA ==
    <<M("name", "mname"), M("name", "rname"), M("uint", "serial"), M("int", "refresh"),
      M("int", "retry"), M("int", "expire"), M("uint", "minimum")>>
dns_rr_A == <<M("ip", "ip4_addr")>>
dns_rr_AAAA == <<M("ip", "ip6_addr")>>
dns_rr_AFSDB == <<M("ushort", "subtype"), M("name", "hostname")>>
dns_rr_NS == <<M("name", "nsdname")>>
dns_rr_MX == <<M("short", "preference"), M("name", "exchange")>>
dns_rr_CNAME == <<M("name", "cname")>>
dns_rr_DNAME == <<M("name", "dname")>>
dns_rr_PTR == <<M("name", "dname")>>
dns_rr_TXT == <<M("txt", "txt")>>
dns_rr_NAPTR ==
    <<M("ushort", "naptr_order"), M("ushort", "preference"), M("label", "flags"),
      M("label", "services"), M("label", "naptr_regexp"), M("name", "replacement")>>
dns_rr_KX == <<M("ushort", "preference"), M("name", "exchanger")>>
dns_rr_OPT == <<Hidden("data")>>
dns_rr_SRV ==
    <<M("ushort", "priority"), M("ushort", "weight"), M("ushort", "port"),
      M("name", "target")>>
dns_rr_HINFO == <<M("label", "cpu"), M("label", "os")>>
dns_rr_SVCB == <<M("ushort", "priority"), M("name", "target"), M("svcparams", "svcparams")>>
dns_rr_IPSECKEY == <<M("ipseckey", "ipseckey")>>
dns_rr_LOC ==
    <<M("octet", "version"), M("octet", "size"), M("octet", "horizontal_precision"),
      M("octet", "vertical_precision"), M("uint", "latitude"), M("uint", "longitude"),
      M("uint", "altitude")>>
dns_rr_HTTPS ==
    <<M("ushort", "priority"), M("name", "target"), M("svcparams", "svcparams")>>
dns_rr_CAA == <<M("octet", "flags"), M("label", "tag"), InBase64("contents")>>
dns_rr_ZONEMD ==
    <<M("uint", "soa_serial"), M("octet", "scheme"), M("octet", "algorithm"),
      InHex("digest")>>
dns_rr_URI == <<M("ushort", "priority"), M("ushort", "weight"), M("text", "target")>>
dns_rr_SSHFP == <<M("octet", "algorithm"), M("octet", "fp_type"), InHex("fingerprint")>>
dns_rr_TLSA ==
    <<M("octet", "certifcate_usage"), M("octet", "selector"), M("octet", "matching_type"),
      InHex("certificate_association")>>
dns_rr_OPENPGPKEY == <<InBase64("pgpkey")>>
dns_rr_DHCID == <<InBase64("contents")>>
dns_rr_CERT ==
    <<M("ushort", "certificate_type"), M("ushort", "key_tag"), M("octet", "algorithm"),
      InBase64("certificate")>>
dns_rr_EUI48 == <<M("eui48", "eui48")>>
dns_rr_EUI64 == <<M("eui64", "eui64")>>
dns_rr_CSYNC ==
    <<M("uint", "soa_serial"), M("ushort", "flags"), M("bitmap", "type_bitmap")>>
dns_rr_TKEY == <<InBase64("contents")>>
dns_rr_TSIG == <<InBase64("contents")>>
dns_rr_GENERIC == <<InBase64("contents")>>
=============================================================================
