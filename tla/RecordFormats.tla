--------------------------- MODULE RecordFormats ---------------------------
(***************************************************************************)
(* The resource record types, but for their members (RecordFields): for    *)
(* each the order of its parts on the wire as dns_rr_parser parses and     *)
(* unparses them, and how dns_rr_dal inserts it as a row and reads it from *)
(* one.  Its update is left out: it sets the members that an insert does   *)
(* and, as an insert does, a new key, so that it is an update of no row.   *)
(***************************************************************************)
EXTENDS RecordFields

Unstored(type, members, parse, unparse) ==
    [type |-> type, members |-> members, parse |-> parse, unparse |-> unparse,
     stored |-> FALSE]
Stored(type, members, parse, unparse, row, read, insert) ==
    [type |-> type, members |-> members, parse |-> parse, unparse |-> unparse,
     stored |-> TRUE, row |-> row, read |-> read, insert |-> insert]

----------------------------------------------------------------------------
parse_SOA ==
    <<DName("mname"), DName("rname"), UInt("serial"), SInt("refresh"), SInt("retry"),
      SInt("expire"), UInt("minimum")>>
unparse_SOA ==
    <<DName("mname"), DName("rname"), UInt("serial"), SInt("refresh"), SInt("retry"),
      SInt("expire"), UInt("minimum")>>
read_SOA ==
    <<Text("mname"), Text("rname"), Same("serial"), Same("refresh"), Same("retry"),
      Same("expire"), Same("minimum")>>
insert_SOA ==
    <<Text("mname"), Text("rname"), Same("serial"), Same("refresh"), Same("retry"),
      Same("expire"), Same("minimum")>>

parse_A == <<Ip4("ip4_addr")>>
unparse_A == <<Ip4("ip4_addr")>>
read_A == <<Text("ip4_addr")>>
insert_A == <<Text("ip4_addr")>>

parse_AAAA == <<Ip6("ip6_addr")>>
unparse_AAAA == <<Ip6("ip6_addr")>>
read_AAAA == <<Text("ip6_addr")>>
insert_AAAA == <<Text("ip6_addr")>>

parse_AFSDB == <<UShort("subtype"), DName("hostname")>>
unparse_AFSDB == <<UShort("subtype"), DName("hostname")>>
read_AFSDB == <<Same("subtype"), Text("hostname")>>
insert_AFSDB == <<Same("subtype"), Text("hostname")>>

parse_NS == <<DName("nsdname")>>
unparse_NS == <<DName("nsdname")>>
read_NS == <<Text("nsdname")>>
insert_NS == <<Text("nsdname")>>

parse_MX == <<Short("preference"), DName("exchange")>>
unparse_MX == <<Short("preference"), DName("exchange")>>
read_MX == <<Same("preference"), Text("exchange")>>
insert_MX == <<Same("preference"), Text("exchange")>>

parse_CNAME == <<DName("cname")>>
unparse_CNAME == <<DName("cname")>>
read_CNAME == <<Text("cname")>>
insert_CNAME == <<Text("cname")>>

parse_DNAME == <<DName("dname")>>
unparse_DNAME == <<DName("dname")>>
read_DNAME == <<Text("dname")>>
insert_DNAME == <<Text("dname")>>

parse_PTR == <<DName("dname")>>
unparse_PTR == <<DName("dname")>>
read_PTR == <<Text("dname")>>
insert_PTR == <<Text("dname")>>

parse_TXT == <<Txt("txt")>>
unparse_TXT == <<Txt("txt")>>
read_TXT == <<Json("txt")>>
insert_TXT == <<Json("txt")>>

parse_NAPTR ==
    <<UShort("naptr_order"), UShort("preference"), Label("flags"), Label("services"),
      Label("naptr_regexp"), DName("replacement")>>
unparse_NAPTR ==
    <<UShort("naptr_order"), UShort("preference"), Label("flags"), Label("services"),
      Label("naptr_regexp"), WholeName("replacement")>>
read_NAPTR ==
    <<Same("naptr_order"), Same("preference"), Text("flags"), Text("services"),
      Text("naptr_regexp"), Text("replacement")>>
insert_NAPTR ==
    <<Same("naptr_order"), Same("preference"), Text("flags"), Text("services"),
      Text("naptr_regexp"), Text("replacement")>>

parse_KX == <<UShort("preference"), DName("exchanger")>>
unparse_KX == <<UShort("preference"), WholeName("exchanger")>>
read_KX == <<Same("preference"), Text("exchanger")>>
insert_KX == <<Same("preference"), Text("exchanger")>>

parse_OPT == <<Buffer("data")>>
unparse_OPT == <<Buffer("data")>>

parse_SRV == <<UShort("priority"), UShort("weight"), UShort("port"), DName("target")>>
unparse_SRV == <<UShort("priority"), UShort("weight"), UShort("port"), DName("target")>>
read_SRV == <<Same("priority"), Same("weight"), Same("port"), Text("target")>>
insert_SRVWithoutPort == <<Same("priority"), Same("weight"), Text("target")>>
insert_SRV == <<Same("priority"), Same("weight"), Same("port"), Text("target")>>

parse_HINFO == <<Label("cpu"), Label("os")>>
unparse_HINFO == <<Label("cpu"), Label("os")>>
read_HINFO == <<Text("cpu"), Text("os")>>
insert_HINFO == <<Text("cpu"), Text("os")>>

parse_SVCB == <<UShort("priority"), DName("target"), Svcparams("svcparams")>>
unparse_SVCB == <<UShort("priority"), DName("target"), Svcparams("svcparams")>>
read_SVCB == <<Same("priority"), Text("target"), Json("svcparams")>>
insert_SVCB == <<Same("priority"), Text("target"), Json("svcparams")>>

parse_IPSECKEY == <<Ipseckey("ipseckey")>>
unparse_IPSECKEY == <<Ipseckey("ipseckey")>>
read_IPSECKEY == <<Json("ipseckey")>>
insert_IPSECKEY == <<Json("ipseckey")>>

parse_LOC ==
    <<Octet("version"), Octet("size"), Octet("horizontal_precision"),
      Octet("vertical_precision"), UInt("latitude"), UInt("longitude"), UInt("altitude")>>
unparse_LOC ==
    <<Octet("version"), Octet("size"), Octet("horizontal_precision"),
      Octet("vertical_precision"), UInt("latitude"), UInt("longitude"), UInt("altitude")>>
read_LOC ==
    <<Same("version"), Same("size"), Same("horizontal_precision"),
      Same("vertical_precision"), Same("latitude"), Same("longitude"), Same("altitude")>>
insert_LOC ==
    <<Same("version"), Same("size"), Same("horizontal_precision"),
      Same("vertical_precision"), Same("latitude"), Same("longitude"), Same("altitude")>>

parse_HTTPS == <<UShort("priority"), DName("target"), Svcparams("svcparams")>>
unparse_HTTPS == <<UShort("priority"), WholeName("target"), Svcparams("svcparams")>>
read_HTTPS == <<Same("priority"), Text("target"), Json("svcparams")>>
insert_HTTPS == <<Same("priority"), Text("target"), Json("svcparams")>>

parse_CAA == <<Octet("flags"), Label("tag"), Rest("contents")>>
unparse_CAA == <<Octet("flags"), Label("tag"), Rest("contents")>>
read_CAA == <<Same("flags"), Text("tag"), Base64("contents")>>
insert_CAA == <<Same("flags"), Text("tag"), Base64("contents")>>

parse_ZONEMD == <<UInt("soa_serial"), Octet("scheme"), Octet("algorithm"), Rest("digest")>>
unparse_ZONEMD ==
    <<UInt("soa_serial"), Octet("scheme"), Octet("algorithm"), Rest("digest")>>
read_ZONEMD == <<Same("soa_serial"), Same("scheme"), Same("algorithm"), Hex("digest")>>
insert_ZONEMD == <<Same("soa_serial"), Same("scheme"), Same("algorithm"), Hex("digest")>>

parse_URI == <<UShort("priority"), UShort("weight"), Rest("target")>>
unparse_URI == <<UShort("priority"), UShort("weight"), Rest("target")>>
read_URI == <<Same("priority"), Same("weight"), Same("target")>>
insert_URI == <<Same("priority"), Same("weight"), Same("target")>>

parse_SSHFP == <<Octet("algorithm"), Octet("fp_type"), Rest("fingerprint")>>
unparse_SSHFP == <<Octet("algorithm"), Octet("fp_type"), Rest("fingerprint")>>
read_SSHFP == <<Same("algorithm"), Same("fp_type"), Hex("fingerprint")>>
insert_SSHFP == <<Same("algorithm"), Same("fp_type"), Hex("fingerprint")>>

parse_TLSA ==
    <<Octet("certifcate_usage"), Octet("selector"), Octet("matching_type"),
      Rest("certificate_association")>>
unparse_TLSA ==
    <<Octet("certifcate_usage"), Octet("selector"), Octet("matching_type"),
      Rest("certificate_association")>>
read_TLSA ==
    <<Same("certifcate_usage"), Same("selector"), Same("matching_type"),
      Hex("certificate_association")>>
insert_TLSA ==
    <<Same("certifcate_usage"), Same("selector"), Same("matching_type"),
      Hex("certificate_association")>>

parse_OPENPGPKEY == <<Rest("pgpkey")>>
unparse_OPENPGPKEY == <<Rest("pgpkey")>>
read_OPENPGPKEY == <<Base64("pgpkey")>>
insert_OPENPGPKEY == <<Base64("pgpkey")>>

parse_DHCID == <<Rest("contents")>>
unparse_DHCID == <<Rest("contents")>>
read_DHCID == <<Base64("contents")>>
insert_DHCID == <<Base64("contents")>>

parse_CERT ==
    <<UShort("certificate_type"), UShort("key_tag"), Octet("algorithm"),
      Rest("certificate")>>
unparse_CERT ==
    <<UShort("certificate_type"), UShort("key_tag"), Octet("algorithm"),
      Rest("certificate")>>
read_CERT ==
    <<Same("certificate_type"), Same("key_tag"), Same("algorithm"), Base64("certificate")>>
insert_CERT ==
    <<Same("certificate_type"), Same("key_tag"), Same("algorithm"), Base64("certificate")>>

parse_EUI48 == <<Eui48("eui48")>>
unparse_EUI48 == <<Eui48("eui48")>>
read_EUI48 == <<Text("eui48")>>
insert_EUI48 == <<Text("eui48")>>

parse_EUI64 == <<Eui64("eui64")>>
unparse_EUI64 == <<Eui64("eui64")>>
read_EUI64 == <<Text("eui64")>>
insert_EUI64 == <<Text("eui64")>>

parse_CSYNC == <<UInt("soa_serial"), UShort("flags"), Bitmap("type_bitmap")>>
unparse_CSYNC == <<UInt("soa_serial"), UShort("flags"), Bitmap("type_bitmap")>>
read_CSYNC == <<Same("soa_serial"), Same("flags"), Json("type_bitmap")>>
insert_CSYNC == <<Same("soa_serial"), Same("flags"), Json("type_bitmap")>>

parse_TKEY == <<Rest("contents")>>
unparse_TKEY == <<Rest("contents")>>

parse_TSIG == <<Rest("contents")>>
unparse_TSIG == <<Rest("contents")>>

parse_GENERIC == <<Rest("contents")>>
unparse_GENERIC == <<Rest("contents")>>
read_GENERIC == <<Base64("contents")>>
insert_GENERIC == <<Base64("contents")>>

----------------------------------------------------------------------------
\* The types of dns_rr::type_t; their numbers on the wire are their positions.
TypeOrder ==
    <<"SOA", "A", "AAAA", "AFSDB", "NS", "MX", "CNAME", "DNAME", "PTR", "TXT", "NAPTR",
      "KX", "OPT", "SRV", "HINFO", "SVCB", "IPSECKEY", "LOC", "HTTPS", "CAA", "ZONEMD",
      "URI", "SSHFP", "TLSA", "OPENPGPKEY", "DHCID", "CERT", "EUI48", "EUI64", "CSYNC",
      "TKEY", "TSIG", "GENERIC">>

\* The types instantiate knows and those dns_rr_dal has tables for
Formats ==
   [SOA |-> Stored("SOA", dns_rr_SOA, parse_SOA, unparse_SOA,
        rr_soa, read_SOA, insert_SOA),
    A |-> Stored("A", dns_rr_A, parse_A, unparse_A,
        rr_a, read_A, insert_A),
    AAAA |-> Stored("AAAA", dns_rr_AAAA, parse_AAAA, unparse_AAAA,
        rr_aaaa, read_AAAA, insert_AAAA),
    AFSDB |-> Stored("AFSDB", dns_rr_AFSDB, parse_AFSDB, unparse_AFSDB,
        rr_afsdb, read_AFSDB, insert_AFSDB),
    NS |-> Stored("NS", dns_rr_NS, parse_NS, unparse_NS,
        rr_ns, read_NS, insert_NS),
    MX |-> Stored("MX", dns_rr_MX, parse_MX, unparse_MX,
        rr_mx, read_MX, insert_MX),
    CNAME |-> Stored("CNAME", dns_rr_CNAME, parse_CNAME, unparse_CNAME,
        rr_cname, read_CNAME, insert_CNAME),
    DNAME |-> Stored("DNAME", dns_rr_DNAME, parse_DNAME, unparse_DNAME,
        rr_dname, read_DNAME, insert_DNAME),
    PTR |-> Stored("PTR", dns_rr_PTR, parse_PTR, unparse_PTR,
        rr_ptr, read_PTR, insert_PTR),
    TXT |-> Stored("TXT", dns_rr_TXT, parse_TXT, unparse_TXT,
        rr_txt, read_TXT, insert_TXT),
    NAPTR |-> Stored("NAPTR", dns_rr_NAPTR, parse_NAPTR, unparse_NAPTR,
        rr_naptr, read_NAPTR, insert_NAPTR),
    KX |-> Stored("KX", dns_rr_KX, parse_KX, unparse_KX,
        rr_kx, read_KX, insert_KX),
    OPT |-> Unstored("OPT", dns_rr_OPT, parse_OPT, unparse_OPT),
    SRV |-> Stored("SRV", dns_rr_SRV, parse_SRV, unparse_SRV,
        rr_srv, read_SRV, insert_SRV),
    HINFO |-> Stored("HINFO", dns_rr_HINFO, parse_HINFO, unparse_HINFO,
        rr_hinfo, read_HINFO, insert_HINFO),
    SVCB |-> Stored("SVCB", dns_rr_SVCB, parse_SVCB, unparse_SVCB,
        rr_svcb, read_SVCB, insert_SVCB),
    IPSECKEY |-> Stored("IPSECKEY", dns_rr_IPSECKEY, parse_IPSECKEY, unparse_IPSECKEY,
        rr_ipseckey, read_IPSECKEY, insert_IPSECKEY),
    LOC |-> Stored("LOC", dns_rr_LOC, parse_LOC, unparse_LOC,
        rr_loc, read_LOC, insert_LOC),
    HTTPS |-> Stored("HTTPS", dns_rr_HTTPS, parse_HTTPS, unparse_HTTPS,
        rr_https, read_HTTPS, insert_HTTPS),
    CAA |-> Stored("CAA", dns_rr_CAA, parse_CAA, unparse_CAA,
        rr_caa, read_CAA, insert_CAA),
    ZONEMD |-> Stored("ZONEMD", dns_rr_ZONEMD, parse_ZONEMD, unparse_ZONEMD,
        rr_zonemd, read_ZONEMD, insert_ZONEMD),
    URI |-> Stored("URI", dns_rr_URI, parse_URI, unparse_URI,
        rr_uri, read_URI, insert_URI),
    SSHFP |-> Stored("SSHFP", dns_rr_SSHFP, parse_SSHFP, unparse_SSHFP,
        rr_sshfp, read_SSHFP, insert_SSHFP),
    TLSA |-> Stored("TLSA", dns_rr_TLSA, parse_TLSA, unparse_TLSA,
        rr_tlsa, read_TLSA, insert_TLSA),
    OPENPGPKEY |-> Stored("OPENPGPKEY", dns_rr_OPENPGPKEY, parse_OPENPGPKEY, unparse_OPENPGPKEY,
        rr_openpgpkey, read_OPENPGPKEY, insert_OPENPGPKEY),
    DHCID |-> Stored("DHCID", dns_rr_DHCID, parse_DHCID, unparse_DHCID,
        rr_dhcid, read_DHCID, insert_DHCID),
    CERT |-> Stored("CERT", dns_rr_CERT, parse_CERT, unparse_CERT,
        rr_cert, read_CERT, insert_CERT),
    EUI48 |-> Stored("EUI48", dns_rr_EUI48, parse_EUI48, unparse_EUI48,
        rr_eui48, read_EUI48, insert_EUI48),
    EUI64 |-> Stored("EUI64", dns_rr_EUI64, parse_EUI64, unparse_EUI64,
        rr_eui64, read_EUI64, insert_EUI64),
    CSYNC |-> Stored("CSYNC", dns_rr_CSYNC, parse_CSYNC, unparse_CSYNC,
        rr_csync, read_CSYNC, insert_CSYNC),
    TKEY |-> Unstored("TKEY", dns_rr_TKEY, parse_TKEY, unparse_TKEY),
    TSIG |-> Unstored("TSIG", dns_rr_TSIG, parse_TSIG, unparse_TSIG),
    GENERIC |-> Stored("GENERIC", dns_rr_GENERIC, parse_GENERIC, unparse_GENERIC,
        rr_generic, read_GENERIC, insert_GENERIC)]
=============================================================================
