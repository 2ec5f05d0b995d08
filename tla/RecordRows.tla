---------------------------- MODULE RecordRows -----------------------------
(***************************************************************************)
(* The rows of the resource records, one class for every type              *)
(* (src/db/row_rr_*.cpp).                                                  *)
(***************************************************************************)
EXTENDS Row

rr_a_columns == <<S("ip4_addr"), S("name"), Id("rr_a_id"), U("ttl"), Id("zone_id")>>
rr_a_set == <<S("ip4_addr"), S("name"), Id("rr_a_id"), U("ttl"), Id("zone_id")>>
rr_a_get == <<S("ip4_addr"), S("name"), Id("rr_a_id"), U("ttl"), Id("zone_id")>>
rr_a_by == [rr_a_id |-> 3, zone_id |-> 5]
rr_a_named == {"ip4_addr", "name", "rr_a_id", "ttl", "zone_id"}
rr_a == Class("rr_a", "rr_a_id", rr_a_columns, rr_a_set,
    rr_a_get, rr_a_by, rr_a_named)

rr_aaaa_columns ==
    <<S("ip6_addr"), S("name"), Id("rr_aaaa_id"), U("ttl"), Id("zone_id")>>
rr_aaaa_set == <<S("ip6_addr"), S("name"), Id("rr_aaaa_id"), U("ttl"), Id("zone_id")>>
rr_aaaa_get == <<S("ip6_addr"), S("name"), Id("rr_aaaa_id"), U("ttl"), Id("zone_id")>>
rr_aaaa_by == [rr_aaaa_id |-> 3, zone_id |-> 5]
rr_aaaa_named == {"ip6_addr", "name", "rr_aaaa_id", "ttl", "zone_id"}
rr_aaaa == Class("rr_aaaa", "rr_aaaa_id", rr_aaaa_columns, rr_aaaa_set,
    rr_aaaa_get, rr_aaaa_by, rr_aaaa_named)

rr_afsdb_columns ==
    <<S("hostname"), S("name"), Id("rr_afsdb_id"), U("subtype"), U("ttl"), Id("zone_id")>>
rr_afsdb_set ==
    <<S("hostname"), S("name"), Id("rr_afsdb_id"), U("subtype"), U("ttl"), Id("zone_id")>>
rr_afsdb_get ==
    <<S("hostname"), S("name"), Id("rr_afsdb_id"), U("subtype"), U("ttl"), Id("zone_id")>>
rr_afsdb_by == [rr_afsdb_id |-> 3, zone_id |-> 6]
rr_afsdb_named == {"hostname", "name", "rr_afsdb_id", "subtype", "ttl", "zone_id"}
rr_afsdb == Class("rr_afsdb", "rr_afsdb_id", rr_afsdb_columns, rr_afsdb_set,
    rr_afsdb_get, rr_afsdb_by, rr_afsdb_named)

rr_caa_columns ==
    <<S("contents"), O("flags"), S("name"), Id("rr_caa_id"), S("tag"), U("ttl"),
      Id("zone_id")>>
rr_caa_set ==
    <<S("contents"), O("flags"), S("name"), Id("rr_caa_id"), S("tag"), U("ttl"),
      Id("zone_id")>>
rr_caa_get ==
    <<S("contents"), O("flags"), S("name"), Id("rr_caa_id"), S("tag"), U("ttl"),
      Id("zone_id")>>
rr_caa_by == [rr_caa_id |-> 4, zone_id |-> 7]
rr_caa_named == {"contents", "flags", "name", "rr_caa_id", "tag", "ttl", "zone_id"}
rr_caa == Class("rr_caa", "rr_caa_id", rr_caa_columns, rr_caa_set,
    rr_caa_get, rr_caa_by, rr_caa_named)

rr_cert_columns ==
    <<O("algorithm"), S("certificate"), U("certificate_type"), U("key_tag"), S("name"),
      Id("rr_cert_id"), U("ttl"), Id("zone_id")>>
rr_cert_set ==
    <<O("algorithm"), S("certificate"), U("certificate_type"), U("key_tag"), S("name"),
      Id("rr_cert_id"), U("ttl"), Id("zone_id")>>
rr_cert_get ==
    <<O("algorithm"), S("certificate"), U("certificate_type"), U("key_tag"), S("name"),
      Id("rr_cert_id"), U("ttl"), Id("zone_id")>>
rr_cert_by == [rr_cert_id |-> 6, zone_id |-> 8]
rr_cert_named ==
    {"algorithm", "certificate", "certificate_type", "key_tag", "name", "rr_cert_id",
      "ttl", "zone_id"}
rr_cert == Class("rr_cert", "rr_cert_id", rr_cert_columns, rr_cert_set,
    rr_cert_get, rr_cert_by, rr_cert_named)

rr_cname_columns ==
    <<S("cname"), S("name"), Id("rr_cname_id"), U("ttl"), Id("zone_id")>>
rr_cname_set == <<S("cname"), S("name"), Id("rr_cname_id"), U("ttl"), Id("zone_id")>>
rr_cname_get == <<S("cname"), S("name"), Id("rr_cname_id"), U("ttl"), Id("zone_id")>>
rr_cname_by == [rr_cname_id |-> 3, zone_id |-> 5]
rr_cname_named == {"cname", "name", "rr_cname_id", "ttl", "zone_id"}
rr_cname == Class("rr_cname", "rr_cname_id", rr_cname_columns, rr_cname_set,
    rr_cname_get, rr_cname_by, rr_cname_named)

rr_csync_columns ==
    <<U("flags"), S("name"), Id("rr_csync_id"), U("soa_serial"), U("ttl"),
      S("type_bitmap"), Id("zone_id")>>
rr_csync_set ==
    <<U("flags"), S("name"), Id("rr_csync_id"), U("soa_serial"), U("ttl"),
      S("type_bitmap"), Id("zone_id")>>
rr_csync_get ==
    <<U("flags"), S("name"), Id("rr_csync_id"), U("soa_serial"), U("ttl"),
      S("type_bitmap"), Id("zone_id")>>
rr_csync_by == [rr_csync_id |-> 3, zone_id |-> 7]
rr_csync_named ==
    {"flags", "name", "rr_csync_id", "soa_serial", "ttl", "type_bitmap", "zone_id"}
rr_csync == Class("rr_csync", "rr_csync_id", rr_csync_columns, rr_csync_set,
    rr_csync_get, rr_csync_by, rr_csync_named)

rr_dhcid_columns ==
    <<S("contents"), S("name"), Id("rr_dhcid_id"), U("ttl"), Id("zone_id")>>
rr_dhcid_set == <<S("contents"), S("name"), Id("rr_dhcid_id"), U("ttl"), Id("zone_id")>>
rr_dhcid_get == <<S("contents"), S("name"), Id("rr_dhcid_id"), U("ttl"), Id("zone_id")>>
rr_dhcid_by == [rr_dhcid_id |-> 3, zone_id |-> 5]
rr_dhcid_named == {"contents", "name", "rr_dhcid_id", "ttl", "zone_id"}
rr_dhcid == Class("rr_dhcid", "rr_dhcid_id", rr_dhcid_columns, rr_dhcid_set,
    rr_dhcid_get, rr_dhcid_by, rr_dhcid_named)

rr_dname_columns ==
    <<S("dname"), S("name"), Id("rr_dname_id"), U("ttl"), Id("zone_id")>>
rr_dname_set == <<S("dname"), S("name"), Id("rr_dname_id"), U("ttl"), Id("zone_id")>>
rr_dname_get == <<S("dname"), S("name"), Id("rr_dname_id"), U("ttl"), Id("zone_id")>>
rr_dname_by == [rr_dname_id |-> 3, zone_id |-> 5]
rr_dname_named == {"dname", "name", "rr_dname_id", "ttl", "zone_id"}
rr_dname == Class("rr_dname", "rr_dname_id", rr_dname_columns, rr_dname_set,
    rr_dname_get, rr_dname_by, rr_dname_named)

rr_eui48_columns ==
    <<S("eui48"), S("name"), Id("rr_eui48_id"), U("ttl"), Id("zone_id")>>
rr_eui48_set == <<S("eui48"), S("name"), Id("rr_eui48_id"), U("ttl"), Id("zone_id")>>
rr_eui48_get == <<S("eui48"), S("name"), Id("rr_eui48_id"), U("ttl"), Id("zone_id")>>
rr_eui48_by == [rr_eui48_id |-> 3, zone_id |-> 5]
rr_eui48_named == {"eui48", "name", "rr_eui48_id", "ttl", "zone_id"}
rr_eui48 == Class("rr_eui48", "rr_eui48_id", rr_eui48_columns, rr_eui48_set,
    rr_eui48_get, rr_eui48_by, rr_eui48_named)

rr_eui64_columns ==
    <<S("eui64"), S("name"), Id("rr_eui64_id"), U("ttl"), Id("zone_id")>>
rr_eui64_set == <<S("eui64"), S("name"), Id("rr_eui64_id"), U("ttl"), Id("zone_id")>>
rr_eui64_get == <<S("eui64"), S("name"), Id("rr_eui64_id"), U("ttl"), Id("zone_id")>>
rr_eui64_by == [rr_eui64_id |-> 3, zone_id |-> 5]
rr_eui64_named == {"eui64", "name", "rr_eui64_id", "ttl", "zone_id"}
rr_eui64 == Class("rr_eui64", "rr_eui64_id", rr_eui64_columns, rr_eui64_set,
    rr_eui64_get, rr_eui64_by, rr_eui64_named)

rr_generic_columns ==
    <<S("contents"), S("name"), Id("rr_generic_id"), U("ttl"), Id("zone_id")>>
rr_generic_set ==
    <<S("contents"), S("name"), Id("rr_generic_id"), U("ttl"), Id("zone_id")>>
rr_generic_get ==
    <<S("contents"), S("name"), Id("rr_generic_id"), U("ttl"), Id("zone_id")>>
rr_generic_by == [rr_generic_id |-> 3, zone_id |-> 5]
rr_generic_named == {"contents", "name", "rr_generic_id", "ttl", "zone_id"}
rr_generic == Class("rr_generic", "rr_generic_id", rr_generic_columns, rr_generic_set,
    rr_generic_get, rr_generic_by, rr_generic_named)

rr_hinfo_columns ==
    <<S("cpu"), S("name"), S("os"), Id("rr_hinfo_id"), U("ttl"), Id("zone_id")>>
rr_hinfo_set ==
    <<S("cpu"), S("name"), S("os"), Id("rr_hinfo_id"), U("ttl"), Id("zone_id")>>
rr_hinfo_get ==
    <<S("cpu"), S("name"), S("os"), Id("rr_hinfo_id"), U("ttl"), Id("zone_id")>>
rr_hinfo_by == [rr_hinfo_id |-> 4, zone_id |-> 6]
rr_hinfo_named == {"cpu", "name", "os", "rr_hinfo_id", "ttl", "zone_id"}
rr_hinfo == Class("rr_hinfo", "rr_hinfo_id", rr_hinfo_columns, rr_hinfo_set,
    rr_hinfo_get, rr_hinfo_by, rr_hinfo_named)

rr_https_columns ==
    <<S("name"), U("priority"), Id("rr_https_id"), S("svcparams"), S("target"), U("ttl"),
      Id("zone_id")>>
rr_https_set ==
    <<S("name"), U("priority"), Id("rr_https_id"), S("svcparams"), S("target"), U("ttl"),
      Id("zone_id")>>
rr_https_get ==
    <<S("name"), U("priority"), Id("rr_https_id"), S("svcparams"), S("target"), U("ttl"),
      Id("zone_id")>>
rr_https_by == [rr_https_id |-> 3, zone_id |-> 7]
rr_https_named ==
    {"name", "priority", "rr_https_id", "svcparams", "target", "ttl", "zone_id"}
rr_https == Class("rr_https", "rr_https_id", rr_https_columns, rr_https_set,
    rr_https_get, rr_https_by, rr_https_named)

rr_ipseckey_columns ==
    <<S("ipseckey"), S("name"), Id("rr_ipseckey_id"), U("ttl"), Id("zone_id")>>
rr_ipseckey_set ==
    <<S("ipseckey"), S("name"), Id("rr_ipseckey_id"), U("ttl"), Id("zone_id")>>
rr_ipseckey_get ==
    <<S("ipseckey"), S("name"), Id("rr_ipseckey_id"), U("ttl"), Id("zone_id")>>
rr_ipseckey_by == [rr_ipseckey_id |-> 3, zone_id |-> 5]
rr_ipseckey_named == {"ipseckey", "name", "rr_ipseckey_id", "ttl", "zone_id"}
rr_ipseckey == Class("rr_ipseckey", "rr_ipseckey_id", rr_ipseckey_columns, rr_ipseckey_set,
    rr_ipseckey_get, rr_ipseckey_by, rr_ipseckey_named)

rr_kx_columns ==
    <<S("exchanger"), S("name"), U("preference"), Id("rr_kx_id"), U("ttl"), Id("zone_id")>>
rr_kx_set ==
    <<S("exchanger"), S("name"), U("preference"), Id("rr_kx_id"), U("ttl"), Id("zone_id")>>
rr_kx_get ==
    <<S("exchanger"), S("name"), U("preference"), Id("rr_kx_id"), U("ttl"), Id("zone_id")>>
rr_kx_by == [rr_kx_id |-> 4, zone_id |-> 6]
rr_kx_named == {"exchanger", "name", "preference", "rr_kx_id", "ttl", "zone_id"}
rr_kx == Class("rr_kx", "rr_kx_id", rr_kx_columns, rr_kx_set,
    rr_kx_get, rr_kx_by, rr_kx_named)

rr_loc_columns ==
    <<U("altitude"), O("horizontal_precision"), U("latitude"), U("longitude"), S("name"),
      Id("rr_loc_id"), O("size"), U("ttl"), O("version"), O("vertical_precision"),
      Id("zone_id")>>
rr_loc_set ==
    <<U("altitude"), O("horizontal_precision"), U("latitude"), U("longitude"), S("name"),
      Id("rr_loc_id"), O("size"), U("ttl"), O("version"), O("vertical_precision"),
      Id("zone_id")>>
rr_loc_get ==
    <<U("altitude"), O("horizontal_precision"), U("latitude"), U("longitude"), S("name"),
      Id("rr_loc_id"), O("size"), U("ttl"), O("version"), O("vertical_precision"),
      Id("zone_id")>>
rr_loc_by == [rr_loc_id |-> 6, zone_id |-> 11]
rr_loc_named ==
    {"altitude", "horizontal_precision", "latitude", "longitude", "name", "rr_loc_id",
      "size", "ttl", "version", "vertical_precision", "zone_id"}
rr_loc == Class("rr_loc", "rr_loc_id", rr_loc_columns, rr_loc_set,
    rr_loc_get, rr_loc_by, rr_loc_named)

rr_mx_columns ==
    <<S("exchange"), S("name"), I("preference"), Id("rr_mx_id"), U("ttl"), Id("zone_id")>>
rr_mx_set ==
    <<S("exchange"), S("name"), I("preference"), Id("rr_mx_id"), U("ttl"), Id("zone_id")>>
rr_mx_get ==
    <<S("exchange"), S("name"), I("preference"), Id("rr_mx_id"), U("ttl"), Id("zone_id")>>
rr_mx_by == [rr_mx_id |-> 4, zone_id |-> 6]
rr_mx_named == {"exchange", "name", "preference", "rr_mx_id", "ttl", "zone_id"}
rr_mx == Class("rr_mx", "rr_mx_id", rr_mx_columns, rr_mx_set,
    rr_mx_get, rr_mx_by, rr_mx_named)

rr_naptr_columns ==
    <<S("flags"), S("name"), U("naptr_order"), S("naptr_regexp"), U("preference"),
      S("replacement"), Id("rr_naptr_id"), S("services"), U("ttl"), Id("zone_id")>>
rr_naptr_set ==
    <<S("flags"), S("name"), U("naptr_order"), S("naptr_regexp"), U("preference"),
      S("replacement"), Id("rr_naptr_id"), S("services"), U("ttl"), Id("zone_id")>>
rr_naptr_get ==
    <<S("flags"), S("name"), U("naptr_order"), S("naptr_regexp"), U("preference"),
      S("replacement"), Id("rr_naptr_id"), S("services"), U("ttl"), Id("zone_id")>>
rr_naptr_by == [rr_naptr_id |-> 7, zone_id |-> 10]
rr_naptr_named ==
    {"flags", "name", "naptr_order", "naptr_regexp", "preference", "replacement",
      "rr_naptr_id", "services", "ttl", "zone_id"}
rr_naptr == Class("rr_naptr", "rr_naptr_id", rr_naptr_columns, rr_naptr_set,
    rr_naptr_get, rr_naptr_by, rr_naptr_named)

rr_ns_columns == <<S("name"), S("nsdname"), Id("rr_ns_id"), U("ttl"), Id("zone_id")>>
rr_ns_set == <<S("name"), S("nsdname"), Id("rr_ns_id"), U("ttl"), Id("zone_id")>>
rr_ns_get == <<S("name"), S("nsdname"), Id("rr_ns_id"), U("ttl"), Id("zone_id")>>
rr_ns_byName == [rr_ns_id |-> 3, zone_id |-> 3]
rr_ns_by == [rr_ns_id |-> 3, zone_id |-> 5]
rr_ns_named == {"name", "nsdname", "rr_ns_id", "ttl", "zone_id"}
rr_ns == Class("rr_ns", "rr_ns_id", rr_ns_columns, rr_ns_set,
    rr_ns_get, rr_ns_by, rr_ns_named)

rr_openpgpkey_columns ==
    <<S("name"), S("pgpkey"), Id("rr_openpgpkey_id"), U("ttl"), Id("zone_id")>>
rr_openpgpkey_set ==
    <<S("name"), S("pgpkey"), Id("rr_openpgpkey_id"), U("ttl"), Id("zone_id")>>
rr_openpgpkey_get ==
    <<S("name"), S("pgpkey"), Id("rr_openpgpkey_id"), U("ttl"), Id("zone_id")>>
rr_openpgpkey_by == [rr_openpgpkey_id |-> 3, zone_id |-> 5]
rr_openpgpkey_named == {"name", "pgpkey", "rr_openpgpkey_id", "ttl", "zone_id"}
rr_openpgpkey == Class("rr_openpgpkey", "rr_openpgpkey_id", rr_openpgpkey_columns, rr_openpgpkey_set,
    rr_openpgpkey_get, rr_openpgpkey_by, rr_openpgpkey_named)

rr_ptr_columns == <<S("dname"), S("name"), Id("rr_ptr_id"), U("ttl"), Id("zone_id")>>
rr_ptr_set == <<S("dname"), S("name"), Id("rr_ptr_id"), U("ttl"), Id("zone_id")>>
rr_ptr_get == <<S("dname"), S("name"), Id("rr_ptr_id"), U("ttl"), Id("zone_id")>>
rr_ptr_by == [rr_ptr_id |-> 3, zone_id |-> 5]
rr_ptr_named == {"dname", "name", "rr_ptr_id", "ttl", "zone_id"}
rr_ptr == Class("rr_ptr", "rr_ptr_id", rr_ptr_columns, rr_ptr_set,
    rr_ptr_get, rr_ptr_by, rr_ptr_named)

rr_soa_columns ==
    <<I("expire"), U("minimum"), S("mname"), S("name"), I("refresh"), I("retry"),
      S("rname"), Id("rr_soa_id"), U("serial"), U("ttl"), Id("zone_id")>>
rr_soa_setSwapped ==
    <<I("expire"), U("minimum"), S("mname"), S("name"), I("retry"), I("refresh"),
      S("rname"), Id("rr_soa_id"), U("serial"), U("ttl"), Id("zone_id")>>
rr_soa_set ==
    <<I("expire"), U("minimum"), S("mname"), S("name"), I("refresh"), I("retry"),
      S("rname"), Id("rr_soa_id"), U("serial"), U("ttl"), Id("zone_id")>>
rr_soa_get ==
    <<I("expire"), U("minimum"), S("mname"), S("name"), I("refresh"), I("retry"),
      S("rname"), Id("rr_soa_id"), U("serial"), U("ttl"), Id("zone_id")>>
rr_soa_by == [rr_soa_id |-> 8, zone_id |-> 11]
rr_soa_named ==
    {"expire", "minimum", "mname", "name", "refresh", "retry", "rname", "rr_soa_id",
      "serial", "ttl", "zone_id"}
rr_soa == Class("rr_soa", "rr_soa_id", rr_soa_columns, rr_soa_set,
    rr_soa_get, rr_soa_by, rr_soa_named)

rr_srv_columns ==
    <<S("name"), U("port"), U("priority"), Id("rr_srv_id"), S("target"), U("ttl"),
      U("weight"), Id("zone_id")>>
rr_srv_set ==
    <<S("name"), U("port"), U("priority"), Id("rr_srv_id"), S("target"), U("ttl"),
      U("weight"), Id("zone_id")>>
rr_srv_get ==
    <<S("name"), U("port"), U("priority"), Id("rr_srv_id"), S("target"), U("ttl"),
      U("weight"), Id("zone_id")>>
rr_srv_by == [rr_srv_id |-> 4, zone_id |-> 8]
rr_srv_named ==
    {"name", "port", "priority", "rr_srv_id", "target", "ttl", "weight", "zone_id"}
rr_srv == Class("rr_srv", "rr_srv_id", rr_srv_columns, rr_srv_set,
    rr_srv_get, rr_srv_by, rr_srv_named)

rr_sshfp_columns ==
    <<O("algorithm"), S("fingerprint"), O("fp_type"), S("name"), Id("rr_sshfp_id"),
      U("ttl"), Id("zone_id")>>
rr_sshfp_set ==
    <<O("algorithm"), S("fingerprint"), O("fp_type"), S("name"), Id("rr_sshfp_id"),
      U("ttl"), Id("zone_id")>>
rr_sshfp_get ==
    <<O("algorithm"), S("fingerprint"), O("fp_type"), S("name"), Id("rr_sshfp_id"),
      U("ttl"), Id("zone_id")>>
rr_sshfp_by == [rr_sshfp_id |-> 5, zone_id |-> 7]
rr_sshfp_named ==
    {"algorithm", "fingerprint", "fp_type", "name", "rr_sshfp_id", "ttl", "zone_id"}
rr_sshfp == Class("rr_sshfp", "rr_sshfp_id", rr_sshfp_columns, rr_sshfp_set,
    rr_sshfp_get, rr_sshfp_by, rr_sshfp_named)

rr_svcb_columns ==
    <<S("name"), U("priority"), Id("rr_svcb_id"), S("svcparams"), S("target"), U("ttl"),
      Id("zone_id")>>
rr_svcb_set ==
    <<S("name"), U("priority"), Id("rr_svcb_id"), S("svcparams"), S("target"), U("ttl"),
      Id("zone_id")>>
rr_svcb_get ==
    <<S("name"), U("priority"), Id("rr_svcb_id"), S("svcparams"), S("target"), U("ttl"),
      Id("zone_id")>>
rr_svcb_by == [rr_svcb_id |-> 3, zone_id |-> 7]
rr_svcb_named ==
    {"name", "priority", "rr_svcb_id", "svcparams", "target", "ttl", "zone_id"}
rr_svcb == Class("rr_svcb", "rr_svcb_id", rr_svcb_columns, rr_svcb_set,
    rr_svcb_get, rr_svcb_by, rr_svcb_named)

rr_tlsa_columns ==
    <<O("certifcate_usage"), S("certificate_association"), O("matching_type"), S("name"),
      Id("rr_tlsa_id"), O("selector"), U("ttl"), Id("zone_id")>>
rr_tlsa_set ==
    <<O("certifcate_usage"), S("certificate_association"), O("matching_type"), S("name"),
      Id("rr_tlsa_id"), O("selector"), U("ttl"), Id("zone_id")>>
rr_tlsa_get ==
    <<O("certifcate_usage"), S("certificate_association"), O("matching_type"), S("name"),
      Id("rr_tlsa_id"), O("selector"), U("ttl"), Id("zone_id")>>
rr_tlsa_by == [rr_tlsa_id |-> 5, zone_id |-> 8]
rr_tlsa_named ==
    {"certifcate_usage", "certificate_association", "matching_type", "name",
      "rr_tlsa_id", "selector", "ttl", "zone_id"}
rr_tlsa == Class("rr_tlsa", "rr_tlsa_id", rr_tlsa_columns, rr_tlsa_set,
    rr_tlsa_get, rr_tlsa_by, rr_tlsa_named)

rr_txt_columns == <<S("name"), Id("rr_txt_id"), U("ttl"), S("txt"), Id("zone_id")>>
rr_txt_set == <<S("name"), Id("rr_txt_id"), U("ttl"), S("txt"), Id("zone_id")>>
rr_txt_get == <<S("name"), Id("rr_txt_id"), U("ttl"), S("txt"), Id("zone_id")>>
rr_txt_by == [rr_txt_id |-> 2, zone_id |-> 5]
rr_txt_named == {"name", "rr_txt_id", "ttl", "txt", "zone_id"}
rr_txt == Class("rr_txt", "rr_txt_id", rr_txt_columns, rr_txt_set,
    rr_txt_get, rr_txt_by, rr_txt_named)

rr_uri_columns ==
    <<S("name"), U("priority"), Id("rr_uri_id"), S("target"), U("ttl"), U("weight"),
      Id("zone_id")>>
rr_uri_set ==
    <<S("name"), U("priority"), Id("rr_uri_id"), S("target"), U("ttl"), U("weight"),
      Id("zone_id")>>
rr_uri_get ==
    <<S("name"), U("priority"), Id("rr_uri_id"), S("target"), U("ttl"), U("weight"),
      Id("zone_id")>>
rr_uri_by == [rr_uri_id |-> 3, zone_id |-> 7]
rr_uri_named == {"name", "priority", "rr_uri_id", "target", "ttl", "weight", "zone_id"}
rr_uri == Class("rr_uri", "rr_uri_id", rr_uri_columns, rr_uri_set,
    rr_uri_get, rr_uri_by, rr_uri_named)

rr_zonemd_columns ==
    <<O("algorithm"), S("digest"), S("name"), Id("rr_zonemd_id"), O("scheme"),
      U("soa_serial"), U("ttl"), Id("zone_id")>>
rr_zonemd_set ==
    <<O("algorithm"), S("digest"), S("name"), Id("rr_zonemd_id"), O("scheme"),
      U("soa_serial"), U("ttl"), Id("zone_id")>>
rr_zonemd_get ==
    <<O("algorithm"), S("digest"), S("name"), Id("rr_zonemd_id"), O("scheme"),
      U("soa_serial"), U("ttl"), Id("zone_id")>>
rr_zonemd_by == [rr_zonemd_id |-> 4, zone_id |-> 8]
rr_zonemd_named ==
    {"algorithm", "digest", "name", "rr_zonemd_id", "scheme", "soa_serial", "ttl",
      "zone_id"}
rr_zonemd == Class("rr_zonemd", "rr_zonemd_id", rr_zonemd_columns, rr_zonemd_set,
    rr_zonemd_get, rr_zonemd_by, rr_zonemd_named)

RecordClasses ==
    {rr_a, rr_aaaa, rr_afsdb, rr_caa, rr_cert, rr_cname, rr_csync, rr_dhcid, rr_dname,
      rr_eui48, rr_eui64, rr_generic, rr_hinfo, rr_https, rr_ipseckey, rr_kx, rr_loc,
      rr_mx, rr_naptr, rr_ns, rr_openpgpkey, rr_ptr, rr_soa, rr_srv, rr_sshfp, rr_svcb,
      rr_tlsa, rr_txt, rr_uri, rr_zonemd}
=============================================================================
