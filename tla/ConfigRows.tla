---------------------------- MODULE ConfigRows -----------------------------
(***************************************************************************)
(* The rows of zones, horizons, address lists and of the configuration     *)
(* (src/db/row_*.cpp but for the records').                                *)
(***************************************************************************)
EXTENDS Row

address_list_columns == <<Id("address_list_id")>>
address_list_set == <<Id("address_list_id")>>
address_list_get == <<Id("address_list_id")>>
address_list_by == [address_list_id |-> 1]
address_list_named == {"address_list_id"}
address_list == Class("address_list", "address_list_id", address_list_columns, address_list_set,
    address_list_get, address_list_by, address_list_named)

address_list_address_columns ==
    <<Id("address_list_address_id"), Id("address_list_id"), S("ip_address")>>
address_list_address_set ==
    <<Id("address_list_address_id"), Id("address_list_id"), S("ip_address")>>
address_list_address_get ==
    <<Id("address_list_address_id"), Id("address_list_id"), S("ip_address")>>
address_list_address_by == [address_list_address_id |-> 1, address_list_id |-> 2]
address_list_address_named ==
    {"address_list_address_id", "address_list_id", "ip_address"}
address_list_address == Class("address_list_address", "address_list_address_id", address_list_address_columns, address_list_address_set,
    address_list_address_get, address_list_address_by, address_list_address_named)

address_list_network_columns ==
    <<Id("address_list_id"), Id("address_list_network_id"), S("cidr_address")>>
address_list_network_set ==
    <<Id("address_list_id"), Id("address_list_network_id"), S("cidr_address")>>
address_list_network_get ==
    <<Id("address_list_id"), Id("address_list_network_id"), S("cidr_address")>>
address_list_network_by == [address_list_network_id |-> 2, address_list_id |-> 1]
address_list_network_named ==
    {"address_list_id", "address_list_network_id", "cidr_address"}
address_list_network == Class("address_list_network", "address_list_network_id", address_list_network_columns, address_list_network_set,
    address_list_network_get, address_list_network_by, address_list_network_named)

basic_config_columns == <<Id("config_id"), S("name"), S("value")>>
basic_config_set == <<Id("config_id"), S("name"), S("value")>>
basic_config_get == <<Id("config_id"), S("name"), S("value")>>
basic_config_by == [config_id |-> 1]
basic_config_named == {"config_id", "name", "value"}
basic_config == Class("basic_config", "config_id", basic_config_columns, basic_config_set,
    basic_config_get, basic_config_by, basic_config_named)

cache_config_columns ==
    <<Id("cache_config_id"), Id("client_id"), U("default_ttl"),
      U("cache_garbage_collect_ms"), U("cache_max_referral_rrs"),
      U("cache_max_answer_rrs")>>
cache_config_set ==
    <<Id("cache_config_id"), Id("client_id"), U("default_ttl"),
      U("cache_garbage_collect_ms"), U("cache_max_referral_rrs"),
      U("cache_max_answer_rrs")>>
cache_config_get ==
    <<Id("cache_config_id"), Id("client_id"), U("default_ttl"),
      U("cache_garbage_collect_ms"), U("cache_max_referral_rrs"),
      U("cache_max_answer_rrs")>>
cache_config_by == [cache_config_id |-> 1, client_id |-> 2]
cache_config_named ==
    {"cache_config_id", "client_id", "default_ttl", "cache_garbage_collect_ms",
      "cache_max_referral_rrs", "cache_max_answer_rrs"}
cache_config == Class("cache_config", "cache_config_id", cache_config_columns, cache_config_set,
    cache_config_get, cache_config_by, cache_config_named)

control_server_columns ==
    <<Id("address_list_id"), U("allowed_connection_backlog"),
      U("client_connection_timeout_ms"), U("maximum_payload_size"), U("num_threads"),
      Id("server_id"), B("use_ssl")>>
control_server_set ==
    <<Id("address_list_id"), U("allowed_connection_backlog"),
      U("client_connection_timeout_ms"), U("maximum_payload_size"), U("num_threads"),
      Id("server_id"), B("use_ssl")>>
control_server_get ==
    <<Id("address_list_id"), U("allowed_connection_backlog"),
      U("client_connection_timeout_ms"), U("maximum_payload_size"), U("num_threads"),
      Id("server_id"), B("use_ssl")>>
control_server_by == [server_id |-> 6, address_list_id |-> 1]
control_server_named ==
    {"address_list_id", "allowed_connection_backlog", "client_connection_timeout_ms",
      "maximum_payload_size", "num_threads", "server_id", "use_ssl"}
control_server == Class("control_server", "server_id", control_server_columns, control_server_set,
    control_server_get, control_server_by, control_server_named)

dns_client_columns ==
    <<Id("client_id"), U("connect_tcp_timeout_ms"), U("num_parallel_udp"),
      U("read_tcp_timeout_ms"), U("server_port"), U("total_timeout_ms"),
      U("udp_timeout_ms"), B("use_ip4"), B("use_ip6"), B("use_tcp"), B("use_udp"),
      U("wait_udp_response_ms"), U("write_tcp_timeout_ms")>>
dns_client_set ==
    <<Id("client_id"), U("connect_tcp_timeout_ms"), U("num_parallel_udp"),
      U("read_tcp_timeout_ms"), U("server_port"), U("total_timeout_ms"),
      U("udp_timeout_ms"), B("use_ip4"), B("use_ip6"), B("use_tcp"), B("use_udp"),
      U("wait_udp_response_ms"), U("write_tcp_timeout_ms")>>
dns_client_get ==
    <<Id("client_id"), U("connect_tcp_timeout_ms"), U("num_parallel_udp"),
      U("read_tcp_timeout_ms"), U("server_port"), U("total_timeout_ms"),
      U("udp_timeout_ms"), B("use_ip4"), B("use_ip6"), B("use_tcp"), B("use_udp"),
      U("wait_udp_response_ms"), U("write_tcp_timeout_ms")>>
dns_client_by == [client_id |-> 1]
dns_client_named ==
    {"client_id", "connect_tcp_timeout_ms", "num_parallel_udp", "read_tcp_timeout_ms",
      "server_port", "total_timeout_ms", "udp_timeout_ms", "use_ip4", "use_ip6",
      "use_tcp", "use_udp", "wait_udp_response_ms", "write_tcp_timeout_ms"}
dns_client == Class("dns_client", "client_id", dns_client_columns, dns_client_set,
    dns_client_get, dns_client_by, dns_client_named)

dns_server_columns ==
    <<U("allowed_connection_backlog"), Id("client_id"), U("max_external_resolutions"),
      U("max_in_message_queue_length"), U("max_out_message_queue_length"),
      U("max_queued_per_question"), U("max_recursion_depth"), U("min_cache_ttl"),
      U("num_forwarding_threads"), U("num_receive_threads"), U("num_send_threads"),
      U("num_tcp_recursive_slots"), U("num_tcp_threads"), U("num_udp_recursive_slots"),
      U("num_udp_threads"), U("recursive_timeout_ms"), Id("server_id"),
      U("tcp_max_body_wait_ms"), U("tcp_max_len_wait_ms"), U("udp_reply_timeout_ms"),
      U("udp_retry_count"), U("doh_client_timeout_ms"), U("maximum_http_request_size"),
      S("doh_path"), B("use_forwarding_cache"), B("use_forwarding_emergency_cache"),
      U("forward_cache_max_age_seconds"), U("forward_cache_max_entries"),
      U("forward_cache_garbage_collect_pct")>>
dns_server_set ==
    <<U("allowed_connection_backlog"), Id("client_id"), U("max_external_resolutions"),
      U("max_in_message_queue_length"), U("max_out_message_queue_length"),
      U("max_queued_per_question"), U("max_recursion_depth"), U("min_cache_ttl"),
      U("num_forwarding_threads"), U("num_receive_threads"), U("num_send_threads"),
      U("num_tcp_recursive_slots"), U("num_tcp_threads"), U("num_udp_recursive_slots"),
      U("num_udp_threads"), U("recursive_timeout_ms"), Id("server_id"),
      U("tcp_max_body_wait_ms"), U("tcp_max_len_wait_ms"), U("udp_reply_timeout_ms"),
      U("udp_retry_count"), U("doh_client_timeout_ms"), U("maximum_http_request_size"),
      S("doh_path"), B("use_forwarding_cache"), B("use_forwarding_emergency_cache"),
      U("forward_cache_max_age_seconds"), U("forward_cache_max_entries"),
      U("forward_cache_garbage_collect_pct")>>
dns_server_get ==
    <<U("allowed_connection_backlog"), Id("client_id"), U("max_external_resolutions"),
      U("max_in_message_queue_length"), U("max_out_message_queue_length"),
      U("max_queued_per_question"), U("max_recursion_depth"), U("min_cache_ttl"),
      U("num_forwarding_threads"), U("num_receive_threads"), U("num_send_threads"),
      U("num_tcp_recursive_slots"), U("num_tcp_threads"), U("num_udp_recursive_slots"),
      U("num_udp_threads"), U("recursive_timeout_ms"), Id("server_id"),
      U("tcp_max_body_wait_ms"), U("tcp_max_len_wait_ms"), U("udp_reply_timeout_ms"),
      U("udp_retry_count"), U("doh_client_timeout_ms"), U("maximum_http_request_size"),
      S("doh_path"), B("use_forwarding_cache"), B("use_forwarding_emergency_cache"),
      U("forward_cache_max_age_seconds"), U("forward_cache_max_entries"),
      U("forward_cache_garbage_collect_pct")>>
dns_server_by == [server_id |-> 17, client_id |-> 2]
dns_server_named ==
    {"allowed_connection_backlog", "client_id", "max_external_resolutions",
      "max_in_message_queue_length", "max_out_message_queue_length",
      "max_queued_per_question", "max_recursion_depth", "min_cache_ttl",
      "num_forwarding_threads", "num_receive_threads", "num_send_threads",
      "num_tcp_recursive_slots", "num_tcp_threads", "num_udp_recursive_slots",
      "num_udp_threads", "recursive_timeout_ms", "server_id", "tcp_max_body_wait_ms",
      "tcp_max_len_wait_ms", "udp_reply_timeout_ms", "udp_retry_count",
      "doh_client_timeout_ms", "maximum_http_request_size", "doh_path",
      "use_forwarding_cache", "use_forwarding_emergency_cache",
      "forward_cache_max_age_seconds", "forward_cache_max_entries",
      "forward_cache_garbage_collect_pct"}
dns_server == Class("dns_server", "server_id", dns_server_columns, dns_server_set,
    dns_server_get, dns_server_by, dns_server_named)

horizon_columns ==
    <<Id("address_list_id"), B("allow_recursion"), Id("horizon_id"), U("check_order")>>
horizon_set ==
    <<Id("address_list_id"), B("allow_recursion"), Id("horizon_id"), U("check_order")>>
horizon_get ==
    <<Id("address_list_id"), B("allow_recursion"), Id("horizon_id"), U("check_order")>>
horizon_by == [horizon_id |-> 3, address_list_id |-> 1]
horizon_named == {"address_list_id", "allow_recursion", "horizon_id", "check_order"}
horizon == Class("horizon", "horizon_id", horizon_columns, horizon_set,
    horizon_get, horizon_by, horizon_named)

root_server_columns ==
    <<U("addr_ttl"), S("ip_address"), D("last_contact_date_time"), S("name"), U("ns_ttl"),
      Id("root_server_id")>>
root_server_set ==
    <<U("addr_ttl"), S("ip_address"), D("last_contact_date_time"), S("name"), U("ns_ttl"),
      Id("root_server_id")>>
root_server_get ==
    <<U("addr_ttl"), S("ip_address"), D("last_contact_date_time"), S("name"), U("ns_ttl"),
      Id("root_server_id")>>
root_server_by == [root_server_id |-> 6]
root_server_named ==
    {"addr_ttl", "ip_address", "last_contact_date_time", "name", "ns_ttl",
      "root_server_id"}
root_server == Class("root_server", "root_server_id", root_server_columns, root_server_set,
    root_server_get, root_server_by, root_server_named)

schema_version_columns == <<Id("schema_version_id"), S("version_string")>>
schema_version_set == <<Id("schema_version_id"), S("version_string")>>
schema_version_get == <<Id("schema_version_id"), S("version_string")>>
schema_version_by == [schema_version_id |-> 1]
schema_version_named == {"schema_version_id", "version_string"}
schema_version == Class("schema_version", "schema_version_id", schema_version_columns, schema_version_set,
    schema_version_get, schema_version_by, schema_version_named)

server_columns ==
    <<S("protocol"), Id("server_id"), S("transport"), U("http2_deflate_table_size"),
      B("is_enabled")>>
server_set ==
    <<S("protocol"), Id("server_id"), S("transport"), U("http2_deflate_table_size"),
      B("is_enabled")>>
server_get ==
    <<S("protocol"), Id("server_id"), S("transport"), U("http2_deflate_table_size"),
      B("is_enabled")>>
server_by == [server_id |-> 2]
server_named ==
    {"protocol", "server_id", "transport", "http2_deflate_table_size", "is_enabled"}
server == Class("server", "server_id", server_columns, server_set,
    server_get, server_by, server_named)

server_socket_address_columns ==
    <<S("ip_address"), U("port"), Id("server_id"), Id("server_socket_address_id")>>
server_socket_address_set ==
    <<S("ip_address"), U("port"), Id("server_id"), Id("server_socket_address_id")>>
server_socket_address_get ==
    <<S("ip_address"), U("port"), Id("server_id"), Id("server_socket_address_id")>>
server_socket_address_by == [server_socket_address_id |-> 4, server_id |-> 3]
server_socket_address_named ==
    {"ip_address", "port", "server_id", "server_socket_address_id"}
server_socket_address == Class("server_socket_address", "server_socket_address_id", server_socket_address_columns, server_socket_address_set,
    server_socket_address_get, server_socket_address_by, server_socket_address_named)

ui_server_columns ==
    <<Id("address_list_id"), U("allowed_connection_backlog"),
      U("client_connection_timeout_ms"), U("num_threads"), Id("server_id"), B("use_ssl"),
      S("document_root")>>
ui_server_set ==
    <<Id("address_list_id"), U("allowed_connection_backlog"),
      U("client_connection_timeout_ms"), U("num_threads"), Id("server_id"), B("use_ssl"),
      S("document_root")>>
ui_server_get ==
    <<Id("address_list_id"), U("allowed_connection_backlog"),
      U("client_connection_timeout_ms"), U("num_threads"), Id("server_id"), B("use_ssl"),
      S("document_root")>>
ui_server_by == [server_id |-> 5, address_list_id |-> 1]
ui_server_named ==
    {"address_list_id", "allowed_connection_backlog", "client_connection_timeout_ms",
      "num_threads", "server_id", "use_ssl", "document_root"}
ui_server == Class("ui_server", "server_id", ui_server_columns, ui_server_set,
    ui_server_get, ui_server_by, ui_server_named)

zone_columns ==
    <<NS("forward_ip_address"), NU("forward_port"), Id("horizon_id"), B("is_forwarded"),
      S("name"), Id("zone_id")>>
zone_set ==
    <<NS("forward_ip_address"), NU("forward_port"), Id("horizon_id"), B("is_forwarded"),
      S("name"), Id("zone_id")>>
zone_get ==
    <<NS("forward_ip_address"), NU("forward_port"), Id("horizon_id"), B("is_forwarded"),
      S("name"), Id("zone_id")>>
zone_by == [zone_id |-> 6, horizon_id |-> 3]
zone_named ==
    {"forward_ip_address", "forward_port", "horizon_id", "is_forwarded", "name",
      "zone_id"}
zone == Class("zone", "zone_id", zone_columns, zone_set,
    zone_get, zone_by, zone_named)

ConfigClasses ==
    {address_list, address_list_address, address_list_network, basic_config,
      cache_config, control_server, dns_client, dns_server, horizon, root_server,
      schema_version, server, server_socket_address, ui_server, zone}
=============================================================================
