---------------------------- MODULE SFlowRecords ----------------------------
(***************************************************************************)
(* The records an sFlow datagram may carry, as the readers of              *)
(* src/src/sflowtool.c consume them.                                       *)
(*                                                                         *)
(* Every readExtended, readFlowSample and readCounters function is a fixed *)
(* program over the cursor `datap`: it is written here as the sequence of  *)
(* cursor operations it performs, under the name it has in the code.       *)
(* SFlowDecode executes these sequences.  What a reader prints and the     *)
(* fields it fills in are left out; its reads, its skips, its table        *)
(* look-ups and its calls to a back end are all here.                      *)
(*                                                                         *)
(* The sizes of the structures the DDoS readers fill are in RecordSizes.   *)
(***************************************************************************)
EXTENDS Naturals, Sequences, RecordSizes

(***************************************************************************)
(* Cursor operations.                                                      *)
(***************************************************************************)

Operation(op, n, body) == [op |-> op, n |-> n, body |-> body]

\* A run of bytes whose number does not depend on the wire, each part of it
\* checked against the end of the datagram.
Fixed(n)   == Operation("fixed", n, "none")
Words(k)   == Fixed(4 * k)                     \* getData32, getData64, getFloat
Halves(k)  == Fixed(2 * k)                     \* getData16
Octets(k)  == Fixed(k)                         \* getData_u8, getData8
Opaque(n)  == Fixed(4 * ((n + 3) \div 4))      \* skipBytes of a constant

String     == Operation("string", 0, "none")   \* getString
Address    == Operation("address", 0, "none")  \* getAddress
\* A counted array of words: skipped in one go, then walked word by word.
Array      == Operation("array", 0, "none")
\* A counted block, read count times; capacity 0 when nothing bounds it,
\* else the length of the C array the blocks are stored into.
Repeat(body, capacity) == Operation("repeat", capacity, body)
\* The value just read indexes a C table, without a bounds check.
Lookup     == Operation("lookup", 0, "none")
\* readFlowSample_header: k words (the last is headerLen), then the header.
Header(k)  == Operation("header", k, "none")
\* readCounters_JMX reads two more words when the record is long enough.
LongOnly(limit) == Operation("longOnly", limit, "none")
\* populate_sflow_struct_u64, populate_sflow_struct_u32 of a structure's size.
Fill64(size) == Operation("fill64", size, "none")
Fill32(size) == Operation("fill32", size, "none")
\* sfl_ddos_update_ctx_len
Context(n) == Operation("context", n, "none")
\* opentsdb_simple_connect: the batch of "put" lines is handed over.
Put        == Operation("put", 0, "none")
\* readCounters_a10_4_1_n_generic
A10        == Operation("a10", 0, "none")
\* skipTLVRecord of the record's own length
Skip       == Operation("skip", 0, "none")

(***************************************************************************)
(* Flow sample records.                                                    *)
(***************************************************************************)

readExtendedSwitch == <<Words(4)>>

readExtendedRouter == <<Address, Words(2)>>

readExtendedGateway_v2 == <<Words(3), Array>>

\* Before version 5 the record has no next hop.
readExtendedGateway_v4 == <<Words(3), Repeat("as_segment", 0), Array, Words(1)>>
readExtendedGateway == <<Address>> \o readExtendedGateway_v4

\* Before version 5 the strings have no character set, the URL no host.
readExtendedUser_v4 == <<String, String>>
readExtendedUser == <<Words(1), String, Words(1), String>>
readExtendedUrl_v4 == <<Words(1), String>>
readExtendedUrl == <<Words(1), String, String>>

readExtendedMpls == <<Address, Array, Array>>

readExtendedNat == <<Address, Address>>

readExtendedNatPort == <<Words(2)>>

readExtendedMplsTunnel == <<String, Words(2)>>

readExtendedMplsVC == <<String, Words(2)>>

readExtendedMplsFTN == <<String, Words(1)>>

readExtendedMplsLDP_FEC == <<Words(1)>>

readExtendedVlanTunnel == <<Array>>

\* headerProtocol, frame length, (stripped since version 5,) header length.
readFlowSample_header_v4 == <<Header(3)>>
readFlowSample_header == <<Header(4)>>

readExtendedWifiPayload == <<Words(1)>> \o readFlowSample_header

readExtendedWifiRx == <<String, Opaque(6), Words(7)>>

readExtendedWifiTx == <<String, Opaque(6), Words(8)>>

readFlowSample_ethernet == <<Words(1), Opaque(6), Opaque(6), Words(1)>>

readFlowSample_IPv4 == <<Opaque(SFLSampled_ipv4)>>
readFlowSample_IPv6 == <<Opaque(SFLSampled_ipv6)>>

readFlowSample_memcache == <<Words(2), String, Words(4)>>

\* With common-log output the method indexes SFHTTP_method_names.
readFlowSample_http ==
    <<Words(2), String, String, String, String, String, String, Words(4), Lookup>>
readFlowSample_http2 ==
    <<Words(2), String, String, String, String, String, String, String,
      Words(6), Lookup>>

readFlowSample_APP == <<String, String, String, String, Words(5), Lookup, Words(1)>>

readFlowSample_APP_CTXT == <<String, String, String>>

readFlowSample_APP_ACTOR_INIT == <<String>>

readFlowSample_APP_ACTOR_TGT == <<String>>

readExtendedSocket4 == <<Words(5)>>

readExtendedProxySocket4 == <<Words(5)>>

readExtendedSocket6 == <<Words(1), Opaque(16), Opaque(16), Words(2)>>

readExtendedProxySocket6 == <<Words(1), Opaque(16), Opaque(16), Words(2)>>

readExtendedDecap == <<Words(1)>>

readExtendedVNI == <<Words(1)>>

skipTLVRecord == <<Skip>>

(***************************************************************************)
(* Counter records.                                                        *)
(***************************************************************************)

readCounters_generic == <<Words(22)>>
readCounters_ethernet == <<Words(13)>>
readCounters_tokenring == <<Words(18)>>
readCounters_vg == <<Words(20)>>
readCounters_vlan == <<Words(7)>>
readCounters_80211 == <<Words(20)>>
readCounters_radio == <<Words(3)>>
readCounters_host_hid == <<String, Opaque(16), Words(2), String>>
readCounters_adaptors == <<Repeat("adaptor", 0)>>
readCounters_host_parent == <<Words(2)>>
readCounters_host_cpu == <<Words(17)>>
readCounters_host_mem == <<Words(18)>>
readCounters_host_dsk == <<Words(13)>>
readCounters_host_nio == <<Words(10)>>
readCounters_host_vnode == <<Words(7)>>
readCounters_host_vcpu == <<Words(3)>>
readCounters_host_vmem == <<Words(4)>>
readCounters_host_vdsk == <<Words(13)>>
readCounters_host_vnio == <<Words(10)>>
readCounters_host_gpu_nvml == <<Words(12)>>
readCounters_memcache == <<Words(36)>>
readCounters_memcache2 == <<Words(35)>>
readCounters_http == <<Words(15)>>
readCounters_JVM == <<String, String, String>>
readCounters_JMX == <<Words(25), LongOnly(100)>>
readCounters_APP == <<String, Words(11)>>
readCounters_APP_RESOURCE == <<Words(10)>>
readCounters_APP_WORKERS == <<Words(5)>>
readCounters_VDI == <<Words(23)>>
readCounters_LACP == <<Opaque(6), Opaque(6), Words(10)>>

readCounters_a10_4_1_n_generic == <<A10>>

(***************************************************************************)
(* DDoS indicator records.                                                 *)
(***************************************************************************)

readCounters_DDOS_DST_INDICATORS == <<Words(139), Halves(8)>>
readCounters_DDOS_DST_TCP_INDICATORS == <<Words(66), Halves(2)>>
readCounters_DDOS_DST_UDP_INDICATORS == <<Words(26), Halves(2)>>
readCounters_DDOS_DST_ICMP_INDICATORS == <<Words(21), Halves(2)>>
readCounters_DDOS_DST_OTHER_INDICATORS == <<Words(26), Halves(2)>>

(***************************************************************************)
(* DDoS global counters: a structure filled from as much of the record as  *)
(* both have, and for some of them a batch for the time-series database.   *)
(***************************************************************************)

readCounters_DDOS_COUNTER == <<Fill64(sflow_ddos_l4_global_counters)>>
readCounters_DDOS_HTTP_COUNTER == <<Fill64(sflow_ddos_http_ext_counters), Put>>
readCounters_DDOS_DNS_COUNTER == <<Fill64(sflow_ddos_dns_stats), Put>>
readCounters_DDOS_SSL_L4_COUNTER == <<Fill64(sflow_ddos_ssl_l4_stats), Put>>
readCounters_DDOS_FPGA_ANOMALY_COUNTER == <<Fill64(sflow_ddos_fpga_anomaly_drop_counters), Put>>
readCounters_DDOS_L4_TCP_COUNTER == <<Fill64(sflow_ddos_l4_tcp_stats), Put>>
readCounters_DDOS_L4_UDP_COUNTER == <<Fill64(sflow_ddos_l4_udp_stats)>>
readCounters_DDOS_L4_ICMP_COUNTER == <<Fill64(sflow_ddos_l4_icmp_stats)>>
readCounters_DDOS_L4_OTHER_COUNTER == <<Fill64(sflow_ddos_l4_other_stats)>>
readCounters_DDOS_L4_SWITCH_COUNTER == <<Fill64(sflow_ddos_switch_stats)>>
readCounters_DDOS_L4_SESSION_COUNTER == <<Fill64(sflow_ddos_sess_stats)>>
readCounters_DDOS_L4_SYNC_COUNTER == <<Fill64(sflow_ddos_sync_stats)>>
readCounters_DDOS_L4_TUNNEL_COUNTER == <<Fill64(sflow_ddos_tunnel_stats)>>
readCounters_DDOS_ENTRY_TABLE_COUNTER == <<Fill64(sflow_ddos_table_stats)>>
readCounters_DDOS_BRIEF_STATS_COUNTER == <<Fill64(sflow_ddos_brief_stats), Put>>
readCounters_DDOS_LONG_STATS_COUNTER == <<Fill64(sflow_ddos_long_stats)>>

readCounters_DDOS_POLLING_ENTRY_MAP ==
    <<Octets(1), Octets(1), Lookup, Halves(1), Octets(64)>>
readCounters_DDOS_POLLING_PACKETS == <<Fill64(sflow_ddos_packet_counters)>>
readCounters_DDOS_POLLING_L4_PROTOCOL == <<Fill32(sflow_ddos_l4_counters)>>
readCounters_DDOS_POLLING_TCP_BASIC == <<Fill32(sflow_ddos_tcp_basic_counters)>>
readCounters_DDOS_POLLING_TCP_STATEFUL == <<Words(38), Halves(4)>>
readCounters_DDOS_POLLING_HTTP == <<Words(15), Halves(4)>>

(***************************************************************************)
(* DDoS per-entry counters: the entry's address and table, for some the    *)
(* port and the kind of application, then the statistics.                  *)
(***************************************************************************)

readCounters_DDOS_IP_COUNTER_COMMON ==
    <<Words(1), Lookup, Words(1), Lookup, Fixed(40)>>

\* The size of port and app_type, given as a number in the code
PortSize == 4
readCounters_DDOS_HTTP_IP_COUNTER == <<Halves(2)>>

readCounters_DDOS_HTTP_T2_COUNTER == <<Fill64(sflow_ddos_http_ip_ext_counters), Put>>
readCounters_DDOS_UDP_T2_COUNTER == <<Fill64(sflow_ddos_udp_ip_ext_counters)>>
readCounters_DDOS_TCP_T2_COUNTER == <<Fill64(sflow_ddos_tcp_ip_ext_counters)>>
readCounters_DDOS_OTHER_T2_COUNTER == <<Fill64(sflow_ddos_other_ip_ext_counters)>>
readCounters_DDOS_SSL_L4_T2_COUNTER == <<Fill64(sflow_ddos_ssl_l4_ip_ext_counters), Put>>
readCounters_DDOS_DNS_COUNTER_T2 == <<Fill64(sflow_ddos_dns_ip_ext_counters), Put>>
readCounters_DDOS_ICMP_COUNTER_T2 == <<Fill64(sflow_ddos_icmp_ip_ext_counters), Put>>
readCounters_DDOS_L4_IP_COUNTER_T2 == <<Fill64(sflow_ddos_ip_counter_l4_t2), Put>>
readCounters_DDOS_L4_EXT_IP_COUNTER_T2 == <<Fill64(sflow_ddos_ip_counter_l4_ext_t2), Put>>

PerEntry(reader) ==
    readCounters_DDOS_IP_COUNTER_COMMON \o <<Context(sflow_ddos_ip_counter_common)>> \o reader
\* Mutant: port and app_type are not taken off the length.
PerEntryAndPort_NoPort(reader) ==
    readCounters_DDOS_IP_COUNTER_COMMON \o readCounters_DDOS_HTTP_IP_COUNTER
        \o <<Context(sflow_ddos_ip_counter_common)>> \o reader
PerEntryAndPort(reader) ==
    readCounters_DDOS_IP_COUNTER_COMMON \o readCounters_DDOS_HTTP_IP_COUNTER
        \o <<Context(sflow_ddos_ip_counter_common + PortSize)>> \o reader

readCounters_DDOS_IP_COUNTER_RES_STAT == <<Words(16)>>
readCounters_DDOS_PORT_IP_COUNTER ==
    readCounters_DDOS_IP_COUNTER_COMMON \o <<Words(4)>>
        \o readCounters_DDOS_IP_COUNTER_RES_STAT
readCounters_DDOS_PROTOCOL ==
    <<Words(1), Lookup, Words(1), Lookup, Words(2)>>
        \o readCounters_DDOS_IP_COUNTER_RES_STAT
readCounters_DDOS_APP ==
    <<Words(1), Lookup, Words(1), Lookup, Words(18)>>
readCounters_DDOS_IP_COUNTER ==
    <<Words(1), Lookup, Words(1), Lookup, Fixed(40),
      Repeat("protocol", 4), Repeat("app", 3)>>

(***************************************************************************)
(* The blocks of the counted parts.                                        *)
(***************************************************************************)

Blocks ==
    [ as_segment |-> <<Words(1), Repeat("as_number", 0)>>,
      as_number  |-> <<Words(1)>>,
      adaptor    |-> <<Words(1), Repeat("mac", 0)>>,
      mac        |-> <<Opaque(8)>>,
      protocol   |-> readCounters_DDOS_PROTOCOL,
      app        |-> readCounters_DDOS_APP ]

(***************************************************************************)
(* Which reader a tag selects.                                             *)
(***************************************************************************)

\* Flow elements and counter elements of version 5.
FlowElements ==
    [ SFLFLOW_HEADER |-> readFlowSample_header,
      SFLFLOW_ETHERNET |-> readFlowSample_ethernet,
      SFLFLOW_IPV4 |-> readFlowSample_IPv4,
      SFLFLOW_IPV6 |-> readFlowSample_IPv6,
      SFLFLOW_MEMCACHE |-> readFlowSample_memcache,
      SFLFLOW_HTTP |-> readFlowSample_http,
      SFLFLOW_HTTP2 |-> readFlowSample_http2,
      SFLFLOW_APP |-> readFlowSample_APP,
      SFLFLOW_APP_CTXT |-> readFlowSample_APP_CTXT,
      SFLFLOW_APP_ACTOR_INIT |-> readFlowSample_APP_ACTOR_INIT,
      SFLFLOW_APP_ACTOR_TGT |-> readFlowSample_APP_ACTOR_TGT,
      SFLFLOW_EX_SWITCH |-> readExtendedSwitch,
      SFLFLOW_EX_ROUTER |-> readExtendedRouter,
      SFLFLOW_EX_GATEWAY |-> readExtendedGateway,
      SFLFLOW_EX_USER |-> readExtendedUser,
      SFLFLOW_EX_URL |-> readExtendedUrl,
      SFLFLOW_EX_MPLS |-> readExtendedMpls,
      SFLFLOW_EX_NAT |-> readExtendedNat,
      SFLFLOW_EX_NAT_PORT |-> readExtendedNatPort,
      SFLFLOW_EX_MPLS_TUNNEL |-> readExtendedMplsTunnel,
      SFLFLOW_EX_MPLS_VC |-> readExtendedMplsVC,
      SFLFLOW_EX_MPLS_FTN |-> readExtendedMplsFTN,
      SFLFLOW_EX_MPLS_LDP_FEC |-> readExtendedMplsLDP_FEC,
      SFLFLOW_EX_VLAN_TUNNEL |-> readExtendedVlanTunnel,
      SFLFLOW_EX_80211_PAYLOAD |-> readExtendedWifiPayload,
      SFLFLOW_EX_80211_RX |-> readExtendedWifiRx,
      SFLFLOW_EX_80211_TX |-> readExtendedWifiTx,
      SFLFLOW_EX_SOCKET4 |-> readExtendedSocket4,
      SFLFLOW_EX_SOCKET6 |-> readExtendedSocket6,
      SFLFLOW_EX_PROXYSOCKET4 |-> readExtendedProxySocket4,
      SFLFLOW_EX_PROXYSOCKET6 |-> readExtendedProxySocket6,
      SFLFLOW_EX_L2_TUNNEL_OUT |-> readFlowSample_ethernet,
      SFLFLOW_EX_L2_TUNNEL_IN |-> readFlowSample_ethernet,
      SFLFLOW_EX_IPV4_TUNNEL_OUT |-> readFlowSample_IPv4,
      SFLFLOW_EX_IPV4_TUNNEL_IN |-> readFlowSample_IPv4,
      SFLFLOW_EX_IPV6_TUNNEL_OUT |-> readFlowSample_IPv6,
      SFLFLOW_EX_IPV6_TUNNEL_IN |-> readFlowSample_IPv6,
      SFLFLOW_EX_DECAP_OUT |-> readExtendedDecap,
      SFLFLOW_EX_DECAP_IN |-> readExtendedDecap,
      SFLFLOW_EX_VNI_OUT |-> readExtendedVNI,
      SFLFLOW_EX_VNI_IN |-> readExtendedVNI ]

CounterElements ==
    [ SFLCOUNTERS_GENERIC |-> readCounters_a10_4_1_n_generic,
      SFLCOUNTERS_ETHERNET |-> readCounters_ethernet,
      SFLCOUNTERS_TOKENRING |-> readCounters_tokenring,
      SFLCOUNTERS_VG |-> readCounters_vg,
      SFLCOUNTERS_VLAN |-> readCounters_vlan,
      SFLCOUNTERS_80211 |-> readCounters_80211,
      SFLCOUNTERS_LACP |-> readCounters_LACP,
      SFLCOUNTERS_PROCESSOR |-> readCounters_a10_4_1_n_generic,
      SFLCOUNTERS_RADIO |-> readCounters_radio,
      SFLCOUNTERS_HOST_HID |-> readCounters_host_hid,
      SFLCOUNTERS_ADAPTORS |-> readCounters_adaptors,
      SFLCOUNTERS_HOST_PAR |-> readCounters_host_parent,
      SFLCOUNTERS_HOST_CPU |-> readCounters_host_cpu,
      SFLCOUNTERS_HOST_MEM |-> readCounters_host_mem,
      SFLCOUNTERS_HOST_DSK |-> readCounters_host_dsk,
      SFLCOUNTERS_HOST_NIO |-> readCounters_host_nio,
      SFLCOUNTERS_HOST_VRT_NODE |-> readCounters_host_vnode,
      SFLCOUNTERS_HOST_VRT_CPU |-> readCounters_host_vcpu,
      SFLCOUNTERS_HOST_VRT_MEM |-> readCounters_host_vmem,
      SFLCOUNTERS_HOST_VRT_DSK |-> readCounters_host_vdsk,
      SFLCOUNTERS_HOST_VRT_NIO |-> readCounters_host_vnio,
      SFLCOUNTERS_HOST_GPU_NVML |-> readCounters_host_gpu_nvml,
      SFLCOUNTERS_MEMCACHE |-> readCounters_memcache,
      SFLCOUNTERS_MEMCACHE2 |-> readCounters_memcache2,
      SFLCOUNTERS_HTTP |-> readCounters_http,
      SFLCOUNTERS_JVM |-> readCounters_JVM,
      SFLCOUNTERS_JMX |-> readCounters_JMX,
      SFLCOUNTERS_APP |-> readCounters_APP,
      SFLCOUNTERS_APP_RESOURCE |-> readCounters_APP_RESOURCE,
      SFLCOUNTERS_APP_WORKERS |-> readCounters_APP_WORKERS,
      SFLCOUNTERS_VDI |-> readCounters_VDI,
      SFLCOUNTERS_DDOS_COUNTER |-> readCounters_DDOS_COUNTER,
      SFLCOUNTERS_DDOS_IP_COUNTER |-> readCounters_DDOS_IP_COUNTER,
      SFLCOUNTERS_DDOS_HTTP_COUNTER |-> readCounters_DDOS_HTTP_COUNTER,
      SFLCOUNTERS_DDOS_DNS_COUNTER |-> readCounters_DDOS_DNS_COUNTER,
      SFLCOUNTERS_DDOS_FPGA_ANOMALY_COUNTER |-> readCounters_DDOS_FPGA_ANOMALY_COUNTER,
      SFLCOUNTERS_DDOS_HTTP_IP_COUNTER |-> PerEntryAndPort(readCounters_DDOS_HTTP_T2_COUNTER),
      SFLCOUNTERS_DDOS_DNS_IP_COUNTER |-> PerEntryAndPort(readCounters_DDOS_DNS_COUNTER_T2),
      SFLCOUNTERS_DDOS_L4_IP_COUNTER |-> PerEntry(readCounters_DDOS_L4_IP_COUNTER_T2),
      SFLCOUNTERS_DDOS_L4_EXT_IP_COUNTER |-> PerEntry(readCounters_DDOS_L4_EXT_IP_COUNTER_T2),
      SFLCOUNTERS_DDOS_PORT_IP_COUNTER |-> readCounters_DDOS_PORT_IP_COUNTER,
      SFLCOUNTERS_DDOS_ENTRY_MAP |-> readCounters_DDOS_POLLING_ENTRY_MAP,
      SFLCOUNTERS_DDOS_POLLING_PACKETS_COUNTER |-> readCounters_DDOS_POLLING_PACKETS,
      SFLCOUNTERS_DDOS_POLLING_L4_COUNTER |-> readCounters_DDOS_POLLING_L4_PROTOCOL,
      SFLCOUNTERS_DDOS_POLLING_TCP_BASIC_COUNTER |-> readCounters_DDOS_POLLING_TCP_BASIC,
      SFLCOUNTERS_DDOS_POLLING_TCP_STATEFUL_COUNTER |-> readCounters_DDOS_POLLING_TCP_STATEFUL,
      SFLCOUNTERS_DDOS_POLLING_HTTP_COUNTER |-> readCounters_DDOS_POLLING_HTTP,
      SFLCOUNTERS_DDOS_SSL_L4_COUNTER |-> readCounters_DDOS_SSL_L4_COUNTER,
      SFLCOUNTERS_DDOS_SSL_L4_T2_COUNTER |-> PerEntryAndPort(readCounters_DDOS_SSL_L4_T2_COUNTER),
      SFLCOUNTERS_DDOS_ICMP_T2_COUNTER |-> PerEntry(readCounters_DDOS_ICMP_COUNTER_T2),
      SFLCOUNTERS_DDOS_UDP_T2_COUNTER |-> PerEntryAndPort(readCounters_DDOS_UDP_T2_COUNTER),
      SFLCOUNTERS_DDOS_TCP_T2_COUNTER |-> PerEntryAndPort(readCounters_DDOS_TCP_T2_COUNTER),
      SFLCOUNTERS_DDOS_OTHER_T2_COUNTER |-> PerEntryAndPort(readCounters_DDOS_OTHER_T2_COUNTER),
      SFLCOUNTERS_DDOS_L4_TCP_COUNTER |-> readCounters_DDOS_L4_TCP_COUNTER,
      SFLCOUNTERS_DDOS_L4_UDP_COUNTER |-> readCounters_DDOS_L4_UDP_COUNTER,
      SFLCOUNTERS_DDOS_L4_ICMP_COUNTER |-> readCounters_DDOS_L4_ICMP_COUNTER,
      SFLCOUNTERS_DDOS_L4_OTHER_COUNTER |-> readCounters_DDOS_L4_OTHER_COUNTER,
      SFLCOUNTERS_DDOS_L4_SWITCH_COUNTER |-> readCounters_DDOS_L4_SWITCH_COUNTER,
      SFLCOUNTERS_DDOS_L4_SYNC_COUNTER |-> readCounters_DDOS_L4_SYNC_COUNTER,
      SFLCOUNTERS_DDOS_L4_TUNNEL_COUNTER |-> readCounters_DDOS_L4_TUNNEL_COUNTER,
      SFLCOUNTERS_DDOS_L4_SESSION_COUNTER |-> readCounters_DDOS_L4_SESSION_COUNTER,
      SFLCOUNTERS_DDOS_L4_TABLE_COUNTER |-> readCounters_DDOS_ENTRY_TABLE_COUNTER,
      SFLCOUNTERS_DDOS_STATS_BRIEF_COUNTER |-> readCounters_DDOS_BRIEF_STATS_COUNTER,
      SFLCOUNTERS_DDOS_STATS_LONG_COUNTER |-> readCounters_DDOS_LONG_STATS_COUNTER,
      SFL_COUNTER_DDOS_DST_INDICATORS |-> readCounters_DDOS_DST_INDICATORS,
      SFL_COUNTER_DDOS_DST_TCP_INDICATORS |-> readCounters_DDOS_DST_TCP_INDICATORS,
      SFL_COUNTER_DDOS_DST_UDP_INDICATORS |-> readCounters_DDOS_DST_UDP_INDICATORS,
      SFL_COUNTER_DDOS_DST_ICMP_INDICATORS |-> readCounters_DDOS_DST_ICMP_INDICATORS,
      SFL_COUNTER_DDOS_DST_OTHER_INDICATORS |-> readCounters_DDOS_DST_OTHER_INDICATORS,
      SFL_COUNTER_REC_GENERIC_A10 |-> readCounters_a10_4_1_n_generic ]

\* Version 2 and 4: the sampled packet, the extended data (the gateway's
\* layout depends on the version), and the block of counters.
PacketData ==
    [ INMPACKETTYPE_HEADER |-> readFlowSample_header_v4,
      INMPACKETTYPE_IPV4   |-> readFlowSample_IPv4,
      INMPACKETTYPE_IPV6   |-> readFlowSample_IPv6 ]

ExtendedData ==
    [ INMEXTENDED_SWITCH     |-> readExtendedSwitch,
      INMEXTENDED_ROUTER     |-> readExtendedRouter,
      INMEXTENDED_GATEWAY_V2 |-> readExtendedGateway_v2,
      INMEXTENDED_GATEWAY    |-> readExtendedGateway_v4,
      INMEXTENDED_USER       |-> readExtendedUser_v4,
      INMEXTENDED_URL        |-> readExtendedUrl_v4 ]

CounterBlocks ==
    [ INMCOUNTERSVERSION_GENERIC   |-> readCounters_generic,
      INMCOUNTERSVERSION_ETHERNET  |-> readCounters_generic \o readCounters_ethernet,
      INMCOUNTERSVERSION_TOKENRING |-> readCounters_generic \o readCounters_tokenring,
      INMCOUNTERSVERSION_FDDI      |-> readCounters_generic,
      INMCOUNTERSVERSION_VG        |-> readCounters_generic \o readCounters_vg,
      INMCOUNTERSVERSION_WAN       |-> readCounters_generic,
      INMCOUNTERSVERSION_VLAN      |-> readCounters_vlan ]

=============================================================================
