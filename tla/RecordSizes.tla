----------------------------- MODULE RecordSizes -----------------------------
(***************************************************************************)
(* The wire structures, by their size in bytes: what a device puts into a  *)
(* record, and what sizeof gives the readers of SFlowRecords.              *)
(*                                                                         *)
(* The DDoS structures (src/src/sflowtool_ddos_ext_v1.h) have unsigned     *)
(* integers, or structures of them, as members and are packed (those that  *)
(* are not declared so have no holes): a structure is as long as its       *)
(* members.  The structures of the standard (src/src/sflow.h) travel in    *)
(* XDR: what is narrower than a word takes a word, a MAC address two, a    *)
(* float one.                                                              *)
(***************************************************************************)
EXTENDS Naturals

U8  == 1
U16 == 2
U32 == 4
U64 == 8

(***************************************************************************)
(* Counters of the whole device.                                           *)
(***************************************************************************)

sflow_ddos_l4_global_counters         == 134 * U64
sflow_ddos_http_ext_counters          == 124 * U64
sflow_ddos_fpga_anomaly_drop_counters == 34 * U64
sflow_ddos_ssl_l4_stats               == 19 * U64
sflow_ddos_l4_tcp_stats               == 104 * U64
sflow_ddos_l4_udp_stats               == 62 * U64
sflow_ddos_l4_icmp_stats              == 28 * U64
sflow_ddos_dns_stats                  == 39 * U64
sflow_ddos_l4_other_stats             == 45 * U64
sflow_ddos_switch_stats               == 10 * U64
sflow_ddos_sess_stats                 == 14 * U64
sflow_ddos_sync_stats                 == 60 * U64
sflow_ddos_tunnel_stats               == 30 * U64
sflow_ddos_table_stats                == 36 * U64
sflow_ddos_brief_stats                == 99 * U64
sflow_ddos_long_stats                 == 100 * U64

(***************************************************************************)
(* Counters of one entry: the data block behind the common head.           *)
(***************************************************************************)

\* table_type, ip_type, static_entry, two addresses, subnet_mask, age
sflow_ddos_ip_counter_common    == 3 * U32 + 2 * 16 + 2 * U16
sflow_ddos_http_ip_ext_counters   == 119 * U64
sflow_ddos_ssl_l4_ip_ext_counters == 24 * U64
sflow_ddos_icmp_ip_ext_counters   == 7 * U64
sflow_ddos_udp_ip_ext_counters    == 6 * U64
sflow_ddos_tcp_ip_ext_counters    == 6 * U64
sflow_ddos_other_ip_ext_counters  == 6 * U64
sflow_ddos_dns_ip_ext_counters    == 42 * U64
sflow_ddos_ip_counter_l4_t2       == 165 * U64
sflow_ddos_ip_counter_l4_ext_t2   == 10 * U64
sflow_ddos_limit_result_stat      == 8 * U32 + 4 * U64
\* port, app_type, port_exceed_check, lockup_period
sflow_ddos_ip_counter_port ==
    sflow_ddos_ip_counter_common + 4 * U32 + sflow_ddos_limit_result_stat

(***************************************************************************)
(* Polling records.                                                        *)
(***************************************************************************)

sflow_ddos_packet_counters          == 5 * U64
sflow_ddos_l4_counters              == 256 * U32
sflow_ddos_tcp_basic_counter_dir    == 19 * U32
sflow_ddos_tcp_basic_counters       == 2 * sflow_ddos_tcp_basic_counter_dir
sflow_ddos_tcp_stateful_handshake_counters == 4 * U16
sflow_ddos_tcp_stateful_close_counters     == 6 * U64
sflow_ddos_tcp_stateful_counters ==
    2 * U64 + 2 * sflow_ddos_tcp_stateful_close_counters
        + sflow_ddos_tcp_stateful_handshake_counters + 10 * U32
sflow_ddos_http_counters            == 15 * U32 + 4 * U16
sflow_ddos_entry_map                == 2 * U8 + U16 + 64 * U8

(***************************************************************************)
(* Indicators: seq_num, num_data_points, elapsed_sec, then one value per   *)
(* indicator of the protocol.                                              *)
(***************************************************************************)

sflow_ddos_ind_value == 5 * U32
Indicators(number)   == U32 + 2 * U16 + number * sflow_ddos_ind_value
sflow_ddos_dst_tcp_indicators   == Indicators(13)
sflow_ddos_dst_udp_indicators   == Indicators(6)
sflow_ddos_dst_icmp_indicators  == Indicators(4)
sflow_ddos_dst_other_indicators == Indicators(5)
sflow_ddos_dst_indicators ==
    sflow_ddos_dst_tcp_indicators + sflow_ddos_dst_udp_indicators
        + sflow_ddos_dst_icmp_indicators + sflow_ddos_dst_other_indicators

(***************************************************************************)
(* Standard flow records of fixed size.                                    *)
(***************************************************************************)

MAC == 2 * U32

\* length, src_mac, dst_mac, eth_type
SFLSampled_ethernet == 2 * U32 + 2 * MAC
\* The addresses are those of IPv4 or IPv6.
SFLSampled_ip(address) == 6 * U32 + 2 * address
SFLSampled_ipv4 == SFLSampled_ip(4)
SFLSampled_ipv6 == SFLSampled_ip(16)
SFLExtended_switch == 4 * U32
SFLExtended_nat_port == 2 * U32
SFLExtended_mpls_LDP_FEC == U32
\* protocol, two addresses, two ports
SFLExtended_socket(address) == 3 * U32 + 2 * address
SFLExtended_vni == U32
SFLExtended_decap == U32

(***************************************************************************)
(* Standard counter records of fixed size.                                 *)
(***************************************************************************)

SFLEthernet_counters  == 13 * U32
SFLTokenring_counters == 18 * U32
SFLVg_counters        == 8 * U32 + 6 * U64
SFLVlan_counters      == 5 * U32 + U64
SFLWifi_counters      == 20 * U32
SFLRadio_counters     == 3 * U32
SFLHost_parent        == 2 * U32
SFLHost_nio_counters  == 2 * (U64 + 3 * U32)
SFLHost_cpu_counters  == 17 * U32
SFLHost_mem_counters  == 7 * U64 + 4 * U32
SFLHost_dsk_counters  == 2 * U64 + U32 + 2 * (U32 + U64 + U32)
SFLHost_vrt_node_counters == 2 * U32 + 2 * U64 + U32
SFLHost_vrt_cpu_counters  == 3 * U32
SFLHost_vrt_mem_counters  == 2 * U64
SFLHost_vrt_dsk_counters  == 3 * U64 + 2 * (U32 + U64) + U32
SFLHost_vrt_nio_counters  == 2 * (U64 + 3 * U32)
SFLHost_gpu_nvml      == 8 * U32 + 2 * U64
\* Both releases have these: SFLCOUNTERS_MEMCACHE five words more and a
\* narrower limit_maxbytes, SFLCOUNTERS_MEMCACHE2 three words more.
SFLMemcache_common    == 24 * U32 + 3 * U64
SFLMemcache_2200      == SFLMemcache_common + 5 * U32 + U32
SFLMemcache_2204      == SFLMemcache_common + 3 * U32 + U64
SFLHTTP_counters      == 15 * U32
SFLAPP_resources      == 2 * U32 + 2 * U64 + 4 * U32
SFLAPP_workers        == 5 * U32
SFLJMX_counters       == 8 * U64 + 11 * U32
SFLVdi_counters       == 23 * U32
SFLLACP_counters      == 2 * MAC + 10 * U32

(***************************************************************************)
(* Which structure a tag announces, where the record is one of fixed size  *)
(* whose reader goes through it member by member.                          *)
(***************************************************************************)

FlowStructures ==
    [ SFLFLOW_ETHERNET |-> SFLSampled_ethernet,
      SFLFLOW_EX_SWITCH |-> SFLExtended_switch,
      SFLFLOW_EX_NAT_PORT |-> SFLExtended_nat_port,
      SFLFLOW_EX_MPLS_LDP_FEC |-> SFLExtended_mpls_LDP_FEC,
      SFLFLOW_EX_SOCKET4 |-> SFLExtended_socket(4),
      SFLFLOW_EX_SOCKET6 |-> SFLExtended_socket(16),
      SFLFLOW_EX_PROXYSOCKET4 |-> SFLExtended_socket(4),
      SFLFLOW_EX_PROXYSOCKET6 |-> SFLExtended_socket(16),
      SFLFLOW_EX_L2_TUNNEL_IN |-> SFLSampled_ethernet,
      SFLFLOW_EX_DECAP_IN |-> SFLExtended_decap,
      SFLFLOW_EX_VNI_IN |-> SFLExtended_vni ]

CounterStructures ==
    [ SFLCOUNTERS_ETHERNET |-> SFLEthernet_counters,
      SFLCOUNTERS_TOKENRING |-> SFLTokenring_counters,
      SFLCOUNTERS_VG |-> SFLVg_counters,
      SFLCOUNTERS_VLAN |-> SFLVlan_counters,
      SFLCOUNTERS_80211 |-> SFLWifi_counters,
      SFLCOUNTERS_LACP |-> SFLLACP_counters,
      SFLCOUNTERS_RADIO |-> SFLRadio_counters,
      SFLCOUNTERS_HOST_PAR |-> SFLHost_parent,
      SFLCOUNTERS_HOST_CPU |-> SFLHost_cpu_counters,
      SFLCOUNTERS_HOST_MEM |-> SFLHost_mem_counters,
      SFLCOUNTERS_HOST_DSK |-> SFLHost_dsk_counters,
      SFLCOUNTERS_HOST_NIO |-> SFLHost_nio_counters,
      SFLCOUNTERS_HOST_VRT_NODE |-> SFLHost_vrt_node_counters,
      SFLCOUNTERS_HOST_VRT_CPU |-> SFLHost_vrt_cpu_counters,
      SFLCOUNTERS_HOST_VRT_MEM |-> SFLHost_vrt_mem_counters,
      SFLCOUNTERS_HOST_VRT_DSK |-> SFLHost_vrt_dsk_counters,
      SFLCOUNTERS_HOST_VRT_NIO |-> SFLHost_vrt_nio_counters,
      SFLCOUNTERS_HOST_GPU_NVML |-> SFLHost_gpu_nvml,
      SFLCOUNTERS_MEMCACHE |-> SFLMemcache_2200,
      SFLCOUNTERS_MEMCACHE2 |-> SFLMemcache_2204,
      SFLCOUNTERS_HTTP |-> SFLHTTP_counters,
      SFLCOUNTERS_JMX |-> SFLJMX_counters,
      SFLCOUNTERS_APP_RESOURCE |-> SFLAPP_resources,
      SFLCOUNTERS_APP_WORKERS |-> SFLAPP_workers,
      SFLCOUNTERS_VDI |-> SFLVdi_counters,

      SFLCOUNTERS_DDOS_ENTRY_MAP |-> sflow_ddos_entry_map,
      SFLCOUNTERS_DDOS_POLLING_TCP_STATEFUL_COUNTER |-> sflow_ddos_tcp_stateful_counters,
      SFLCOUNTERS_DDOS_POLLING_HTTP_COUNTER |-> sflow_ddos_http_counters,
      SFLCOUNTERS_DDOS_PORT_IP_COUNTER |-> sflow_ddos_ip_counter_port,
      SFL_COUNTER_DDOS_DST_TCP_INDICATORS |-> sflow_ddos_dst_tcp_indicators,
      SFL_COUNTER_DDOS_DST_ICMP_INDICATORS |-> sflow_ddos_dst_icmp_indicators,
      SFL_COUNTER_DDOS_DST_OTHER_INDICATORS |-> sflow_ddos_dst_other_indicators ]

\* The two that carry the UDP indicators
UdpStructures ==
    [ SFL_COUNTER_DDOS_DST_INDICATORS |-> sflow_ddos_dst_indicators,
      SFL_COUNTER_DDOS_DST_UDP_INDICATORS |-> sflow_ddos_dst_udp_indicators ]

=============================================================================
