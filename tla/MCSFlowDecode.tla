---------------------------- MODULE MCSFlowDecode ----------------------------
(***************************************************************************)
(* Values of the constants of SFlowDecode for TLC: the readers of          *)
(* SFlowRecords, all of them or the ones a run is about.                   *)
(*                                                                         *)
(* Words and shorts are scaled down (TLC's integers have 32 bits); the     *)
(* order MaxSize <= Short < Word and the multiples of four are kept.       *)
(***************************************************************************)
EXTENDS SFlowDecode, TLC

Records == INSTANCE SFlowRecords

Only(table, tags) == [t \in tags |-> table[t]]

\* All records
AllFlow     == Records!FlowElements
AllCounters == Records!CounterElements
AllPackets  == Records!PacketData
AllBlocks   == Records!CounterBlocks
AllExtended ==
    [v \in {2, 4} |->
        Only(Records!ExtendedData,
             DOMAIN Records!ExtendedData
               \ {IF v = 2 THEN "INMEXTENDED_GATEWAY" ELSE "INMEXTENDED_GATEWAY_V2"})]
CountedBlocks == Records!Blocks

\* The structures that are read member by member, but for the UDP indicators
MemberStructure == Records!FlowStructures @@ Records!CounterStructures

NoReader   == [t \in {} |-> <<>>]
NoExtended == [v \in {2, 4} |-> NoReader]

\* Flow records with every way a record can say how long it is
SomeFlow == Only(AllFlow,
    {"SFLFLOW_HEADER", "SFLFLOW_EX_SWITCH", "SFLFLOW_EX_USER",
     "SFLFLOW_EX_GATEWAY", "SFLFLOW_EX_VLAN_TUNNEL"})

\* Counter records that move the cursor unchecked or reach a back end, and one
\* that is read by its length
SomeCounters == Only(AllCounters,
    {"SFLCOUNTERS_HOST_PAR", "SFLCOUNTERS_JMX", "SFL_COUNTER_REC_GENERIC_A10",
     "SFLCOUNTERS_DDOS_POLLING_PACKETS_COUNTER", "SFLCOUNTERS_DDOS_POLLING_L4_COUNTER",
     "SFLCOUNTERS_DDOS_L4_EXT_IP_COUNTER", "SFLCOUNTERS_DDOS_SSL_L4_COUNTER",
     "SFLCOUNTERS_DDOS_SSL_L4_T2_COUNTER"})

\* One reader of each sort, for the properties that need the whole graph
FewFlow     == Only(AllFlow, {"SFLFLOW_EX_VNI_IN", "SFLFLOW_EX_VLAN_TUNNEL"})
FewCounters == Only(AllCounters,
    {"SFLCOUNTERS_ADAPTORS", "SFL_COUNTER_REC_GENERIC_A10",
     "SFLCOUNTERS_DDOS_POLLING_PACKETS_COUNTER"})
FewPackets  == Only(AllPackets, {"INMPACKETTYPE_HEADER"})
FewExtended == [v \in {2, 4} |-> Only(AllExtended[v], {"INMEXTENDED_SWITCH", "INMEXTENDED_URL"})]
FewBlocks   == Only(AllBlocks, {"INMCOUNTERSVERSION_VLAN"})

=============================================================================
