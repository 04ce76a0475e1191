------------------------------ MODULE MCRecords ------------------------------
(***************************************************************************)
(* All records: TLC evaluates the assumptions of SFlowPrograms on the      *)
(* readers of SFlowRecords and the structures of RecordSizes.              *)
(***************************************************************************)
EXTENDS MCSFlowDecode, SFlowPrograms, SFlowStructures

UdpStructure == Records!UdpStructures
UdpCounters  == Only(AllCounters, DOMAIN UdpStructure)
UdpSizes     == {UdpStructure[t] : t \in DOMAIN UdpStructure}

\* StructureConsumed of the records with the UDP indicators, whose structure has
\* a member concurrent_conns (sflowtool_ddos_ext_v1.h:1850): their readers pass
\* from the indicator before it to the one behind it.
UdpIndicatorsConsumed == ConsumedAs(UdpStructure)

=============================================================================
