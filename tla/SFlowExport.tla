------------------------------ MODULE SFlowExport ------------------------------
(***************************************************************************)
(* What sflowtool writes out for a flow sample (sendNetFlowDatagram,       *)
(* writePcapPacket, writeFlowLine, the common log format), and where the   *)
(* values come from.                                                       *)
(*                                                                         *)
(* All samples of a datagram are decoded into one SFSample, which is       *)
(* cleared once, when the datagram arrives: a field a sample does not set  *)
(* still has what an earlier sample of the datagram left there.  Elements  *)
(* are numbered as they are read, through all samples and datagrams, and   *)
(* the model keeps of a field only where it comes from: 0 when it is zero, *)
(* else the number of the element that set it.                             *)
(***************************************************************************)
EXTENDS Integers

CONSTANTS
    Formats,       \* the output formats considered
    Filters,       \* the vlan filters considered
    Versions,      \* the datagram versions considered
    Frames,        \* the sampled packet headers considered
    MaxDatagrams,  \* bound: datagrams
    MaxSamples,    \* bound: samples, in all
    MaxElements    \* bound: elements of a sample

\* What a sampled header says: the protocol it starts with, how far its link
\* layer is decoded (MAC addresses, Ethernet type, an IP header found), its vlan
\* tag, whether the IPv4 packet is a later fragment, and the protocol above IP
\* ("cut": the header ends before it, "walk": within the IPv6 extensions, "bad":
\* the bytes are not IPv6).  Where a flag of an earlier sample makes the decoder
\* take the bytes for IP, the last two are what it happens to read.
AllFrames ==
    [ protocol : {"ETHERNET_ISO8023", "IPv4", "IPv6", "IEEE80211MAC", "NO_DECODE"},
      link : {"none", "addresses", "type", "IPv4", "IPv6"},
      tag : {"none", "zero", "other"}, fragment : BOOLEAN,
      above : {"icmp", "tcp", "udp", "other", "cut", "walk", "bad"} ]

Vlans == {"zero", "other"}

ASSUME ExportAssumption ==
    /\ Formats \subseteq {"SFLFMT_NETFLOW", "SFLFMT_PCAP", "SFLFMT_LINE", "SFLFMT_CLF"}
    /\ Filters \subseteq SUBSET Vlans
    /\ Versions \subseteq {2, 4, 5}
    /\ Frames \subseteq AllFrames
    /\ MaxDatagrams \in Nat /\ MaxSamples \in Nat /\ MaxElements \in Nat

\* The fields of an SFSample that reach an output, but for those that every
\* sample or datagram sets anew (agent, interfaces, sampling rate).  Some stand
\* for several that are always set together: eth for eth_src and eth_dst, addr
\* for ipsrc and ipdst, ports for dcd_sport and dcd_dport, route for nextHop and
\* the masks, as for src_as and src_peer_as, headerLen for header too; size is
\* sampledPacketSize, payload is offsetToPayload.
Fields ==
    {"gotIPV4", "gotIPV6", "gotIPV4Struct", "size", "stripped", "headerLen",
     "offsetToIPV4", "payload", "eth", "eth_type", "addr", "ip_proto", "ip_tos",
     "ip_ttl", "ports", "tcpFlags", "udp_pduLen", "ip_fragmentOffset",
     "in_vlan", "out_vlan", "route", "as", "dst_as", "dst_peer_as"}

\* The common log record is kept beside the SFSample, for all datagrams.
CLFFields == {"valid", "client", "http_log"}

VARIABLES
    pc,         \* "idle", "packet" (between samples), "first" (the packet of
                \* an older sample), "elements"
    format,     \* sfConfig.outputFormat
    filter,     \* the vlans accepted
    version,    \* datagramVersion
    datagrams,  \* datagrams so far
    samples,    \* samples so far
    n,          \* number of the last element read
    first,      \* number of the first element of the datagram
    own,        \* number of the first element of the current sample
    sample,     \* the SFSample
    clf,        \* sfCLF
    last,       \* the current sample's last packet data, its number, and the
                \* number of the last socket element behind it
    switch,     \* the current sample has a switch element
    out         \* what was written for the last sample

configVars == <<format, filter>>
countVars  == <<datagrams, samples>>
ghostVars  == <<last, switch>>
vars == <<pc, configVars, version, countVars, n, first, own, sample, clf, ghostVars, out>>

NoFrame == [protocol |-> "none"]
IPv4Struct == [protocol |-> "IPv4Struct"]
PacketAt(frame, at) == [frame |-> frame, at |-> at, socket |-> 0]
NoPacket == PacketAt(NoFrame, 0)
NoOutput == [to |-> "none"]
Cleared == [f \in Fields |-> 0]

When(condition, fields) == IF condition THEN fields ELSE {}

\* The next element sets some fields and zeroes others.
Write(sets, zeroes) ==
    sample' = [f \in Fields |-> IF f \in sets THEN n + 1
                                ELSE IF f \in zeroes THEN 0 ELSE sample[f]]

(***************************************************************************)
(* The sampled header.                                                     *)
(***************************************************************************)

\* decodeLinkLayer and decode80211MAC forget what was found in another frame,
\* the other protocols do not.
LinkSets(frame) ==
    LET ethernet == frame.protocol = "ETHERNET_ISO8023"
        decoded  == ethernet /\ frame.link # "none"
        wifi     == frame.protocol = "IEEE80211MAC" /\ frame.link # "none"
    IN  When(decoded \/ wifi, {"eth"})
          \cup When(decoded /\ frame.tag = "other", {"in_vlan"})
          \cup When(decoded /\ frame.link # "addresses", {"eth_type"})
          \cup When(ethernet /\ frame.link = "IPv4", {"gotIPV4", "offsetToIPV4"})
          \cup When(ethernet /\ frame.link = "IPv6", {"gotIPV6"})
          \cup When(frame.protocol = "IPv4", {"gotIPV4"})
          \cup When(frame.protocol = "IPv6", {"gotIPV6"})
LinkZeroes(frame) ==
    When(frame.protocol \in {"ETHERNET_ISO8023", "IEEE80211MAC"}, {"gotIPV4", "gotIPV6"})
      \cup When(/\ frame.protocol = "ETHERNET_ISO8023" /\ frame.link # "none"
                /\ frame.tag = "zero", {"in_vlan"})
      \cup When(frame.protocol = "IPv4", {"offsetToIPV4"})

Has(flag, frame) ==
    \/ flag \in LinkSets(frame)
    \/ flag \notin LinkZeroes(frame) /\ sample[flag] # 0

HasPorts(frame) == frame.above \in {"icmp", "tcp", "udp"}

\* Mutant: the length in the UDP header is not kept.
decodeIPLayer4_NoLength(frame) ==
    When(HasPorts(frame) \/ frame.above = "other", {"payload"})
      \cup When(HasPorts(frame), {"ports"})
      \cup When(frame.above = "tcp", {"tcpFlags"})
decodeIPLayer4(frame) ==
    When(HasPorts(frame) \/ frame.above = "other", {"payload"})
      \cup When(HasPorts(frame), {"ports"})
      \cup When(frame.above = "tcp", {"tcpFlags"})
      \cup When(frame.above = "udp", {"udp_pduLen"})

decodeIPV4(frame) ==
    {"addr", "ip_proto", "ip_tos", "ip_ttl"}
      \cup IF frame.fragment THEN {"ip_fragmentOffset"} ELSE decodeIPLayer4(frame)
\* Mutant: the fragment offset is only stored when there is one.
FragmentZeroes_None(frame) == {}
FragmentZeroes(frame) == IF frame.fragment THEN {} ELSE {"ip_fragmentOffset"}

\* The protocol is known only behind the extensions.
decodeIPV6(frame) ==
    When(frame.above # "bad", {"ip_tos", "ip_ttl", "addr"})
      \cup When(frame.above \notin {"bad", "walk"}, {"ip_proto"} \cup decodeIPLayer4(frame))

\* The fields a sampled header sets and those it zeroes.
HeaderSets(frame) ==
    {"size", "headerLen"} \cup When(version = 5, {"stripped"}) \cup LinkSets(frame)
      \cup IF Has("gotIPV4", frame) THEN decodeIPV4(frame)
           ELSE When(Has("gotIPV6", frame), decodeIPV6(frame))
HeaderZeroes(frame) ==
    LinkZeroes(frame) \cup When(Has("gotIPV4", frame), FragmentZeroes(frame))

readFlowSample_header ==
    \E frame \in Frames :
        /\ Write(HeaderSets(frame), HeaderZeroes(frame))
        /\ last' = PacketAt(frame, n + 1)
        /\ UNCHANGED <<switch, clf>>

(***************************************************************************)
(* The other elements.                                                     *)
(***************************************************************************)

\* readFlowSample_IPv4, readFlowSample_IPv6, also of a tunnel: the flag that the
\* IPv4 form came is set for the older datagrams only.
StructSets(ipv4, tcp) ==
    {"headerLen", "size", "addr", "ip_proto", "ports"}
      \cup When(ipv4, {"ip_tos"}) \cup When(tcp, {"tcpFlags"})
      \cup When(ipv4 /\ version # 5, {"gotIPV4Struct"})
readFlowSample_IPvX ==
    /\ \E ipv4 \in BOOLEAN, tcp \in BOOLEAN :
          /\ Write(StructSets(ipv4, tcp), {})
          /\ last' = PacketAt(IF ipv4 THEN IPv4Struct ELSE NoFrame, n + 1)
    /\ UNCHANGED <<switch, clf>>

\* Mutant: a vlan of zero is taken for one that is not reported.
SwitchZeroes_None == {}
SwitchZeroes == {"in_vlan", "out_vlan"}
readExtendedSwitch ==
    /\ \E vlans \in SUBSET {"in_vlan", "out_vlan"} : Write(vlans, SwitchZeroes)
    /\ switch' = TRUE /\ UNCHANGED <<last, clf>>

readExtendedRouter == Write({"route"}, {}) /\ UNCHANGED <<ghostVars, clf>>

\* readExtendedGateway, readExtendedGateway_v2: the path has a first AS, the peer,
\* and a last one, the destination; without a path there is neither, and where a
\* path is made of segments either end may be an empty one.
\* Mutant: the two are not cleared first.
GatewayZeroes_None == {}
GatewayZeroes == {"dst_as", "dst_peer_as"}
readExtendedGateway ==
    /\ \E path \in SUBSET {"dst_as", "dst_peer_as"} :
          /\ version = 2 => path \in {{}, {"dst_as", "dst_peer_as"}}
          /\ Write({"as"} \cup path, GatewayZeroes)
    /\ UNCHANGED <<ghostVars, clf>>

readFlowSample_ethernet == Write({"eth", "eth_type"}, {}) /\ UNCHANGED <<ghostVars, clf>>

WhenCLF(record) == IF format = "SFLFMT_CLF" THEN record ELSE clf

\* readExtendedSocket4, readExtendedSocket6: the socket's addresses take the place
\* of the packet's; its ports are only logged.
readExtendedSocket ==
    /\ Write({"addr"}, {})
    /\ clf' = WhenCLF([clf EXCEPT !["client"] = n + 1])
    /\ last' = [last EXCEPT !.socket = n + 1] /\ UNCHANGED switch

readFlowSample_http ==
    /\ clf' = WhenCLF([clf EXCEPT !["http_log"] = n + 1, !["valid"] = n + 1])
    /\ UNCHANGED <<sample, ghostVars>>

\* Any element that sets none of the fields, and one skipped.
readOther == UNCHANGED <<sample, clf, ghostVars>>

(***************************************************************************)
(* The outputs.                                                            *)
(***************************************************************************)

VlanClass(vlan) == IF vlan = 0 THEN "zero" ELSE "other"
sampleFilterOK ==
    {VlanClass(sample["in_vlan"]), VlanClass(sample["out_vlan"])} \cap filter # {}

\* The condition differs between the two forms of a flow sample.
NetFlowDue ==
    sample["gotIPV4"] # 0 \/ (version # 5 /\ sample["gotIPV4Struct"] # 0)

Due == /\ sampleFilterOK
       /\ format = "SFLFMT_NETFLOW" => NetFlowDue /\ sample["ip_fragmentOffset"] = 0
       /\ format = "SFLFMT_CLF" => version = 5 /\ clf["valid"] # 0
Output == IF Due THEN [to |-> format, from |-> IF format = "SFLFMT_CLF" THEN clf ELSE sample]
          ELSE NoOutput

(***************************************************************************)
(* Datagrams and samples.                                                  *)
(***************************************************************************)

Init ==
    /\ pc = "idle"
    /\ format \in Formats /\ filter \in Filters
    /\ version \in Versions
    /\ datagrams = 0 /\ samples = 0 /\ n = 0 /\ first = 1 /\ own = 1
    /\ sample = Cleared /\ clf = [f \in CLFFields |-> 0]
    /\ last = NoPacket /\ switch = FALSE /\ out = NoOutput

\* readPacket, readPcapPacket: memset of the SFSample.
\* Mutant: it lives on.
FreshSample_Kept == sample
FreshSample == Cleared
NewDatagram ==
    /\ pc = "idle" /\ datagrams < MaxDatagrams
    /\ datagrams' = datagrams + 1
    /\ version' \in Versions
    /\ sample' = FreshSample /\ first' = n + 1
    /\ pc' = "packet"
    /\ out' = NoOutput
    /\ UNCHANGED <<configVars, samples, n, own, clf, ghostVars>>

\* A datagram ends when its samples were read, or is given up anywhere.
EndDatagram ==
    /\ pc # "idle" /\ pc' = "idle"
    /\ UNCHANGED <<configVars, version, countVars, n, first, own, sample, clf, ghostVars, out>>

\* The log record is cleared for every version 5 flow sample, the line in it not.
\* Mutant: nor is the client.
ClearCLF_Valid == [clf EXCEPT !["valid"] = 0]
ClearCLF == [clf EXCEPT !["valid"] = 0, !["client"] = 0]

NextSample ==
    /\ pc = "packet" /\ samples < MaxSamples
    /\ samples' = samples + 1 /\ own' = n + 1
    /\ last' = NoPacket /\ switch' = FALSE /\ out' = NoOutput

\* Version 5: elements in any order.  Version 2 and 4: the packet first.
BeginSample ==
    /\ NextSample
    /\ clf' = IF version = 5 THEN ClearCLF ELSE clf
    /\ pc' = IF version = 5 THEN "elements" ELSE "first"
    /\ UNCHANGED <<configVars, version, datagrams, n, first, sample>>

\* A counter sample writes nothing the flow outputs read, but for the vlan.
readCounters_vlan ==
    /\ NextSample
    /\ n' = n + 1
    /\ \E vlan \in SUBSET {"in_vlan"} : Write(vlan, {"in_vlan"})
    /\ UNCHANGED <<pc, configVars, version, datagrams, first, clf>>

PacketData == readFlowSample_header \/ readFlowSample_IPvX
Extended == readExtendedSwitch \/ readExtendedRouter \/ readExtendedGateway \/ readOther
Version5 == PacketData \/ readFlowSample_ethernet \/ readExtendedSocket \/ readFlowSample_http
ReadElement ==
    /\ n + 1 < own + MaxElements /\ n' = n + 1
    /\ \/ pc = "first" /\ PacketData
       \/ pc = "elements" /\ (Extended \/ (version = 5 /\ Version5))
    /\ pc' = "elements"
    /\ UNCHANGED <<configVars, version, countVars, first, own, out>>

EndSample ==
    /\ pc = "elements"
    /\ out' = Output
    /\ pc' = "packet"
    /\ UNCHANGED <<configVars, version, countVars, n, first, own, sample, clf, ghostVars>>

Next == \/ NewDatagram \/ EndDatagram \/ BeginSample \/ readCounters_vlan
        \/ ReadElement \/ EndSample

Spec == Init /\ [][Next]_vars

(***************************************************************************)
(* Properties.                                                             *)
(***************************************************************************)

TypeOK ==
    /\ pc \in {"idle", "packet", "first", "elements"}
    /\ format \in Formats /\ filter \in Filters /\ version \in Versions
    /\ datagrams \in Nat /\ samples \in Nat
    /\ n \in Nat /\ first \in 1 .. n + 1 /\ own \in 1 .. n + 1
    /\ sample \in [Fields -> 0 .. n] /\ clf \in [CLFFields -> 0 .. n]
    /\ last \in [frame : Frames \cup {NoFrame, IPv4Struct}, at : 0 .. n, socket : 0 .. n]
    /\ switch \in BOOLEAN
    /\ \/ out = NoOutput
       \/ out.to = "SFLFMT_CLF" /\ out.from \in [CLFFields -> 0 .. n]
       \/ out.to \in Formats \ {"SFLFMT_CLF"} /\ out.from \in [Fields -> 0 .. n]

\* A datagram never sees what another one left: whatever is written out comes
\* from the datagram it is written for.
ForgottenBetweenDatagrams ==
    /\ pc # "idle" => \A f \in Fields : sample[f] = 0 \/ sample[f] >= first
    /\ out # NoOutput => \A f \in DOMAIN out.from : out.from[f] = 0 \/ out.from[f] >= first

\* The AS numbers of a flow record are those of one gateway element: a
\* destination is never paired with the source of another element.
AsPairConsistent ==
    \A f \in {"dst_as", "dst_peer_as"} : sample[f] # 0 => sample[f] = sample["as"]

\* A sample with a switch element is filtered by vlans of its own, or by none,
\* wherever the element comes; only without one, the vlans of an earlier sample
\* of the datagram, also one of vlan counters, decide.
VlansOfOwnSwitch ==
    pc = "elements" /\ switch => \A f \in {"in_vlan", "out_vlan"} : sample[f] \in {0} \cup own .. n

\* A line of the common log is one request of one sample: the client, where there
\* is one, and the request are of the sample the line is written for.
CLFOfOwnSample ==
    out.to = "SFLFMT_CLF" =>
        out.from["http_log"] >= own /\ (out.from["client"] = 0 \/ out.from["client"] >= own)

\* A sample whose last packet data is the header of an IPv4 packet is exported to
\* NetFlow exactly when the packet is no later fragment and the filter lets it
\* through, and then with the protocol, the type of service and, where it has
\* them, the ports of that header, whatever earlier samples of the datagram were.
\* The addresses are the header's, or those of a socket element behind it.
IsIPv4(frame) ==
    \/ frame.protocol = "IPv4"
    \/ frame.protocol = "ETHERNET_ISO8023" /\ frame.link = "IPv4"
FromOwnHeader(from) ==
    /\ from["ip_proto"] = last.at /\ from["ip_tos"] = last.at
    /\ HasPorts(last.frame) => from["ports"] = last.at
    /\ from["addr"] = IF last.socket = 0 THEN last.at ELSE last.socket
OwnIPv4Exported ==
    [][ (EndSample /\ format = "SFLFMT_NETFLOW" /\ IsIPv4(last.frame)) =>
          /\ out'.to = "SFLFMT_NETFLOW" <=> (~last.frame.fragment /\ sampleFilterOK)
          /\ out'.to = "SFLFMT_NETFLOW" => FromOwnHeader(out'.from) ]_vars

\* A UDP packet is counted with its own length and cut at its own payload,
\* although both fields are left standing by every sample that is not UDP.
OwnUdpExported ==
    [][ (/\ EndSample /\ out'.to \notin {"none", "SFLFMT_CLF"}
         /\ IsIPv4(last.frame) /\ ~last.frame.fragment /\ last.frame.above = "udp") =>
          out'.from["udp_pduLen"] = last.at /\ out'.from["payload"] = last.at ]_vars

(***************************************************************************)
(* What a comment says of the NetFlow output, and the code does not do for *)
(* a sample that finds a field of an earlier one.                          *)
(***************************************************************************)

\* "count the bytes from the start of IP header, with the exception that for udp
\* packets we use the udp_pduLen": no other packet is counted by that field.
PduLengthOfUdpOnly ==
    (out.to = "SFLFMT_NETFLOW" /\ IsIPv4(last.frame) /\ out.from["udp_pduLen"] # 0) =>
        last.frame.above = "udp"

=============================================================================
