-------------------------- MODULE SFlowExport_proofs --------------------------
(***************************************************************************)
(* What the export reads of an SFSample, and of the common log record, was *)
(* set by an element of the same datagram, and what a sample brings itself *)
(* is what is exported, for any sampled headers and any number of          *)
(* datagrams, samples and elements.                                        *)
(***************************************************************************)
EXTENDS SFlowExport, TLAPS

Reading == pc \in {"first", "elements"}

\* Every field is zero or was set by an element of this datagram, ...
Fresh == pc # "idle" => \A f \in Fields : sample[f] = 0 \/ sample[f] >= first
FreshOut == out # NoOutput => \A f \in DOMAIN out.from : out.from[f] = 0 \/ out.from[f] >= first

\* ... an IPv4 header of the current sample left its marks, ...
Seen ==
    IsIPv4(last.frame) =>
        /\ sample["gotIPV4"] # 0
        /\ sample["ip_fragmentOffset"] # 0 <=> last.frame.fragment
        /\ sample["ip_proto"] = last.at /\ sample["ip_tos"] = last.at
        /\ sample["addr"] = IF last.socket = 0 THEN last.at ELSE last.socket
        /\ ~last.frame.fragment /\ HasPorts(last.frame) => sample["ports"] = last.at
        /\ ~last.frame.fragment /\ last.frame.above = "udp" =>
              sample["udp_pduLen"] = last.at /\ sample["payload"] = last.at

\* ... and the log record of a version 5 sample is its own.
Log ==
    version = 5 =>
        /\ clf["valid"] = 0 \/ (clf["valid"] >= own /\ clf["http_log"] >= own)
        /\ clf["client"] = 0 \/ clf["client"] >= own

IInv ==
    /\ TypeOK /\ Fresh /\ FreshOut /\ AsPairConsistent /\ CLFOfOwnSample
    /\ Reading => Seen /\ Log /\ first <= own

\* What was an element number stays one.
LEMMA Later ==
    ASSUME NEW m \in Nat, NEW k \in Nat, m <= k, NEW S, NEW g \in [S -> 0 .. m]
    PROVE  g \in [S -> 0 .. k]
OBVIOUS

\* A reader writes what it says, and leaves the other fields alone.
LEMMA WriteFields ==
    ASSUME NEW sets, NEW zeroes, TypeOK, Write(sets, zeroes)
    PROVE  /\ sample' \in [Fields -> 0 .. n + 1]
           /\ \A f \in Fields :
                 /\ f \in sets => sample'[f] = n + 1
                 /\ f \notin sets /\ f \in zeroes => sample'[f] = 0
                 /\ f \notin sets /\ f \notin zeroes => sample'[f] = sample[f]
BY DEF Write, TypeOK

\* A field set now is set by an element of this datagram.
LEMMA WriteFresh ==
    ASSUME NEW sets, NEW zeroes, TypeOK, Fresh, Write(sets, zeroes),
           pc # "idle", first' = first
    PROVE  Fresh'
<1>1. n + 1 >= first BY DEF TypeOK
<1> QED BY <1>1, WriteFields DEF Fresh

\* The AS numbers are kept by every reader that does not write them.
LEMMA WriteAs ==
    ASSUME NEW sets, NEW zeroes, TypeOK, AsPairConsistent, Write(sets, zeroes),
           {"as", "dst_as", "dst_peer_as"} \cap (sets \cup zeroes) = {}
    PROVE  AsPairConsistent'
<1>1. \A f \in {"as", "dst_as", "dst_peer_as"} : sample'[f] = sample[f]
    BY WriteFields DEF Fields
<1> QED BY <1>1 DEF AsPairConsistent

\* What an IPv4 header makes readFlowSample_header set.
LEMMA HeaderFields ==
    ASSUME NEW frame \in AllFrames, IsIPv4(frame)
    PROVE  /\ {"gotIPV4", "ip_proto", "ip_tos", "addr"} \subseteq HeaderSets(frame)
           /\ "ip_fragmentOffset" \in HeaderSets(frame) <=> frame.fragment
           /\ ~frame.fragment => "ip_fragmentOffset" \in HeaderZeroes(frame)
           /\ ~frame.fragment /\ HasPorts(frame) => "ports" \in HeaderSets(frame)
           /\ ~frame.fragment /\ frame.above = "udp" =>
                 {"udp_pduLen", "payload"} \subseteq HeaderSets(frame)
<1>1. "gotIPV4" \in LinkSets(frame) BY DEF When, IsIPv4, LinkSets
<1>2. Has("gotIPV4", frame) BY <1>1 DEF Has
<1>3. "ip_fragmentOffset" \notin LinkSets(frame) BY DEF When, LinkSets, AllFrames
<1>4. "ip_fragmentOffset" \notin decodeIPLayer4(frame) BY DEF When, decodeIPLayer4, AllFrames
<1>5. HasPorts(frame) => "ports" \in decodeIPLayer4(frame) BY DEF When, decodeIPLayer4
<1>6. frame.above = "udp" => {"udp_pduLen", "payload"} \subseteq decodeIPLayer4(frame)
    BY DEF When, decodeIPLayer4, HasPorts
<1>7. HeaderSets(frame) = {"size", "headerLen"} \cup When(version = 5, {"stripped"})
                             \cup LinkSets(frame) \cup decodeIPV4(frame)
    BY <1>2 DEF HeaderSets
<1>8. "ip_fragmentOffset" \notin {"size", "headerLen"} \cup When(version = 5, {"stripped"})
    BY DEF When
<1>9. /\ {"ip_proto", "ip_tos", "addr"} \subseteq decodeIPV4(frame)
      /\ "ip_fragmentOffset" \in decodeIPV4(frame) <=> frame.fragment
      /\ ~frame.fragment => decodeIPLayer4(frame) \subseteq decodeIPV4(frame)
    BY <1>4 DEF decodeIPV4, AllFrames
<1>10. ~frame.fragment => "ip_fragmentOffset" \in HeaderZeroes(frame)
    BY <1>2 DEF HeaderZeroes, FragmentZeroes, When
<1> QED BY <1>1, <1>3, <1>5, <1>6, <1>7, <1>8, <1>9, <1>10

\* A sampled header leaves the AS numbers alone.
LEMMA HeaderKeepsAs ==
    ASSUME NEW frame \in AllFrames
    PROVE  {"as", "dst_as", "dst_peer_as"} \cap (HeaderSets(frame) \cup HeaderZeroes(frame)) = {}
<1> DEFINE As == {"as", "dst_as", "dst_peer_as"}
<1>1. As \cap LinkSets(frame) = {} BY DEF When, LinkSets
<1>2. As \cap decodeIPLayer4(frame) = {} BY DEF When, decodeIPLayer4
<1>3. As \cap decodeIPV4(frame) = {} BY <1>2 DEF decodeIPV4
<1>4. As \cap decodeIPV6(frame) = {} BY <1>2 DEF decodeIPV6, When
<1>5. As \cap HeaderSets(frame) = {} BY <1>1, <1>3, <1>4 DEF HeaderSets, When
<1>6. As \cap HeaderZeroes(frame) = {} BY DEF HeaderZeroes, LinkZeroes, FragmentZeroes, When
<1> QED BY <1>5, <1>6

\* A sampled header sets the fields of its own packet.
LEMMA ReadHeader ==
    ASSUME IInv, Reading, readFlowSample_header, n' = n + 1, first' = first
    PROVE  /\ Fresh' /\ AsPairConsistent' /\ Seen'
           /\ sample' \in [Fields -> 0 .. n + 1]
           /\ \E frame \in Frames : last' = PacketAt(frame, n + 1)
<1> PICK frame \in Frames : /\ Write(HeaderSets(frame), HeaderZeroes(frame))
                            /\ last' = PacketAt(frame, n + 1)
    BY DEF readFlowSample_header
<1> DEFINE sets == HeaderSets(frame)  zeroes == HeaderZeroes(frame)
<1>1. Write(sets, zeroes) OBVIOUS
<1>2. frame \in AllFrames BY ExportAssumption
<1>3. {"as", "dst_as", "dst_peer_as"} \cap (sets \cup zeroes) = {} BY <1>2, HeaderKeepsAs
<1>4. IsIPv4(frame) =>
        /\ {"gotIPV4", "ip_proto", "ip_tos", "addr"} \subseteq sets
        /\ "ip_fragmentOffset" \in sets <=> frame.fragment
        /\ ~frame.fragment => "ip_fragmentOffset" \in zeroes
        /\ ~frame.fragment /\ HasPorts(frame) => "ports" \in sets
        /\ ~frame.fragment /\ frame.above = "udp" => {"udp_pduLen", "payload"} \subseteq sets
    BY <1>2, HeaderFields
<1> HIDE DEF sets, zeroes
<1>5. sample' \in [Fields -> 0 .. n + 1] /\ Fresh'
    BY <1>1, WriteFields, WriteFresh DEF IInv, Reading
<1>6. AsPairConsistent' BY <1>1, <1>3, WriteAs DEF IInv
<1>7. Seen'
  <2>1. last'.frame = frame /\ last'.at = n + 1 /\ last'.socket = 0 BY DEF PacketAt
  <2> SUFFICES ASSUME IsIPv4(frame)
               PROVE  /\ sample'["gotIPV4"] # 0
                      /\ sample'["ip_fragmentOffset"] # 0 <=> frame.fragment
                      /\ sample'["ip_proto"] = n + 1 /\ sample'["ip_tos"] = n + 1
                      /\ sample'["addr"] = n + 1
                      /\ ~frame.fragment /\ HasPorts(frame) => sample'["ports"] = n + 1
                      /\ ~frame.fragment /\ frame.above = "udp" =>
                            sample'["udp_pduLen"] = n + 1 /\ sample'["payload"] = n + 1
      BY <2>1 DEF Seen, IsIPv4, HasPorts
  <2>2. n + 1 # 0 BY DEF IInv, TypeOK
  <2> QED BY <1>1, <1>4, <2>2, WriteFields DEF IInv, Fields
<1> QED BY <1>5, <1>6, <1>7

\* So does the structure of an IP packet, which is no header.
LEMMA ReadStruct ==
    ASSUME IInv, Reading, readFlowSample_IPvX, n' = n + 1, first' = first
    PROVE  /\ Fresh' /\ AsPairConsistent' /\ Seen'
           /\ sample' \in [Fields -> 0 .. n + 1]
           /\ \E frame \in {NoFrame, IPv4Struct} : last' = PacketAt(frame, n + 1)
<1> PICK ipv4 \in BOOLEAN, tcp \in BOOLEAN :
       /\ Write(StructSets(ipv4, tcp), {})
       /\ last' = PacketAt(IF ipv4 THEN IPv4Struct ELSE NoFrame, n + 1)
    BY DEF readFlowSample_IPvX
<1>1. {"as", "dst_as", "dst_peer_as"} \cap (StructSets(ipv4, tcp) \cup {}) = {}
    BY DEF StructSets, When
<1>2. sample' \in [Fields -> 0 .. n + 1] /\ Fresh'
    BY WriteFields, WriteFresh DEF IInv, Reading
<1>3. AsPairConsistent' BY <1>1, WriteAs DEF IInv
<1>4. last'.frame \in {NoFrame, IPv4Struct} BY DEF PacketAt
<1>5. Seen' BY <1>4 DEF Seen, IsIPv4, IPv4Struct, NoFrame
<1> QED BY <1>2, <1>3, <1>5

\* Other elements leave the packet data alone, but for a socket's addresses.
LEMMA ReadExtended ==
    ASSUME IInv, Reading, Extended \/ readFlowSample_ethernet \/ readExtendedSocket \/ readFlowSample_http,
           n' = n + 1, first' = first
    PROVE  /\ Fresh' /\ AsPairConsistent' /\ Seen'
           /\ sample' \in [Fields -> 0 .. n + 1]
           /\ last' = last \/ last' = [last EXCEPT !.socket = n + 1]
<1> USE DEF ghostVars
<1> DEFINE Kept == {"gotIPV4", "ip_fragmentOffset", "ip_proto", "ip_tos", "ports",
                    "udp_pduLen", "payload"}
<1>1. ASSUME UNCHANGED <<sample, last>>
      PROVE  Fresh' /\ AsPairConsistent' /\ Seen' /\ sample' \in [Fields -> 0 .. n + 1]
  <2>1. Fresh' BY <1>1 DEF IInv, Fresh, Reading
  <2>2. AsPairConsistent' /\ Seen' BY <1>1 DEF IInv, AsPairConsistent, Seen, IsIPv4, HasPorts
  <2>3. sample \in [Fields -> 0 .. n] /\ n \in Nat BY DEF IInv, TypeOK
  <2> QED BY <1>1, <2>1, <2>2, <2>3, Later
<1>2. ASSUME NEW sets, NEW zeroes, Write(sets, zeroes), last' = last,
             (Kept \cup {"addr"}) \cap (sets \cup zeroes) = {},
             \/ {"as", "dst_as", "dst_peer_as"} \cap (sets \cup zeroes) = {}
             \/ "as" \in sets /\ {"dst_as", "dst_peer_as"} \subseteq sets \cup zeroes
      PROVE  Fresh' /\ AsPairConsistent' /\ Seen' /\ sample' \in [Fields -> 0 .. n + 1]
  <2>1. sample' \in [Fields -> 0 .. n + 1] /\ Fresh'
      BY <1>2, WriteFields, WriteFresh DEF IInv, Reading
  <2>2. AsPairConsistent'
    <3>1. CASE {"as", "dst_as", "dst_peer_as"} \cap (sets \cup zeroes) = {}
        BY <1>2, <3>1, WriteAs DEF IInv
    <3>2. CASE "as" \in sets /\ {"dst_as", "dst_peer_as"} \subseteq sets \cup zeroes
      <4>1. sample'["as"] = n + 1 BY <1>2, <3>2, WriteFields DEF IInv, Fields
      <4>2. \A f \in {"dst_as", "dst_peer_as"} : sample'[f] \in {0, n + 1}
          BY <1>2, <3>2, WriteFields DEF IInv, Fields
      <4> QED BY <4>1, <4>2 DEF AsPairConsistent
    <3> QED BY <1>2, <3>1, <3>2
  <2>3. \A f \in Kept \cup {"addr"} : sample'[f] = sample[f]
      BY <1>2, WriteFields DEF IInv, Fields
  <2>4. Seen' BY <1>2, <2>3 DEF Seen, IInv, IsIPv4, HasPorts
  <2> QED BY <2>1, <2>2, <2>4
<1>3. CASE readOther BY <1>1, <1>3 DEF readOther
<1>4. CASE readFlowSample_http BY <1>1, <1>4 DEF readFlowSample_http
<1>5. CASE readExtendedSwitch
  <2> PICK vlans \in SUBSET {"in_vlan", "out_vlan"} : Write(vlans, {"in_vlan", "out_vlan"})
      BY <1>5 DEF readExtendedSwitch, SwitchZeroes
  <2>1. (Kept \cup {"addr"}) \cap (vlans \cup {"in_vlan", "out_vlan"}) = {} OBVIOUS
  <2>2. {"as", "dst_as", "dst_peer_as"} \cap (vlans \cup {"in_vlan", "out_vlan"}) = {}
      OBVIOUS
  <2>3. last' = last BY <1>5 DEF readExtendedSwitch
  <2> QED BY <1>2, <2>1, <2>2, <2>3
<1>6. CASE readExtendedRouter BY <1>2, <1>6 DEF readExtendedRouter
<1>7. CASE readFlowSample_ethernet BY <1>2, <1>7 DEF readFlowSample_ethernet
<1>8. CASE readExtendedGateway
  <2> PICK path \in SUBSET {"dst_as", "dst_peer_as"} :
        Write({"as"} \cup path, GatewayZeroes)
      BY <1>8 DEF readExtendedGateway
  <2>1. (Kept \cup {"addr"}) \cap (({"as"} \cup path) \cup GatewayZeroes) = {}
      BY DEF GatewayZeroes
  <2>2. /\ "as" \in {"as"} \cup path
        /\ {"dst_as", "dst_peer_as"} \subseteq ({"as"} \cup path) \cup GatewayZeroes
      BY DEF GatewayZeroes
  <2>3. last' = last BY <1>8 DEF readExtendedGateway
  <2> QED BY <1>2, <2>1, <2>2, <2>3
<1>9. CASE readExtendedSocket
  <2>1. Write({"addr"}, {}) /\ last' = [last EXCEPT !.socket = n + 1]
      BY <1>9 DEF readExtendedSocket
  <2>2. sample' \in [Fields -> 0 .. n + 1] /\ Fresh'
      BY <2>1, WriteFields, WriteFresh DEF IInv, Reading
  <2>3. AsPairConsistent' BY <2>1, WriteAs DEF IInv
  <2>4. /\ \A f \in Kept : sample'[f] = sample[f]
        /\ sample'["addr"] = n + 1
      BY <2>1, WriteFields DEF IInv, Fields
  <2>5. last'.frame = last.frame /\ last'.at = last.at /\ last'.socket = n + 1 /\ n + 1 # 0
      BY <2>1 DEF IInv, TypeOK
  <2>6. Seen' BY <2>4, <2>5 DEF Seen, IInv, IsIPv4, HasPorts
  <2> QED BY <2>1, <2>2, <2>3, <2>6
<1>10. last' = last \/ last' = [last EXCEPT !.socket = n + 1]
    BY DEF Extended, readExtendedSwitch, readExtendedRouter, readExtendedGateway, readOther,
           readFlowSample_ethernet, readExtendedSocket, readFlowSample_http
<1> QED BY <1>3, <1>4, <1>5, <1>6, <1>7, <1>8, <1>9, <1>10 DEF Extended

\* The log record only gets elements of the sample being read.
LEMMA ReadLog ==
    ASSUME IInv, Reading, PacketData \/ Extended \/ Version5, own' = own, version' = version
    PROVE  Log' /\ clf' \in [CLFFields -> 0 .. n + 1]
<1>1. clf \in [CLFFields -> 0 .. n + 1] BY Later DEF IInv, TypeOK
<1>2. n + 1 >= own BY DEF IInv, TypeOK
<1>3. \/ clf' = clf
      \/ clf' = [clf EXCEPT !["client"] = n + 1]
      \/ clf' = [clf EXCEPT !["http_log"] = n + 1, !["valid"] = n + 1]
    BY DEF PacketData, Extended, Version5, WhenCLF, readFlowSample_header,
           readFlowSample_IPvX, readExtendedSwitch, readExtendedRouter, readExtendedGateway,
           readOther, readFlowSample_ethernet, readExtendedSocket, readFlowSample_http
<1>4. n \in Nat BY DEF IInv, TypeOK
<1> QED BY <1>1, <1>2, <1>3, <1>4 DEF IInv, Log, CLFFields

\* An element read keeps the invariant.
LEMMA ElementIInv ==
    ASSUME IInv, ReadElement
    PROVE  IInv'
<1>1. /\ Reading /\ Reading' /\ pc' = "elements" /\ n' = n + 1
      /\ UNCHANGED <<format, filter, version, datagrams, samples, first, own, out>>
    BY DEF ReadElement, Reading, configVars, countVars
<1>2. PacketData \/ Extended \/ Version5 BY DEF ReadElement
<1>3. /\ Fresh' /\ AsPairConsistent' /\ Seen' /\ sample' \in [Fields -> 0 .. n + 1]
      /\ \/ \E frame \in Frames \cup {NoFrame, IPv4Struct} : last' = PacketAt(frame, n + 1)
         \/ last' = last \/ last' = [last EXCEPT !.socket = n + 1]
    BY <1>1, <1>2, ReadHeader, ReadStruct, ReadExtended DEF PacketData, Version5
<1>4. Log' /\ clf' \in [CLFFields -> 0 .. n + 1] BY <1>1, <1>2, ReadLog
<1>5. switch' \in BOOLEAN
    BY <1>2 DEF IInv, TypeOK, PacketData, Extended, Version5, readFlowSample_header,
           readFlowSample_IPvX, readExtendedSwitch, readExtendedRouter, readExtendedGateway,
           readOther, readFlowSample_ethernet, readExtendedSocket, readFlowSample_http, ghostVars
<1>6. TypeOK'
  <2>1. n \in Nat /\ n + 1 \in Nat /\ n <= n + 1 BY DEF IInv, TypeOK
  <2>2. last' \in [frame : Frames \cup {NoFrame, IPv4Struct}, at : 0 .. n + 1, socket : 0 .. n + 1]
      BY <1>3, <2>1 DEF IInv, TypeOK, PacketAt
  <2>3. \/ out' = NoOutput
        \/ out'.to = "SFLFMT_CLF" /\ out'.from \in [CLFFields -> 0 .. n + 1]
        \/ out'.to \in Formats \ {"SFLFMT_CLF"} /\ out'.from \in [Fields -> 0 .. n + 1]
      BY <1>1, <2>1, Later DEF IInv, TypeOK
  <2> QED BY <1>1, <1>3, <1>4, <1>5, <2>1, <2>2, <2>3 DEF IInv, TypeOK
<1>7. FreshOut' /\ CLFOfOwnSample' BY <1>1 DEF IInv, FreshOut, CLFOfOwnSample
<1> QED BY <1>1, <1>3, <1>4, <1>6, <1>7 DEF IInv

\* So does the output of a sample: the fields are what the invariant says of them.
LEMMA OutputIInv ==
    ASSUME IInv, EndSample
    PROVE  IInv'
<1>1. /\ pc = "elements" /\ pc' = "packet" /\ out' = Output
      /\ UNCHANGED <<format, filter, version, datagrams, samples, n, first, own, sample, clf, last, switch>>
    BY DEF EndSample, configVars, countVars, ghostVars
<1>2. \/ Output = NoOutput
      \/ /\ Output = [to |-> format, from |-> clf] /\ format = "SFLFMT_CLF"
         /\ version = 5 /\ clf["valid"] # 0
      \/ Output = [to |-> format, from |-> sample] /\ format # "SFLFMT_CLF"
    BY DEF Output, Due
<1>3. TypeOK' BY <1>1, <1>2 DEF IInv, TypeOK
<1>4. FreshOut' /\ CLFOfOwnSample'
  <2>1. CASE Output = NoOutput
      BY <1>1, <2>1 DEF FreshOut, CLFOfOwnSample, NoOutput
  <2>2. CASE /\ Output = [to |-> format, from |-> clf] /\ format = "SFLFMT_CLF"
             /\ version = 5 /\ clf["valid"] # 0
    <3>1. clf["valid"] >= own /\ clf["http_log"] >= own /\ (clf["client"] = 0 \/ clf["client"] >= own)
        BY <1>1, <2>2 DEF IInv, Log, Reading
    <3>2. first <= own BY <1>1 DEF IInv, Reading
    <3>3. DOMAIN clf = CLFFields /\ \A f \in CLFFields : clf[f] \in Int BY DEF IInv, TypeOK
    <3>4. first \in Int /\ own \in Int BY DEF IInv, TypeOK
    <3>5. CLFOfOwnSample' BY <1>1, <2>2, <3>1 DEF CLFOfOwnSample
    <3>6. \A f \in CLFFields : clf[f] = 0 \/ clf[f] >= first
        BY <3>1, <3>2, <3>3, <3>4 DEF CLFFields
    <3>7. FreshOut' BY <1>1, <2>2, <3>3, <3>6 DEF FreshOut
    <3> QED BY <3>5, <3>7
  <2>3. CASE Output = [to |-> format, from |-> sample] /\ format # "SFLFMT_CLF"
    <3>1. DOMAIN sample = Fields BY DEF IInv, TypeOK
    <3>2. CLFOfOwnSample' BY <1>1, <2>3 DEF CLFOfOwnSample
    <3>3. FreshOut' BY <1>1, <2>3, <3>1 DEF IInv, Fresh, FreshOut
    <3> QED BY <3>2, <3>3
  <2> QED BY <1>2, <2>1, <2>2, <2>3
<1>5. Fresh' /\ AsPairConsistent' BY <1>1 DEF IInv, Fresh, AsPairConsistent
<1>6. ~Reading' BY <1>1 DEF Reading
<1> QED BY <1>3, <1>4, <1>5, <1>6 DEF IInv

\* Between samples no packet is remembered.
LEMMA NoPacketType ==
    ASSUME NEW m \in Nat
    PROVE  NoPacket \in [frame : Frames \cup {NoFrame, IPv4Struct}, at : 0 .. m, socket : 0 .. m]
BY DEF NoPacket, PacketAt

\* The invariant is inductive.
LEMMA InitIInv == Init => IInv
<1> SUFFICES ASSUME Init PROVE IInv OBVIOUS
<1>1. last \in [frame : Frames \cup {NoFrame, IPv4Struct}, at : 0 .. n, socket : 0 .. n]
    BY NoPacketType DEF Init
<1>2. 0 \in 0 .. n /\ 1 \in 1 .. n + 1 /\ n \in Nat BY DEF Init
<1>3. sample \in [Fields -> 0 .. n] /\ clf \in [CLFFields -> 0 .. n]
    BY <1>2 DEF Init, Cleared
<1>4. TypeOK BY <1>1, <1>2, <1>3 DEF Init, TypeOK
<1> QED BY <1>4 DEF Init, IInv, Fresh, FreshOut, AsPairConsistent, CLFOfOwnSample, Cleared,
                    Reading, NoOutput, Fields

\* Every step keeps the invariant.
LEMMA NextIInv == IInv /\ [Next]_vars => IInv'
<1> SUFFICES ASSUME IInv, [Next]_vars PROVE IInv' OBVIOUS
<1>1. CASE NewDatagram
  <2>1. /\ sample' = Cleared /\ first' = n + 1 /\ pc' = "packet" /\ out' = NoOutput
        /\ datagrams' = datagrams + 1 /\ version' \in Versions
        /\ UNCHANGED <<format, filter, samples, n, own, clf, last, switch>>
      BY <1>1 DEF NewDatagram, FreshSample, configVars, ghostVars
  <2>2. TypeOK' BY <2>1 DEF IInv, TypeOK, Cleared
  <2> QED BY <2>1, <2>2 DEF IInv, Fresh, FreshOut, AsPairConsistent, CLFOfOwnSample, Cleared,
                            Reading, NoOutput, Fields
<1>2. CASE EndDatagram
  <2>1. /\ pc' = "idle"
        /\ UNCHANGED <<format, filter, version, datagrams, samples, n, first, own, sample, clf,
                       last, switch, out>>
      BY <1>2 DEF EndDatagram, configVars, countVars, ghostVars
  <2>2. TypeOK' BY <2>1 DEF IInv, TypeOK
  <2> QED BY <2>1, <2>2 DEF IInv, Fresh, FreshOut, AsPairConsistent, CLFOfOwnSample, Reading
<1>3. CASE BeginSample
  <2>1. /\ own' = n + 1 /\ out' = NoOutput /\ last' = NoPacket /\ switch' = FALSE
        /\ samples' = samples + 1 /\ pc = "packet" /\ pc' \in {"first", "elements"}
        /\ clf' = IF version = 5 THEN ClearCLF ELSE clf
        /\ UNCHANGED <<format, filter, version, datagrams, n, first, sample>>
      BY <1>3 DEF BeginSample, NextSample, configVars
  <2>2. clf' \in [CLFFields -> 0 .. n]
    <3>1. clf \in [CLFFields -> 0 .. n] /\ 0 \in 0 .. n BY DEF IInv, TypeOK
    <3>2. ClearCLF \in [CLFFields -> 0 .. n] BY <3>1 DEF ClearCLF
    <3> QED BY <2>1, <3>1, <3>2
  <2>3. TypeOK'
    <3>1. n \in Nat /\ own' \in 1 .. n + 1 /\ samples' \in Nat BY <2>1 DEF IInv, TypeOK
    <3>2. last' \in [frame : Frames \cup {NoFrame, IPv4Struct}, at : 0 .. n, socket : 0 .. n]
        BY <2>1, <3>1, NoPacketType
    <3> QED BY <2>1, <2>2, <3>1, <3>2 DEF IInv, TypeOK
  <2>4. Fresh' /\ FreshOut' /\ AsPairConsistent' /\ CLFOfOwnSample'
      BY <2>1 DEF IInv, Fresh, FreshOut, AsPairConsistent, CLFOfOwnSample, NoOutput
  <2>5. Seen' BY <2>1 DEF Seen, IsIPv4, NoPacket, PacketAt, NoFrame
  <2>6. Log' BY <2>1 DEF IInv, TypeOK, Log, ClearCLF, CLFFields
  <2>7. first' <= own' BY <2>1 DEF IInv, TypeOK
  <2> QED BY <2>3, <2>4, <2>5, <2>6, <2>7 DEF IInv
<1>4. CASE readCounters_vlan
  <2>1. /\ own' = n + 1 /\ n' = n + 1 /\ out' = NoOutput /\ last' = NoPacket /\ switch' = FALSE
        /\ samples' = samples + 1 /\ pc = "packet" /\ pc' = pc
        /\ UNCHANGED <<format, filter, version, datagrams, first, clf>>
      BY <1>4 DEF readCounters_vlan, NextSample, configVars
  <2> PICK vlan \in SUBSET {"in_vlan"} : Write(vlan, {"in_vlan"})
      BY <1>4 DEF readCounters_vlan
  <2>2. sample' \in [Fields -> 0 .. n + 1] /\ Fresh'
      BY <2>1, WriteFields, WriteFresh DEF IInv
  <2>3. AsPairConsistent' BY WriteAs DEF IInv
  <2>4. clf \in [CLFFields -> 0 .. n + 1] BY Later DEF IInv, TypeOK
  <2>5. TypeOK'
    <3>1. n' \in Nat /\ first' \in 1 .. n' + 1 /\ own' \in 1 .. n' + 1 /\ samples' \in Nat
        BY <2>1 DEF IInv, TypeOK
    <3> QED BY <2>1, <2>2, <2>4, <3>1, NoPacketType DEF IInv, TypeOK
  <2> QED BY <2>1, <2>2, <2>3, <2>5 DEF IInv, FreshOut, CLFOfOwnSample, Reading, NoOutput
<1>5. CASE ReadElement BY <1>5, ElementIInv
<1>6. CASE EndSample BY <1>6, OutputIInv
<1>7. CASE UNCHANGED vars
  <2>1. UNCHANGED <<pc, format, filter, version, datagrams, samples, n, first, own, sample, clf,
                    last, switch, out>>
      BY <1>7 DEF vars, configVars, countVars, ghostVars
  <2>2. TypeOK' BY <2>1 DEF IInv, TypeOK
  <2> QED BY <2>1, <2>2 DEF IInv, Fresh, FreshOut, AsPairConsistent, CLFOfOwnSample, Reading,
                            Seen, Log, IsIPv4, HasPorts
<1> QED BY <1>1, <1>2, <1>3, <1>4, <1>5, <1>6, <1>7 DEF Next

\* The invariant holds in every state.
LEMMA Invariant == Spec => []IInv
BY InitIInv, NextIInv, PTL DEF Spec

\* Types, and that no field, log record or output names an element that has not
\* been read: the readers write the number of the element they read.
THEOREM TypeCorrect == Spec => []TypeOK
<1>1. IInv => TypeOK BY DEF IInv
<1> QED BY <1>1, Invariant, PTL

\* Whatever is written out comes from the datagram it is written for: readPacket
\* and readPcapPacket clear the SFSample first, and the log record of an earlier
\* datagram is not valid in the next.
THEOREM ForgottenCorrect == Spec => []ForgottenBetweenDatagrams
<1>1. IInv => ForgottenBetweenDatagrams BY DEF IInv, Fresh, FreshOut, ForgottenBetweenDatagrams
<1> QED BY <1>1, Invariant, PTL

\* The AS numbers of a flow record are those of one gateway element: the two
\* gateway readers clear the destination before they look for a path.
THEOREM AsPairCorrect == Spec => []AsPairConsistent
<1>1. IInv => AsPairConsistent BY DEF IInv
<1> QED BY <1>1, Invariant, PTL

\* Client and request of a log line are of one sample: readFlowSample forgets the
\* client and the validity of the line, and only its own elements set them again.
THEOREM LogCorrect == Spec => []CLFOfOwnSample
<1>1. IInv => CLFOfOwnSample BY DEF IInv
<1> QED BY <1>1, Invariant, PTL

\* The header of an IPv4 packet decides alone whether its sample is exported, and
\* gives protocol, type of service and ports; the addresses are the header's or
\* those of a later socket element: decodeLinkLayer, the IPv4 case and decodeIPV4
\* renew all the export looks at, and readExtendedSocket4 and 6 the addresses.
THEOREM OwnIPv4Correct == Spec => OwnIPv4Exported
<1> DEFINE Step ==
        (EndSample /\ format = "SFLFMT_NETFLOW" /\ IsIPv4(last.frame)) =>
          /\ out'.to = "SFLFMT_NETFLOW" <=> (~last.frame.fragment /\ sampleFilterOK)
          /\ out'.to = "SFLFMT_NETFLOW" => FromOwnHeader(out'.from)
<1>1. IInv => Step
  <2> SUFFICES ASSUME IInv, EndSample, format = "SFLFMT_NETFLOW", IsIPv4(last.frame)
               PROVE  /\ out'.to = "SFLFMT_NETFLOW" <=> (~last.frame.fragment /\ sampleFilterOK)
                      /\ out'.to = "SFLFMT_NETFLOW" => FromOwnHeader(out'.from)
      OBVIOUS
  <2>1. out' = Output BY DEF EndSample
  <2>2. Seen BY DEF IInv, EndSample, Reading
  <2>3. last.frame.fragment \in BOOLEAN
    <3>1. last.frame \in Frames
        BY DEF IInv, TypeOK, IsIPv4, NoFrame, IPv4Struct
    <3> QED BY <3>1, ExportAssumption DEF AllFrames
  <2>4. NetFlowDue BY <2>2 DEF Seen, NetFlowDue
  <2>5. Due <=> (~last.frame.fragment /\ sampleFilterOK) BY <2>2, <2>3, <2>4 DEF Due, Seen
  <2>6. Due => Output = [to |-> "SFLFMT_NETFLOW", from |-> sample] BY DEF Output
  <2>7. ~Due => Output.to # "SFLFMT_NETFLOW" BY DEF Output, NoOutput
  <2>8. Due => FromOwnHeader(sample) BY <2>2, <2>5 DEF Seen, FromOwnHeader
  <2> QED BY <2>1, <2>5, <2>6, <2>7, <2>8
<1>2. IInv => [Step]_vars BY <1>1
<1> QED BY <1>2, Invariant, PTL DEF OwnIPv4Exported

\* decodeIPLayer4 renews the length and the payload offset of a UDP packet, and
\* nothing else writes them.
THEOREM OwnUdpCorrect == Spec => OwnUdpExported
<1> DEFINE Step ==
        (/\ EndSample /\ out'.to \notin {"none", "SFLFMT_CLF"}
         /\ IsIPv4(last.frame) /\ ~last.frame.fragment /\ last.frame.above = "udp") =>
          out'.from["udp_pduLen"] = last.at /\ out'.from["payload"] = last.at
<1>1. IInv => Step
  <2> SUFFICES ASSUME IInv, EndSample, out'.to \notin {"none", "SFLFMT_CLF"},
                      IsIPv4(last.frame), ~last.frame.fragment, last.frame.above = "udp"
               PROVE  out'.from["udp_pduLen"] = last.at /\ out'.from["payload"] = last.at
      OBVIOUS
  <2>1. Seen BY DEF IInv, EndSample, Reading
  <2>2. out'.from = sample BY DEF EndSample, Output, NoOutput
  <2> QED BY <2>1, <2>2 DEF Seen
<1>2. IInv => [Step]_vars BY <1>1
<1> QED BY <1>2, Invariant, PTL DEF OwnUdpExported

\* Once a switch element was read, the vlans are zero or of this sample: from then
\* on a reader can only set them anew, clear them or leave them.
VlanFields == {"in_vlan", "out_vlan"}
OwnVlans ==
    Reading /\ switch => \A f \in VlanFields : sample[f] \in {0} \cup own .. n

\* A reader that writes the sample leaves a vlan, clears it or makes it its own.
LEMMA WriteVlans ==
    ASSUME NEW sets, NEW zeroes, TypeOK, Write(sets, zeroes)
    PROVE  \A f \in VlanFields : sample'[f] \in {0, n + 1, sample[f]}
BY WriteFields DEF VlanFields, Fields

\* No element of a sample brings the vlans of an earlier sample back.
LEMMA ReadVlans ==
    ASSUME TypeOK, OwnVlans, ReadElement
    PROVE  OwnVlans'
<1> USE DEF VlanFields, ghostVars
<1>1. /\ Reading /\ n' = n + 1 /\ own' = own /\ n \in Nat /\ own \in Nat /\ own <= n + 1
    BY DEF ReadElement, Reading, TypeOK
<1>2. \/ readFlowSample_header \/ readFlowSample_IPvX \/ readExtendedSwitch
      \/ readExtendedRouter \/ readExtendedGateway \/ readOther
      \/ readFlowSample_ethernet \/ readExtendedSocket \/ readFlowSample_http
    BY DEF ReadElement, PacketData, Extended, Version5
<1>3. ASSUME switch' = switch, \A f \in VlanFields : sample'[f] \in {0, n + 1, sample[f]}
      PROVE  OwnVlans'
    BY <1>1, <1>3 DEF OwnVlans
<1>4. CASE readFlowSample_header BY <1>3, <1>4, WriteVlans DEF readFlowSample_header
<1>5. CASE readFlowSample_IPvX BY <1>3, <1>5, WriteVlans DEF readFlowSample_IPvX
<1>6. CASE readExtendedSwitch
  <2> PICK vlans \in SUBSET VlanFields : Write(vlans, VlanFields)
      BY <1>6 DEF readExtendedSwitch, SwitchZeroes
  <2>1. \A f \in VlanFields : sample'[f] \in {0, n + 1} BY WriteFields DEF Fields
  <2> QED BY <1>1, <2>1 DEF OwnVlans
<1>7. CASE readExtendedRouter BY <1>3, <1>7, WriteVlans DEF readExtendedRouter
<1>8. CASE readExtendedGateway BY <1>3, <1>8, WriteVlans DEF readExtendedGateway
<1>9. CASE readOther \/ readFlowSample_http
    BY <1>3, <1>9 DEF readOther, readFlowSample_http
<1>10. CASE readFlowSample_ethernet BY <1>3, <1>10, WriteVlans DEF readFlowSample_ethernet
<1>11. CASE readExtendedSocket BY <1>3, <1>11, WriteVlans DEF readExtendedSocket
<1> QED BY <1>2, <1>4, <1>5, <1>6, <1>7, <1>8, <1>9, <1>10, <1>11

\* A sample with a switch element is filtered by vlans of its own, or by none:
\* readExtendedSwitch stores both, and no later reader brings an older one back.
THEOREM VlansCorrect == Spec => []VlansOfOwnSwitch
<1>1. Init => OwnVlans BY DEF Init, OwnVlans
<1>2. IInv /\ OwnVlans /\ [Next]_vars => OwnVlans'
  <2> SUFFICES ASSUME IInv, OwnVlans, [Next]_vars PROVE OwnVlans' OBVIOUS
  <2> USE DEF configVars, countVars, ghostVars, Reading
  <2>1. CASE ReadElement BY <2>1, ReadVlans DEF IInv
  <2>2. CASE BeginSample \/ readCounters_vlan
      BY <2>2 DEF BeginSample, readCounters_vlan, NextSample, OwnVlans
  <2>3. CASE NewDatagram \/ EndDatagram \/ EndSample
      BY <2>3 DEF NewDatagram, EndDatagram, EndSample, OwnVlans
  <2>4. CASE UNCHANGED vars BY <2>4 DEF vars, OwnVlans
  <2> QED BY <2>1, <2>2, <2>3, <2>4 DEF Next
<1>3. OwnVlans => VlansOfOwnSwitch BY DEF OwnVlans, VlansOfOwnSwitch, VlanFields, Reading
<1> QED BY <1>1, <1>2, <1>3, Invariant, PTL DEF Spec

=============================================================================
