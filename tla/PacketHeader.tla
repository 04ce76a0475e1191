------------------------------ MODULE PacketHeader ------------------------------
(***************************************************************************)
(* The decoder of a sampled packet header: readFlowSample_header from      *)
(* where the header's bytes are known, decodeLinkLayer, decode80211MAC,    *)
(* decodeIPV4, decodeIPV6 and decodeIPLayer4.  A header is given by what   *)
(* its bytes say; positions are counted in bytes from its beginning.  What *)
(* is read where no field begins is arbitrary.                             *)
(***************************************************************************)
EXTENDS LinkLayer, Functions

CONSTANTS
    Headers,        \* the headers considered
    OptionUnits     \* option lengths, in 8 bytes, that arbitrary bytes may give

\* Besides what a frame has: the protocol a header starts with, whether it is a
\* later fragment, the lengths in 8 bytes (not counting the first 8) of the
\* extensions of an IPv6 header, and the frame control of a wireless one.
ASSUME HeaderAssumption ==
    /\ OptionUnits \subseteq Nat
    /\ \A h \in Headers :
         /\ IsFrame(h)
         /\ h.protocol \in {"ETHERNET_ISO8023", "IPv4", "IPv6", "IEEE80211MAC"}
         /\ h.fragment \in BOOLEAN /\ h.extensions \in Seq(Nat)
         /\ h.above \in {"icmp", "tcp", "udp", "other"}
         /\ h.control \in {"data", "other"} /\ h.toDS \in BOOLEAN /\ h.fromDS \in BOOLEAN

WIFI_MIN_HDR_SIZ == 24

VARIABLES
    pc,      \* "link", "ipv4", "ipv6", "extensions", "layer4", "done"
    header,  \* the header
    found,   \* what decodeLinkLayer found: IP version and offset
    ptr,     \* the decoder's position
    next,    \* dcd_ipProtocol, or nextHeader: "extension" or a protocol
    mac,     \* which of the four addresses went into eth_src and eth_dst, 0: none
    ports,   \* where the ports were read, -1: nowhere
    payload  \* offsetToPayload, -1: not set

vars == <<pc, header, found, ptr, next, mac, ports, payload>>

NoMac == [src |-> 0, dst |-> 0]

Init ==
    /\ pc = "link" /\ header \in Headers
    /\ found = NoIP /\ ptr = 0 /\ next = "other"
    /\ mac = NoMac /\ ports = -1 /\ payload = -1

IPState(ip) == IF ip = 4 THEN "ipv4" ELSE IF ip = 6 THEN "ipv6" ELSE "done"

Link ==
    /\ pc = "link" /\ header.protocol # "IEEE80211MAC"
    /\ found' = CASE header.protocol = "ETHERNET_ISO8023" -> decodeLinkLayer(header)
                  [] header.protocol = "IPv4" -> [ip |-> 4, at |-> 0]
                  [] header.protocol = "IPv6" -> [ip |-> 6, at |-> 0]
    /\ pc' = IPState(found'.ip)
    /\ UNCHANGED <<header, ptr, next, mac, ports, payload>>

\* The table of IEEE 802.11: which address is the source.  The source goes into
\* eth_dst, too.
SourceAddress == IF header.fromDS THEN (IF header.toDS THEN 4 ELSE 3) ELSE 2
decode80211MAC ==
    /\ pc = "link" /\ header.protocol = "IEEE80211MAC"
    /\ mac' = IF header.len >= WIFI_MIN_HDR_SIZ /\ header.control = "data"
              THEN [src |-> SourceAddress, dst |-> SourceAddress] ELSE NoMac
    /\ pc' = "done"
    /\ UNCHANGED <<header, found, ptr, next, ports, payload>>

decodeIPV4 ==
    /\ pc = "ipv4"
    /\ ptr' = found.at + 4 * header.ihl
    /\ next' = header.above
    /\ pc' = IF header.fragment THEN "done" ELSE "layer4"
    /\ UNCHANGED <<header, found, mac, ports, payload>>

decodeIPV6 ==
    /\ pc = "ipv6"
    /\ \/ ~IPv6There(header) /\ pc' = "done" /\ UNCHANGED <<ptr, next>>
       \/ /\ IPv6There(header) /\ pc' = "extensions"
          /\ ptr' = found.at + IPv6Size
          /\ next' = IF header.extensions = <<>> THEN header.above ELSE "extension"
    /\ UNCHANGED <<header, found, mac, ports, payload>>

\* Where the n-th extension ends and the next one, or the protocol, begins.
ExtensionEnd(n) ==
    found.at + IPv6Size
      + SumFunctionOnSet([i \in DOMAIN header.extensions |-> 8 * (header.extensions[i] + 1)], 1 .. n)

\* The two bytes an extension begins with: what comes next, and its length.
AtExtension(i) == ptr = ExtensionEnd(i - 1)
NextAfter(i) == IF i = Len(header.extensions) THEN header.above ELSE "extension"
ReadsExtension(protocol, units) ==
    \/ \E i \in DOMAIN header.extensions :
          AtExtension(i) /\ protocol = NextAfter(i) /\ units = header.extensions[i]
    \/ /\ \A i \in DOMAIN header.extensions : ~AtExtension(i)
       /\ protocol \in {"extension", "icmp", "tcp", "udp", "other"} /\ units \in OptionUnits

\* Mutant: the first 8 bytes of an extension are forgotten.
SkipExtension_NoFirst(units) == 8 * units
SkipExtension(units) == 8 * (units + 1) - 2

UnitsRead == OptionUnits \cup UNION {Range(h.extensions) : h \in Headers}
decodeExtension ==
    /\ pc = "extensions" /\ next = "extension"
    /\ \E protocol \in {"extension", "icmp", "tcp", "udp", "other"}, units \in UnitsRead :
          /\ ReadsExtension(protocol, units)
          /\ next' = protocol
          /\ ptr' = ptr + SkipExtension(units)
          /\ pc' = IF ptr' > header.len THEN "done" ELSE "extensions"
    /\ UNCHANGED <<header, found, mac, ports, payload>>

EndExtensions ==
    /\ pc = "extensions" /\ next # "extension"
    /\ pc' = "layer4"
    /\ UNCHANGED <<header, found, ptr, next, mac, ports, payload>>

\* Mutant: the 8 bytes may begin at the end of the header.
Layer4There_Beyond == ptr <= header.len
Layer4There == ptr <= header.len - 8

\* The length in a TCP header is four bits, in words.
decodeIPLayer4 ==
    /\ pc = "layer4" /\ pc' = "done"
    /\ \/ ~Layer4There /\ UNCHANGED <<ports, payload>>
       \/ /\ Layer4There
          /\ ports' = IF next = "other" THEN ports ELSE ptr
          /\ \/ next = "icmp" /\ payload' = ptr + 2
             \/ next = "udp" /\ payload' = ptr + UdpSize
             \/ next = "tcp" /\ \E words \in 0 .. 15 : payload' = ptr + 4 * words
             \/ next = "other" /\ payload' = ptr
    /\ UNCHANGED <<header, found, ptr, next, mac>>

Next ==
    \/ Link \/ decode80211MAC
    \/ decodeIPV4 \/ decodeIPV6 \/ decodeExtension \/ EndExtensions
    \/ decodeIPLayer4

Spec == Init /\ [][Next]_vars

\* A function call returns or goes on.
FairSpec == Spec /\ WF_vars(Next)

(***************************************************************************)
(* Properties.                                                             *)
(***************************************************************************)

TypeOK ==
    /\ pc \in {"link", "ipv4", "ipv6", "extensions", "layer4", "done"}
    /\ header \in Headers
    /\ found \in [ip : {0, 4, 6}, at : Nat] /\ ptr \in Nat
    /\ next \in {"extension", "icmp", "tcp", "udp", "other"}
    /\ mac \in [src : 0 .. 4, dst : 0 .. 4]
    /\ ports \in Nat \cup {-1} /\ payload \in Nat \cup {-1}

\* An IPv4 header that decodeLinkLayer finds lies inside the sampled bytes, also
\* behind a vlan tag and SNAP, which the check of the whole frame's length made
\* before them does not count.
IPv4InsideHeader ==
    header.protocol = "ETHERNET_ISO8023" /\ found.ip = 4 => found.at + IPv4Size <= header.len

\* The ports are read inside the sampled bytes, whatever the lengths of the IPv4
\* header and of the IPv6 extensions were, and whatever was read on the way.
PortsInsideHeader == ports # -1 => ports + 8 <= header.len

\* The walk over the extensions comes to an end, whatever bytes it reads.
DecodeEnds == <>(pc = "done")

\* The payload offset, to which writePcapPacket shortens a captured header, is
\* moved by a length from the packet and not compared with the header again: it
\* may lie beyond the sampled bytes, by no more than a TCP header's options and
\* what is left of its fixed part.
PayloadBounded == payload <= header.len + 52

=============================================================================
