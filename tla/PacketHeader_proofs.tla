-------------------------- MODULE PacketHeader_proofs --------------------------
(***************************************************************************)
(* The decoder of a sampled header stays where it may read, for every      *)
(* header, every chain of IPv6 extensions and whatever bytes are read      *)
(* where no field begins.                                                  *)
(***************************************************************************)
EXTENDS PacketHeader, TLAPS

Protocols == {"extension", "icmp", "tcp", "udp", "other"}

\* Of the type invariant, what the arithmetic on positions needs, ...
Numbers ==
    /\ header \in Headers
    /\ found \in [ip : {0, 4, 6}, at : Nat] /\ ptr \in Nat
    /\ next \in Protocols
    /\ ports \in Int /\ payload \in Int

\* ... and what each stage may count on: nothing is stored before the last one.
Stages ==
    /\ pc = "link" => found = NoIP
    /\ pc # "done" => ports = -1 /\ payload = -1

IInv == Numbers /\ Stages /\ IPv4InsideHeader /\ PortsInsideHeader /\ PayloadBounded

\* The description of a header is made of numbers and known protocols.
LEMMA HeaderNumbers ==
    ASSUME NEW h \in Headers
    PROVE  /\ h.len \in Nat /\ h.ihl \in Nat /\ h.tags \in Seq(Tags)
           /\ h.extensions \in Seq(Nat) /\ h.above \in Protocols
           /\ h.protocol \in {"ETHERNET_ISO8023", "IPv4", "IPv6", "IEEE80211MAC"}
<1>1. IsFrame(h) BY HeaderAssumption
<1>2. h.len \in Nat /\ h.ihl \in Nat /\ h.tags \in Seq(Tags) BY <1>1 DEF IsFrame
<1>3. h.above \in Protocols BY HeaderAssumption DEF Protocols
<1>4. /\ h.extensions \in Seq(Nat)
      /\ h.protocol \in {"ETHERNET_ISO8023", "IPv4", "IPv6", "IEEE80211MAC"}
    BY HeaderAssumption
<1> QED BY <1>2, <1>3, <1>4

\* What decodeLinkLayer finds; the length is checked again where IPv4 begins.
LEMMA LinkFinds ==
    ASSUME NEW h \in Headers
    PROVE  /\ decodeLinkLayer(h) \in [ip : {0, 4, 6}, at : Nat]
           /\ decodeLinkLayer(h).ip = 4 => decodeLinkLayer(h).at + IPv4Size <= h.len
<1> DEFINE at == NFT_ETHHDR_SIZ + TagSize * TagsSkipped(h) + EncapSize(h)
<1>1. at \in Nat BY DEF NFT_ETHHDR_SIZ, TagSize, TagsSkipped, EncapSize
<1>2. h.len \in Nat BY HeaderNumbers
<1>3. \/ decodeLinkLayer(h) = NoIP
      \/ decodeLinkLayer(h) = [ip |-> 4, at |-> at] /\ h.len - at >= IPv4Size
      \/ decodeLinkLayer(h) = [ip |-> 6, at |-> at]
    BY DEF decodeLinkLayer, LinkIPv4There, IPv4There
<1> HIDE DEF at
<1> QED BY <1>1, <1>2, <1>3 DEF NoIP, IPv4Size

\* The two bytes of an extension: a protocol, and a length that is none of the
\* bytes' business to be right, but at least a number.
LEMMA ExtensionRead ==
    ASSUME Numbers, NEW protocol, NEW units, ReadsExtension(protocol, units)
    PROVE  protocol \in Protocols /\ units \in Nat
<1>1. CASE \E i \in DOMAIN header.extensions :
          AtExtension(i) /\ protocol = NextAfter(i) /\ units = header.extensions[i]
  <2> PICK i \in DOMAIN header.extensions :
        protocol = NextAfter(i) /\ units = header.extensions[i]
      BY <1>1
  <2>1. units \in Nat BY HeaderNumbers DEF Numbers
  <2>2. NextAfter(i) \in Protocols BY HeaderNumbers DEF NextAfter, Numbers, Protocols
  <2> QED BY <2>1, <2>2
<1>2. CASE protocol \in Protocols /\ units \in OptionUnits
    BY <1>2, HeaderAssumption
<1> QED BY <1>1, <1>2 DEF ReadsExtension, Protocols

\* A step of the walk moves on by 6 bytes at least, and goes on only inside the
\* header.
LEMMA ExtensionStep ==
    ASSUME Numbers, decodeExtension
    PROVE  /\ ptr' \in Nat /\ ptr' >= ptr + 6
           /\ next' \in Protocols
           /\ pc' = "extensions" => ptr' <= header.len
<1> PICK protocol \in Protocols, units \in UnitsRead :
        /\ ReadsExtension(protocol, units)
        /\ next' = protocol
        /\ ptr' = ptr + SkipExtension(units)
        /\ pc' = IF ptr' > header.len THEN "done" ELSE "extensions"
    BY DEF decodeExtension, Protocols
<1>1. units \in Nat BY ExtensionRead
<1>2. header.len \in Nat BY HeaderNumbers DEF Numbers
<1> QED BY <1>1, <1>2 DEF Numbers, SkipExtension

\* The invariant holds at the start.
LEMMA InitIInv == Init => IInv
<1> SUFFICES ASSUME Init PROVE IInv OBVIOUS
<1>1. Numbers BY DEF Init, Numbers, NoIP, Protocols
<1>2. Stages BY DEF Init, Stages
<1>3. IPv4InsideHeader /\ PortsInsideHeader BY DEF Init, IPv4InsideHeader, PortsInsideHeader, NoIP
<1>4. PayloadBounded BY HeaderNumbers DEF Init, PayloadBounded
<1> QED BY <1>1, <1>2, <1>3, <1>4 DEF IInv

\* The steps before the last one store no ports and no payload.
LEMMA LinkStep ==
    ASSUME IInv, Link
    PROVE  IInv'
<1>1. /\ header' = header /\ ptr' = ptr /\ next' = next /\ ports' = ports
      /\ payload' = payload /\ pc = "link"
    BY DEF Link
<1>2. \/ header.protocol = "ETHERNET_ISO8023" /\ found' = decodeLinkLayer(header)
      \/ header.protocol = "IPv4" /\ found' = [ip |-> 4, at |-> 0]
      \/ header.protocol = "IPv6" /\ found' = [ip |-> 6, at |-> 0]
    BY HeaderNumbers DEF Link, IInv, Numbers
<1>3. header \in Headers BY DEF IInv, Numbers
<1>4. found' \in [ip : {0, 4, 6}, at : Nat] BY <1>2, <1>3, LinkFinds
<1>5. IPv4InsideHeader' BY <1>1, <1>2, <1>3, LinkFinds DEF IPv4InsideHeader
<1>6. pc' # "link" BY DEF Link, IPState
<1> QED BY <1>1, <1>4, <1>5, <1>6
        DEF IInv, Numbers, Stages, PortsInsideHeader, PayloadBounded

\* The steps before layer 4 store nothing the invariant speaks of.
LEMMA EarlyStep ==
    ASSUME IInv, decode80211MAC \/ decodeIPV4 \/ decodeIPV6 \/ decodeExtension \/ EndExtensions
    PROVE  IInv'
<1>1. /\ header' = header /\ found' = found /\ ports' = ports /\ payload' = payload
      /\ pc # "done" /\ pc' # "link"
    BY DEF decode80211MAC, decodeIPV4, decodeIPV6, decodeExtension, EndExtensions
<1>2. ptr' \in Nat /\ next' \in Protocols
  <2>1. header.ihl \in Nat /\ header.above \in Protocols /\ found.at \in Nat
      BY HeaderNumbers DEF IInv, Numbers
  <2>2. CASE decode80211MAC \/ EndExtensions
      BY <2>2 DEF decode80211MAC, EndExtensions, IInv, Numbers
  <2>3. CASE decodeIPV4 BY <2>1, <2>3 DEF decodeIPV4
  <2>4. CASE decodeIPV6 BY <2>1, <2>4 DEF decodeIPV6, IPv6Size, IInv, Numbers, Protocols
  <2>5. CASE decodeExtension BY <2>5, ExtensionStep DEF IInv
  <2> QED BY <2>2, <2>3, <2>4, <2>5
<1> QED BY <1>1, <1>2
        DEF IInv, Numbers, Stages, IPv4InsideHeader, PortsInsideHeader, PayloadBounded

\* What is stored was checked to lie 8 bytes before the end; a TCP header's
\* length adds 60 to that at most.
LEMMA Layer4Step ==
    ASSUME IInv, decodeIPLayer4
    PROVE  IInv'
<1>1. /\ header' = header /\ found' = found /\ ptr' = ptr /\ next' = next
      /\ pc = "layer4" /\ pc' = "done"
    BY DEF decodeIPLayer4
<1>2. header.len \in Nat /\ ptr \in Nat BY HeaderNumbers DEF IInv, Numbers
<1>3. ports = -1 /\ payload = -1 BY <1>1 DEF IInv, Stages
<1>4. ports' = -1 \/ (ports' = ptr /\ Layer4There)
    BY <1>3 DEF decodeIPLayer4
<1>5. payload' = -1 \/ (payload' \in ptr .. ptr + 60 /\ Layer4There)
  <2>1. CASE ~Layer4There BY <2>1, <1>3 DEF decodeIPLayer4
  <2>2. CASE Layer4There
    <3>1. \/ payload' = ptr + 2 \/ payload' = ptr + UdpSize \/ payload' = ptr
          \/ \E words \in 0 .. 15 : payload' = ptr + 4 * words
        BY <2>2 DEF decodeIPLayer4
    <3> QED BY <3>1, <2>2, <1>2 DEF UdpSize
  <2> QED BY <2>1, <2>2
<1>6. PortsInsideHeader' /\ ports' \in Int
    BY <1>1, <1>2, <1>4 DEF PortsInsideHeader, Layer4There
<1>7. PayloadBounded' /\ payload' \in Int
    BY <1>1, <1>2, <1>5 DEF PayloadBounded, Layer4There
<1> QED BY <1>1, <1>6, <1>7 DEF IInv, Numbers, Stages, IPv4InsideHeader

\* Every step keeps the invariant.
LEMMA NextIInv == IInv /\ [Next]_vars => IInv'
<1> SUFFICES ASSUME IInv, [Next]_vars PROVE IInv' OBVIOUS
<1>1. CASE UNCHANGED vars
    BY <1>1 DEF vars, IInv, Numbers, Stages, IPv4InsideHeader, PortsInsideHeader, PayloadBounded
<1> QED BY <1>1, LinkStep, EarlyStep, Layer4Step DEF Next

\* The invariant holds in every state.
LEMMA Invariant == Spec => []IInv
BY InitIInv, NextIInv, PTL DEF Spec

\* An IPv4 header found behind an Ethernet header, a vlan tag and SNAP lies inside
\* the sampled bytes: decodeLinkLayer compares the length where IPv4 begins.
THEOREM IPv4InsideCorrect == Spec => []IPv4InsideHeader
<1>1. IInv => IPv4InsideHeader BY DEF IInv
<1> QED BY <1>1, Invariant, PTL

\* decodeIPLayer4 reads ports inside the sampled bytes only, whatever the walk
\* over IPv4 options and IPv6 extensions came to.
THEOREM PortsInsideCorrect == Spec => []PortsInsideHeader
<1>1. IInv => PortsInsideHeader BY DEF IInv
<1> QED BY <1>1, Invariant, PTL

\* The payload offset exceeds the sampled bytes by 52 at most, what decodeIPLayer4
\* takes from the length in a TCP header without comparing it again.
THEOREM PayloadCorrect == Spec => []PayloadBounded
<1>1. IInv => PayloadBounded BY DEF IInv
<1> QED BY <1>1, Invariant, PTL

\* Every extension moves decodeIPV6 on by six bytes at least, and it looks at
\* another one only while it is inside the header.
WalkLeft == header.len - ptr
WalkMoves ==
    [][ decodeExtension =>
          /\ WalkLeft' <= WalkLeft - 6
          /\ pc' = "extensions" => WalkLeft' >= 0 ]_vars

\* The safety half of DecodeEnds: the bytes left are a measure that falls with
\* each extension decodeIPV6 walks over.
THEOREM WalkCorrect == Spec => WalkMoves
<1> DEFINE Step == decodeExtension =>
                      /\ WalkLeft' <= WalkLeft - 6
                      /\ pc' = "extensions" => WalkLeft' >= 0
<1>1. IInv => Step
  <2> SUFFICES ASSUME IInv, decodeExtension
               PROVE  /\ WalkLeft' <= WalkLeft - 6
                      /\ pc' = "extensions" => WalkLeft' >= 0
      OBVIOUS
  <2>1. header' = header /\ header.len \in Nat /\ ptr \in Nat
      BY HeaderNumbers DEF decodeExtension, IInv, Numbers
  <2>2. /\ ptr' \in Nat /\ ptr' >= ptr + 6
        /\ pc' = "extensions" => ptr' <= header.len
      BY ExtensionStep DEF IInv
  <2> QED BY <2>1, <2>2 DEF WalkLeft
<1>2. IInv => [Step]_vars BY <1>1
<1> QED BY <1>2, Invariant, PTL DEF WalkMoves

=============================================================================
