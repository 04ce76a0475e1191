------------------------------- MODULE LinkLayer -------------------------------
(***************************************************************************)
(* How far it is to the IP header of an Ethernet frame.  The program walks *)
(* that way twice: decodeLinkLayer for the header sampled in a flow sample,*)
(* pcapOffsetToSFlow for the packet captured in a file, where it goes on   *)
(* to the datagram behind IP and UDP.  Both are functions of the frame,    *)
(* given here by what its bytes say and not by the bytes.                  *)
(***************************************************************************)
EXTENDS Integers, Sequences

\* A frame: the bytes there are, its vlan tags, how the type is given (an
\* Ethernet type, SNAP, SNAP of a vendor, IP over 802.2, other 802.2, IPX), the
\* type, and the first byte of what follows, read as an IP version and length.
Tags == {"8100", "9100"}
Encapsulations == {"ethernet", "snap", "vendor", "ip8022", "other8022", "ipx"}
IsFrame(f) ==
    /\ f.len \in Nat /\ f.tags \in Seq(Tags)
    /\ f.encap \in Encapsulations /\ f.type \in {"ipv4", "ipv6", "other"}
    /\ f.version \in 0 .. 15 /\ f.ihl \in 0 .. 15

NFT_ETHHDR_SIZ == 14
IPv4Size == 20      \* sizeof(struct myiphdr)
IPv6Size == 40
UdpSize == 8
TagSize == 4
NFT_MIN_SIZ == NFT_ETHHDR_SIZ + IPv4Size

\* Bytes from the last type or length field to the protocol.
EncapSize(f) == IF f.encap = "snap" THEN 8 ELSE IF f.encap = "ip8022" THEN 3 ELSE 0
Type(f) == IF f.encap = "ip8022" THEN "ipv4" ELSE f.type
Decodable(f) == f.encap \in {"ethernet", "snap", "ip8022"}

\* The two tests on the first byte of an IP header.
IPv4There(f, ptr) == f.len - ptr >= IPv4Size /\ f.version = 4 /\ f.ihl >= 5
IPv6There(f) == f.version = 6

(***************************************************************************)
(* decodeLinkLayer: gotIPV4, gotIPV6 and the offset.                       *)
(***************************************************************************)

NoIP == [ip |-> 0, at |-> 0]

\* One tag of one kind is looked behind; another one is a type it does not know.
TagsSkipped(f) == IF f.tags # <<>> /\ f.tags[1] = "8100" THEN 1 ELSE 0

\* Mutant: the length is only checked once, before tags and SNAP are skipped.
LinkIPv4There_Once(f, ptr) == f.version = 4 /\ f.ihl >= 5
LinkIPv4There(f, ptr) == IPv4There(f, ptr)

decodeLinkLayer(f) ==
    LET ptr == NFT_ETHHDR_SIZ + TagSize * TagsSkipped(f) + EncapSize(f)
    IN  IF \/ f.len < NFT_MIN_SIZ
           \/ Len(f.tags) > TagsSkipped(f)
           \/ ~Decodable(f)
        THEN NoIP
        ELSE IF Type(f) = "ipv4" /\ LinkIPv4There(f, ptr) THEN [ip |-> 4, at |-> ptr]
        ELSE IF Type(f) = "ipv6" /\ IPv6There(f) THEN [ip |-> 6, at |-> ptr]
        ELSE NoIP

(***************************************************************************)
(* pcapOffsetToSFlow: where the datagram begins, or -1.                    *)
(***************************************************************************)

\* All tags are skipped.  Mutant: as many as decodeLinkLayer skips.
AfterTags_One(f) == NFT_ETHHDR_SIZ + TagSize
AfterTags(f) == NFT_ETHHDR_SIZ + TagSize * Len(f.tags)

IPSize(f) == IF Type(f) = "ipv4" THEN 4 * f.ihl ELSE IF Type(f) = "ipv6" THEN IPv6Size ELSE 0

\* The last check.  Mutant: it is left out.
BytesLeft_Unchecked(f, ptr) == TRUE
BytesLeft(f, ptr) == ptr < f.len

pcapOffsetToSFlow(f) ==
    LET ip == AfterTags(f) + EncapSize(f)
        ptr == ip + IPSize(f) + UdpSize
    IN  IF \/ f.len - AfterTags(f) < NFT_MIN_SIZ
           \/ ~Decodable(f)
           \/ ip >= f.len
           \/ Type(f) = "ipv4" /\ ~IPv4There(f, ip)
           \/ Type(f) = "ipv6" /\ ~IPv6There(f)
           \/ ~BytesLeft(f, ptr)
        THEN -1 ELSE ptr

=============================================================================
