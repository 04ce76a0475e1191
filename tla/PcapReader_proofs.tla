--------------------------- MODULE PcapReader_proofs ---------------------------
(***************************************************************************)
(* The reader of capture files stays in step with the file and hands over  *)
(* what it should, for files of any length, any packets and any pad.       *)
(***************************************************************************)
EXTENDS PcapReader, TLAPS

(***************************************************************************)
(* Words.                                                                  *)
(***************************************************************************)

\* The two digits of a word.
LEMMA Digits ==
    ASSUME NEW h \in Nat \ {0}, NEW a \in Nat, NEW b \in 0 .. h - 1
    PROVE  (a * h + b) % h = b /\ (a * h + b) \div h = a
OBVIOUS

\* A word swapped twice is the word.
LEMMA SwapTwice ==
    ASSUME NEW w \in 0 .. Half * Half - 1
    PROVE  Swap(Swap(w)) = w
<1>1. Half \in Nat \ {0}
      BY PcapAssumption
<1> DEFINE a == w \div Half
           b == w % Half
<1>2. w = a * Half + b /\ b \in 0 .. Half - 1 /\ a \in Nat
      BY <1>1
<1>3. a \in 0 .. Half - 1
      BY <1>1, <1>2
<1>4. Swap(w) = b * Half + a
      BY DEF Swap
<1> HIDE DEF a, b
<1>5. (b * Half + a) % Half = a /\ (b * Half + a) \div Half = b
      BY <1>1, <1>2, <1>3, Digits
<1> QED BY <1>2, <1>4, <1>5 DEF Swap

(***************************************************************************)
(* The invariant.                                                          *)
(***************************************************************************)

\* The program has the lengths as they were captured.
Captured ==
    /\ record.frame \in Packets
    /\ hdr.caplen = record.frame.len

\* How far the next record is.
InStep ==
    /\ pc \in {"record", "packet"} => pos = boundary
    /\ pc = "pad" => pos + tcpdumpHdrPad + hdr.caplen = boundary
    /\ pc = "body" => pos + hdr.caplen = boundary

Inv ==
    /\ pos \in Nat /\ boundary \in Nat /\ tcpdumpHdrPad \in Nat /\ hdr.caplen \in Nat
    /\ pc \in {"fileHeader", "record", "pad", "body", "packet", "finished", "exited"}
    /\ pc = "fileHeader" => boundary = FileHeader /\ handed = Nothing
    /\ pc \notin {"fileHeader", "exited"} => pcapSwap = swapped
    /\ pc \in {"pad", "body", "packet"} => Captured
    /\ InStep
    /\ FoundInsidePacket

\* The invariant holds at the start.
LEMMA InitInv == Init => Inv
BY PcapAssumption
DEF Init, Inv, InStep, FoundInsidePacket, FileHeader, NoHeader

\* A step that ends the program changes nothing that matters.
LEMMA ExitInv == ASSUME Inv, NEW code, Exit(code) PROVE Inv'
BY DEF Inv, Exit, fileVars, recordVars, InStep, Captured, FoundInsidePacket

\* The file header is passed, or the program exits.
LEMMA HeaderInv == ASSUME Inv, readPcapHeader PROVE Inv'
<1>1. CASE Exit(30) \/ Exit(31)
      BY <1>1, ExitInv
<1>2. CASE ~(Exit(30) \/ Exit(31))
      BY <1>2 DEF Inv, readPcapHeader, recordVars, InStep, FoundInsidePacket, FileHeader
<1> QED BY <1>1, <1>2

\* A record header leaves the reader at the pad or the body, with its lengths.
LEMMA RecordInv == ASSUME Inv, ReadRecordHeader PROVE Inv'
<1>1. PICK frame \in Frames, cut \in Cut :
        /\ cut <= frame.len
        /\ record' = [frame |-> [frame EXCEPT !.len = frame.len - cut],
                      len |-> frame.len, caplen |-> frame.len - cut]
        /\ hdr' = [len |-> Word(IF swapped THEN Swap(frame.len) ELSE frame.len),
                   caplen |-> Word(IF swapped THEN Swap(frame.len - cut) ELSE frame.len - cut)]
        /\ boundary' = boundary + RecordHeader + tcpdumpHdrPad + (frame.len - cut)
      BY DEF ReadRecordHeader
<1> DEFINE caplen == frame.len - cut
<1>2. frame \in Packets /\ frame.len \in 1 .. Half * Half - 1 /\ cut \in Nat /\ Half \in Nat
      BY PcapAssumption
<1>3. caplen \in Nat /\ caplen <= frame.len
      BY <1>1, <1>2
<1>4. caplen \in 0 .. Half * Half - 1
  <2>1. Half * Half \in Nat
        BY <1>2
  <2> QED BY <1>2, <1>3, <2>1
<1>5. record'.frame \in Packets /\ record'.frame.len = caplen
      BY <1>1, <1>2, <1>3 DEF Packets
<1>6. pcapSwap = swapped
      BY DEF Inv, ReadRecordHeader
<1>7. hdr'.caplen = caplen
  <2> HIDE DEF caplen
  <2>1. hdr'.caplen = Word(IF swapped THEN Swap(caplen) ELSE caplen)
        BY <1>1 DEF caplen
  <2> QED BY <2>1, <1>4, <1>6, SwapTwice DEF Word
<1>8. /\ pos' = pos + RecordHeader /\ pc = "record" /\ handed' = Nothing
      /\ pc' = IF tcpdumpHdrPad > 0 THEN "pad" ELSE "body"
      /\ UNCHANGED <<tcpdumpHdrPad, swapped, pcapSwap>>
      BY DEF ReadRecordHeader, fileVars
<1>9. boundary' = boundary + RecordHeader + tcpdumpHdrPad + caplen
      BY <1>1
<1> HIDE DEF caplen
<1> QED BY <1>3, <1>5, <1>6, <1>7, <1>8, <1>9
        DEF Inv, Captured, InStep, FoundInsidePacket, RecordHeader

\* Where the walk finds a datagram, there is some of it in the packet.
LEMMA OffsetInside ==
    ASSUME NEW f \in Packets, pcapOffsetToSFlow(f) # -1
    PROVE  pcapOffsetToSFlow(f) \in 1 .. f.len - 1
<1>1. f.len \in Nat /\ Len(f.tags) \in Nat /\ f.ihl \in Nat
      BY DEF Packets
<1>2. EncapSize(f) \in Nat /\ IPSize(f) \in Nat
      BY <1>1 DEF EncapSize, IPSize, IPv6Size
<1> DEFINE ptr == AfterTags(f) + EncapSize(f) + IPSize(f) + UdpSize
<1>3. AfterTags(f) \in Nat /\ ptr \in Nat \ {0}
      BY <1>1, <1>2 DEF AfterTags, NFT_ETHHDR_SIZ, TagSize, UdpSize
<1>4. pcapOffsetToSFlow(f) = ptr /\ ptr < f.len
      BY DEF pcapOffsetToSFlow, BytesLeft
<1> QED BY <1>1, <1>3, <1>4

\* Where decodeLinkLayer finds an IP header, pcapOffsetToSFlow goes by it.
Behind(f) ==
    decodeLinkLayer(f).at + UdpSize
      + (IF decodeLinkLayer(f).ip = 4 THEN 4 * f.ihl ELSE IPv6Size)

\* Where the decoder finds an IP header with a payload, the reader walks to that payload.
LEMMA WalksAgree ==
    ASSUME NEW f \in Packets, decodeLinkLayer(f).ip # 0, Behind(f) < f.len,
           f.len - AfterTags(f) >= NFT_MIN_SIZ
    PROVE  pcapOffsetToSFlow(f) = Behind(f)
<1> DEFINE ip == AfterTags(f) + EncapSize(f)
<1>1. /\ f.len \in Nat /\ Len(f.tags) \in Nat /\ f.ihl \in Nat
      /\ EncapSize(f) \in Nat /\ TagsSkipped(f) \in Nat /\ ip \in Nat
      BY DEF Packets, EncapSize, TagsSkipped, AfterTags, NFT_ETHHDR_SIZ, TagSize
<1>2. Decodable(f) /\ Len(f.tags) <= TagsSkipped(f)
  <2>1. decodeLinkLayer(f) # NoIP
        BY DEF NoIP
  <2>2. ~(Len(f.tags) > TagsSkipped(f)) /\ Decodable(f)
        BY <2>1 DEF decodeLinkLayer
  <2> QED BY <2>2, <1>1
<1>3. Len(f.tags) = TagsSkipped(f)
  <2>1. CASE f.tags = <<>>
    <3>1. TagsSkipped(f) = 0
          BY <2>1 DEF TagsSkipped
    <3>2. Len(f.tags) = 0
          BY <2>1
    <3> QED BY <3>1, <3>2
  <2>2. CASE f.tags # <<>>
    <3>1. TagsSkipped(f) \in {0, 1}
          BY DEF TagsSkipped
    <3>2. f.tags \in Seq(Tags)
          BY DEF Packets
    <3>3. Len(f.tags) # 0
          BY <2>2, <3>2
    <3> QED BY <1>1, <1>2, <3>1, <3>3
  <2> QED BY <2>1, <2>2
<1>4. \/ Type(f) = "ipv4" /\ IPv4There(f, ip) /\ decodeLinkLayer(f) = [ip |-> 4, at |-> ip]
      \/ Type(f) = "ipv6" /\ IPv6There(f) /\ decodeLinkLayer(f) = [ip |-> 6, at |-> ip]
      BY <1>3 DEF decodeLinkLayer, NoIP, AfterTags, LinkIPv4There
<1>5. Behind(f) = ip + IPSize(f) + UdpSize
      BY <1>1, <1>4 DEF Behind, IPSize, UdpSize, IPv6Size
<1>6. ip < f.len
      BY <1>1, <1>4, <1>5 DEF IPSize, UdpSize, IPv6Size
<1>7. f.len - AfterTags(f) < NFT_MIN_SIZ <=> FALSE
      BY <1>1 DEF AfterTags, NFT_MIN_SIZ, NFT_ETHHDR_SIZ, TagSize, IPv4Size
<1>8. ~(ip >= f.len) /\ BytesLeft(f, ip + IPSize(f) + UdpSize)
      BY <1>1, <1>5, <1>6 DEF BytesLeft
<1>9. pcapOffsetToSFlow(f) = ip + IPSize(f) + UdpSize
      BY <1>2, <1>4, <1>7, <1>8 DEF pcapOffsetToSFlow
<1> QED BY <1>5, <1>9

\* What is handed over lies inside the packet, and the next record is at hand.
LEMMA HandOverInv == ASSUME Inv, HandOver PROVE Inv'
<1> DEFINE at == pcapOffsetToSFlow(record.frame)
<1>1. /\ pc = "packet" /\ pc' \in {"record", "exited"}
      /\ handed' = [offset |-> at, size |-> hdr.caplen - at]
      /\ UNCHANGED <<tcpdumpHdrPad, swapped, pcapSwap, pos, records, boundary, record, hdr>>
      BY DEF HandOver, fileVars, recordVars
<1>2. Captured /\ hdr.caplen \in Nat
      BY <1>1 DEF Inv
<1>3. FoundInsidePacket'
  <2>1. CASE at = -1
        BY <2>1, <1>1 DEF FoundInsidePacket
  <2>2. CASE at # -1
    <3>1. at \in 1 .. hdr.caplen - 1
          BY <1>2, <2>2, OffsetInside DEF Captured
    <3> HIDE DEF at
    <3> QED BY <1>1, <1>2, <3>1 DEF FoundInsidePacket
  <2> QED BY <2>1, <2>2
<1> HIDE DEF at
<1> QED BY <1>1, <1>3 DEF Inv, InStep

\* Every step keeps the invariant.
LEMMA NextInv == ASSUME Inv, [Next]_vars PROVE Inv'
<1>1. CASE readPcapHeader
      BY <1>1, HeaderInv
<1>2. CASE EndOfFile
      BY <1>2 DEF EndOfFile, Inv, fileVars, recordVars, InStep, FoundInsidePacket
<1>3. CASE ReadRecordHeader
      BY <1>3, RecordInv
<1>4. CASE ReadErrors
      BY <1>4, ExitInv DEF ReadErrors
<1>5. CASE ReadPad
      BY <1>5 DEF ReadPad, Inv, fileVars, recordVars, InStep, Captured, FoundInsidePacket
<1>6. CASE ReadBody
  <2>1. CASE Exit(34)
        BY <2>1, ExitInv
  <2>2. CASE ~Exit(34)
        BY <1>6, <2>2 DEF ReadBody, BodyRead, Inv, fileVars, recordVars, InStep, Captured,
                          FoundInsidePacket
  <2> QED BY <2>1, <2>2
<1>7. CASE HandOver
      BY <1>7, HandOverInv
<1>8. CASE UNCHANGED vars
      BY <1>8 DEF vars, Inv, fileVars, recordVars, InStep, Captured, FoundInsidePacket
<1> QED BY <1>1, <1>2, <1>3, <1>4, <1>5, <1>6, <1>7, <1>8 DEF Next

\* The invariant holds in every state.
LEMMA InvCorrect == Spec => []Inv
<1>1. Init => Inv
      BY InitInv
<1>2. Inv /\ [Next]_vars => Inv'
      BY NextInv
<1> QED BY <1>1, <1>2, PTL DEF Spec

(***************************************************************************)
(* The theorems.                                                           *)
(***************************************************************************)

\* readPcapPacket looks for a record where one begins, in a file of either byte
\* order and whatever was cut short before it.
THEOREM AlignedCorrect == Spec => []Aligned
<1>1. Inv => Aligned
      BY DEF Inv, InStep, Aligned
<1> QED BY <1>1, InvCorrect, PTL

\* What pcapOffsetToSFlow finds lies inside the captured packet.
THEOREM FoundCorrect == Spec => []FoundInsidePacket
<1>1. Inv => FoundInsidePacket
      BY DEF Inv
<1> QED BY <1>1, InvCorrect, PTL

\* The two walks to the IP header, in the decoder and in the reader of capture
\* files, agree on every packet in which the decoder finds one.
THEOREM WalksCorrect == Spec => AgreesWithLinkLayer
<1> DEFINE Agree ==
      LET found == decodeLinkLayer(record.frame)
          behind == found.at + UdpSize
                      + (IF found.ip = 4 THEN 4 * record.frame.ihl ELSE IPv6Size)
      IN  found.ip # 0 /\ behind < record.frame.len
            /\ record.frame.len - AfterTags(record.frame) >= NFT_MIN_SIZ
          => handed' = [offset |-> behind, size |-> record.frame.len - behind]
<1>1. Inv /\ HandOver => Agree
  <2> SUFFICES ASSUME Inv, HandOver,
                      decodeLinkLayer(record.frame).ip # 0,
                      Behind(record.frame) < record.frame.len,
                      record.frame.len - AfterTags(record.frame) >= NFT_MIN_SIZ
               PROVE  handed' = [offset |-> Behind(record.frame),
                                 size |-> record.frame.len - Behind(record.frame)]
      BY DEF Behind
  <2>1. Captured
        BY DEF Inv, HandOver
  <2>2. pcapOffsetToSFlow(record.frame) = Behind(record.frame)
        BY <2>1, WalksAgree DEF Captured
  <2> QED BY <2>1, <2>2 DEF HandOver, Captured
<1>2. Inv /\ [Next]_vars => [HandOver => Agree]_vars
      BY <1>1
<1> QED BY <1>2, InvCorrect, PTL DEF Spec, AgreesWithLinkLayer

=============================================================================
