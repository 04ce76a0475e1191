------------------------------- MODULE PcapReader -------------------------------
(***************************************************************************)
(* Reading a capture file (readPcapHeader, readPcapPacket and their part   *)
(* of main): a file header, then records of a header, a pad of a size the  *)
(* user gives, and the captured bytes.  The file may be of either byte     *)
(* order and may end anywhere.  What begins behind the link, IP and UDP    *)
(* headers of a packet is handed to receiveSFlowDatagram.                  *)
(***************************************************************************)
EXTENDS LinkLayer, FiniteSets

CONSTANTS
    Frames,      \* the packets considered
    Cut,         \* bytes a capture may leave out at the end of a packet
    Pads,        \* the pads considered
    Half,        \* 2^16: a word is two halves, swapped when the order differs
    MaxRecords   \* bound: records in the file

\* Packets, which are frames and nothing else.
Packets == [ len : Nat, tags : Seq(Tags), encap : Encapsulations,
             type : {"ipv4", "ipv6", "other"}, version : 0 .. 15, ihl : 0 .. 15 ]

ASSUME PcapAssumption ==
    /\ \A f \in Frames : f \in Packets /\ f.len \in 1 .. Half * Half - 1
    /\ Cut \subseteq Nat /\ Pads \subseteq Nat /\ Half \in Nat \ {0} /\ MaxRecords \in Nat

RecordHeader == 16    \* sizeof(struct pcap_pkthdr)
FileHeader == 24      \* sizeof(struct pcap_file_header)

\* MyByteSwap32 on words of two digits.
Swap(w) == (w % Half) * Half + w \div Half

VARIABLES
    pc,         \* "fileHeader", "record", "pad", "body", "packet", "finished", "exited"
    tcpdumpHdrPad,  \* the pad the user says each record has
    swapped,    \* the file is of the other byte order
    pcapSwap,   \* sfConfig.pcapSwap
    pos,        \* bytes read of the file
    records,    \* records begun
    boundary,   \* where the next record of the file begins
    record,     \* the record: its frame, and len and caplen as they were captured
    hdr,        \* len and caplen as the program has them
    handed,     \* what receiveSFlowDatagram was given: offset and size
    exitCode

fileVars   == <<tcpdumpHdrPad, swapped, pcapSwap>>
recordVars == <<records, boundary, record, hdr>>
vars == <<pc, fileVars, pos, recordVars, handed, exitCode>>

Nothing == [offset |-> 0, size |-> 0]
NoRecord == [frame |-> "none"]
NoHeader == [len |-> 0, caplen |-> 0]

Init ==
    /\ pc = "fileHeader" /\ tcpdumpHdrPad \in Pads /\ swapped \in BOOLEAN /\ pcapSwap = FALSE
    /\ pos = 0 /\ records = 0 /\ boundary = FileHeader
    /\ record = NoRecord /\ hdr = NoHeader /\ handed = Nothing /\ exitCode = 0

Exit(code) ==
    /\ pc' = "exited" /\ exitCode' = code
    /\ UNCHANGED <<fileVars, pos, recordVars, handed>>

\* The magic number is read as it is or turned around; or it is neither, or cut.
readPcapHeader ==
    /\ pc = "fileHeader"
    /\ \/ /\ pc' = "record" /\ pos' = FileHeader /\ pcapSwap' = swapped
          /\ UNCHANGED <<tcpdumpHdrPad, swapped, recordVars, handed, exitCode>>
       \/ Exit(30)
       \/ Exit(31)

\* The end of the file, or a header cut short: feof is true for both.
EndOfFile ==
    /\ pc = "record" /\ pc' = "finished"
    /\ UNCHANGED <<fileVars, pos, recordVars, handed, exitCode>>

\* Mutant: the words of a record header are taken as they come.
Word_AsRead(w) == w
Word(w) == IF pcapSwap THEN Swap(w) ELSE w

ReadRecordHeader ==
    /\ pc = "record" /\ records < MaxRecords
    /\ \E frame \in Frames, cut \in Cut :
          /\ cut <= frame.len
          /\ LET caplen == frame.len - cut
                 InFile(w) == IF swapped THEN Swap(w) ELSE w
             IN  /\ record' = [frame |-> [frame EXCEPT !.len = caplen],
                               len |-> frame.len, caplen |-> caplen]
                 /\ hdr' = [len |-> Word(InFile(frame.len)), caplen |-> Word(InFile(caplen))]
                 /\ boundary' = boundary + RecordHeader + tcpdumpHdrPad + caplen
    /\ pos' = pos + RecordHeader /\ records' = records + 1
    /\ handed' = Nothing
    /\ pc' = IF tcpdumpHdrPad > 0 THEN "pad" ELSE "body"
    /\ UNCHANGED <<fileVars, exitCode>>

ReadErrors ==
    \/ pc = "record" /\ Exit(32)
    \/ pc = "pad" /\ Exit(33)
    \/ pc = "body" /\ Exit(34)

ReadPad ==
    /\ pc = "pad" /\ pc' = "body" /\ pos' = pos + tcpdumpHdrPad
    /\ UNCHANGED <<fileVars, recordVars, handed, exitCode>>

\* The bytes are read whether the packet is complete or not.  fread of no bytes
\* reads no item: a record with nothing captured is an error.
\* Mutant: an incomplete packet is passed over before its bytes are read.
BodyRead_CompleteOnly == IF hdr.caplen < hdr.len THEN 0 ELSE hdr.caplen
BodyRead == hdr.caplen
ReadBody ==
    /\ pc = "body"
    /\ \/ hdr.caplen = 0 /\ Exit(34)
       \/ /\ hdr.caplen > 0
          /\ pos' = pos + BodyRead
          /\ pc' = IF hdr.caplen < hdr.len THEN "record" ELSE "packet"
          /\ UNCHANGED <<fileVars, recordVars, handed, exitCode>>

\* skipBytes is used as it is, also when it is -1.
HandOver ==
    /\ pc = "packet"
    /\ LET skipBytes == pcapOffsetToSFlow(record.frame)
       IN  handed' = [offset |-> skipBytes, size |-> hdr.caplen - skipBytes]
    /\ \/ pc' = "record" /\ UNCHANGED exitCode
       \/ pc' = "exited" /\ exitCode' = 1    \* while the datagram is decoded
    /\ UNCHANGED <<fileVars, pos, recordVars>>

Next ==
    \/ readPcapHeader \/ EndOfFile \/ ReadRecordHeader \/ ReadErrors
    \/ ReadPad \/ ReadBody \/ HandOver

Spec == Init /\ [][Next]_vars

(***************************************************************************)
(* Properties.                                                             *)
(***************************************************************************)

TypeOK ==
    /\ pc \in {"fileHeader", "record", "pad", "body", "packet", "finished", "exited"}
    /\ tcpdumpHdrPad \in Pads /\ swapped \in BOOLEAN /\ pcapSwap \in BOOLEAN
    /\ pos \in Nat /\ records \in 0 .. MaxRecords /\ boundary \in Nat
    /\ hdr \in [len : Nat, caplen : Nat]
    /\ handed \in [offset : Int, size : Int] /\ exitCode \in Nat

\* The reader stays in step with the file: whenever it looks for a record, there
\* one begins, also behind an incomplete packet, a pad, and in a file of the
\* other byte order.
Aligned == pc = "record" => pos = boundary

\* The two walks to the IP header agree: where decodeLinkLayer finds one in a
\* packet long enough, the datagram handed over begins behind it and UDP's.
AgreesWithLinkLayer ==
    [][ HandOver =>
          LET found == decodeLinkLayer(record.frame)
              behind == found.at + UdpSize
                          + (IF found.ip = 4 THEN 4 * record.frame.ihl ELSE IPv6Size)
          IN  found.ip # 0 /\ behind < record.frame.len
                /\ record.frame.len - AfterTags(record.frame) >= NFT_MIN_SIZ
              => handed' = [offset |-> behind, size |-> record.frame.len - behind] ]_vars

\* A datagram that was found lies inside the captured packet, and there is some
\* of it; it is no longer than the packet it came in.
FoundInsidePacket ==
    handed # Nothing /\ handed.offset # -1 =>
        handed.offset > 0 /\ handed.size > 0 /\ handed.offset + handed.size = hdr.caplen

=============================================================================
