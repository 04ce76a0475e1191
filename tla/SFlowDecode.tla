----------------------------- MODULE SFlowDecode -----------------------------
(***************************************************************************)
(* The sFlow decoder of src/src/sflowtool.c: receiveSFlowDatagram (when no *)
(* forwarding target is configured), readSFlowDatagram, the four readers   *)
(* of a sample and the cursor primitives they are built from.              *)
(*                                                                         *)
(* A datagram is `size` bytes long; the cursor `datap` is an offset in it. *)
(* The cursor only moves forward, so a byte is looked at once: its value   *)
(* is chosen when it is read.  Only values that steer the decoder (counts, *)
(* lengths, tags) are chosen; the sets Counts and Lengths hold them.       *)
(*                                                                         *)
(* The reader of a record is a sequence of cursor operations (see          *)
(* SFlowRecords); `todo` holds the operations the decoder has still to     *)
(* perform for the current sample: it plays the part of the C call stack.  *)
(* SFABORT is a longjmp to receiveSFlowDatagram: the rest of the datagram  *)
(* is dropped, and with it the SFSample, which is a local of readPacket.   *)
(***************************************************************************)
EXTENDS Integers, Sequences

CONSTANTS
    Word,             \* 2^32: unsigned words wrap here
    Short,            \* 2^16: unsigned shorts wrap here
    MaxSize,          \* MAX_PKT_SIZ, the size of the receive buffer
    Sizes,            \* the datagram sizes considered
    Versions,         \* the datagram versions considered
    Addresses,        \* the sizes of an address considered (4 or 16 bytes)
    Counts,           \* the values considered for a word that counts
    Lengths,          \* the values considered for a word that is a length in bytes
    FlowReader,       \* flow element tag -> operations of its reader
    CounterReader,    \* counter element tag -> operations of its reader
    PacketReader,     \* version 2 and 4: packet_data_tag -> operations
    ExtendedReader,   \* version -> extended data tag -> operations
    BlockReader,      \* version 2 and 4: counterBlockVersion -> operations
    Block             \* name of a counted block -> operations

ASSUME SizeAssumption ==
    /\ Word \in Nat /\ Short \in Nat /\ MaxSize \in Nat
    /\ 45 < Short
    /\ MaxSize <= Short
    /\ 4 * Short < Word
    /\ Sizes \subseteq 1 .. MaxSize
    /\ Versions \subseteq {2, 4, 5}
    /\ Addresses \subseteq {4, 16}
    /\ Counts \subseteq 0 .. Word - 1
    /\ Lengths \subseteq 0 .. Word - 1

CheckedKinds ==
    {"fixed", "string", "address", "array", "repeat", "iterate", "lookup",
     "header", "longOnly", "skip", "count", "length", "packetData",
     "counterBlock", "endElement"}
UncheckedKinds == {"fill64", "fill32", "context", "put", "a10"}

\* Operations every step of which is checked against the end of the datagram,
\* and all operations.
OpOf(kinds) ==
    {o \in [op : kinds, n : Nat, body : DOMAIN Block \cup {"none"}] :
        o.op \in {"repeat", "iterate"} => o.body \in DOMAIN Block}
CheckedOp == OpOf(CheckedKinds)
Op        == OpOf(CheckedKinds \cup UncheckedKinds)

\* Only counter elements of version 5 use the operations that move the cursor
\* unchecked or reach a back end; an A10 record is read by one call.
ASSUME ReaderAssumption ==
    /\ \A t \in DOMAIN FlowReader : FlowReader[t] \in Seq(CheckedOp)
    /\ \A t \in DOMAIN CounterReader :
           /\ CounterReader[t] \in Seq(Op)
           /\ \A i \in 1 .. Len(CounterReader[t]) :
                 CounterReader[t][i].op = "a10" => i = 1
    /\ \A t \in DOMAIN PacketReader : PacketReader[t] \in Seq(CheckedOp)
    /\ \A v \in {2, 4} : \A t \in DOMAIN ExtendedReader[v] :
           ExtendedReader[v][t] \in Seq(CheckedOp)
    /\ \A t \in DOMAIN BlockReader : BlockReader[t] \in Seq(CheckedOp)
    /\ \A b \in DOMAIN Block : Block[b] \in Seq(CheckedOp)

VARIABLES
    pc,               \* where the decoder is
    result,           \* how the last datagram ended
    size,             \* rawSampleLen: endp is at this offset
    version,          \* datagramVersion
    samplesInPacket,  \* announced samples
    samp,             \* samples decoded
    datap,            \* the decode cursor
    kind,             \* the reader of the current sample
    sampleAt,         \* offset of the current sample's tag
    sStart,           \* sampleStart
    sLength,          \* sampleLength
    elements,         \* num_elements (num_extended) not yet begun
    declared,         \* flow sample: bytes of its head and its checked elements
    eStart,           \* start of the current element
    eLength,          \* length of the current element
    ctx,              \* current_context_length
    todo,             \* operations left for the current sample
    stored,           \* bytes of records written to the key-value store
    puts              \* batches handed to the time-series database

datagramVars == <<size, version, samplesInPacket, samp>>
sampleVars   == <<kind, sampleAt, sStart, sLength, elements, declared>>
elementVars  == <<eStart, eLength, ctx>>
effectVars   == <<stored, puts>>
vars == <<pc, result, datagramVars, datap, sampleVars, elementVars, todo, effectVars>>

Kinds == {"none", "flow", "counters", "flow4", "counters4", "other"}
Results == {"none", "complete", "eos", "decode", "length"}

Init ==
    /\ pc = "idle" /\ result = "none"
    /\ size = 0 /\ version = 0 /\ samplesInPacket = 0 /\ samp = 0
    /\ datap = 0
    /\ kind = "none" /\ sampleAt = 0 /\ sStart = 0 /\ sLength = 0
    /\ elements = 0 /\ declared = 0
    /\ eStart = 0 /\ eLength = 0 /\ ctx = 0
    /\ todo = <<>>
    /\ stored = 0 /\ puts = 0

(***************************************************************************)
(* Leaving a datagram.                                                     *)
(***************************************************************************)

\* The SFSample goes out of scope.
Forget ==
    /\ size' = 0 /\ version' = 0 /\ samplesInPacket' = 0 /\ samp' = 0
    /\ datap' = 0
    /\ kind' = "none" /\ sampleAt' = 0 /\ sStart' = 0 /\ sLength' = 0
    /\ elements' = 0 /\ declared' = 0
    /\ eStart' = 0 /\ eLength' = 0 /\ ctx' = 0
    /\ todo' = <<>>
    /\ stored' = 0 /\ puts' = 0

\* Back to readPacket: by a return, or by SFABORT with its code.
Finish(outcome) == pc' = "idle" /\ result' = outcome /\ Forget

\* The process ends: custom_exit, or an access far outside its memory.
Halt == pc' = "down" /\ result' = "none" /\ Forget

(***************************************************************************)
(* The cursor.                                                             *)
(***************************************************************************)

Least(a, b) == IF a <= b THEN a ELSE b

\* ((length + 3) >> 2) << 2 on 32 bits
Pad(length) == 4 * (((length + 3) % Word) \div 4)

\* The comparison with endp that follows every advance of the cursor, to p.
\* Mutant: no comparison, as before the fix the comment in getData32 tells of.
Within_Unchecked(p) == TRUE
Within(p) == p <= size

\* skipBytes goes through from offset p.
\* Mutants: the length trusted, the comparison with endp dropped.
CanSkip_Trusting(p, skip) == p + Pad(skip) <= size
CanSkip_NoEnd(p, skip) == skip <= size
CanSkip(p, skip) == skip <= size /\ Within(p + Pad(skip))

\* lengthCheck of what was read since `start`
\* Mutant: more than announced is let through.
lengthCheck_AtLeast(start, length) == Pad(datap - start) >= Pad(length)
lengthCheck(start, length) == Pad(datap - start) = Pad(length)

Running(name) == pc = "reading" /\ todo # <<>> /\ Head(todo).op = name
Arg == Head(todo).n

\* The next operation is done, and moves the cursor to p: when it can be.
MoveTo(p) ==
    /\ datap' = p
    /\ todo' = Tail(todo)
    /\ UNCHANGED <<pc, result, datagramVars, sampleVars, elementVars, effectVars>>
Move(possible, p) == IF possible THEN MoveTo(p) ELSE Finish("eos")

\* getData32, getData64, getData16, getData_u8, getData8, skipBytes(constant)
ReadFixed ==
    /\ Running("fixed")
    /\ Move(Within(datap + Arg), datap + Arg)

ReadString ==
    /\ Running("string")
    /\ \E len \in Lengths :
          Move(Within(datap + 4) /\ CanSkip(datap + 4, len), datap + 4 + Pad(len))

ReadAddress ==
    /\ Running("address")
    /\ \E bytes \in Addresses : Move(Within(datap + 4 + bytes), datap + 4 + bytes)

\* The skip is computed on 32 bits, the walk over the words is not: a count
\* whose size wraps sends the walk out of memory, unless the compiler, seeing
\* that nothing is logged, leaves the walk out.
ReadArray ==
    /\ Running("array")
    /\ \E count \in Counts :
          LET skip == (4 * count) % Word
              fits == Within(datap + 4) /\ CanSkip(datap + 4, skip)
          IN  \/ Move(fits, datap + 4 + Pad(skip))
              \/ fits /\ 4 * count >= Word /\ Halt

\* Counted blocks.  Past the capacity of the C array they land in, what
\* becomes of the process is undefined.
ReadRepeat ==
    /\ Running("repeat")
    /\ \E count \in Counts :
          IF ~Within(datap + 4)
            THEN Finish("eos")
            ELSE \/ /\ datap' = datap + 4
                    /\ todo' = <<[op |-> "iterate", n |-> count, body |-> Head(todo).body]>>
                                 \o Tail(todo)
                    /\ UNCHANGED <<pc, result, datagramVars, sampleVars,
                                   elementVars, effectVars>>
                 \/ Arg > 0 /\ count > Arg /\ Halt

Iterate ==
    /\ Running("iterate")
    /\ todo' = IF Arg = 0
                 THEN Tail(todo)
                 ELSE Block[Head(todo).body]
                        \o <<[Head(todo) EXCEPT !.n = Arg - 1]>> \o Tail(todo)
    /\ UNCHANGED <<pc, result, datagramVars, datap, sampleVars, elementVars, effectVars>>

\* An index taken from the wire, not compared with the length of the table.
LookUp ==
    /\ Running("lookup")
    /\ Move(TRUE, datap) \/ Halt

\* An unknown header protocol ends the process.
ReadHeader ==
    /\ Running("header")
    /\ \E len \in Lengths :
          LET p    == datap + 4 * Arg
              fits == Within(p) /\ CanSkip(p, len)
          IN  Move(fits, p + Pad(len)) \/ (fits /\ Halt)

\* Mutant: the record must be longer than with the last member.
ReadLongOnly_Beyond ==
    /\ Running("longOnly")
    /\ IF eLength > Arg + 8
         THEN Move(Within(datap + 8), datap + 8)
         ELSE Move(TRUE, datap)
ReadLongOnly ==
    /\ Running("longOnly")
    /\ IF eLength > Arg
         THEN Move(Within(datap + 8), datap + 8)
         ELSE Move(TRUE, datap)

SkipElement ==
    /\ Running("skip")
    /\ Move(CanSkip(datap, eLength), datap + Pad(eLength))

(***************************************************************************)
(* DDoS counter records.                                                   *)
(***************************************************************************)

\* populate_sflow_struct_u64 and _u32: a structure of Arg bytes is filled from
\* the record, whichever is the shorter; what a longer record has in excess is
\* stepped over without a look at the end of the datagram.
\* Mutant: a longer record is not fast-forwarded.
FastForward_None(parse) == 0
FastForward(parse) == IF Arg < parse THEN parse - Arg ELSE 0
Fill(unit) ==
    LET parse == ctx % Short
        read  == unit * Least(parse \div unit, Arg \div unit)
    IN  Move(parse > 0 /\ parse % unit = 0 /\ Within(datap + read),
             datap + read + FastForward(parse))
PopulateU64 == Running("fill64") /\ Fill(8)
PopulateU32 == Running("fill32") /\ Fill(4)

\* sfl_ddos_update_ctx_len.  The subtraction is on signed words: for a length
\* of 2^31 and a little more it overflows, and may come out positive.
UpdateContext ==
    /\ Running("context")
    /\ \/ /\ ctx > Arg /\ ctx < Word \div 2 + Arg
          /\ ctx' = ctx - Arg
          /\ todo' = Tail(todo)
          /\ UNCHANGED <<pc, result, datagramVars, datap, sampleVars,
                         eStart, eLength, effectVars>>
       \/ ctx <= Arg /\ Finish("eos")
       \/ ctx >= Word \div 2 /\ Finish("eos")

\* opentsdb_simple_connect.  A send on a connection the server has closed raises
\* SIGPIPE, which only one output format ignores.
PutBatch ==
    /\ Running("put")
    /\ \/ /\ puts' = puts + 1
          /\ todo' = Tail(todo)
          /\ UNCHANGED <<pc, result, datagramVars, datap, sampleVars, elementVars, stored>>
       \/ Halt

\* readCounters_a10_4_1_n_generic: a head of 45 bytes and key-value pairs of
\* 12 bytes each.  The head is not checked against the end of the datagram.
A10Head == 45
A10Pair == 12
\* Mutant: the head is not subtracted.
A10Left_Whole == ctx
A10Left == (ctx + Word - A10Head) % Word

\* The uuid is not a string of 36 characters: the reader returns at once.
IgnoreA10 ==
    /\ Running("a10")
    /\ datap' = datap + A10Head
    /\ ctx' = A10Left
    /\ todo' = Tail(todo)
    /\ UNCHANGED <<pc, result, datagramVars, sampleVars, eStart, eLength, effectVars>>

\* The pairs are read first, out of bounds when the length says so, then
\* skipped, and the record is written.
StoreA10 ==
    /\ Running("a10")
    /\ IF CanSkip(datap + A10Head, A10Left)
         THEN /\ datap' = datap + A10Head + Pad(A10Left)
              /\ ctx' = A10Left
              /\ stored' = stored + A10Head + A10Left
              /\ todo' = Tail(todo)
              /\ UNCHANGED <<pc, result, datagramVars, sampleVars, eStart, eLength, puts>>
         ELSE \/ Finish("eos")
              \/ /\ datap + A10Head + A10Pair * (A10Left \div A10Pair) > MaxSize
                 /\ Halt

(***************************************************************************)
(* Elements.                                                               *)
(***************************************************************************)

Programs(reader) == {reader[t] : t \in DOMAIN reader}
Operation0(name) == <<[op |-> name, n |-> 0, body |-> "none"]>>
SkipProgram      == Operation0("skip")

\* The program of an element: an unknown tag is skipped.
ElementPrograms ==
    Programs(IF kind = "flow" THEN FlowReader ELSE CounterReader) \cup {SkipProgram}

BeginElement ==
    /\ pc = "reading" /\ todo = <<>> /\ elements > 0
    /\ kind \in {"flow", "counters"}
    /\ IF ~Within(datap + 8)
         THEN Finish("eos")
         ELSE \E length \in Lengths, program \in ElementPrograms :
                /\ elements' = elements - 1
                /\ datap' = datap + 8
                /\ eStart' = datap + 8
                /\ eLength' = length
                /\ ctx' = IF kind = "counters" THEN length ELSE ctx
                /\ todo' = program \o Operation0("endElement")
                /\ UNCHANGED <<pc, result, datagramVars, kind, sampleAt, sStart,
                               sLength, declared, effectVars>>

\* lengthCheck of a flow element; that of a counter element is switched off.
EndElement ==
    /\ Running("endElement")
    /\ IF kind = "flow" /\ ~lengthCheck(eStart, eLength)
         THEN Finish("length")
         ELSE /\ declared' = IF kind = "flow" THEN declared + 8 + Pad(eLength) ELSE 0
              /\ eStart' = 0 /\ eLength' = 0 /\ ctx' = 0
              /\ todo' = Tail(todo)
              /\ UNCHANGED <<pc, result, datagramVars, datap, kind, sampleAt, sStart,
                             sLength, elements, effectVars>>

\* Version 2 and 4: extended data have a tag but no length.
BeginExtended ==
    /\ pc = "reading" /\ todo = <<>> /\ elements > 0
    /\ kind = "flow4"
    /\ IF ~Within(datap + 4)
         THEN Finish("eos")
         ELSE \/ \E program \in Programs(ExtendedReader[version]) :
                   /\ elements' = elements - 1
                   /\ datap' = datap + 4
                   /\ todo' = program
                   /\ UNCHANGED <<pc, result, datagramVars, kind, sampleAt, sStart,
                                  sLength, declared, elementVars, effectVars>>
              \/ Finish("decode")

(***************************************************************************)
(* Samples.                                                                *)
(***************************************************************************)

\* sampleLength, and the place it counts from
ReadLength ==
    /\ Running("length")
    /\ IF ~Within(datap + 4)
         THEN Finish("eos")
         ELSE \E length \in Lengths :
                /\ sLength' = length
                /\ sStart' = datap + 4
                /\ datap' = datap + 4
                /\ todo' = Tail(todo)
                /\ UNCHANGED <<pc, result, datagramVars, kind, sampleAt, elements,
                               declared, elementVars, effectVars>>

\* num_elements, num_extended
ReadCount ==
    /\ Running("count")
    /\ IF ~Within(datap + 4)
         THEN Finish("eos")
         ELSE \E count \in Counts :
                /\ elements' = count
                /\ declared' = IF kind = "flow" THEN datap + 4 - sStart ELSE 0
                /\ datap' = datap + 4
                /\ todo' = Tail(todo)
                /\ UNCHANGED <<pc, result, datagramVars, kind, sampleAt, sStart,
                               sLength, elementVars, effectVars>>

\* A tag that must be known: packet_data_tag, counterBlockVersion
Choose(reader) ==
    IF ~Within(datap + 4)
      THEN Finish("eos")
      ELSE \/ \E program \in Programs(reader) :
                /\ datap' = datap + 4
                /\ todo' = program \o Tail(todo)
                /\ UNCHANGED <<pc, result, datagramVars, sampleVars,
                               elementVars, effectVars>>
           \/ Finish("decode")
ReadPacketData   == Running("packetData") /\ Choose(PacketReader)
ReadCounterBlock == Running("counterBlock") /\ Choose(BlockReader)

WordsOf(k) == <<[op |-> "fixed", n |-> 4 * k, body |-> "none"]>>

\* The heads of the samples, as far as the first element.
readFlowSample(ids)       == Operation0("length") \o WordsOf(6 + ids) \o Operation0("count")
readCountersSample(ids)   == Operation0("length") \o WordsOf(1 + ids) \o Operation0("count")
readFlowSample_v2v4       == WordsOf(7) \o Operation0("packetData") \o Operation0("count")
readCountersSample_v2v4   == WordsOf(3) \o Operation0("counterBlock")
skipSample                == Operation0("string")

\* The words after the drop count differ between the two forms of a flow
\* sample (2 or 4), as do those of the source id (1 or 2).
SampleReaders ==
    IF version = 5
      THEN {<<"flow", readFlowSample(1)>>, <<"flow", readFlowSample(4)>>,
            <<"counters", readCountersSample(1)>>, <<"counters", readCountersSample(2)>>,
            <<"other", skipSample>>}
      ELSE {<<"flow4", readFlowSample_v2v4>>, <<"counters4", readCountersSample_v2v4>>}

\* Mutant: off by one.
SamplesLeft_Inclusive == samp <= samplesInPacket
SamplesLeft == samp < samplesInPacket

\* Mutant: at the end of the datagram a message, and another turn of the loop.
BeginSample_Waits ==
    /\ pc = "samples" /\ SamplesLeft
    /\ IF datap >= size
         THEN UNCHANGED vars
         ELSE Within(datap + 4) /\ \E reader \in SampleReaders :
                /\ pc' = "reading"
                /\ kind' = reader[1] /\ todo' = reader[2]
                /\ sampleAt' = datap /\ datap' = datap + 4
                /\ UNCHANGED <<result, datagramVars, sStart, sLength, elements,
                               declared, elementVars, effectVars>>
\* Mutant: the tag is looked at, and left where it is.
BeginSample_Peeks ==
    /\ pc = "samples" /\ SamplesLeft
    /\ IF datap >= size \/ ~Within(datap + 4)
         THEN Finish("eos")
         ELSE \E reader \in SampleReaders :
                /\ pc' = "reading"
                /\ kind' = reader[1] /\ todo' = reader[2]
                /\ sampleAt' = datap
                /\ UNCHANGED <<result, datagramVars, datap, sStart, sLength, elements,
                               declared, elementVars, effectVars>>
BeginSample ==
    /\ pc = "samples" /\ SamplesLeft
    /\ IF datap >= size \/ ~Within(datap + 4)
         THEN Finish("eos")
         ELSE \/ \E reader \in SampleReaders :
                   /\ pc' = "reading"
                   /\ kind' = reader[1]
                   /\ todo' = reader[2]
                   /\ sampleAt' = datap
                   /\ datap' = datap + 4
                   /\ UNCHANGED <<result, datagramVars, sStart, sLength, elements,
                                  declared, elementVars, effectVars>>
              \/ version < 5 /\ Finish("decode")

\* lengthCheck of a version 5 sample, and on to the next one
EndSample ==
    /\ pc = "reading" /\ todo = <<>> /\ elements = 0
    /\ IF kind \in {"flow", "counters"} /\ ~lengthCheck(sStart, sLength)
         THEN Finish("length")
         ELSE /\ samp' = samp + 1
              /\ pc' = "samples"
              /\ kind' = "none" /\ sampleAt' = 0 /\ sStart' = 0 /\ sLength' = 0
              /\ declared' = 0
              /\ UNCHANGED <<result, size, version, samplesInPacket, datap,
                             elements, elementVars, todo, effectVars>>

(***************************************************************************)
(* Datagrams.                                                              *)
(***************************************************************************)

\* version, agent address, sub-agent id since version 5, sequence number,
\* up time, number of samples
HeaderSize(v, address) == 4 + (4 + address) + (IF v = 5 THEN 4 ELSE 0) + 12

ReceiveDatagram ==
    /\ pc = "idle"
    /\ \E length \in Sizes, v \in Versions, address \in Addresses, announced \in Counts :
          /\ HeaderSize(v, address) <= length
          /\ pc' = "samples"
          /\ result' = "none"
          /\ size' = length
          /\ version' = v
          /\ samplesInPacket' = announced
          /\ datap' = HeaderSize(v, address)
    /\ UNCHANGED <<samp, sampleVars, elementVars, todo, effectVars>>

\* A header that is cut short, or of another version
RejectDatagram ==
    /\ pc = "idle"
    /\ \E length \in Sizes :
          \/ /\ \E v \in Versions, address \in Addresses : length < HeaderSize(v, address)
             /\ result' = "eos"
          \/ /\ length >= 4
             /\ result' = "decode"
    /\ UNCHANGED <<pc, datagramVars, datap, sampleVars, elementVars, todo, effectVars>>

\* Mutant: the bytes used up are taken for the samples used up.
EndDatagram_Early ==
    /\ pc = "samples" /\ (samp = samplesInPacket \/ datap >= size)
    /\ Finish("complete")
EndDatagram ==
    /\ pc = "samples" /\ samp = samplesInPacket
    /\ Finish("complete")

\* Everything that is read is printed, and the process ends when printing fails.
OutputFails == pc # "down" /\ Halt

\* The process has ended: nothing more happens.
Ended == pc = "down" /\ UNCHANGED vars

Step ==
    \/ ReadFixed \/ ReadString \/ ReadAddress \/ ReadArray \/ ReadRepeat \/ Iterate
    \/ LookUp \/ ReadHeader \/ ReadLongOnly \/ SkipElement
    \/ PopulateU64 \/ PopulateU32 \/ UpdateContext \/ PutBatch
    \/ IgnoreA10 \/ StoreA10
    \/ BeginElement \/ EndElement \/ BeginExtended
    \/ ReadLength \/ ReadCount \/ ReadPacketData \/ ReadCounterBlock
    \/ BeginSample \/ EndSample \/ EndDatagram

Next == ReceiveDatagram \/ RejectDatagram \/ Step \/ OutputFails \/ Ended

Spec == Init /\ [][Next]_vars

\* The decoder is one thread that does nothing else until the datagram is done.
FairSpec == Spec /\ WF_vars(Step)

(***************************************************************************)
(* Properties.                                                             *)
(***************************************************************************)

\* Every variable keeps its range.
TypeOK ==
    /\ pc \in {"idle", "samples", "reading", "down"}
    /\ result \in Results
    /\ size \in 0 .. MaxSize
    /\ version \in {0, 2, 4, 5}
    /\ samplesInPacket \in 0 .. Word - 1 /\ samp \in 0 .. samplesInPacket
    /\ datap \in Nat
    /\ kind \in Kinds
    /\ sampleAt \in Nat /\ sStart \in Nat /\ sLength \in 0 .. Word - 1
    /\ elements \in 0 .. Word - 1 /\ declared \in Nat
    /\ eStart \in Nat /\ eLength \in 0 .. Word - 1 /\ ctx \in 0 .. Word - 1
    /\ todo \in Seq(Op)
    /\ stored \in Nat /\ puts \in Nat

\* How the variables hang together: the reader of a sample fits the version of
\* the datagram, a sample is read only while one is announced, and the starts
\* that lengthCheck measures from lie behind the cursor.
Shape ==
    /\ TypeOK
    /\ kind \in {"flow4", "counters4"} => version \in {2, 4}
    /\ pc \in {"samples", "reading"} => version # 0
    /\ pc = "reading" => samp < samplesInPacket
    /\ pc # "reading" => kind = "none" /\ todo = <<>>
    /\ pc \in {"idle", "down"} => samp = 0 /\ datap = 0
    /\ sampleAt <= datap /\ sStart <= datap /\ eStart <= datap

\* A flow sample, a version 2 or 4 sample and a skipped sample are read inside
\* the datagram, whatever counts, lengths and tags it carries: skipBytes
\* refuses what wraps, and every read compares the cursor with endp.
CursorWithinDatagram ==
    pc = "reading" /\ kind # "counters" => datap <= size

\* In a counter sample of version 5 the cursor may pass the end (the excess of
\* a long DDoS record and the head of an A10 record are stepped over
\* unchecked), but two such steps never add up: a checked read lies between
\* them.  So the cursor stays within one unsigned short of the end.
OverrunBounded == datap < size + Short

\* The records the key-value store is given lie inside the datagram, one
\* behind the other: the length of an A10 record less its head may wrap, and is
\* used before skipBytes judges it.
StoredInsideDatagram == stored <= datap /\ stored <= size

\* A flow sample is accepted only when its elements, by their own lengths,
\* fill it: the lengthCheck of the elements and that of the sample agree.
FlowSampleTiled ==
    [][samp' = samp + 1 /\ kind = "flow" => declared = Pad(sLength)]_vars

\* A DDoS record of another software version, shorter or longer than the
\* structure, is consumed to its own length, per-entry heads included; nothing
\* else checks it, as lengthCheck of counter elements is switched off.
FillConsumesRecord ==
    [][ /\ pc = "reading" /\ todo # <<>>
        /\ Head(todo).op \in {"fill64", "fill32"}
        /\ pc' = "reading" /\ eLength < Short
        => datap' - eStart = eLength ]_vars

\* An A10 record that is stored is consumed to its own length, up to the
\* rounding of skipBytes, so the next element is looked for behind it.
StoredRecordConsumed ==
    [][stored' > stored => /\ eLength <= datap' - eStart
                           /\ datap' - eStart <= eLength + 3]_vars

\* A batch is handed to the time-series database only behind the last byte of
\* its record: the structure was filled from this record and from no other.
ExportedRecordConsumed ==
    [][puts' > puts /\ eLength < Short => datap = eStart + eLength]_vars

\* Every datagram comes to an end, though the counts that drive the loops are
\* arbitrary words: each turn of a loop consumes bytes.
DatagramEnds == pc \in {"samples", "reading"} ~> pc \in {"idle", "down"}

\* Operations that take bytes whenever they succeed; the others may leave the
\* cursor where it is.
Takes(o) ==
    \/ o.op \in {"string", "address", "array", "repeat", "length", "count",
                 "packetData", "counterBlock", "a10", "fill64", "fill32"}
    \/ o.op \in {"fixed", "header"} /\ o.n > 0

\* n operations of the queue come before the first that takes bytes.
IsIdle(n, queue) ==
    /\ \A i \in 1 .. n : ~Takes(queue[i])
    /\ n < Len(queue) => Takes(queue[n + 1])
Idle(queue) == CHOOSE n \in 0 .. Len(queue) : IsIdle(n, queue)

\* What the decoder has left: bytes, as far as the cursor may go, and steps
\* until it takes some of them.
Room  == size + Short - datap
Delay == IF pc = "reading" THEN 1 + Idle(todo) ELSE 0

\* No count the datagram announces (of samples, elements, blocks, words) keeps
\* the decoder from its end: a step that stays in the datagram takes bytes, or
\* comes nearer to one that does.
EveryStepDescends ==
    [][ /\ pc \in {"samples", "reading"}
        /\ pc' \in {"samples", "reading"}
        => \/ Room' < Room
           \/ Room' = Room /\ Delay' < Delay ]_vars

\* However many samples are announced, one is counted for eight bytes at least:
\* the smallest header has 24 bytes, and a sample its tag and a word.
SamplesPaidFor ==
    pc \in {"samples", "reading"} => 24 + 8 * samp <= datap

\* What the decoder promises its caller (see SFlowReceiver).
Receiver == INSTANCE SFlowReceiver WITH
    phase   <- IF pc \in {"samples", "reading"} THEN "decoding" ELSE pc,
    outcome <- IF result \in {"eos", "decode", "length"} THEN "abandoned" ELSE result,
    left    <- samplesInPacket - samp,
    offset  <- IF pc = "reading" THEN sampleAt ELSE datap,
    end     <- size
ImplementsReceiver == Receiver!Spec

=============================================================================
