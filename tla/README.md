# sflowtool: a TLA+ development

`sflowtool` (this repository, `src/src/sflowtool.c`) is a single-threaded
collector: it receives sFlow datagrams of version 2, 4 and 5, decodes them, and
prints them, exports them (NetFlow, tcpdump, one line per sample) or, in this
fork, hands A10 DDoS counters to an OpenTSDB server and to a LevelDB store.
These modules model the whole path of a datagram: the sockets and capture files
it comes from, the decoder, what a sampled packet header is taken to be, the
filter and the fields that are exported, and the two back ends. The decoder is
the part everything else hangs on: it is driven by counts and lengths taken from
the wire, and most of what it relies on is enforced far from where it is needed.

Contents: 1 inventory, 2 modules and their correspondence with the code,
3 properties and runs, 4 bounds and scaling, 5 fairness, 6 proofs, 7 what is not
modelled, 8 what is left.

## 1. Inventory

| component | state | operations | interacts with |
|---|---|---|---|
| receiver loop: `main`, `readPacket`, forwarding | sockets, `readfds`, forwarding targets | select, recvfrom, forward or decode | decoder (call) |
| pcap reader: `readPcapHeader`, `readPcapPacket` | file, byte order | read a packet, find the datagram in it | decoder (call) |
| decoder: `receiveSFlowDatagram`, `readSFlowDatagram`, the four sample readers, the cursor primitives | `SFSample` (cursor `datap`, end `endp`, context length, decoded fields), the C stack, `jmp_buf` | read a word, skip, begin and end samples and elements, abort (`SFABORT`, a longjmp) | record readers (calls), back ends (calls in the middle of a record) |
| record readers: `readExtended*`, `readFlowSample_*`, `readCounters_*` | fields of `SFSample`, `sample->ddos` | one straight program over the cursor each | cursor, back ends, header decoder |
| header decoder: `decodeLinkLayer`, `decodeIPV4`, ... | `gotIPV4`, offsets, ports | decode the sampled header | flow export (fields) |
| flow export: `sendNetFlowDatagram`, `writePcapPacket`, `writeFlowLine` | `NFFlowSequenceNo`, output socket | export a flow sample that was accepted | decoder (called at the end of a sample) |
| OpenTSDB client: `opentsdb_simple_connect` | `g_opentsdb_sock`, `g_opentsdb_socket_connected`, `tsdb_buff` | connect, send, reconnect and send once more | record readers |
| LevelDB store: `leveldb_simple_write_data`, `leveldb_simple_read_data`, `write_object_id` | two databases, LevelDB's lock | open, put or get, close | `readCounters_a10_4_1_n_generic` |
| command line and vlan filter | `sfConfig` | parse, accept or reject a sample | everything (read only) |

Nothing runs concurrently inside the process (`pthread_func` is never started).
What is hard is therefore not interleaving but *sequence*: a long chain of
individually legal reads, skips, length checks and early returns, driven by
arbitrary words, that must neither leave the datagram, nor lose its place in it,
nor spin; and *partial failure*: a longjmp out of the middle of a record after
part of it has already reached a database.

What makes each component correct:

- decoder: the cursor stays in the datagram, or leaves it by a bounded amount
  where the code steps unchecked; samples and elements are taken in order and
  accepted only if they fill their lengths; every datagram ends.
- record readers: each consumes exactly its record, the DDoS readers for any
  relation between the record's length and the structure's, the readers that go
  member by member for a record as long as its structure.
- back ends: what they are given comes from inside the record it is said to come
  from; batches are taken in order and none twice; a stored record can be read
  back and has its object beside it.
- header decoder: the IPv4 header and the ports are read inside the sampled
  bytes, and the walk over IPv6 extensions ends.
- export: an exported flow carries fields of its own sample where it matters.
- receiver loop: only sockets that were opened are read, each of them is served,
  and an error of one target does not cost the others the datagram.
- pcap reader: it stays in step with the file, and finds the datagram inside the
  packet, where the header decoder would find its IP header.
- vlan filter: the last mention of a vlan decides, the first option the rest.

The hazards, each at its line, are listed in `PROJECT.json`.

## 2. Modules

| module | models |
|---|---|
| `SFlowRecords` | every record reader as a sequence of cursor operations, under its C name, and the tables from tags to readers |
| `SFlowDecode` | the decoder: state, one action per cursor operation, element, sample and datagram step, properties |
| `SFlowFixed` | what it is for a reader to go through a structure member by member; the table of structures as a constant, for the next two |
| `SFlowPrograms` | what the readers of a record have in common, as assumptions on the tables: flow readers move in words, blocks begin with a read, readers of fixed records read the structure's members, DDoS readers balance heads and context updates |
| `SFlowStructures` | the decoder with the tag of the current element (`tag`), which no step depends on, against the structures of records of fixed size |
| `SFlowReceiver` | abstract specification: what `receiveSFlowDatagram` promises `readPacket` |
| `RecordSizes` | the structures of `sflow.h` and `sflowtool_ddos_ext_v1.h`, each by its size on the wire, and which of them the record of a tag is |
| `OpenTsdb`, `TsdbFeed` | the OpenTSDB client, and the abstract feed it implements |
| `LevelDbStore` | what happens to an A10 record in the two databases |
| `SFlowExport` | which element of which sample each field that is written out comes from |
| `LinkLayer` | pure operators: from the link layer of a frame to its IP header |
| `PacketHeader` | the decoder of a sampled header, on top of `LinkLayer` |
| `PcapReader` | the capture file, and the walk to the datagram in a packet |
| `ReceiverLoop` | start-up, select, reading, forwarding |
| `VlanFilter` | the options `+v` and `-v` with their lists |
| `MCSFlowDecode`, `MCRecords`, `MCSFlowExport`, `MCPacketHeader`, `MCPcapReader` | values of the constants for TLC; `MCRecords` adds `SFlowStructures`, the assumptions of `SFlowPrograms`, and the UDP indicators, whose reader and structure differ |
| `SFlowDecode_proofs` | the theorems about the decoder: `Shape`, what is stored, where the cursor may go, whole counter records and flow samples, the descent of every step, records of fixed size, the refinement of `SFlowReceiver` |
| `OpenTsdb_proofs`, `LevelDbStore_proofs`, `SFlowExport_proofs`, `ReceiverLoop_proofs`, `PacketHeader_proofs`, `PcapReader_proofs`, `VlanFilter_proofs` | the theorems about these modules |

How they fit together: `ReceiverLoop` and `PcapReader` hand a datagram to the
decoder and see of it only what `SFlowReceiver` says, that it returns or ends the
process. `SFlowDecode` runs the readers of `SFlowRecords`; its `PutBatch` is one
call of `OpenTsdb`, its `StoreA10` one record of `LevelDbStore`, its operation
`header` one run of `PacketHeader`, and an accepted flow sample one output of
`SFlowExport`. `PacketHeader` and `PcapReader` share `LinkLayer`, where the two walks
to the IP header stand side by side. One run of all modules at once is out of
TLC's reach; `SFlowReceiver` and `TsdbFeed` are the interfaces at which they are
cut.

### The decoder

**The wire.** A datagram is `size` bytes and `datap` an offset in it. The cursor
only moves forward, so no byte is read as two different things, and its value is
chosen when it is read. Only counts, lengths, tags and address types are chosen;
all other words are stepped over. One thing is lost: the values are
unconstrained by each other, which only adds behaviours.

**The stack.** `todo` is the sequence of cursor operations the current sample has
still to perform. A reader is data (`SFlowRecords`), executed by the actions of
`SFlowDecode`: `fixed` is any run of `getData32`, `getData64`, `getData16`,
`getData_u8`, `getData8` and `skipBytes` of a constant; `string` is `getString`
and `address` is `getAddress`; `array` is a counted array skipped in one go and
then walked (`mplsLabelStack`, `communities`, `dst_as_path`); `repeat` and
`iterate` are counted loops (`readExtendedGateway`, `readCounters_adaptors`,
`readCounters_DDOS_IP_COUNTER`); `fill64` and `fill32` are
`populate_sflow_struct_u64` and `_u32`; `context` is `sfl_ddos_update_ctx_len`;
`a10` is `readCounters_a10_4_1_n_generic`; `put` is `opentsdb_simple_connect`;
`lookup` is an unchecked table index; `skip` is `skipTLVRecord`. Runs of fixed
reads are joined: between two checked reads that both succeed nothing else
happens, and if one fails the datagram is dropped either way.

**SFABORT** longjmps to `receiveSFlowDatagram`, and the `SFSample`, a local of
`readPacket`, is gone: `Finish(code)` returns every variable to its initial
value. `custom_exit` and wild memory accesses are `Halt`; as every reader prints
what it reads, and a print that fails ends the process, `OutputFails` may do so
in every state, and `PutBatch` may when SIGPIPE is not ignored. Undefined behaviour
that need not end the process (a table index out of range, blocks stored past the
end of an array, a walk the compiler may drop) is a choice between `Halt` and
going on.

**Order inside the primitives.** `skipBytes` moves the cursor before it compares,
and rounds the length on 32 bits; `CanSkip` and `Pad` keep both. `getData*` read
before they compare; the read of up to four bytes behind the end stays in the
receive buffer or just behind it and changes nothing, so it is not modelled.

### The other modules

**OpenTsdb.** `connected` and `sock` are the two globals
`g_opentsdb_socket_connected` and `g_opentsdb_sock`; `open` is the set of
descriptors the process has open, which the code does not keep. `Call`, `Connect`,
`SendTakes`, `CloseAndRetry` and `Reconnect` are the steps of
`opentsdb_simple_connect`: a socket or a connection may be refused, a send may
take the batch or part of it, or fail, and one failure is tried again on a new
connection. `peer` is what the network has of the connection: the server may
close it, after which one send still goes through and is lost, and the next
finds it reset. `taken` records what was sent. A batch is a number.

**LevelDbStore.** The four calls `readCounters_a10_4_1_n_generic` makes of a record,
each of which opens a database, puts or gets, and closes it. An open may fail for
reasons outside the process, and always does while this process has left the
database open (`lost`). A record's value is its number, its key its object and
the second it was read in.

**SFlowExport.** The `SFSample` as a function from its fields to where they come
from: 0 when a field is zero, else the number of the element that set it;
elements are numbered as they are read. Each element is one operator that says
which fields it sets and which it zeroes; the end of a sample filters and writes
out. What is kept of a sampled header is what decides which fields it sets. `Fields`
leaves out what every sample or datagram sets anew (agent, interfaces, rate).
The socket elements put their addresses in the place of the packet's, but not
their ports. `clf` is the record of the common log format, which is kept beside the
`SFSample` and survives the datagram; a counter sample of vlan counters writes the vlan the filter reads.

**LinkLayer, PacketHeader.** A frame is described by what its bytes say: vlan tags,
encapsulation, type, IP version and header length. Positions are byte offsets.
Where the decoder reads at a place at which no field begins, what it reads is
arbitrary.

**PcapReader.** The file is a position and the place where the next record begins.
Words are two digits of base `Half`, so that a swapped word is a different
number; the pad is the user's. `readPcapPacket` is the actions for the record header, the pad,
the body and the packet; every read may be the last of the file.

**ReceiverLoop.** The environment sends datagrams into a queue per socket, takes one
back between select and recvfrom (a bad checksum), and interrupts select.
`readfds` is what select left in the set. Forwarding goes target by target, and
each `sendto` may fail.

**VlanFilter.** The options and the items of their lists from left to right, each
number kept in a word of `Word` values.

## 3. Properties and runs

| property | says | run |
|---|---|---|
| `Shape` | variables hang together: reader and version, announced samples, starts behind the cursor | `records` |
| `CursorWithinDatagram` | flow samples, version 2 and 4 samples and skipped samples are read inside the datagram | `elements`, `records` |
| `OverrunBounded` | in version 5 counter samples the cursor passes the end by less than one unsigned short: two unchecked advances never add up | `elements` |
| `StoredInsideDatagram` | all bytes given to LevelDB lie inside the datagram one behind the other, although the length they are computed from may wrap | `elements` |
| `FlowSampleTiled` | an accepted flow sample is filled by its elements' own lengths | `elements` |
| `FillConsumesRecord` | a DDoS record shorter or longer than its structure, common head included, is consumed to its own length | `records` |
| `StoredRecordConsumed` | an A10 record that is stored is consumed to its length, up to rounding | `elements` |
| `ExportedRecordConsumed` | a batch goes to OpenTSDB only behind the last byte of its record | `elements` |
| `ImplementsReceiver` | the decoder implements `SFlowReceiver` | `receiver` |
| `EveryStepDescends` | no announced count keeps the decoder busy: each step takes bytes, or comes nearer to one that does | `receiver` |
| `SamplesPaidFor` | however many samples are announced, each one counted took eight bytes at least | `receiver` |
| `DatagramEnds` | every datagram comes to an end | `receiver` |
| `StructureConsumed` | a record as long as its structure is consumed exactly, by every reader that goes member by member | `records` |
| `UdpIndicatorsConsumed` | the same of the UDP indicators: violated | `structures_udp` |
| `TypeOK` | flag, descriptor and place in the call agree: a send is tried on a connection only | `tsdb` |
| `DescriptorKept` | however the server fails, no descriptor is left behind and the flag is right | `tsdb` |
| `InOrder` | batches are taken in order and none twice, although a failed send is tried again | `tsdb` |
| `RetryIsEnough` | a call fails only if a connection was refused or the one just made broke | `tsdb` |
| `SurvivesServer` | with the time-series output no closed connection ends the process | `tsdb` |
| `ImplementsFeed` | the client implements `TsdbFeed` | `tsdb` |
| `ReadsBackOwnRecord` | what is printed behind a record is that record, also when two records of an object fall into one second | `store` |
| `ObjectBesideRecord` | a stored record has its object beside it: an entry that could not be written is made up for | `store` |
| `ForgottenBetweenDatagrams` | what is exported comes from the datagram it is exported for | `export` |
| `AsPairConsistent` | source and destination AS come from one gateway element | `export` |
| `VlansOfOwnSwitch` | a sample with a switch element is filtered and written by its own vlans, not an earlier sample's | `export` |
| `CLFOfOwnSample` | a line of the common log has the request and the client of one sample | `export` |
| `OwnIPv4Exported` | a sample with an IPv4 header is exported exactly when it should be, with that header's protocol, type of service and ports; the addresses are the header's unless a socket element follows it | `export` |
| `OwnUdpExported` | a UDP packet is exported with its own length and payload offset | `export` |
| `ReadsOwnSocket` | only a socket that was opened is read, and the process does not run without one | `loop` |
| `FailureIsLocal` | every target is tried for every datagram, whichever fail | `loop` |
| `EverySocketServed` | a datagram waiting at an open socket does not wait for ever | `loop` |
| `IPv4InsideHeader` | an IPv4 header that is found lies inside the sampled bytes, also behind tags and SNAP | `header` |
| `PortsInsideHeader` | the ports are read inside the sampled bytes, whatever lengths were met on the way | `header` |
| `PayloadBounded` | the payload offset leaves the sampled bytes by 52 bytes at most | `header` |
| `DecodeEnds` | the walk over IPv6 extensions comes to an end | `header` |
| `Aligned` | a record is read where the file has one, whatever was cut short before it | `pcap` |
| `FoundInsidePacket` | what is handed to the decoder lies inside the packet, with its size | `pcap` |
| `AgreesWithLinkLayer` | the walk to the datagram goes by the IP header `decodeLinkLayer` finds | `pcap` |
| `LastMentionWins` | the last item that names a vlan decides | `vlan` |
| `DefaultFromFirstOption` | the first option decides for vlans no item names | `vlan` |
| `PduLengthOfUdpOnly` | only UDP packets are counted by `udp_pduLen`: violated | `export_length` |

`FillConsumesRecord` and `ExportedRecordConsumed` hold for lengths below 2^16
only (`eLength < Short`): `parse_length` is an unsigned short, so a longer
record is truncated. A datagram has at most 2^16 - 1 bytes, so such a record
could not be whole, but the code does not notice; the overrun stays bounded all
the same, which is what `OverrunBounded` shows.

Every property of a passing run has a mutant in `PROJECT.json`: the code with a
plausible slip (a dropped check, a length not reduced, an off-by-one in the
sample loop, a flag not cleared) under which the run reports it violated.

The decoder's process may stop (`Halt`); `Ended` is a self-loop, so TLC's deadlock
check is on in the runs of `SFlowDecode` and shows that the decoder never gets
stuck otherwise. `CHECK_DEADLOCK FALSE` is said where the system may really stop:
`tsdb`, `store` and `export` at their bounds, `pcap` at the end of the file,
`vlan` when the options are read, `loop` when the process exits, and `header` when
the header is decoded.

### Divergences

Two runs show where the code does not do what a comment or a structure says.

- `structures_udp`: `readCounters_DDOS_DST_UDP_INDICATORS` (sflowtool.c:4803) and
  `readCounters_DDOS_DST_INDICATORS` pass over the member `concurrent_conns` of the
  structure (sflowtool_ddos_ext_v1.h:1850): 20 bytes of the record are left, and as
  the length check of counter elements is switched off (7500) they are read as
  the next element.
- `export_length`: `udp_pduLen` is meant for UDP packets only (1607), but nothing clears
  it between the samples of a datagram: a TCP packet behind a UDP packet's sample
  is exported with the length of the UDP packet (1612).

The modules have the code as it is. Other places where it and its comments,
change log or evident intent part, and which are modelled so:

- `gotIPV4` is cleared by two of the header protocols only, so a sample without an
  IPv4 header may be exported on the strength of an earlier one (2472, 3261).
- `out_vlan` is left as it is by a sample without a switch element, though it is said to
  be 0 then (712, 718).
- A short send leaves half a batch, the call succeeds, and the next batch is glued
  to it (8444): `InOrder` and `TsdbFeed` speak of order and repetition, not of whole
  batches. A send that failed took nothing, so the retry does not duplicate.
- `pcapOffsetToSFlow` returns -1 when it gives up, and the result is added to the
  buffer all the same (7956): `FoundInsidePacket` is about offsets that were found.
- A version 5 sample with the IPv4 structure and no header is not exported to NetFlow.
- A socket element behind a header replaces the addresses that are exported, while
  the ports stay the header's (2803-2806, 2850-2854).
- `offsetToPayload` of an earlier sample is used for a packet that has no layer 4 (1385).
- An IPv6 socket that cannot be created ends the process before IPv4 is tried
  (7704); one that cannot be bound does not.
- An IPv6 extension is skipped two bytes short (1286-1287), so that with extensions
  the ports are mostly read from the wrong place.
- The destination address of a wireless frame is copied from the source (1101).
- The payload offset may lie beyond the header (1148).
- An exclude list that comes first leaves the last entry of the array out (8245-8246).
- A database is left open by a failed put or get (8553), and cannot be opened again
  by this process. What the store promises below it holds all the same. write_object_id takes
  a return value for more than it says (3330): it writes the object every time,
  which is what makes `ObjectBesideRecord` hold.

## 4. Bounds and scaling

Decoder. TLC's integers have 32 bits, so `Word` is 65536 (for 2^32), `Short` is
8192 (for 2^16) and `MaxSize` 2048 (for 65536). What the code relies on is the order
`MaxSize <= Short`, `4 * Short < Word` and that lengths are rounded to multiples
of four; these are kept, and are the assumption `SizeAssumption` of the proofs,
which hold for every value that satisfies it, the real ones included.

- `Lengths` holds the exact lengths of the records of the run, lengths that are
  not multiples of four, one shorter and one longer than a structure, zero-skip
  lengths near `Word` (65534 rounds to 0), and one near `Short`.
- `Counts` holds 0, 1, 2 and, in `elements`, 16385, which times four wraps to 4.
- `Sizes` are chosen so that a whole sample fits, and that it is cut short.
- Nested counts, two elements and, in `receiver`, two samples are enough for one
  record to misplace the next, for two unchecked advances to follow each other,
  and for the cursor of one sample to be the start of another. `records` takes
  one element per sample, with every reader of every version.
  Among the lengths are those of structures of every sort (4 to 268 bytes), so that
  `StructureConsumed` is checked for them; that the readers of all structures go
  through all members is `StructureAssumption`, which the run evaluates, and the
  rest a theorem.

Other modules:

- `tsdb`: `MaxBatches = 4`, with any number of server failures between: one batch to
  make the connection, one that is lost on a closed one, one that finds it reset
  and is tried again, and one after that.
- `store`: two objects, three records, the clock up to 2: records of one object in
  one second and in two, with another object between, and a failure before, in
  or after any of them.
- `export`: two samples, of up to two elements, in up to two datagrams, every
  output and version, with ten sampled headers and two vlan filters. Staleness needs one
  sample to leave a field and one to find it; the elements of one sample may come
  in either order. `export_length` takes version 4 and three headers.
- `loop`: every set of listening options, none to three targets, two datagrams in
  each queue.
- `header`: frames of lengths around each check, up to two tags, chains of up to three
  extensions; where the walk is out of step it reads extension lengths of 0, 1
  and 255 units.
- `pcap`: two records, so that one misplaces the next; cuts of 0 and 14 bytes, pads
  of 0 and 8, `Half = 16`, frames around the lengths of the checks.
- `vlan`: two options of two items, `MaxVlan = 3` and `Word = 8`, so that 9 wraps to 1 and
  4 is beyond the array.

Sizes of the graphs, in distinct states: `elements` and `export` about
nine million, `records` four million, `vlan` 0.2 million, `receiver` 60 thousand,
`header` 19 thousand, `loop` 6 thousand.

## 5. Fairness

`FairSpec` of `SFlowDecode` is `Spec` with weak fairness of `Step`, the next step of the decoder
while it decodes. The code justifies it: one thread runs from `readPacket` to its
return and waits for nothing but the two back ends. `connect` and LevelDB calls may
be slow but return; `send` has MSG_DONTWAIT. Nothing is assumed of the arrival of
datagrams (`ReceiveDatagram`), and `DatagramEnds` speaks only of datagrams that
have arrived. What ends the loops is not fairness but that each turn consumes
bytes. In the run the counts are small, so what it shows is that from every state
the decoder goes on to the end of the datagram, without a step that is repeated
for ever (the mutant has one) and without a state it cannot leave. That the work
is bounded by the bytes and not by the words that count samples, elements and
blocks is proved for all counts: `EveryStepDescends` gives every step a pair of
numbers to lower, and `NoEndlessDatagram` draws the conclusion. What is left to
fairness is that the decoder is scheduled at all.

`FairSpec` of `ReceiverLoop` has weak fairness of the steps of the process: opening the
sockets, select, testing and reading each socket. It says that the process is
scheduled, and that select is not interrupted every single time. Nothing is
assumed of the environment: that datagrams arrive, are taken back, or are sent
without failure. `EverySocketServed` then rests on the code: both descriptors are
put in the set before each select, both are tested after it, and the read does not block
when the kernel has taken the datagram back. This is proved with a bound
(`ServedWithinTwoRounds`); TLC adds that the steps are taken.

`FairSpec` of `PacketHeader` has weak fairness of `Next`: a function that is called
goes on. `DecodeEnds` rests on the position growing with each extension.

## 6. Proofs

TLAPS proves, for every value of the constants that satisfies the modules'
assumptions:

**Decoder** (`SizeAssumption`, and `ReaderAssumption`: readers are sequences of
operations; flow, version 2 and 4 and block readers use checked operations only;
an A10 reader is its first operation):

- `ShapeCorrect`, `TypeCorrect`: `Spec => []Shape`. `Shape` is inductive as it
  stands; one step per action.
- `StoredCorrect`: `Spec => []StoredInsideDatagram`. `stored` grows in `StoreA10`
  only, where `CanSkip` has just succeeded; when the length wrapped, `skipBytes`
  refuses it because it exceeds the datagram (`StoreInside`). All other steps
  leave `stored` and do not move the cursor back.
- `CursorCorrect` and `OverrunCorrect` rest on `BoundedCorrect`. Neither property
  is inductive: whether the cursor may pass the end again depends on what the
  decoder has still to do. `Bounded` says which operations are left when the cursor is
  inside, or beyond by how much: an unchecked advance is possible only after a
  checked read or with room left for it.
- `ReceiverImplemented`: `Spec => ImplementsReceiver`, by the invariant
  `Progress` (the cursor is past the tag of the current sample, and past a word more
  once its head is read) and the classification of the steps (`StepKinds`): a step gives up, stops, begins a sample, ends one or
  moves inside one; ends map to `TakeSample`, and the moves inside to stutters.

- `StoredConsumed`: `Spec => StoredRecordConsumed`. `Bounded` also remembers that an
  A10 record at the head of the queue has not been touched: the cursor is at the
  element's start and the context is the whole length. If the length is shorter
  than the head, what is left wraps to almost `Word` and `skipBytes` refuses it.

The next theorems are about whole records, and need more of the readers than
`ReaderAssumption`. `SFlowPrograms` states it of the tables:

- `AlignmentAssumption`: readers of flow records and counted blocks consist of
  operations that move in words (each `fixed` a multiple of four bytes);
- `BlockAssumption`: a counted block begins with an operation that takes bytes;
- `StructureAssumption`: the reader of a tag that has a structure in `Structure` goes
  member by member, and its members add up to the structure;
- `BalanceAssumption`: a counter reader either fills no structure and hands
  over no batch, or fills one of whole units, with at most a batch behind it, and
  takes off the context in front of the fill exactly what it reads there.

All are statements about finite tables. `MCRecords` extends `SFlowPrograms`, so TLC
evaluates them in the run `records` on all readers of `SFlowRecords` and the
structures of `RecordSizes`; a reader that forgot its common head, or took it off
twice, would fail `BalanceAssumption`, and one that misses a member
`StructureAssumption`.

- `FillCorrect` (`FillConsumesRecord`) and `ExportedCorrect`
  (`ExportedRecordConsumed`) rest on `AccountCorrect`. Both properties speak of one step, and
  neither is inductive: what a fill consumes depends on the context length it
  finds, and that on every operation before it. `Account` says, in every state inside a record,
  that the cursor and the context together account for the record,
  `datap + due + ctx = eStart + eLength`, where `due` is what the operations in front of the
  fill still move the cursor ahead of the context; that nothing
  is left to fill; or that the fill is done and the record consumed. At the fill `due` is 0, so
  the context is exactly the rest of the record, and `FillExact` does the
  arithmetic of shorter and longer records. `Due`, like the members
  of a structure, is a recursive function, of which the provers know nothing
  until it is shown to exist. `SumsRecurrence` shows it once for all sums over a
  queue (`SumsTo`): if some queue had none, there would be a least length at which the sums
  from the back do not exist (`LeastNumber`, from the order of the naturals being
  well-founded), and `SuffixSums` extends those one shorter.
- `TiledCorrect` (`FlowSampleTiled`) rests on `TilingCorrect`. `Tiled` follows a flow
  sample through its head, between its elements and inside one: what is declared so far is what
  was read up to the start of the current element. The length checks compare rounded
  lengths; that rounding loses nothing is where the alignment of the readers is
  needed (`ReaderStep`, `PadFours`), and that the lengths do not wrap is where `Bounded` is.

- `DescentCorrect` (`EveryStepDescends`) is the safety half of `DatagramEnds`. `Room` is what
  is left of the datagram with the bytes an unchecked advance may add; `Delay` is how many
  operations at the head of the queue take nothing, one more inside a sample. A step either takes bytes,
  and lowers `Room`, or only puts aside an operation that takes none, or ends a
  sample, and lowers `Delay`. Loops are why `Delay` counts up to the next
  operation that takes bytes only: a turn prolongs the queue, but begins with a
  read (`BlockAssumption`). That `Room` is a natural number is `Bounded` again.
  `NoEndlessDatagram`: there is no endless sequence of such steps, the
  lexicographic order of the two being well-founded.
- `PaidCorrect` (`SamplesPaidFor`): the invariant `Paid` says it, inside a sample, of the
  sample's start, so that the sample's own tag and first word pay for it at its end.
- `StructureCorrect` (`StructureConsumed`), for any table of structures:
  `TaggedSpec` implies `Spec`, so `Shape` and `Bounded` can be used, and the invariant
  `Members` says that the cursor and the members still in the queue make up the
  record, as long as the element has the length of its structure.

`MCSFlowDecode` instantiates the assumptions, so TLC checks that the readers of
`SFlowRecords` satisfy `ReaderAssumption` too. `Account` and `Tiled` are about queues of
operations, which lose the operation done at the front and gain a reader's
operations there; the lemmas on queues (`ConcatIndex`, `TailIndex`, `AwaitsTail`,
`ClosedConcat`, ...) state this index by index.

**OpenTsdb** (any number of batches): `TypeCorrect`, `DescriptorsCorrect`, `OrderCorrect`,
`RetryCorrect`, `SurvivalCorrect`, and `FeedImplemented`, the refinement of `TsdbFeed`. The
invariant adds `TakenBefore` (what was taken belongs to earlier calls until the
current one returns, which is why the retry cannot repeat a batch) and `FreshQuiet` (a
connection made in this call has taken nothing yet).

**LevelDbStore** (any objects, clock and number of records): `ReadBackCorrect`, `ObjectCorrect`.
The invariant adds that the databases left open are exactly those
a put or get failed in, that each call of the current record has done its part
unless its database was refused, and that every earlier record is in order.

**SFlowExport** (any frames, versions, outputs, filters and numbers of samples and elements):
`TypeCorrect`, `ForgottenCorrect`, `AsPairCorrect`, `LogCorrect`, `OwnIPv4Correct`, `OwnUdpCorrect`,
`VlansCorrect`. The invariant adds that what is zero or of this datagram stays so,
that the log record is of the current sample as soon as it is valid (`Log`), and, for what
the current sample's last packet data were, which fields are that element's own, or
in the case of the addresses a later socket element's (`Seen`). For `VlansCorrect` the property is needed of
the first element as well (`OwnVlans`).

**PacketHeader** (any frames, tags, extensions, and whatever is read out of step):
`IPv4InsideCorrect`, `PortsInsideCorrect`, `PayloadCorrect`. The three are inductive
together with the ranges of the positions and the fact that nothing is stored before layer 4
(`Stages`). `WalkCorrect` is the safety half of `DecodeEnds`: every extension lowers the number
of bytes left by six at least, and the walk goes on only while some are left, so that only
the fairness of the steps is left to TLC.

**ReceiverLoop** (any number of targets and any queue): `TypeCorrect`, `SocketsCorrect`,
`ForwardingCorrect`. The invariant adds that the process has a socket once it is
started (`Started`) and that the targets before the current one were reached or
missed (`Walk`). `ServedWithinTwoRounds` is the safety half of `EverySocketServed`, and
says more: `Turn(f)` bounds the steps until the socket `f` is read, by two rounds
of the loop, `2 * (2 * Targets + 7)`. Every step of the loop lowers it while a
datagram waits at `f`; arrivals, also at the other socket, datagrams taken back
and interrupted selects leave it as it is.

**PcapReader** (any file, packets, pads and word size): `AlignedCorrect`, `FoundCorrect`, and
`WalksCorrect`, that the two walks to the IP header agree. The invariant says how many
bytes are left to the next record in each state (`InStep`) and that the program
has the lengths as they were captured (`Captured`), which rests on a swapped word
being itself when swapped again (`SwapTwice`).

**VlanFilter** (any options, lists, numbers and size of the array): `LastMentionCorrect`,
`DefaultCorrect`. The invariant adds the flag of the first option, which the
program forgets but its first item remembers (`FirstFlag`), and that each option has an item
(`Order`).

Only model-checked: `DatagramEnds`, `EverySocketServed` and `DecodeEnds`, as liveness under
fairness is out of the prover's reach. Of each the safety half is proved
(`NoEndlessDatagram`, `ServedWithinTwoRounds`, `WalkCorrect`): a measure that every step lowers.
That the readers satisfy the assumptions is also TLC's part: they are finite
tables, and evaluating them is the proof. All other properties of the passing runs
are theorems.

## 7. Not modelled

- The spoofing form of NetFlow (`sendNetFlowDatagram_spoof`): the same record behind a
  raw IP header. The lines for counter samples (`writeCountersLine`).
- Command-line options other than the filter, and `addForwardingTarget`: they are the
  initial states and constants of the other modules (sockets listened on,
  number of targets, output format, pad).
- In the decoder: values of fields that do not steer it, the text that is
  printed, the contents of batches and stored records, `tsdb_buff` overflowing, and
  memory leaked by an early return.
- Logging and formatting; functions that are not called; the trial program
  `src/src/fzz.c`; the scripts and the generated build files.

Three hazards in `PROJECT.json` have no property, each with its reason: tables and
buffers indexed or filled beyond their ends are undefined behaviour, of which the
models let the process end or go on, or read what is arbitrary; and version 5
counter lines print fields nothing fills, which is plain from the code.

Others have properties that cover a part, and a note that says which. Of the
following the modules have what the code does, and no property forbids it: records
and batches handed over before their sample is refused stay where they are
(3409, 5194); a sample is exported on an earlier one's flag, or filtered by its
vlans (2472, 714); the next batch is glued to a short one (8444); SIGPIPE is ignored with
the time-series output only (8289); the offset -1 is used (7956); a database left open
by a failure stays so (8553); and the later record of a second replaces the
earlier (3400).

## 8. What is left

The spoofing form of NetFlow and the counter lines, as further outputs of `SFlowExport`.
