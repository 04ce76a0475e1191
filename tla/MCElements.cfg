SPECIFICATION Spec
CONSTANTS
    Word = 65536
    Short = 8192
    MaxSize = 2048
    Sizes = {160}
    Versions = {5}
    Addresses = {4}
    Counts = {0, 1, 2, 16385}
    Lengths = {12, 16, 24, 44, 56, 57, 76, 80, 8184, 65534}
    FlowReader <- SomeFlow
    CounterReader <- SomeCounters
    PacketReader <- NoReader
    ExtendedReader <- NoExtended
    BlockReader <- NoReader
    Block <- CountedBlocks
INVARIANTS
    CursorWithinDatagram
    OverrunBounded
    StoredInsideDatagram
PROPERTIES
    FlowSampleTiled
    ExportedRecordConsumed
    StoredRecordConsumed
