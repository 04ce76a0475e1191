SPECIFICATION TaggedSpec
CONSTANTS
    Word = 65536
    Short = 8192
    MaxSize = 2048
    Sizes = {700}
    Versions = {5}
    Addresses = {4}
    Counts = {1}
    Lengths <- UdpSizes
    FlowReader <- NoReader
    CounterReader <- UdpCounters
    PacketReader <- NoReader
    ExtendedReader <- NoExtended
    BlockReader <- NoReader
    Block <- CountedBlocks
    Structure <- MemberStructure
INVARIANTS
    UdpIndicatorsConsumed
