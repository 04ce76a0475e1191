SPECIFICATION TaggedSpec
CONSTANTS
    Word = 65536
    Short = 8192
    MaxSize = 2048
    Sizes = {200, 1500}
    Versions = {2, 4, 5}
    Addresses = {4, 16}
    Counts = {0, 1}
    Lengths = {4, 16, 40, 68, 88, 101, 108, 128, 268, 312, 1368, 65534}
    FlowReader <- AllFlow
    CounterReader <- AllCounters
    PacketReader <- AllPackets
    ExtendedReader <- AllExtended
    BlockReader <- AllBlocks
    Block <- CountedBlocks
    Structure <- MemberStructure
INVARIANTS
    Shape
    CursorWithinDatagram
    StructureConsumed
PROPERTIES
    FillConsumesRecord
