SPECIFICATION FairSpec
CONSTANTS
    Word = 65536
    Short = 8192
    MaxSize = 2048
    Sizes = {3, 68, 100}
    Versions = {4,5}
    Addresses = {4}
    Counts = {0, 1, 2}
    Lengths = {0, 2, 44, 57, 80}
    FlowReader <- FewFlow
    CounterReader <- FewCounters
    PacketReader <- FewPackets
    ExtendedReader <- FewExtended
    BlockReader <- FewBlocks
    Block <- CountedBlocks
INVARIANTS
    SamplesPaidFor
PROPERTIES
    EveryStepDescends
    ImplementsReceiver
    DatagramEnds
