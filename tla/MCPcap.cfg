SPECIFICATION Spec
CONSTANTS
    Frames <- SomeFrames
    Cut = {0, 14}
    Pads = {0, 8}
    Half = 16
    MaxRecords = 2
INVARIANTS
    Aligned
    FoundInsidePacket
PROPERTIES
    AgreesWithLinkLayer
CHECK_DEADLOCK FALSE
