SPECIFICATION FairSpec
CONSTANTS
    Headers <- SomeHeaders
    OptionUnits = {0, 1, 255}
INVARIANTS
    IPv4InsideHeader
    PortsInsideHeader
    PayloadBounded
PROPERTIES
    DecodeEnds
CHECK_DEADLOCK FALSE
