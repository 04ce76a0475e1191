SPECIFICATION Spec
CONSTANTS
    Formats = {"SFLFMT_NETFLOW"}
    Filters <- SomeFilters
    Versions = {4}
    Frames <- FewFrames
    MaxDatagrams = 1
    MaxSamples = 2
    MaxElements = 2
INVARIANTS
    PduLengthOfUdpOnly
CHECK_DEADLOCK FALSE
