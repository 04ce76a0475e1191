SPECIFICATION Spec
CONSTANTS
    Formats = {"SFLFMT_NETFLOW", "SFLFMT_PCAP", "SFLFMT_LINE", "SFLFMT_CLF"}
    Filters <- SomeFilters
    Versions = {2, 4, 5}
    Frames <- SomeFrames
    MaxDatagrams = 2
    MaxSamples = 2
    MaxElements = 2
INVARIANTS
    ForgottenBetweenDatagrams
    AsPairConsistent
    VlansOfOwnSwitch
    CLFOfOwnSample
PROPERTIES
    OwnIPv4Exported
    OwnUdpExported
CHECK_DEADLOCK FALSE
