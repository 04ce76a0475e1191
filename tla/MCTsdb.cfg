SPECIFICATION Spec
CONSTANTS
    MaxBatches = 4
INVARIANTS
    TypeOK
    DescriptorKept
    InOrder
    RetryIsEnough
    SurvivesServer
PROPERTIES
    ImplementsFeed
CHECK_DEADLOCK FALSE
