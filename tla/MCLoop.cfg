SPECIFICATION FairSpec
CONSTANTS
    MaxTargets = 3
    QueueLimit = 2
INVARIANTS
    ReadsOwnSocket
PROPERTIES
    FailureIsLocal
    EverySocketServed
CHECK_DEADLOCK FALSE
