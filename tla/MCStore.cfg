SPECIFICATION Spec
CONSTANTS
    Objects = {o1, o2}
    MaxRecords = 3
    MaxSecond = 2
INVARIANTS
    ReadsBackOwnRecord
    ObjectBesideRecord
CHECK_DEADLOCK FALSE
