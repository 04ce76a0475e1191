SPECIFICATION Spec
CONSTANTS
    MaxVlan = 3
    Numbers = {0, 1, 2, 3, 4, 9}
    Word = 8
    MaxOptions = 2
    MaxItems = 2
INVARIANTS
    LastMentionWins
    DefaultFromFirstOption
CHECK_DEADLOCK FALSE
