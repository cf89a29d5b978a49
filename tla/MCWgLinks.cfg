SPECIFICATION FairSpec
CONSTANTS
    N = 4
    Length <- MCLength
    MaxOom = 1
INVARIANTS TypeOK DoubleNul ListsSnapshot NothingLeaks
PROPERTY Returns
CHECK_DEADLOCK FALSE
