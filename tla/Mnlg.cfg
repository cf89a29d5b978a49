SPECIFICATION Spec
CONSTANTS
    MaxRequest = 3
    MaxDump = 3
    MaxTime = 2
INVARIANTS TypeOK OwnAnswer NeverEproto NothingLeaks NeverWaitsInVain
CHECK_DEADLOCK FALSE
