SPECIFICATION Spec
CONSTANTS
    MaxRun = 1
    MaxCrash = 0
    MaxFail = 0
INVARIANT TargetNotMounted
CHECK_DEADLOCK FALSE
