SPECIFICATION Spec
CONSTANTS
    MaxRun = 3
    MaxCrash = 3
    MaxFail = 2
INVARIANTS SomethingBoots DefaultIsWhole
PROPERTY RunningUntouched
CHECK_DEADLOCK FALSE
