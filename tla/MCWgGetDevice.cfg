SPECIFICATION FairSpec
CONSTANTS
    NULL = NULL
    k1 = k1
    k2 = k2
    i1 = i1
    i2 = i2
    i3 = i3
    Key <- MCKey
    Ip <- MCIp
    Configs <- MCConfigs
    MaxChange = 2
    MaxSignal = 1
    MaxOom = 2
INVARIANTS TypeOK ReturnsSnapshot ReturnsNoForeignIp NothingLeaks CoalesceSafe
PROPERTY ReturnsIfCalm
CHECK_DEADLOCK FALSE
