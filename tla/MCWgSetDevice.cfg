SPECIFICATION FairSpec
CONSTANTS
    k1 = k1
    k2 = k2
    i1 = i1
    i2 = i2
    i3 = i3
    psk = psk
    Unset = Unset
    Absent = Absent
    NoPeer = NoPeer
    Key = {k1, k2}
    Ip = {i1, i2, i3}
    Attr = {psk}
    Devices <- MCDevices
    Kernels <- MCKernels
    BufSize = 9
    MsgSize = 1
    DevSize = 2
    NestSize = 1
    KeySize = 1
    AttrSize = 2
    FlagSize = 1
    IpSize <- MCIpSize
INVARIANTS TypeOK MessageFits EachItemOnce SuccessIsComplete ContinuesFirst
PROPERTIES AppliesInOrder Termination
CHECK_DEADLOCK FALSE
