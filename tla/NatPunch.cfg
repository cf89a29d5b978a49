SPECIFICATION FairSpec
CONSTANTS
    c1 = c1
    c2 = c2
    c3 = c3
    NoKey = NoKey
    NoAddr = NoAddr
    Client <- MCClient
    Peers <- MCPeers
    MaxEntries = 2
    Wrap = 4
    MaxLoss = 1
    MaxDup = 1
    MaxRestart = 1
    MaxRebind = 1
    MaxFail = 1
    MaxFaults = 1
INVARIANTS OneEntryPerKey EvictsOldest EndpointIsPeers
PROPERTY AllMeet
CHECK_DEADLOCK FALSE
