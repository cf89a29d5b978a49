SPECIFICATION Spec
CONSTANTS
    p1 = p1
    p2 = p2
    p3 = p3
    n1 = n1
    n2 = n2
    n3 = n3
    Null = Null
    Peer <- MCPeer
    Name <- MCName
    Home <- MCHome
    Conf <- MCConf
    Scripts = {"ps1"}
    Unreliable = {}
    MaxMove <- MCMoves
    MaxFail = 0
INVARIANT OnlyOwnHost
