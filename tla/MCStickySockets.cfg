SPECIFICATION Spec
CONSTANTS
    a4 = a4
    b4 = b4
    a6 = a6
    b6 = b6
    r4 = r4
    r6 = r6
    z6 = z6
    Refused = {z6}
    None = None
    Local <- MCLocal
    Remote <- MCRemote
    Family <- MCFamily
    If = {i1, i2}
INVARIANTS SourceWhole
PROPERTY RepliesFromHeard
