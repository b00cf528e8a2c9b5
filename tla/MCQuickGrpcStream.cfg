CONSTANTS
    Elements = {e1, e2}
    Clients = {c1, c2}
    Methods = {m1, m2, m3}
    Streamable = {m1, m2}
    a1 = a1
    a2 = a2
    a3 = a3
    Arguments = {a1, a2, a3}
    Content <- MCContent
    Null = Null
SPECIFICATION Spec
SYMMETRY Symm
INVARIANTS
    ShowsItsSettings
    NoOrphanStream
    EnabledIsStreaming
