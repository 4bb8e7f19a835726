\* Two clients that assign incidents over two connections, two keys, one stop.
CONSTANTS
    c1 = c1
    c2 = c2
    k1 = k1
    k2 = k2
    Clients = {c1, c2}
    Requests <- Callers
    Keys = {k1, k2}
    TTL = 2
    FetchLimit = 1
    MaxConns = 2
    MaxStops = 1
    None = None
SPECIFICATION FairSpec
INVARIANT TypeOK
PROPERTIES
    WithdrawnKeyExpires
    PublishedKeyIsAccepted
    RequestsEnd
