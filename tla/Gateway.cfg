SPECIFICATION GwFairSpec
CONSTANTS
    Clients = {c1, c2}
    Proxies = {p1, p2}
    Conns = {k1, k2}
CHECK_DEADLOCK FALSE
INVARIANTS
    ConnectionsSound
PROPERTIES
    ConnectionsEnd
