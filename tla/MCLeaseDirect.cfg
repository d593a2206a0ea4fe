SPECIFICATION Spec
CONSTANTS
    Clients = {c1, c2}
    Proxies = {p1, p2}
    ConfigProxies = {p1, p2}
    Requests = {r1}
    Conns = {k1, k2}
    FrontEnabled = FALSE
    Events = {"refresh", "expiry", "restart"}
    MaxWakes = 1
SYMMETRY Symmetry
INVARIANTS
    TypeOK
    ExclusiveLease
    ConnCountExact
    ReleaseClosesConns
    LeaseUsable
    WaitingHasNoLease
PROPERTIES
    ImplementsService
