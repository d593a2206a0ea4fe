SPECIFICATION Spec
CONSTANTS
    Clients = {c1, c2}
    Proxies = {p1, p2, p3}
    ConfigProxies = {p1, p2, p3}
    Requests = {r1}
    Conns = {}
    FrontEnabled = TRUE
    Events = {"refresh", "cancel"}
    MaxWakes = 1
SYMMETRY Symmetry
INVARIANTS
    NoOrphan
    ReservationOwned
