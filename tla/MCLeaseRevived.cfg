SPECIFICATION Spec
CONSTANTS
    Clients = {c1, c2}
    Proxies = {p1, p2}
    ConfigProxies = {p1, p2}
    Requests = {r1}
    Conns = {}
    FrontEnabled = FALSE
    Events = {"dbfail", "restart"}
    MaxWakes = 1
SYMMETRY Symmetry
INVARIANTS
    ExclusiveLease
