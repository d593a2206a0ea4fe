SPECIFICATION Spec
CONSTANTS
    Clients = {c1}
    Proxies = {p1, p2}
    ConfigProxies = {p1, p2}
    Requests = {r1, r2}
    Conns = {k1}
    FrontEnabled = FALSE
    Events = {}
    MaxWakes = 1
INVARIANTS
    NoOrphan
