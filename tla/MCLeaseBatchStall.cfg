SPECIFICATION Spec
CONSTANTS
    Clients = {c1, c2, c3}
    Proxies = {p1, p2}
    ConfigProxies = {p1, p2}
    Requests = {r1}
    Conns = {}
    FrontEnabled = TRUE
    Events = {}
    MaxWakes = 1
SYMMETRY Symmetry
INVARIANTS
    NoLostWakeup
