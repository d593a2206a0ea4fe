SPECIFICATION Spec
CONSTANTS
    Clients = {c1, c2}
    Proxies = {p1, p2}
    ConfigProxies = {p1, p2}
    Requests = {r1}
    Conns = {k1}
    FrontEnabled = FALSE
    Events = {"health", "expiry"}
    MaxWakes = 1
SYMMETRY Symmetry
INVARIANTS
    ExclusiveUse
