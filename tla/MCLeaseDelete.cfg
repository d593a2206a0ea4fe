SPECIFICATION Spec
CONSTANTS
    Clients = {c1}
    Proxies = {p1}
    ConfigProxies = {p1}
    Requests = {r1}
    Conns = {}
    FrontEnabled = FALSE
    Events = {"health", "admin"}
    MaxWakes = 1
SYMMETRY Symmetry
PROPERTIES
    DeletesUnleased
