SPECIFICATION FairSpec
CONSTANTS
    Clients = {c1, c2, c3}
    Proxies = {p1}
    ConfigProxies = {p1}
    Requests = {r1}
    Conns = {}
    FrontEnabled = FALSE
    Events = {"health", "admin"}
    MaxWakes = 2
INVARIANTS
    NoLostWakeup
PROPERTIES
    DisabledNotAssigned
    NoStall
