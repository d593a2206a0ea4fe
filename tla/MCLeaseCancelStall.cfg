SPECIFICATION FairSpec
CONSTANTS
    Clients = {c1, c2}
    Proxies = {p1}
    ConfigProxies = {p1}
    Requests = {r1}
    Conns = {}
    FrontEnabled = FALSE
    Events = {"cancel"}
    MaxWakes = 1
PROPERTIES
    NoStall
