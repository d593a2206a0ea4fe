SPECIFICATION Spec
CONSTANTS
    Clients = {c1, c2}
    Pool = {p1}
    Ids = {i1, i2}
    Addresses = {a1, a2}
    Params = {q1}
    Calls = {r1, r2}
    Conns = {k1}
    Events = {"pool", "refresh", "expiry", "restart", "conns"}
SYMMETRY Symmetry
CONSTRAINT Focus
INVARIANTS
    NoWastedAcquire
    EndpointsDistinct
    ConnsKeepProxy
    StoredAsHeld
PROPERTIES
    ApiNeverReassigned
    ApiGoesWithOwner
