SPECIFICATION Spec
CONSTANTS
    Clients = {c1, c2}
    Pool = {}
    Ids = {i1, i2}
    Addresses = {a1, a2}
    Params = {q1}
    Calls = {r1}
    Conns = {k1}
    Events = {"refresh", "expiry", "conns", "dbfail", "restart"}
SYMMETRY Symmetry
INVARIANTS
    TypeOK
    ConnsKeepProxy
    LeaseUsable
