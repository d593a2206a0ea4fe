SPECIFICATION Spec
CONSTANTS
    Clients = {c1}
    Pool = {p1}
    Ids = {i1, i2}
    Addresses = {a1, a2}
    Params = {q1}
    Calls = {r1, r2}
    Conns = {}
    Events = {"pool", "refresh"}
SYMMETRY Symmetry
INVARIANTS
    ApiNeverIdle
