SPECIFICATION Spec
CONSTANTS
    Clients = {c1}
    Pool = {}
    Ids = {i1, i2}
    Addresses = {a1, a2}
    Params = {q1}
    Calls = {r1}
    Conns = {}
    Events = {"expiry", "refresh"}
SYMMETRY Symmetry
PROPERTIES
    ErrorLeaseValid
