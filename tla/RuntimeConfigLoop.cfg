SPECIFICATION Spec
CONSTANTS
    Calls = {k1, k2}
    Addresses = {a1, a2}
    Configured = {a1}
    Users = {u1}
    Routings = {"r1", "r2"}
    Misspelt = {}
    Broken = {}
INVARIANTS
    FrontIsNoProxy
