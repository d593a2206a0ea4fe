SPECIFICATION Spec
CONSTANTS
    Calls = {k1, k2}
    Addresses = {a1, a2}
    Configured = {}
    Users = {u1}
    Routings = {"r1", "r2"}
    Misspelt = {}
    Broken = {}
INVARIANTS
    OmittedUserKept
