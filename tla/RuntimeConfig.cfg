SPECIFICATION FairSpec
CONSTANTS
    Calls = {k1, k2}
    Addresses = {a1, a2}
    Configured = {}
    Users = {u1}
    Routings = {"r1", "bad"}
    Misspelt = {}
    Broken = {"bad"}
INVARIANTS
    OneConfiguration
PROPERTIES
    OneSectionPerWrite
    CallsEnd
