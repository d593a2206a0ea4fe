SPECIFICATION FairSpec
CONSTANTS
    Clients = {c1}
    Pool = {}
    Ids = {i1, i2}
    Addresses = {a1, a2}
    Params = {q1}
    Calls = {r1, r2}
    Conns = {}
    Events = {"refresh", "expiry"}
PROPERTIES
    CallsEnd
    TakesTurns
