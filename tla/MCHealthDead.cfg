SPECIFICATION HrSpec
CONSTANTS
    Proxies = {x1, x2}
    Workers = {w1, w2}
    Preflight = w1
    Traffic = {}
    Attempts = {w1, w2}
    Exits = {e1, e2}
    TestTarget = target
    Alive = {e2}
    Flaky = {}
    AddressOf <- TwoExits
    FailureThreshold = 1
    SuccessThreshold = 1
    MaxSequence = 8
    Events = {}
    x1 = x1
    x2 = x2
    x3 = x3
    e1 = e1
    e2 = e2
    e3 = e3
CHECK_DEADLOCK FALSE
INVARIANTS
    DeadExitCounted
