SPECIFICATION HrSpec
CONSTANTS
    Proxies = {x1, x2, x3}
    Workers = {w1, w2}
    Preflight = w1
    Traffic = {t1}
    Attempts = {w1, w2, t1}
    Exits = {e1, e2, e3}
    TestTarget = target
    Alive = {e1, e3}
    Flaky = {e1}
    AddressOf <- SharedExit
    FailureThreshold = 1
    SuccessThreshold = 1
    MaxSequence = 10
    Events = {"front", "disable"}
    x1 = x1
    x2 = x2
    x3 = x3
    e1 = e1
    e2 = e2
    e3 = e3
VIEW View
CHECK_DEADLOCK FALSE
CONSTRAINT Focus
INVARIANTS
    InnocentSpared
PROPERTIES
    OneEndpointKeepsCircuit
