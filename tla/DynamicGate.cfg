SPECIFICATION FairSpec
CONSTANTS
    Clients = {c1, c2}
    Calls = {r1, r2, r3}
    Gates = {g1, g2, g3}
INVARIANTS
    GatesCollected
PROPERTIES
    ImplementsMutex
    WaitingEnds
