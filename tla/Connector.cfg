SPECIFICATION FairSpec
CONSTANTS
    Attempts = {a1, a2, a3}
    Exits = {e1}
    TestTarget = target
    MaxSequence = 4
INVARIANTS
    TypeOK
    SingleRecoveryProbe
    RetryAfterHonest
    StatusHonest
    NoStaleVerdict
    AmbiguityUncontradicted
    BatchUncontradicted
PROPERTIES
    RecoveryProbeEnds
CHECK_DEADLOCK FALSE
