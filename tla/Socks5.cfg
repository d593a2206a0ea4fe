SPECIFICATION FairSpec
CONSTANTS
    Kinds = {"through", "direct", "test", "given"}
CHECK_DEADLOCK FALSE
INVARIANTS
    CallSound
PROPERTIES
    CallEnds
