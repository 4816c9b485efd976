SPECIFICATION Spec
CONSTANTS
    Urls = 2
    Ids = {m1, m2}
    MaxConns = 4
INVARIANTS
    TypeOK
    NobodyWaitsAfterStop
    StartedMeansConnected
PROPERTIES
    RequestEnds
    StopReturns
CHECK_DEADLOCK FALSE
