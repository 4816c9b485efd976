SPECIFICATION Spec
CONSTANTS
    Devices = {d1, d2}
    Starters = {c0, c2}
    Finishers = {c1, c2}
    Retrievers = {c2}
    Nobody = Nobody
    MaxPieces = 3
INVARIANTS
    ClosedStreamIsLogged
    FinishedLogIsInFile
    RetrievedLogIsFresh
PROPERTIES
    ImplementsSharedLog
    CallsAreAnswered
CHECK_DEADLOCK FALSE
