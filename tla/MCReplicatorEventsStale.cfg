SPECIFICATION Spec
CONSTANTS
    Docs = {a, b}
    Wanted = {{a}, {a, b}}
    Repls = {r1, r2}
    Nothing = Nothing
    MaxRetries = 2
    Levels = {"STOPPED"}
    MaxEvents = 2
    MaxCalls = 2
INVARIANTS
    EventsAreOfThisReplicator
CHECK_DEADLOCK FALSE
