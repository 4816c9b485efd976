SPECIFICATION Spec
CONSTANTS
    Threads = {t1, t2}
    NoThread = NoThread
    DbNames = {db1, db2}
    MaxHandles = 2
    MaxReplicators = 2
    MaxListeners = 1
    MaxEvents = 2
    MaxRequests = 4
INVARIANTS
    TypeOK
    EventsExactlyOnce
    MapHoldsOpenDatabases
    ActiveReplicatorHasDatabase
    ResetForgetsFormerTest
PROPERTIES
    StoppedStatusIsComplete
    ReleasedContextsAreStopped
    EveryRequestIsAnswered
