SPECIFICATION Spec
CONSTANTS
    N = 3
    MaxCalls = 5
INVARIANTS
    EnsureMeansAllIn
    RebalanceIsDone
