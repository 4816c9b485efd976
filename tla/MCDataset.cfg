SPECIFICATION Spec
CONSTANTS
    N = 2
    MaxRuns = 3
INVARIANTS
    NodesServeTheDataset
    IndexesExist
    OnlyTheDataset
    CleanupCleans
