SPECIFICATION Spec
CONSTANTS
    Devices = {d1}
    Starters = {c0}
    Finishers = {c1}
    Retrievers = {}
    Nobody = Nobody
    MaxPieces = 2
PROPERTIES
    FinishClosesStreams
CHECK_DEADLOCK FALSE
