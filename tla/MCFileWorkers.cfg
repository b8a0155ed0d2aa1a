SPECIFICATION Spec
CONSTANTS
    r1 = r1
    r2 = r2
    Recorders = {r1, r2}
    NoFile = NoFile
    MaxChunks = 2
INVARIANTS
    ChunksLastAsLongAsNeeded
PROPERTIES
    StopReturns
CHECK_DEADLOCK FALSE
