SPECIFICATION Spec
CONSTANTS
    Fragments = 3
    Batches = 3
    MaxRuns = 4
    None = None
INVARIANTS
    ColumnsRight
    NotRecomputed
    RefsReleased
PROPERTIES
    ImplementsCheckpoint
CHECK_DEADLOCK FALSE
