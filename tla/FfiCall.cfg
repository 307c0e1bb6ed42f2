SPECIFICATION FairSpec
CONSTANTS
    Calls = {c1, c2}
    Migrations = {c2}
    Threads = {t1, t2}
    Workers = {w1}
    NoCall = NoCall
    NoThread = NoThread
    MaxBlockOn = 2
INVARIANTS
    NoUseAfterFree
    SlotBelongsToCall
    NoNestedBlockOn
    NothingLeaks
    CancelReaches
PROPERTIES
    ImplementsCall
    CancelEndsCall
