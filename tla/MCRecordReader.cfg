SPECIFICATION FairSpec
CONSTANTS
    Users = {u1, u2, u3}
    NoUser = NoUser
    Batches = 3
    MaxRefs = 3
INVARIANTS
    NoUseAfterFree
    FreedExactlyOnce
    SpanAgrees
PROPERTIES
    LastReleaseFrees
    ImplementsPromise
