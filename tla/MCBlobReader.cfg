SPECIFICATION FairSpec
CONSTANTS
    r1 = r1
    r2 = r2
    NoOne = NoOne
    Readers = {r1, r2}
    MayCall <- MCMayCall
    MaxInt = 3
    Sizes <- MCSizes
INVARIANTS
    RangeInBlob
    ReadContract
PROPERTIES
    ImplementsCursor
    EveryCallReturns
