SPECIFICATION FairSpec
CONSTANTS
    del = del
    upd = upd
    app = app
    lat = lat
    udf = udf
    cnt = cnt
    cls = cls
    NoOp = NoOp
    Ops = {app, udf, lat, cnt}
    Kind <- GuardedKind
    Nested = {cnt}
    Cancellable = {app, udf}
    MaxVersion = 4
INVARIANTS
    HandleTracksNewest
PROPERTIES
    NestedReturns
