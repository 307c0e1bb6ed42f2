SPECIFICATION FairSpec
CONSTANTS
    del = del
    upd = upd
    app = app
    lat = lat
    udf = udf
    cnt = cnt
    cls = cls
    NoOp = NoOp
    Ops = {udf, cnt, cls}
    Kind <- ReentrantKind
    Nested = {cnt}
    Cancellable = {}
    MaxVersion = 2
PROPERTY NestedReturns
CHECK_DEADLOCK FALSE
