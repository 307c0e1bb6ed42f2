SPECIFICATION FairSpec
CONSTANTS
    del = del
    upd = upd
    app = app
    lat = lat
    udf = udf
    cnt = cnt
    cls = cls
    NoOp = NoOp
    Ops = {del, app, cnt, cls}
    Kind <- CallsKind
    Nested = {}
    Cancellable = {del, app}
    MaxVersion = 3
INVARIANTS
    NoLeak
    SettledVisible
    NoCircularWait
PROPERTIES
    ImplementsHandle
    EveryOpReturns
