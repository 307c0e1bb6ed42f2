SPECIFICATION Spec
CONSTANTS
    del = del
    upd = upd
    app = app
    lat = lat
    udf = udf
    cnt = cnt
    cls = cls
    NoOp = NoOp
    Ops = {del, upd}
    Kind <- RaceKind
    Nested = {}
    Cancellable = {}
    MaxVersion = 3
INVARIANT HandleTracksNewest
