SPECIFICATION FairSpec
CONSTANTS
    wr = wr
    sc = sc
    cl = cl
    pw = pw
    NoOp = NoOp
    Handle = Handle
    Ops = {wr, sc, cl, pw}
    Kind <- SharedKind
    Sessionless = {pw}
    Progress = {wr}
    Nested = {pw}
    Cancellable = {wr, sc}
INVARIANT AwaitedCallServed
PROPERTIES ImplementsHandle ImplementsLease EveryOpReturns ImportedReaderReleased
