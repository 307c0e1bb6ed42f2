SPECIFICATION Spec
CONSTANTS
    c1 = c1
    c2 = c2
    Calls = {c1, c2}
    FromPlugins = {c1}
    MayCall <- MCMayCall
INVARIANTS
    NoUseAfterClose
    CallbackServed
    ReturnsClean
    ArrowLeftOnlyBeforeNative
