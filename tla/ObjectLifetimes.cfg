SPECIFICATION FairSpec
CONSTANTS
    Crypts = {m1}
    Contexts = {c1, c2}
    Requests = {k1}
    Callbacks = {"hook", "logger"}
    MaxDepth = 3
    None = None
INVARIANTS
    TypeOK
    NoUseAfterFree
    WrappersOwnHandles
    CryptOutlivesContexts
    WrapperPointerValid
    NoLeakedHandle
PROPERTY GarbageIsDestroyed
