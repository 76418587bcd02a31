SPECIFICATION Spec
CONSTANTS
    Crypts = {m1}
    Contexts = {c1}
    Requests = {k1}
    Callbacks = {"hook"}
    MaxDepth = 3
    None = None
INVARIANT ContextKeepsMongoCrypt
