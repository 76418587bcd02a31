SPECIFICATION Spec
CONSTANTS
    Crypts = {m1}
    Contexts = {c1}
    Requests = {k1}
    Callbacks = {"logger"}
    MaxDepth = 3
    None = None
PROPERTY LogHandlerNeverThrows
